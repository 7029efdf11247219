--------------------------- MODULE ConnectionPool ---------------------------
(***************************************************************************)
(* SQLite3Pool: connections that are lent to one transaction at a time.    *)
(* The transaction runs on a blocking thread which owns the connection and *)
(* hands it back itself, whether or not the caller still waits for it.     *)
(***************************************************************************)
EXTENDS Naturals, FiniteSets

CONSTANTS
  Conns,      \* the connections the pool was created with
  Calls,      \* the calls of transaction() and migration_transaction()
  NoConn      \* no connection

ASSUME PoolAssumption == NoConn \notin Conns

VARIABLES
  idle,       \* the connections in the pool
  enforcing,  \* those whose foreign_keys pragma is ON
  thread,     \* what the blocking thread of a call does, and the connection it owns
  answer,     \* what the awaiting future knows
  lost        \* connections that were dropped

poolVars == <<idle, enforcing, thread, answer, lost>>

(* pc: begin, the pragma of a migration; body, the closure in its transaction;
   restore, the pragma again; giveback, the push.  ok: the closure's result. *)
Thread == [pc : {"none", "begin", "body", "restore", "giveback"},
           conn : Conns \cup {NoConn}, migration : BOOLEAN, ok : BOOLEAN]
NoThread == [pc |-> "none", conn |-> NoConn, migration |-> FALSE, ok |-> FALSE]

PoolTypeOK ==
  /\ idle \subseteq Conns
  /\ enforcing \subseteq Conns
  /\ thread \in [Calls -> Thread]
  /\ answer \in [Calls -> {"not_asked", "waiting", "dropped", "ok", "error",
                           "cancelled", "pool_empty", "panicked"}]
  /\ lost \subseteq Conns

PoolInit ==
  /\ idle = Conns
  /\ enforcing = Conns
  /\ thread = [c \in Calls |-> NoThread]
  /\ answer = [c \in Calls |-> "not_asked"]
  /\ lost = {}

-----------------------------------------------------------------------------
(* The token is looked at before a connection is taken, and never again. *)
Refused(c) ==
  /\ answer[c] = "not_asked"
  /\ \/ answer' = [answer EXCEPT ![c] = "cancelled"]
     \/ idle = {} /\ answer' = [answer EXCEPT ![c] = "pool_empty"]
  /\ UNCHANGED <<idle, enforcing, thread, lost>>

Acquire(c, migration) ==
  /\ answer[c] = "not_asked"
  /\ \E conn \in idle :
       /\ idle' = idle \ {conn}
       /\ thread' = [thread EXCEPT ![c] =
            [pc |-> IF migration THEN "begin" ELSE "body",
             conn |-> conn, migration |-> migration, ok |-> FALSE]]
  /\ answer' = [answer EXCEPT ![c] = "waiting"]
  /\ UNCHANGED <<enforcing, lost>>

(* The caller's future is dropped; its thread does not notice. *)
Drop(c) ==
  /\ answer[c] = "waiting"
  /\ answer' = [answer EXCEPT ![c] = "dropped"]
  /\ UNCHANGED <<idle, enforcing, thread, lost>>

ThreadAt(c, pc) == thread[c].pc = pc
Goto(c, pc, ok) == thread' = [thread EXCEPT ![c].pc = pc, ![c].ok = ok]
Finish(c) == thread' = [thread EXCEPT ![c] = NoThread]

(* After the closure: a migration's pragma, then the push. *)
AfterBody(c) == IF thread[c].migration THEN "restore" ELSE "giveback"

TurnOff(c) ==
  /\ ThreadAt(c, "begin")
  /\ \/ enforcing' = enforcing \ {thread[c].conn} /\ Goto(c, "body", FALSE)
     \/ UNCHANGED enforcing /\ Goto(c, "restore", FALSE)
  /\ UNCHANGED <<idle, answer, lost>>

(* The closure returns and the transaction commits, or one of the two fails and
   dropping the transaction rolls it back. *)
Body(c, ok) ==
  /\ ThreadAt(c, "body")
  /\ Goto(c, AfterBody(c), ok)
  /\ UNCHANGED <<idle, enforcing, answer, lost>>

Answer(c, a) == answer' = [answer EXCEPT ![c] = IF @ = "waiting" THEN a ELSE @]

(* A closure that panics takes its connection with it. *)
Panic(c) ==
  /\ ThreadAt(c, "body")
  /\ lost' = lost \cup {thread[c].conn}
  /\ Finish(c)
  /\ Answer(c, "panicked")
  /\ UNCHANGED <<idle, enforcing>>

(* MUTANT of Restore: the pragma is restored only after a success. *)
RestoreOnSuccess(c) ==
  /\ ThreadAt(c, "restore")
  /\ enforcing' = IF thread[c].ok THEN enforcing \cup {thread[c].conn} ELSE enforcing
  /\ Goto(c, "giveback", thread[c].ok)
  /\ UNCHANGED <<idle, answer, lost>>

Restore(c) ==
  /\ ThreadAt(c, "restore")
  /\ enforcing' = enforcing \cup {thread[c].conn}
  /\ Goto(c, "giveback", thread[c].ok)
  /\ UNCHANGED <<idle, answer, lost>>

(* The pragma fails: the connection is dropped and the call fails, also when
   its transaction has committed. *)
RestoreFails(c) ==
  /\ ThreadAt(c, "restore")
  /\ lost' = lost \cup {thread[c].conn}
  /\ Finish(c)
  /\ Answer(c, "error")
  /\ UNCHANGED <<idle, enforcing>>

(* MUTANT of GiveBack: the awaiting future pushes, so that a dropped one does
   not. *)
GiveBackIfAwaited(c) ==
  /\ ThreadAt(c, "giveback")
  /\ idle' = IF answer[c] = "dropped" THEN idle ELSE idle \cup {thread[c].conn}
  /\ Finish(c)
  /\ Answer(c, IF thread[c].ok THEN "ok" ELSE "error")
  /\ UNCHANGED <<enforcing, lost>>

GiveBack(c) ==
  /\ ThreadAt(c, "giveback")
  /\ idle' = idle \cup {thread[c].conn}
  /\ Finish(c)
  /\ Answer(c, IF thread[c].ok THEN "ok" ELSE "error")
  /\ UNCHANGED <<enforcing, lost>>

-----------------------------------------------------------------------------
ThreadStep(c) ==
  \/ TurnOff(c) \/ Panic(c) \/ Restore(c) \/ RestoreFails(c) \/ GiveBack(c)
  \/ \E ok \in BOOLEAN : Body(c, ok)

CallStep(c) ==
  \/ Refused(c) \/ Drop(c)
  \/ \E migration \in BOOLEAN : Acquire(c, migration)

PoolNext == \E c \in Calls : ThreadStep(c) \/ CallStep(c)

PoolSpec == PoolInit /\ [][PoolNext]_poolVars

-----------------------------------------------------------------------------
Lent(conn) == {c \in Calls : thread[c].conn = conn}

(* A connection is in the pool, or lent to the thread of exactly one call, or
   lost; a call that was cancelled or dropped has taken none with it, only a
   panic or a pragma that cannot be restored costs one; and no transaction but
   a migration's ever runs on one that does not enforce foreign keys. *)
ConnectionsAccounted ==
  /\ \A conn \in Conns :
       /\ conn \in idle => Lent(conn) = {} /\ conn \notin lost
       /\ conn \in lost => Lent(conn) = {}
       /\ conn \in idle \cup lost \/ \E c \in Calls : Lent(conn) = {c}
  /\ \A c \in Calls : ThreadAt(c, "none") <=> thread[c].conn = NoConn
  /\ idle \subseteq enforcing
  /\ \A c \in Calls :
       ThreadAt(c, "body") /\ ~thread[c].migration => thread[c].conn \in enforcing

(* Every thread ends, so that a connection lent to a caller who has left comes
   back or is known to be lost. *)
ConnectionsComeBack ==
  \A conn \in Conns : conn \notin idle ~> conn \in idle \cup lost
=============================================================================
