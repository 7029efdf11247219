----------------------------- MODULE ServerProofs -----------------------------
(***************************************************************************)
(* The parts of the server that stand alone: the pool of connections keeps  *)
(* its books; the calls of a model server end in time; of the saved runs    *)
(* one verdict stands, the contexts have no cycle and the list misses none; *)
(* and the HTTP/3 server counts every request once.                         *)
(***************************************************************************)
EXTENDS ConnectionPool, EmbedCall, ChatTurn, ResearchCorpus, HttpServer,
        Integers, FiniteSetTheorems, TLAPS

-----------------------------------------------------------------------------
(* The pool: for any number of connections and calls, no connection is lent
   twice, and none that does not enforce foreign keys is ever idle or under an
   ordinary transaction. *)
Own(c) == thread[c].conn

(* ConnectionsAccounted without the sets of borrowers, and what it rests on:
   a call that has not been made has no thread, only a migration's thread
   touches the pragma, and what is given back enforces it. *)
PoolInv ==
  /\ PoolTypeOK
  /\ \A c \in Calls : answer[c] = "not_asked" => thread[c].pc = "none"
  /\ \A c, d \in Calls : Own(c) = Own(d) => c = d \/ Own(c) = NoConn
  /\ \A c \in Calls : Own(c) \notin idle \cup lost
  /\ idle \cap lost = {}
  /\ \A conn \in Conns : conn \in idle \cup lost \/ \E c \in Calls : Own(c) = conn
  /\ \A c \in Calls : thread[c].pc = "none" <=> Own(c) = NoConn
  /\ idle \subseteq enforcing
  /\ \A c \in Calls : thread[c].pc \in {"begin", "restore"} => thread[c].migration
  /\ \A c \in Calls :
       \/ thread[c].pc = "body" /\ ~thread[c].migration
       \/ thread[c].pc = "giveback"
       => Own(c) \in enforcing

-----------------------------------------------------------------------------
(* The invariant is the books. *)
LEMMA BooksBalance == ASSUME PoolInv PROVE ConnectionsAccounted
<1> USE PoolAssumption DEF PoolInv, PoolTypeOK, Thread, Own
<1>1. \A conn \in Conns : conn \in idle \cup lost => Lent(conn) = {}
  BY DEF Lent
<1>2. ASSUME NEW conn \in Conns, conn \notin idle \cup lost
      PROVE  \E c \in Calls : Lent(conn) = {c}
  <2>1. PICK c \in Calls : Own(c) = conn
    BY <1>2
  <2>2. Lent(conn) = {c}
    BY <2>1 DEF Lent
  <2> QED BY <2>2
<1>3. \A c \in Calls : ThreadAt(c, "none") <=> thread[c].conn = NoConn
  BY DEF ThreadAt
<1>4. \A c \in Calls :
        ThreadAt(c, "body") /\ ~thread[c].migration => thread[c].conn \in enforcing
  BY DEF ThreadAt
<1> QED BY <1>1, <1>2, <1>3, <1>4 DEF ConnectionsAccounted

LEMMA PoolStarts == PoolInit => PoolInv
BY PoolAssumption DEF PoolInit, PoolInv, PoolTypeOK, Thread, NoThread, Own

(* A step of the thread of c that keeps its connection. *)
LEMMA GotoKeeps ==
  ASSUME PoolInv, NEW c \in Calls, thread[c].pc # "none",
         NEW pc \in {"begin", "body", "restore", "giveback"}, NEW ok \in BOOLEAN,
         Goto(c, pc, ok)
  PROVE  /\ thread' \in [Calls -> Thread]
         /\ \A d \in Calls : Own(d)' = Own(d) /\ thread'[d].migration = thread[d].migration
         /\ thread'[c].pc = pc
         /\ \A d \in Calls \ {c} : thread'[d] = thread[d]
<1>1. thread[c] \in Thread /\ thread \in [Calls -> Thread]
  BY DEF PoolInv, PoolTypeOK
<1>2. thread' = [thread EXCEPT ![c] = [thread[c] EXCEPT !.pc = pc, !.ok = ok]]
  BY <1>1 DEF Goto, Thread
<1> QED BY <1>1, <1>2 DEF Thread, Own

(* The thread of c ends. *)
LEMMA FinishFrees ==
  ASSUME PoolInv, NEW c \in Calls, Finish(c)
  PROVE  /\ thread' \in [Calls -> Thread]
         /\ thread'[c].pc = "none" /\ Own(c)' = NoConn
         /\ \A d \in Calls \ {c} : thread'[d] = thread[d] /\ Own(d)' = Own(d)
<1>1. NoThread \in Thread
  BY DEF NoThread, Thread
<1> QED BY <1>1 DEF Finish, PoolInv, PoolTypeOK, NoThread, Own

LEMMA AnswerTyped ==
  ASSUME PoolInv, NEW c \in Calls, NEW a \in {"ok", "error", "panicked"}, Answer(c, a)
  PROVE  /\ answer' \in [Calls -> {"not_asked", "waiting", "dropped", "ok", "error",
                                   "cancelled", "pool_empty", "panicked"}]
         /\ \A d \in Calls : answer'[d] = "not_asked" <=> answer[d] = "not_asked"
BY DEF Answer, PoolInv, PoolTypeOK

-----------------------------------------------------------------------------
(* One step per action of the pool. *)
LEMMA RefusedKeeps ==
  ASSUME PoolInv, NEW c \in Calls, Refused(c) \/ Drop(c) PROVE PoolInv'
<1>1. /\ UNCHANGED <<idle, enforcing, thread, lost>>
      /\ answer[c] \in {"not_asked", "waiting"}
      /\ \E a \in {"cancelled", "pool_empty", "dropped"} :
           answer' = [answer EXCEPT ![c] = a]
  BY DEF Refused, Drop
<1> QED BY <1>1 DEF PoolInv, PoolTypeOK, Own

LEMMA AcquireKeeps ==
  ASSUME PoolInv, NEW c \in Calls, NEW migration \in BOOLEAN, Acquire(c, migration)
  PROVE  PoolInv'
<1> DEFINE pc == IF migration THEN "begin" ELSE "body"
<1>1. PICK conn \in idle :
        /\ idle' = idle \ {conn}
        /\ thread' = [thread EXCEPT ![c] =
             [pc |-> pc, conn |-> conn, migration |-> migration, ok |-> FALSE]]
  BY DEF Acquire
<1>2. /\ answer[c] = "not_asked" /\ answer' = [answer EXCEPT ![c] = "waiting"]
      /\ UNCHANGED <<enforcing, lost>>
  BY DEF Acquire
<1>3. conn \in Conns /\ conn # NoConn /\ conn \notin lost /\ conn \in enforcing
  BY PoolAssumption DEF PoolInv, PoolTypeOK
<1>4. thread[c].pc = "none" /\ Own(c) = NoConn
  BY <1>2 DEF PoolInv
<1>5. /\ thread'[c].pc = pc /\ Own(c)' = conn /\ thread'[c].migration = migration
      /\ \A d \in Calls \ {c} : thread'[d] = thread[d] /\ Own(d)' = Own(d)
  BY <1>1 DEF PoolInv, PoolTypeOK, Own
<1>6. PoolTypeOK'
  BY <1>1, <1>2, <1>3 DEF PoolInv, PoolTypeOK, Thread
<1>7. \A d \in Calls : Own(d) # conn
  BY DEF PoolInv
<1>8. \A k \in Conns : k \in idle' \cup lost' \/ \E d \in Calls : Own(d)' = k
  BY <1>1, <1>2, <1>4, <1>5, PoolAssumption DEF PoolInv
<1>9. \A d \in Calls : answer'[d] = "not_asked" => thread'[d].pc = "none"
  BY <1>2, <1>5 DEF PoolInv, PoolTypeOK
<1>10. \A d, e \in Calls : Own(d)' = Own(e)' => d = e \/ Own(d)' = NoConn
  BY <1>5, <1>7 DEF PoolInv
<1>11. /\ \A d \in Calls : Own(d)' \notin idle' \cup lost'
       /\ idle' \cap lost' = {} /\ idle' \subseteq enforcing'
  BY <1>1, <1>2, <1>3, <1>5 DEF PoolInv
<1>12. \A d \in Calls : thread'[d].pc = "none" <=> Own(d)' = NoConn
  BY <1>3, <1>5 DEF PoolInv
<1>13. \A d \in Calls :
         /\ thread'[d].pc \in {"begin", "restore"} => thread'[d].migration
         /\ \/ thread'[d].pc = "body" /\ ~thread'[d].migration
            \/ thread'[d].pc = "giveback"
            => Own(d)' \in enforcing'
  <2> TAKE d \in Calls
  <2>1. CASE d = c
    BY <1>2, <1>3, <1>5, <2>1
  <2>2. CASE d # c
    BY <1>2, <1>5, <2>2 DEF PoolInv
  <2> QED BY <2>1, <2>2
<1> QED BY <1>6, <1>8, <1>9, <1>10, <1>11, <1>12, <1>13 DEF PoolInv

(* TurnOff, Body and Restore: the thread goes on with its connection, and the
   pragma of no other connection changes. *)
LEMMA GoesOn ==
  ASSUME PoolInv, NEW c \in Calls, TurnOff(c) \/ (\E ok \in BOOLEAN : Body(c, ok)) \/ Restore(c)
  PROVE  PoolInv'
<1>1. /\ UNCHANGED <<idle, answer, lost>>
      /\ thread[c].pc \in {"begin", "body", "restore"}
  BY DEF TurnOff, Body, Restore, ThreadAt
<1>2. thread[c] \in Thread /\ Own(c) \in Conns
  BY <1>1 DEF PoolInv, PoolTypeOK, Thread, Own
<1>3. PICK pc \in {"body", "restore", "giveback"}, ok \in BOOLEAN :
        /\ Goto(c, pc, ok)
        /\ pc = "restore" => thread[c].migration
        /\ pc = "body" => thread[c].migration
        /\ pc = "giveback" => Own(c) \in enforcing'
        /\ enforcing' \in {enforcing, enforcing \cup {Own(c)}, enforcing \ {Own(c)}}
  <2>1. CASE TurnOff(c)
    BY <2>1 DEF TurnOff, ThreadAt, PoolInv, Own
  <2>2. ASSUME NEW ok \in BOOLEAN, Body(c, ok)
        PROVE  /\ Goto(c, AfterBody(c), ok)
               /\ AfterBody(c) = "restore" => thread[c].migration
               /\ AfterBody(c) = "giveback" => Own(c) \in enforcing'
               /\ AfterBody(c) \in {"restore", "giveback"}
               /\ enforcing' = enforcing
    BY <1>2, <2>2 DEF Body, ThreadAt, AfterBody, PoolInv, Own, Thread
  <2>3. CASE Restore(c)
    BY <1>2, <2>3 DEF Restore, ThreadAt, Own, Thread
  <2> QED BY <2>1, <2>2, <2>3
<1>4. /\ thread' \in [Calls -> Thread]
      /\ \A d \in Calls : Own(d)' = Own(d) /\ thread'[d].migration = thread[d].migration
      /\ thread'[c].pc = pc
      /\ \A d \in Calls \ {c} : thread'[d] = thread[d]
  BY <1>1, <1>3, GotoKeeps
<1>5. PoolTypeOK'
  BY <1>1, <1>2, <1>3, <1>4 DEF PoolInv, PoolTypeOK
<1>6. \A k \in Conns : k # Own(c) => (k \in enforcing <=> k \in enforcing')
  BY <1>3
<1>7. \A d \in Calls \ {c} : Own(d) # Own(c)
  BY <1>2, PoolAssumption DEF PoolInv
<1>8. idle' \subseteq enforcing'
  BY <1>1, <1>6 DEF PoolInv, PoolTypeOK
<1>9. \A d \in Calls :
        /\ answer'[d] = "not_asked" => thread'[d].pc = "none"
        /\ thread'[d].pc = "none" <=> Own(d)' = NoConn
        /\ thread'[d].pc \in {"begin", "restore"} => thread'[d].migration
        /\ \/ thread'[d].pc = "body" /\ ~thread'[d].migration
           \/ thread'[d].pc = "giveback"
           => Own(d)' \in enforcing'
  <2> TAKE d \in Calls
  <2>1. CASE d = c
    BY <1>1, <1>2, <1>3, <1>4, <2>1, PoolAssumption DEF PoolInv
  <2>2. CASE d # c
    <3>1. Own(d) \in Conns \cup {NoConn}
      BY DEF PoolInv, PoolTypeOK, Thread, Own
    <3>2. thread[d].pc \in {"body", "giveback"} => Own(d) \in Conns
      BY <3>1 DEF PoolInv
    <3> QED BY <1>1, <1>4, <1>6, <1>7, <2>2, <3>2 DEF PoolInv
  <2> QED BY <2>1, <2>2
<1> QED BY <1>1, <1>4, <1>5, <1>8, <1>9 DEF PoolInv

(* Panic, RestoreFails and GiveBack: the thread ends, and its connection is
   lost or idle again. *)
LEMMA Ends ==
  ASSUME PoolInv, NEW c \in Calls, Panic(c) \/ RestoreFails(c) \/ GiveBack(c)
  PROVE  PoolInv'
<1>1. /\ Finish(c) /\ UNCHANGED enforcing
      /\ \E a \in {"ok", "error", "panicked"} : Answer(c, a)
      /\ \/ lost' = lost \cup {Own(c)} /\ idle' = idle
         \/ idle' = idle \cup {Own(c)} /\ lost' = lost /\ Own(c) \in enforcing
  BY DEF Panic, RestoreFails, GiveBack, ThreadAt, PoolInv, Own
<1>2. thread[c].pc # "none"
  BY DEF Panic, RestoreFails, GiveBack, ThreadAt
<1>3. Own(c) \in Conns /\ Own(c) \notin idle \cup lost
  BY <1>2 DEF PoolInv, PoolTypeOK, Thread, Own
<1>4. /\ thread' \in [Calls -> Thread]
      /\ thread'[c].pc = "none" /\ Own(c)' = NoConn
      /\ \A d \in Calls \ {c} : thread'[d] = thread[d] /\ Own(d)' = Own(d)
  BY <1>1, FinishFrees
<1>5. /\ answer' \in [Calls -> {"not_asked", "waiting", "dropped", "ok", "error",
                                "cancelled", "pool_empty", "panicked"}]
      /\ \A d \in Calls : answer'[d] = "not_asked" <=> answer[d] = "not_asked"
  BY <1>1, AnswerTyped
<1>6. PoolTypeOK'
  BY <1>1, <1>3, <1>4, <1>5 DEF PoolInv, PoolTypeOK
<1>7. \A d \in Calls \ {c} : Own(d) # Own(c)
  BY <1>3, PoolAssumption DEF PoolInv
<1>8. \A d, e \in Calls : Own(d)' = Own(e)' => d = e \/ Own(d)' = NoConn
  BY <1>4 DEF PoolInv
<1>9. /\ \A d \in Calls : Own(d)' \notin idle' \cup lost'
      /\ idle' \cap lost' = {} /\ idle' \subseteq enforcing'
  <2>1. NoConn \notin idle' \cup lost'
    BY <1>1, <1>3, PoolAssumption DEF PoolInv, PoolTypeOK
  <2> QED BY <1>1, <1>3, <1>4, <1>7, <2>1 DEF PoolInv
<1>10. \A k \in Conns : k \in idle' \cup lost' \/ \E d \in Calls : Own(d)' = k
  BY <1>1, <1>4 DEF PoolInv
<1>11. \A d \in Calls :
         /\ answer'[d] = "not_asked" => thread'[d].pc = "none"
         /\ thread'[d].pc = "none" <=> Own(d)' = NoConn
         /\ thread'[d].pc \in {"begin", "restore"} => thread'[d].migration
         /\ \/ thread'[d].pc = "body" /\ ~thread'[d].migration
            \/ thread'[d].pc = "giveback"
            => Own(d)' \in enforcing'
  BY <1>1, <1>4, <1>5 DEF PoolInv
<1> QED BY <1>6, <1>8, <1>9, <1>10, <1>11 DEF PoolInv

LEMMA PoolSteps == PoolInv /\ [PoolNext]_poolVars => PoolInv'
<1> SUFFICES ASSUME PoolInv, [PoolNext]_poolVars PROVE PoolInv'
  OBVIOUS
<1>1. CASE UNCHANGED poolVars
  BY <1>1 DEF poolVars, PoolInv, PoolTypeOK, Own
<1>2. ASSUME NEW c \in Calls, ThreadStep(c) \/ CallStep(c) PROVE PoolInv'
  BY <1>2, RefusedKeeps, AcquireKeeps, GoesOn, Ends DEF ThreadStep, CallStep
<1> QED BY <1>1, <1>2 DEF PoolNext

(* sqlite3.rs: however calls are cancelled, dropped, panic or fail, a connection
   is idle, lent to one thread or lost, and no ordinary transaction runs without
   foreign keys. *)
THEOREM PoolKeepsItsBooks == PoolSpec => []ConnectionsAccounted
BY PoolStarts, PoolSteps, BooksBalance, PTL DEF PoolSpec

-----------------------------------------------------------------------------
(* The two calls of a model server, for every budget, back-off, timeout and
   number of retries. *)
(* The embed call: what remains is what was left at the last check, and the
   sleep that follows is clamped to it, so that it ends within twice the
   budget; the wait of a request ends with the budget itself. *)
EmbedInv ==
  /\ elapsed \in Nat
  /\ embed \in [pc : {"check", "request", "body", "sleep", "done"}, attempt : Nat,
                until : Int, remaining : 0 .. Budget,
                result : {"none", "ok", "cancelled", "timeout", "request", "decode"}]
  /\ embed.pc # "done" => embed.result = "none"
  /\ embed.pc \in {"request", "body"} => embed.until = Budget /\ elapsed <= Budget
  /\ embed.pc = "sleep" => embed.until <= 2 * Budget /\ embed.attempt > 0
  /\ embed.pc = "check" => elapsed = 0 \/ embed.attempt > 0
  /\ EmbedBounded

(* The pause never exceeds what was left when the request was sent. *)
LEMMA PauseClamped ==
  ASSUME EmbedInv PROVE Pause \in Int /\ Pause <= embed.remaining
<1>1. Backoff \in Int
  BY EmbedAssumption DEF EmbedInv, Backoff
<1> QED BY <1>1, EmbedAssumption DEF EmbedInv, Pause

LEMMA EmbedStarts == EmbedInit => EmbedInv
BY EmbedAssumption DEF EmbedInit, EmbedInv, EmbedBounded

LEMMA EmbedSteps == EmbedInv /\ [EmbedNext]_embedVars => EmbedInv'
<1> SUFFICES ASSUME EmbedInv, [EmbedNext]_embedVars PROVE EmbedInv'
  OBVIOUS
<1> USE EmbedAssumption
<1>1. CASE Elapse
  BY <1>1 DEF Elapse, Waits, EmbedInv, EmbedBounded
<1>2. CASE Check
  <2>1. CASE elapsed > Budget
    <3>1. embed.attempt > 0
      BY <1>2, <2>1 DEF Check, EmbedInv
    <3>2. EmbedEnds("timeout")
      BY <1>2, <2>1 DEF Check
    <3> QED BY <2>1, <3>1, <3>2 DEF EmbedEnds, EmbedInv, EmbedBounded
  <2>2. CASE ~(elapsed > Budget)
    <3>1. /\ embed' = [embed EXCEPT !.pc = "request", !.until = Budget,
                                    !.remaining = Budget - elapsed]
          /\ UNCHANGED elapsed
      BY <1>2, <2>2 DEF Check
    <3>2. Budget \in Int /\ Budget - elapsed \in 0 .. Budget
      BY <2>2 DEF EmbedInv
    <3>3. embed' \in [pc : {"check", "request", "body", "sleep", "done"},
                      attempt : Nat, until : Int, remaining : 0 .. Budget,
                      result : {"none", "ok", "cancelled", "timeout", "request",
                                "decode"}]
      BY <3>1, <3>2 DEF EmbedInv
    <3>4. /\ embed'.pc = "request" /\ embed'.until = Budget
          /\ embed'.result = "none" /\ elapsed' = elapsed /\ elapsed <= Budget
      BY <1>2, <2>2, <3>1 DEF Check, EmbedInv
    <3> QED BY <3>3, <3>4 DEF EmbedInv, EmbedBounded
  <2> QED BY <2>1, <2>2
<1>3. CASE Busy429
  <2>1. elapsed + Pause \in Int /\ elapsed + Pause <= 2 * Budget
    BY <1>3, PauseClamped DEF Busy429, EmbedInv
  <2>2. embed.attempt + 1 \in Nat /\ embed.attempt + 1 > 0
    BY DEF EmbedInv
  <2> QED BY <1>3, <2>1, <2>2 DEF Busy429, EmbedInv, EmbedBounded
<1>4. CASE WakeUp
  BY <1>4 DEF WakeUp, EmbedInv, EmbedBounded
<1>5. CASE Responds
  BY <1>5 DEF Responds, EmbedInv, EmbedBounded
<1>6. CASE RequestFails
  BY <1>6 DEF RequestFails, EmbedEnds, EmbedInv, EmbedBounded
<1>7. CASE Vectors
  BY <1>7 DEF Vectors, EmbedEnds, EmbedInv, EmbedBounded
<1>8. CASE EmbedCancelled
  BY <1>8 DEF EmbedCancelled, Waits, EmbedEnds, EmbedInv, EmbedBounded
<1>9. CASE UNCHANGED embedVars
  BY <1>9 DEF embedVars, EmbedInv, EmbedBounded
<1> QED
  BY <1>1, <1>2, <1>3, <1>4, <1>5, <1>6, <1>7, <1>8, <1>9 DEF EmbedNext

(* OpenAiEmbedClient::embed: for every encode_timeout, back-off base and number
   of retries no request outlives the budget and the call is over within twice
   of it. *)
THEOREM EmbedCallIsBounded == EmbedSpec => []EmbedBounded
<1>1. EmbedInv => EmbedBounded BY DEF EmbedInv
<1> QED BY EmbedStarts, EmbedSteps, <1>1, PTL DEF EmbedSpec

-----------------------------------------------------------------------------
(* The turn: every request was sent while the guard was armed, and within the
   limits of the attempts before it. *)
ChatInv ==
  /\ ChatTypeOK
  /\ turn.pc # "done" => turn.result = "none"
  /\ turn.pc = "post" => ~turn.spoke
  /\ turn.sent <= wall /\ wall <= turn.sent + TurnTimeout
  /\ turn.silence > 0 => turn.sent <= turn.silence
  /\ turn.sent <= turn.attempts * TurnTimeout
  /\ turn.result = "silent" => ~turn.spoke
  /\ Guarded => wall <= turn.silence

LEMMA ChatStarts == ChatInit => ChatInv
<1> SUFFICES ASSUME ChatInit PROVE ChatInv
  OBVIOUS
<1> PICK silence \in Guards :
      turn = [pc |-> "post", silence |-> silence, sent |-> 0, attempts |-> 0,
              spoke |-> FALSE, result |-> "none"]
  BY DEF ChatInit
<1> QED BY ChatAssumption DEF ChatInit, ChatInv, ChatTypeOK, Turn, Guarded

LEMMA SilenceNat == ASSUME ChatTypeOK PROVE turn.silence \in Nat
<1>1. turn.silence \in Guards
  BY DEF ChatTypeOK, Turn
<1>2. turn.silence \in 0 .. TurnTimeout - 1
  BY <1>1, ChatAssumption
<1> QED BY <1>2

LEMMA ChatSteps == ChatInv /\ [ChatNext]_turnVars => ChatInv'
<1> SUFFICES ASSUME ChatInv, [ChatNext]_turnVars PROVE ChatInv'
  OBVIOUS
<1> USE ChatAssumption DEF ChatInv, ChatTypeOK, Turn, Guarded
<1>0. turn.silence \in Nat
  BY SilenceNat
<1>1. CASE TurnTime
  <2>1. wall + 1 <= turn.sent + TurnTimeout /\ turn.sent <= wall + 1
    BY <1>1 DEF TurnTime, TimedOut
  <2>2. turn.silence > 0 /\ ~turn.spoke => wall + 1 <= turn.silence
    BY <1>0, <1>1 DEF TurnTime, TooSilent
  <2> QED BY <1>1, <2>1, <2>2 DEF TurnTime
<1>2. CASE GuardFires
  BY <1>2 DEF GuardFires, TooSilent, TurnEnds
<1>3. CASE PostRefused
  BY <1>3 DEF PostRefused, TurnEnds
<1>4. CASE ParseError
  <2>1. wall <= (turn.attempts + 1) * TurnTimeout
    <3>1. turn.attempts * TurnTimeout + TurnTimeout = (turn.attempts + 1) * TurnTimeout
      BY SMT
    <3> QED BY <3>1
  <2>2. turn'.sent = wall /\ turn'.attempts = turn.attempts + 1 /\ wall' = wall
    BY <1>4 DEF ParseError
  <2>3. turn.attempts + 1 \in 0 .. MaxParseRetries /\ wall \in Nat
    BY <1>4 DEF ParseError
  <2>4. turn' \in Turn /\ turn'.pc = "post" /\ ~turn'.spoke
        /\ turn'.result = "none" /\ turn'.silence = turn.silence
    BY <1>4, <2>3 DEF ParseError
  <2>5. turn'.sent <= turn'.attempts * TurnTimeout
    BY <2>1, <2>2
  <2>6. turn.silence > 0 => wall <= turn.silence
    BY <1>4 DEF ParseError
  <2>7. wall' \in Nat /\ wall' <= wall' + TurnTimeout
    BY <2>2
  <2> QED BY <2>2, <2>4, <2>5, <2>6, <2>7
<1>5. CASE StreamOpens
  BY <1>5 DEF StreamOpens
<1>6. CASE Speaks
  BY <1>6 DEF Speaks
<1>7. CASE DoneLine
  BY <1>7 DEF DoneLine, TurnEnds
<1>8. CASE StreamBreaks
  BY <1>8 DEF StreamBreaks, TurnEnds
<1>9. CASE TurnCancelled
  BY <1>9 DEF TurnCancelled, TurnEnds
<1>10. CASE UNCHANGED turnVars
  BY <1>10 DEF turnVars
<1> QED
  BY <1>1, <1>2, <1>3, <1>4, <1>5, <1>6, <1>7, <1>8, <1>9, <1>10 DEF ChatNext

LEMMA ChatInvBounds == ChatInv => TurnBounded
<1> SUFFICES ASSUME ChatInv PROVE TurnBounded
  OBVIOUS
<1> USE ChatAssumption DEF ChatInv, ChatTypeOK, Turn
<1>1. turn.attempts * TurnTimeout <= MaxParseRetries * TurnTimeout
  OBVIOUS
<1>2. turn.sent + TurnTimeout <= (MaxParseRetries + 1) * TurnTimeout
  BY <1>1
<1>3. turn.silence > 0 => wall <= turn.silence + TurnTimeout
  <2>1. turn.silence \in Nat
    BY SilenceNat
  <2> QED BY <2>1
<1> QED BY <1>2, <1>3 DEF TurnBounded

(* OllamaHttpClient::chat_stream: for every guard, timeout and number of parse
   retries a silent turn has handed nothing on, and a turn is over within the
   two limits, or without a guard within one timeout for each attempt. *)
THEOREM TurnIsBounded == ChatSpec => []TurnBounded
BY ChatStarts, ChatSteps, ChatInvBounds, PTL DEF ChatSpec

-----------------------------------------------------------------------------
(* The saved runs, for any number of runs, files and texts. *)
(* Who is named as context was stored when it was named, and a run that is gone
   stays so; ordinals are not reused while they are taken. *)
RowsInv ==
  /\ CorpusTypeOK
  /\ \A r \in Runs : \A p \in run[r].context : run[p].phase \in {"stored", "gone"}
  /\ \A r \in Stored : run[r].seq \in 1 .. MaxRuns
  /\ \A p, q \in Stored : run[p].seq = run[q].seq => p = q

(* What the client is owed is listed, and lies below the cursor. *)
PageInv ==
  /\ page.owed \subseteq Listed
  /\ page.state = "unread" => page.owed = {}
  /\ page.state = "reading" => \A r \in page.owed : run[r].seq < page.before
  /\ PagesShowEveryRun

CorpusInv == RowsInv /\ ContextIsEarlier /\ OneStandingVerdict /\ PageInv

-----------------------------------------------------------------------------
(* Numbers and finite sets of them. *)
LEMMA Least ==
  ASSUME NEW S, S \subseteq Nat, S # {}
  PROVE  \E n \in S : \A m \in S : n <= m
<1> DEFINE R == {e \in Nat \X Nat : e[1] < e[2]}
<1>1. IsWellFoundedOn(R, Nat)
  BY NatLessThanWellFounded DEF OpToRel
<1> HIDE DEF R
<1>2. PICK n \in S : \A m \in S : <<m, n>> \notin R
  BY <1>1, WFMin
<1>3. ASSUME NEW m \in S PROVE n <= m
  <2>1. ~(m < n)
    BY <1>2 DEF R
  <2> QED BY <2>1
<1> QED BY <1>3

LEMMA Greatest ==
  ASSUME NEW S, NEW b \in Nat, S \subseteq 0 .. b, S # {}
  PROVE  \E n \in S : \A m \in S : m <= n
<1> DEFINE T == {b - m : m \in S}
<1>1. T \subseteq Nat /\ T # {}
  <2>1. PICK m \in S : TRUE
    OBVIOUS
  <2>2. b - m \in T /\ \A k \in S : b - k \in Nat
    OBVIOUS
  <2> QED BY <2>2
<1>2. PICK k \in T : \A l \in T : k <= l
  BY <1>1, Least
<1>3. PICK n \in S : k = b - n
  OBVIOUS
<1>4. \A m \in S : m <= n
  BY <1>2, <1>3
<1> QED BY <1>4

LEMMA RunsFinite == \A S \in SUBSET Runs : IsFiniteSet(S) /\ Cardinality(S) \in Nat
<1>1. IsFiniteSet(Runs)
  BY FS_Interval, CorpusAssumption DEF Runs
<1> QED BY <1>1, FS_Subset, FS_CardinalityType

-----------------------------------------------------------------------------
(* Steps that leave the stored runs and the index alone change no validity. *)
LEMMA SameList ==
  ASSUME UNCHANGED index, Stored' = Stored, \A r \in Stored : run'[r] = run[r]
  PROVE  Listed' = Listed
<1>1. Unsound' = Unsound
  BY DEF Unsound, Moved
<1>2. Edges' = Edges
  BY DEF Edges
<1> QED BY <1>1, <1>2 DEF Listed, Valid, Invalid

LEMMA StoredInRuns == Listed \subseteq Stored /\ Stored \subseteq Runs
BY DEF Listed, Valid, Stored, Phase

(* A step that stores, starts or ends runs which are not stored: Ask, Challenge,
   ReadFile, Leave. *)
LEMMA BesideTheList ==
  ASSUME CorpusInv, NEW r \in Runs, run[r].phase \in {"new", "running"},
         NEW rec \in Run, rec.phase \in {"running", "gone"},
         \A p \in rec.context : run[p].phase \in {"stored", "gone"},
         run' = [run EXCEPT ![r] = rec], UNCHANGED <<index, page>>
  PROVE  CorpusInv'
<1>1. run \in [Runs -> Run] /\ run' \in [Runs -> Run]
  BY DEF CorpusInv, RowsInv, CorpusTypeOK
<1>2. run'[r] = rec /\ \A q \in Runs \ {r} : run'[q] = run[q]
  BY <1>1
<1>3. Stored' = Stored /\ r \notin Stored /\ \A q \in Stored : run'[q] = run[q]
  BY <1>2 DEF Stored, Phase
<1>4. Listed' = Listed
  BY <1>3, SameList
<1>5. \A q \in Runs : \A p \in run[q].context : p # r
  BY DEF CorpusInv, RowsInv
<1>6. \A q \in Runs : run[q].context \subseteq Runs
  BY <1>1 DEF Run
<1>7. \A q \in Runs : \A p \in run'[q].context : run'[p].phase \in {"stored", "gone"}
  <2> TAKE q \in Runs
  <2>1. CASE q = r
    BY <1>2, <2>1 DEF Run
  <2>2. CASE q # r
    BY <1>2, <1>5, <1>6, <2>2 DEF CorpusInv, RowsInv
  <2> QED BY <2>1, <2>2
<1>8. RowsInv'
  BY <1>1, <1>3, <1>7 DEF CorpusInv, RowsInv, CorpusTypeOK
<1>9. ContextIsEarlier' /\ OneStandingVerdict'
  BY <1>3 DEF CorpusInv, ContextIsEarlier, OneStandingVerdict
<1>10. PageInv'
  BY <1>3, <1>4, StoredInRuns DEF CorpusInv, PageInv, PagesShowEveryRun
<1> QED BY <1>8, <1>9, <1>10 DEF CorpusInv

(* What a step of someone else leaves of the client's page. *)
LEMMA OwedKeeps ==
  ASSUME CorpusInv, StillOwed,
         \A r \in Stored : run'[r].phase = "stored" => run'[r].seq = run[r].seq
  PROVE  PageInv' /\ page' \in [before : Nat, owed : SUBSET Runs,
                                state : {"unread", "reading", "read"}]
<1>1. page \in [before : Nat, owed : SUBSET Runs, state : {"unread", "reading", "read"}]
  BY DEF CorpusInv, RowsInv, CorpusTypeOK
<1>2. /\ page'.before = page.before /\ page'.state = page.state
      /\ page'.owed = page.owed \cap Listed'
  BY <1>1 DEF StillOwed
<1>3. \A r \in page'.owed : r \in Stored /\ run'[r].phase = "stored"
  BY <1>2, StoredInRuns DEF CorpusInv, PageInv, Listed, Valid, Stored, Phase
<1>4. PageInv'
  BY <1>2, <1>3 DEF CorpusInv, PageInv, PagesShowEveryRun
<1> QED BY <1>1, <1>2, <1>4 DEF StillOwed

LEMMA GoneHasNothing == GoneRun \in Run /\ GoneRun.phase = "gone" /\ GoneRun.context = {}
BY DEF GoneRun, NewRun, Run

(* Rows go: DELETE and the retention sweep. *)
LEMMA RowsGo ==
  ASSUME CorpusInv, NEW rows, rows \subseteq Stored, DeleteRuns(rows)
  PROVE  CorpusInv'
<1>1. run' = Without(rows) /\ UNCHANGED index /\ StillOwed
  BY DEF DeleteRuns
<1>2. run \in [Runs -> Run] /\ GoneRun \in Run
  BY GoneHasNothing DEF CorpusInv, RowsInv, CorpusTypeOK
<1>3. run' \in [Runs -> Run]
  BY <1>1, <1>2 DEF Without
<1>4. \A r \in Runs : IF r \in rows THEN run'[r] = GoneRun ELSE run'[r] = run[r]
  BY <1>1 DEF Without
<1>5. GoneRun.phase = "gone" /\ GoneRun.context = {}
  BY GoneHasNothing
<1>6. Stored' = Stored \ rows /\ \A r \in Stored' : run'[r] = run[r]
  BY <1>4, <1>5 DEF Stored, Phase
<1>7. \A r \in Runs : run[r].context \subseteq Runs
  BY <1>2 DEF Run
<1>8. \A r \in Runs : \A p \in run'[r].context : run'[p].phase \in {"stored", "gone"}
  <2>1. \A r \in Runs : run'[r].context \subseteq run[r].context
    BY <1>4, <1>5
  <2>2. \A p \in Runs : run[p].phase \in {"stored", "gone"}
                       => run'[p].phase \in {"stored", "gone"}
    BY <1>4, <1>5
  <2> QED BY <1>7, <2>1, <2>2 DEF CorpusInv, RowsInv
<1>9. \A r \in Stored : run'[r].phase = "stored" => run'[r].seq = run[r].seq
  BY <1>4, <1>5 DEF Stored, Phase
<1>10. PageInv' /\ page' \in [before : Nat, owed : SUBSET Runs,
                              state : {"unread", "reading", "read"}]
  BY <1>1, <1>9, OwedKeeps
<1>11. RowsInv'
  BY <1>1, <1>3, <1>6, <1>8, <1>10 DEF CorpusInv, RowsInv, CorpusTypeOK
<1>12. ContextIsEarlier' /\ OneStandingVerdict'
  BY <1>6 DEF CorpusInv, ContextIsEarlier, OneStandingVerdict
<1> QED BY <1>10, <1>11, <1>12 DEF CorpusInv

(* A run is stored, above every other, and a verdict takes the place of those
   of its subject. *)
LEMMA RunStored ==
  ASSUME CorpusInv, NEW r \in Runs, NEW verdict \in BOOLEAN, NEW n \in 1 .. MaxRuns,
         Record(r, verdict, n)
  PROVE  CorpusInv'
<1> DEFINE out == Evicted(r, verdict)
           rec == [run[r] EXCEPT !.phase = "stored", !.seq = n, !.verdict = verdict]
<1>1. /\ run[r].phase = "running" /\ (verdict => IsChallenge(r)) /\ IsNextSeq(n)
      /\ run' = [Without(out) EXCEPT ![r] = rec]
      /\ UNCHANGED index /\ StillOwed
  BY DEF Record
<1>2. run \in [Runs -> Run] /\ GoneRun \in Run
  BY GoneHasNothing DEF CorpusInv, RowsInv, CorpusTypeOK
<1>3. GoneRun.phase = "gone" /\ GoneRun.context = {}
  BY GoneHasNothing
<1>4. n \in Nat /\ 1 <= n
  OBVIOUS
<1>5. /\ rec \in Run /\ rec.phase = "stored" /\ rec.seq = n /\ rec.verdict = verdict
      /\ rec.context = run[r].context /\ rec.subject = run[r].subject
  BY <1>2, <1>4 DEF Run
<1>6. out \subseteq Stored \ {r} /\ r \notin Stored
  BY <1>1 DEF Evicted, Stored, Phase
<1> HIDE DEF rec, out
<1>7. /\ run' \in [Runs -> Run] /\ run'[r] = rec
      /\ \A q \in Runs \ {r} : IF q \in out THEN run'[q] = GoneRun ELSE run'[q] = run[q]
  BY <1>1, <1>2, <1>5 DEF Without
<1>8. /\ Stored' = (Stored \ out) \cup {r}
      /\ \A q \in Stored \ out : run'[q] = run[q] /\ q # r
  BY <1>3, <1>5, <1>6, <1>7 DEF Stored, Phase
<1>9. \A q \in Runs : run[q].context \subseteq Runs \ {r}
  BY <1>1, <1>2 DEF CorpusInv, RowsInv, Run
<1>10. \A q \in Runs : \A p \in run'[q].context : run'[p].phase \in {"stored", "gone"}
  <2>1. \A q \in Runs : run'[q].context \subseteq run[q].context
    BY <1>3, <1>5, <1>7
  <2>2. \A p \in Runs \ {r} : run[p].phase \in {"stored", "gone"}
                             => run'[p].phase \in {"stored", "gone"}
    BY <1>3, <1>7
  <2> QED BY <1>9, <2>1, <2>2 DEF CorpusInv, RowsInv
<1>11. \A q \in Stored : run[q].seq < n
  BY <1>1 DEF IsNextSeq
<1>12. \A q \in Stored : run'[q].phase = "stored" => run'[q].seq = run[q].seq
  BY <1>3, <1>6, <1>7 DEF Stored, Phase
<1>13. PageInv' /\ page' \in [before : Nat, owed : SUBSET Runs,
                              state : {"unread", "reading", "read"}]
  BY <1>1, <1>12, OwedKeeps
<1>14. CorpusTypeOK'
  BY <1>1, <1>7, <1>13 DEF CorpusInv, RowsInv, CorpusTypeOK
<1>15. \A q \in Stored' : run'[q].seq \in 1 .. MaxRuns
  BY <1>5, <1>7, <1>8 DEF CorpusInv, RowsInv
<1>16. \A p, q \in Stored' : run'[p].seq = run'[q].seq => p = q
  <2>1. \A q \in Stored \ out : run'[q].seq < n /\ run'[q].seq \in Nat
    BY <1>8, <1>11 DEF CorpusInv, RowsInv
  <2>2. run'[r].seq = n
    BY <1>5, <1>7
  <2>3. \A p, q \in Stored \ out : run'[p].seq = run'[q].seq => p = q
    BY <1>8 DEF CorpusInv, RowsInv
  <2>4. \A q \in Stored \ out : run'[q].seq # run'[r].seq
    BY <1>4, <2>1, <2>2
  <2> QED BY <1>8, <2>3, <2>4
<1>17. ContextIsEarlier'
  <2> SUFFICES ASSUME NEW q \in Stored', NEW p \in run'[q].context \cap Stored'
               PROVE  run'[p].seq < run'[q].seq
    BY DEF ContextIsEarlier
  <2>1. q \in Runs /\ p \in Runs \ {r} /\ p \in Stored \ out /\ run'[p] = run[p]
    BY <1>5, <1>7, <1>8, <1>9 DEF Stored, Phase
  <2>2. CASE q = r
    BY <1>5, <1>7, <1>11, <2>1, <2>2
  <2>3. CASE q # r
    BY <1>8, <2>1, <2>3 DEF CorpusInv, ContextIsEarlier
  <2> QED BY <2>2, <2>3
<1>18. OneStandingVerdict'
  <2>1. \A q \in Stored \ out : ~(verdict /\ run[q].subject = run[r].subject)
    BY <1>1, <1>6 DEF Evicted, out
  <2> QED BY <1>5, <1>7, <1>8, <2>1 DEF CorpusInv, OneStandingVerdict
<1> QED BY <1>10, <1>13, <1>14, <1>15, <1>16, <1>17, <1>18 DEF CorpusInv, RowsInv

(* The indexing core moves a file: the rows are those they were. *)
LEMMA FilesMove ==
  ASSUME CorpusInv, NEW f \in Files, NEW t \in Texts \cup {Gone}, Reindex(f, t)
  PROVE  CorpusInv'
<1>1. UNCHANGED run /\ StillOwed /\ index' = [index EXCEPT ![f] = t]
  BY DEF Reindex
<1>2. PageInv' /\ page' \in [before : Nat, owed : SUBSET Runs,
                             state : {"unread", "reading", "read"}]
  BY <1>1, OwedKeeps
<1>3. Stored' = Stored
  BY <1>1 DEF Stored, Phase
<1>4. RowsInv'
  BY <1>1, <1>2, <1>3 DEF CorpusInv, RowsInv, CorpusTypeOK
<1> QED
  BY <1>1, <1>2, <1>3, <1>4 DEF CorpusInv, ContextIsEarlier, OneStandingVerdict

-----------------------------------------------------------------------------
(* One page: what it leaves out lies below all that it shows, and it leaves out
   nothing unless it is full. *)
LEMMA PageIsTop ==
  ASSUME CorpusInv, NEW before \in Nat
  PROVE  /\ PageOf(before) \subseteq Listed
         /\ \A q \in PageOf(before), r \in Listed \ PageOf(before) :
              run[r].seq < before => run[r].seq < run[q].seq
         /\ (\E r \in Listed \ PageOf(before) : run[r].seq < before)
              => Cardinality(PageOf(before)) = PageLimit
<1> DEFINE rows == {r \in Listed : run[r].seq < before}
           shown == {r \in rows : Cardinality(Below(r, rows)) < PageLimit}
<1>1. PageOf(before) = shown /\ rows \subseteq Listed
      /\ \A r \in Listed : r \in rows <=> run[r].seq < before
  BY DEF PageOf
<1>2. rows \subseteq Runs /\ \A r \in rows : run[r].seq \in 1 .. MaxRuns
  BY StoredInRuns DEF CorpusInv, RowsInv
<1>3. \A p, q \in rows : run[p].seq = run[q].seq => p = q
  BY StoredInRuns DEF CorpusInv, RowsInv
<1>4. \A r \in rows : /\ Cardinality(Below(r, rows)) \in Nat
                      /\ IsFiniteSet(Below(r, rows))
  BY <1>2, RunsFinite DEF Below
<1>5. /\ shown \subseteq rows
      /\ \A r \in shown : Cardinality(Below(r, rows)) < PageLimit
      /\ \A r \in rows \ shown : ~(Cardinality(Below(r, rows)) < PageLimit)
  OBVIOUS
<1>6. PageLimit \in Nat /\ PageLimit > 0 /\ MaxRuns \in Nat
  BY CorpusAssumption
<1> HIDE DEF rows, shown
<1>7. ASSUME NEW q \in shown, NEW r \in rows \ shown
      PROVE  run[r].seq < run[q].seq
  <2>1. run[r].seq \in Nat /\ run[q].seq \in Nat
    BY <1>2, <1>5
  <2>2. ASSUME run[q].seq <= run[r].seq PROVE FALSE
    <3>1. Below(r, rows) \subseteq Below(q, rows)
      <4> SUFFICES ASSUME NEW x \in rows, run[x].seq > run[r].seq
                   PROVE  run[x].seq > run[q].seq
        BY DEF Below
      <4>1. run[x].seq \in Nat
        BY <1>2
      <4> QED BY <2>1, <2>2, <4>1
    <3>2. Cardinality(Below(r, rows)) <= Cardinality(Below(q, rows))
      BY <1>4, <1>5, <3>1, FS_Subset
    <3> QED BY <1>4, <1>5, <1>6, <3>2
  <2> QED BY <2>1, <2>2
<1>8. ASSUME rows \ shown # {}
      PROVE  Cardinality(shown) = PageLimit
  <2>1. IsFiniteSet(shown) /\ Cardinality(shown) \in Nat
    BY <1>2, <1>5, RunsFinite
  <2>2. PageLimit <= Cardinality(shown)
    <3> DEFINE seqs == {run[r].seq : r \in rows \ shown}
    <3>1. seqs \subseteq 0 .. MaxRuns
      BY <1>2, <1>6
    <3>2. seqs # {}
      BY <1>8
    <3> HIDE DEF seqs
    <3>3. PICK top \in seqs : \A m \in seqs : m <= top
      BY <1>6, <3>1, <3>2, Greatest
    <3> USE DEF seqs
    <3>4. PICK r \in rows \ shown : top = run[r].seq
      OBVIOUS
    <3>5. \A q \in rows \ shown : run[q].seq <= run[r].seq
      BY <3>3, <3>4
    <3>6. Below(r, rows) \subseteq shown
      <4> SUFFICES ASSUME NEW x \in rows \ shown PROVE ~(run[x].seq > run[r].seq)
        BY DEF Below
      <4> QED BY <1>2, <3>5
    <3>7. Cardinality(Below(r, rows)) <= Cardinality(shown)
      BY <2>1, <3>6, FS_Subset
    <3> QED BY <1>4, <1>5, <1>6, <2>1, <3>7
  <2>3. Cardinality(shown) <= PageLimit
    <3>1. CASE shown = {}
      BY <1>6, <3>1, FS_EmptySet
    <3>2. CASE shown # {}
      <4> DEFINE seqs == {run[r].seq : r \in shown}
      <4>1. seqs \subseteq Nat
        BY <1>2, <1>5
      <4>2. seqs # {}
        BY <3>2
      <4> HIDE DEF seqs
      <4>3. PICK last \in seqs : \A m \in seqs : last <= m
        BY <4>1, <4>2, Least
      <4> USE DEF seqs
      <4>4. PICK r \in shown : last = run[r].seq
        OBVIOUS
      <4>5. \A q \in shown : run[r].seq <= run[q].seq
        BY <4>3, <4>4
      <4>6. shown \subseteq Below(r, rows) \cup {r}
        <5> SUFFICES ASSUME NEW x \in shown, x # r PROVE run[x].seq > run[r].seq
          BY <1>5 DEF Below
        <5>1. run[x].seq # run[r].seq
          BY <1>3, <1>5
        <5>2. run[x].seq \in Nat /\ run[r].seq \in Nat
          BY <1>2, <1>5
        <5> QED BY <4>5, <5>1, <5>2
      <4>7. Cardinality(Below(r, rows) \cup {r}) <= Cardinality(Below(r, rows)) + 1
            /\ IsFiniteSet(Below(r, rows) \cup {r})
            /\ Cardinality(Below(r, rows) \cup {r}) \in Nat
        <5>1. /\ IsFiniteSet(Below(r, rows) \cup {r})
              /\ Cardinality(Below(r, rows) \cup {r}) =
                   IF r \in Below(r, rows) THEN Cardinality(Below(r, rows))
                                           ELSE Cardinality(Below(r, rows)) + 1
          BY <1>4, <1>5, FS_AddElement
        <5>2. Cardinality(Below(r, rows)) \in Nat
          BY <1>4, <1>5
        <5> QED BY <5>1, <5>2
      <4>8. Cardinality(shown) <= Cardinality(Below(r, rows) \cup {r})
        BY <4>6, <4>7, FS_Subset
      <4> QED BY <1>4, <1>5, <1>6, <2>1, <4>7, <4>8
    <3> QED BY <3>1, <3>2
  <2> QED BY <1>6, <2>1, <2>2, <2>3
<1> QED BY <1>1, <1>5, <1>7, <1>8

LEMMA ListOpens == ASSUME CorpusInv, OpenList PROVE CorpusInv'
<1>1. /\ UNCHANGED <<index, run>>
      /\ page' = [before |-> MaxRuns + 1, owed |-> Listed, state |-> "reading"]
  BY DEF OpenList
<1>2. Stored' = Stored /\ Listed' = Listed
  <2>1. Stored' = Stored
    BY <1>1 DEF Stored, Phase
  <2> QED BY <1>1, <2>1, SameList
<1>3. Listed \subseteq Runs /\ \A r \in Listed : run[r].seq < MaxRuns + 1
  BY StoredInRuns, CorpusAssumption DEF CorpusInv, RowsInv
<1>4. RowsInv'
  <2>1. MaxRuns + 1 \in Nat
    BY CorpusAssumption
  <2> QED BY <1>1, <1>2, <1>3, <2>1 DEF CorpusInv, RowsInv, CorpusTypeOK
<1>5. PageInv'
  BY <1>1, <1>2, <1>3 DEF PageInv, PagesShowEveryRun
<1> QED
  BY <1>1, <1>2, <1>4, <1>5 DEF CorpusInv, ContextIsEarlier, OneStandingVerdict

LEMMA PageTurns == ASSUME CorpusInv, NextPage PROVE CorpusInv'
<1> DEFINE rows == PageOf(page.before)
           full == Cardinality(rows) = PageLimit
           seqs == {run[r].seq : r \in rows}
           last == CHOOSE n \in seqs : \A r \in rows : n <= run[r].seq
<1>1. /\ page.state = "reading" /\ UNCHANGED <<index, run>>
      /\ page' = [before |-> IF full THEN last ELSE 0,
                  owed |-> page.owed \ rows,
                  state |-> IF full THEN "reading" ELSE "read"]
  BY DEF NextPage
<1>2. /\ page.before \in Nat /\ page.owed \subseteq Runs /\ page.owed \subseteq Listed
      /\ \A r \in page.owed : run[r].seq < page.before
  BY <1>1 DEF CorpusInv, RowsInv, CorpusTypeOK, PageInv
<1>3. /\ rows \subseteq Listed
      /\ \A q \in rows, r \in page.owed \ rows : run[r].seq < run[q].seq
      /\ page.owed \ rows # {} => full
  BY <1>2, PageIsTop
<1>4. full => last \in Nat /\ \E q \in rows : last = run[q].seq
  <2> SUFFICES ASSUME full PROVE last \in Nat /\ \E q \in rows : last = run[q].seq
    OBVIOUS
  <2>1. rows # {}
    BY FS_EmptySet, CorpusAssumption
  <2>2. seqs \subseteq Nat /\ seqs # {}
    BY <1>3, <2>1, StoredInRuns DEF CorpusInv, RowsInv
  <2>3. \E n \in seqs : \A m \in seqs : n <= m
    BY <2>2, Least
  <2>4. \E n \in seqs : \A r \in rows : n <= run[r].seq
    BY <2>3
  <2>5. last \in seqs
    BY <2>4
  <2> QED BY <2>2, <2>5
<1>5. Stored' = Stored /\ Listed' = Listed
  <2>1. Stored' = Stored
    BY <1>1 DEF Stored, Phase
  <2> QED BY <1>1, <2>1, SameList
<1> HIDE DEF rows, full, last
<1>6. RowsInv'
  BY <1>1, <1>2, <1>4, <1>5 DEF CorpusInv, RowsInv, CorpusTypeOK
<1>7. PageInv'
  <2>1. CASE full
    <3>1. page'.before = last /\ page'.owed = page.owed \ rows /\ page'.state = "reading"
      BY <1>1, <2>1
    <3> QED BY <1>1, <1>2, <1>3, <1>4, <1>5, <2>1, <3>1 DEF PageInv, PagesShowEveryRun
  <2>2. CASE ~full
    <3>1. page'.owed = {} /\ page'.state = "read"
      BY <1>1, <1>3, <2>2
    <3> QED BY <3>1 DEF PageInv, PagesShowEveryRun
  <2> QED BY <2>1, <2>2
<1> QED
  BY <1>1, <1>5, <1>6, <1>7 DEF CorpusInv, ContextIsEarlier, OneStandingVerdict

-----------------------------------------------------------------------------
LEMMA CorpusStarts == CorpusInit => CorpusInv
<1> SUFFICES ASSUME CorpusInit PROVE CorpusInv
  OBVIOUS
<1>1. Stored = {}
  BY DEF CorpusInit, NewRun, Stored, Phase
<1>2. NewRun \in Run /\ NewRun.context = {}
  BY DEF NewRun, Run
<1>3. CorpusTypeOK /\ RowsInv
  BY <1>1, <1>2 DEF CorpusInit, CorpusTypeOK, RowsInv
<1>4. PageInv
  BY DEF CorpusInit, PageInv, PagesShowEveryRun
<1> QED BY <1>1, <1>3, <1>4 DEF CorpusInv, ContextIsEarlier, OneStandingVerdict

(* The steps of one run, each of which gives it a record of its own. *)
LEMMA RunSteps == ASSUME CorpusInv, NEW r \in Runs, RunStep(r) PROVE CorpusInv'
<1>1. run \in [Runs -> Run] /\ run[r] \in Run
  BY DEF CorpusInv, RowsInv, CorpusTypeOK
<1>2. NewRun \in Run
  BY DEF NewRun, Run
<1>3. ASSUME NEW named \in SUBSET Valid, Ask(r, named) PROVE CorpusInv'
  <2> DEFINE rec == [NewRun EXCEPT !.phase = "running", !.context = named]
  <2>1. named \subseteq Runs /\ \A p \in named : run[p].phase = "stored"
    BY DEF Valid, Stored, Phase
  <2>2. rec \in Run /\ rec.phase = "running" /\ rec.context = named
    BY <2>1 DEF NewRun, Run
  <2>3. run[r].phase = "new" /\ run' = [run EXCEPT ![r] = rec] /\ UNCHANGED <<index, page>>
    BY <1>3 DEF Ask, NextRun
  <2> HIDE DEF rec
  <2> QED BY <2>1, <2>2, <2>3, BesideTheList
<1>4. ASSUME NEW subject \in Valid, Challenge(r, subject) PROVE CorpusInv'
  <2> DEFINE rec == [NewRun EXCEPT !.phase = "running", !.subject = subject]
  <2>1. subject \in Runs
    BY DEF Valid, Stored, Phase
  <2>2. rec \in Run /\ rec.phase = "running" /\ rec.context = {}
    BY <2>1 DEF NewRun, Run
  <2>3. run[r].phase = "new" /\ run' = [run EXCEPT ![r] = rec] /\ UNCHANGED <<index, page>>
    BY <1>4 DEF Challenge, NextRun
  <2> HIDE DEF rec
  <2> QED BY <2>2, <2>3, BesideTheList
<1>5. ASSUME NEW f \in Files, ReadFile(r, f) PROVE CorpusInv'
  <2> DEFINE rec == [run[r] EXCEPT !.baseline[f] = index[f]]
  <2>1. rec \in Run /\ rec.phase = run[r].phase /\ rec.context = run[r].context
    BY <1>1 DEF CorpusInv, RowsInv, CorpusTypeOK, Run
  <2>2. run[r].phase = "running" /\ run' = [run EXCEPT ![r] = rec] /\ UNCHANGED <<index, page>>
    BY <1>1, <1>5 DEF ReadFile, Run
  <2> HIDE DEF rec
  <2>3. \A p \in rec.context : run[p].phase \in {"stored", "gone"}
    BY <2>1 DEF CorpusInv, RowsInv
  <2> QED BY <2>1, <2>2, <2>3, BesideTheList
<1>6. CASE Leave(r)
  <2>1. run[r].phase = "running" /\ run' = [run EXCEPT ![r] = GoneRun] /\ UNCHANGED <<index, page>>
    BY <1>6 DEF Leave
  <2> QED BY <2>1, GoneHasNothing, BesideTheList
<1> QED BY <1>3, <1>4, <1>5, <1>6, RunStored DEF RunStep

LEMMA CorpusSteps == CorpusInv /\ [CorpusNext]_corpusVars => CorpusInv'
<1> SUFFICES ASSUME CorpusInv, [CorpusNext]_corpusVars PROVE CorpusInv'
  OBVIOUS
<1>1. CASE UNCHANGED corpusVars
  <2>1. UNCHANGED <<index, run, page>>
    BY <1>1 DEF corpusVars
  <2>2. Stored' = Stored
    BY <2>1 DEF Stored, Phase
  <2>3. Listed' = Listed
    BY <2>1, <2>2, SameList
  <2> QED
    BY <2>1, <2>2, <2>3 DEF CorpusInv, RowsInv, CorpusTypeOK, ContextIsEarlier,
       OneStandingVerdict, PageInv, PagesShowEveryRun
<1>2. ASSUME NEW rows \in SUBSET Stored, DeleteRuns(rows) PROVE CorpusInv'
  BY <1>2, RowsGo
<1> QED
  BY <1>1, <1>2, RunSteps, FilesMove, ListOpens, PageTurns DEF CorpusNext

(* insert_run: for any number of runs and challenges at once, at most one verdict
   of a subject is stored. *)
THEOREM OneVerdictStands == CorpusSpec => []OneStandingVerdict
<1>1. CorpusInv => OneStandingVerdict BY DEF CorpusInv
<1> QED BY CorpusStarts, CorpusSteps, <1>1, PTL DEF CorpusSpec

(* research_validity_ctes: the context graph of the stored runs has no cycle,
   whatever is deleted and however ordinals are reused. *)
THEOREM ContextHasNoCycle == CorpusSpec => []ContextIsEarlier
<1>1. CorpusInv => ContextIsEarlier BY DEF CorpusInv
<1> QED BY CorpusStarts, CorpusSteps, <1>1, PTL DEF CorpusSpec

(* GET /research/runs: whatever the page size, a client who follows the cursor to
   its end has seen every run that was listed all the while. *)
THEOREM CursorMissesNoRun == CorpusSpec => []PagesShowEveryRun
<1>1. CorpusInv => PagesShowEveryRun BY DEF CorpusInv, PageInv
<1> QED BY CorpusStarts, CorpusSteps, <1>1, PTL DEF CorpusSpec

-----------------------------------------------------------------------------
(* The HTTP/3 server. *)
AtHandler == {q \in Requests : request[q].pc = "handler"}
HaveEntered == {q \in Requests : request[q].entered}

(* Whoever has a handler has entered, and who has not sent its body has not. *)
HttpInv ==
  /\ request \in [Requests -> Request] /\ inFlight \in Nat /\ answered \in Nat
  /\ \A q \in Requests : /\ request[q].pc = "handler" => request[q].entered
                         /\ request[q].pc \in {"unsent", "body"} => ~request[q].entered
  /\ Reconciled

(* The requests of one kind, when one of them joins or leaves. *)
LEMMA CountsAre ==
  /\ IsFiniteSet(AtHandler) /\ IsFiniteSet(HaveEntered)
  /\ Cardinality(AtHandler) \in Nat /\ Cardinality(HaveEntered) \in Nat
<1>1. AtHandler \subseteq Requests /\ HaveEntered \subseteq Requests
  BY DEF AtHandler, HaveEntered
<1>2. IsFiniteSet(AtHandler) /\ IsFiniteSet(HaveEntered)
  BY <1>1, HttpAssumption, FS_Subset
<1> QED BY <1>2, FS_CardinalityType

LEMMA OneMore ==
  ASSUME NEW S, IsFiniteSet(S), NEW x, x \notin S
  PROVE  Cardinality(S \cup {x}) = Cardinality(S) + 1
BY FS_AddElement

LEMMA OneLess ==
  ASSUME NEW S, IsFiniteSet(S), NEW x \in S
  PROVE  Cardinality(S \ {x}) = Cardinality(S) - 1 /\ Cardinality(S) \in Nat \ {0}
<1>1. Cardinality(S \ {x}) = Cardinality(S) - 1
  BY FS_RemoveElement
<1>2. Cardinality(S) \in Nat /\ Cardinality(S) # 0
  BY FS_CardinalityType, FS_EmptySet
<1> QED BY <1>1, <1>2

(* A request that moves on between phases of one kind. *)
LEMMA MovesOn ==
  ASSUME HttpInv, NEW q \in Requests, NEW next \in Request,
         request' = [request EXCEPT ![q] = next], UNCHANGED <<inFlight, answered>>,
         next.pc = "handler" <=> request[q].pc = "handler",
         next.entered = request[q].entered,
         next.pc \in {"unsent", "body"} => request[q].pc \in {"unsent", "body"}
  PROVE  HttpInv'
<1>1. /\ request' \in [Requests -> Request] /\ request'[q] = next
      /\ \A p \in Requests : p # q => request'[p] = request[p]
  BY DEF HttpInv
<1>2. AtHandler' = AtHandler /\ HaveEntered' = HaveEntered
  BY <1>1 DEF AtHandler, HaveEntered
<1>3. Reconciled'
  BY <1>2 DEF HttpInv, Reconciled, AtHandler, HaveEntered
<1> QED BY <1>1, <1>3 DEF HttpInv

LEMMA HandlerBegins ==
  ASSUME HttpInv, NEW q \in Requests, BodyReceived(q)
  PROVE  HttpInv'
<1> DEFINE next == [request[q] EXCEPT !.pc = "handler", !.entered = TRUE]
<1>1. /\ request[q].pc = "body" /\ ~request[q].entered /\ request[q] \in Request
      /\ request' = [request EXCEPT ![q] = next]
      /\ inFlight' = inFlight + 1 /\ answered' = answered
  BY DEF HttpInv, BodyReceived, RequestAt
<1>2. next \in Request /\ next.pc = "handler" /\ next.entered = TRUE
  BY <1>1 DEF Request
<1> HIDE DEF next
<1>3. /\ request' \in [Requests -> Request] /\ request'[q] = next
      /\ \A p \in Requests : p # q => request'[p] = request[p]
  BY <1>1, <1>2 DEF HttpInv
<1>4. /\ AtHandler' = AtHandler \cup {q} /\ q \notin AtHandler
      /\ HaveEntered' = HaveEntered \cup {q} /\ q \notin HaveEntered
  BY <1>1, <1>2, <1>3 DEF AtHandler, HaveEntered
<1>5. /\ Cardinality(AtHandler') = Cardinality(AtHandler) + 1
      /\ Cardinality(HaveEntered') = Cardinality(HaveEntered) + 1
  BY <1>4, CountsAre, OneMore
<1>6. /\ inFlight = Cardinality(AtHandler)
      /\ answered + inFlight = Cardinality(HaveEntered)
      /\ inFlight \in Nat /\ answered \in Nat
  BY DEF HttpInv, Reconciled, AtHandler, HaveEntered
<1>7. /\ inFlight' = Cardinality(AtHandler')
      /\ answered' + inFlight' = Cardinality(HaveEntered')
      /\ inFlight' \in Nat /\ answered' \in Nat
  BY <1>1, <1>5, <1>6
<1>8. Reconciled'
  BY <1>7 DEF Reconciled, AtHandler, HaveEntered
<1> QED BY <1>1, <1>2, <1>3, <1>7, <1>8 DEF HttpInv

LEMMA HandlerEnds ==
  ASSUME HttpInv, NEW q \in Requests, NEW pc \in {"reply", "over"},
         RequestAt(q, "handler"), Moves(q, pc), GuardDrops
  PROVE  HttpInv'
<1> DEFINE next == [request[q] EXCEPT !.pc = pc]
<1>1. /\ request[q].pc = "handler" /\ request[q].entered /\ request[q] \in Request
      /\ request' = [request EXCEPT ![q] = next]
      /\ inFlight' = inFlight - 1 /\ answered' = answered + 1
  BY DEF HttpInv, RequestAt, Moves, GuardDrops
<1>2. next \in Request /\ next.pc = pc /\ next.entered = request[q].entered
  BY <1>1 DEF Request
<1> HIDE DEF next
<1>3. /\ request' \in [Requests -> Request] /\ request'[q] = next
      /\ \A p \in Requests : p # q => request'[p] = request[p]
  BY <1>1, <1>2 DEF HttpInv
<1>4. AtHandler' = AtHandler \ {q} /\ q \in AtHandler /\ HaveEntered' = HaveEntered
  BY <1>1, <1>2, <1>3 DEF AtHandler, HaveEntered
<1>5. /\ Cardinality(AtHandler') = Cardinality(AtHandler) - 1
      /\ Cardinality(AtHandler) \in Nat \ {0}
      /\ Cardinality(HaveEntered') = Cardinality(HaveEntered)
  BY <1>4, CountsAre, OneLess
<1>6. /\ inFlight = Cardinality(AtHandler)
      /\ answered + inFlight = Cardinality(HaveEntered)
      /\ inFlight \in Nat /\ answered \in Nat
  BY DEF HttpInv, Reconciled, AtHandler, HaveEntered
<1>7. /\ inFlight' = Cardinality(AtHandler')
      /\ answered' + inFlight' = Cardinality(HaveEntered')
      /\ inFlight' \in Nat /\ answered' \in Nat
  BY <1>1, <1>5, <1>6
<1>8. Reconciled'
  BY <1>7 DEF Reconciled, AtHandler, HaveEntered
<1> QED BY <1>1, <1>2, <1>3, <1>7, <1>8 DEF HttpInv

LEMMA BodyRefused ==
  ASSUME HttpInv, NEW q \in Requests, BodyTooLarge(q)
  PROVE  HttpInv'
<1> DEFINE next == [request[q] EXCEPT !.pc = "reply", !.entered = TRUE]
<1>1. /\ request[q].pc = "body" /\ ~request[q].entered /\ request[q] \in Request
      /\ request' = [request EXCEPT ![q] = next]
      /\ answered' = answered + 1 /\ inFlight' = inFlight
  BY DEF HttpInv, BodyTooLarge, RequestAt
<1>2. next \in Request /\ next.pc = "reply" /\ next.entered = TRUE
  BY <1>1 DEF Request
<1> HIDE DEF next
<1>3. /\ request' \in [Requests -> Request] /\ request'[q] = next
      /\ \A p \in Requests : p # q => request'[p] = request[p]
  BY <1>1, <1>2 DEF HttpInv
<1>4. AtHandler' = AtHandler /\ HaveEntered' = HaveEntered \cup {q} /\ q \notin HaveEntered
  BY <1>1, <1>2, <1>3 DEF AtHandler, HaveEntered
<1>5. Cardinality(HaveEntered') = Cardinality(HaveEntered) + 1
  BY <1>4, CountsAre, OneMore
<1>6. /\ inFlight = Cardinality(AtHandler)
      /\ answered + inFlight = Cardinality(HaveEntered)
      /\ inFlight \in Nat /\ answered \in Nat
  BY DEF HttpInv, Reconciled, AtHandler, HaveEntered
<1>7. /\ inFlight' = Cardinality(AtHandler')
      /\ answered' + inFlight' = Cardinality(HaveEntered')
      /\ inFlight' \in Nat /\ answered' \in Nat
  BY <1>1, <1>4, <1>5, <1>6
<1>8. Reconciled'
  BY <1>7 DEF Reconciled, AtHandler, HaveEntered
<1> QED BY <1>1, <1>2, <1>3, <1>7, <1>8 DEF HttpInv

LEMMA RequestSteps ==
  ASSUME HttpInv, NEW q \in Requests,
         \/ \E l \in Links : AcceptRequest(q, l)
         \/ BodyReceived(q) \/ BodyTooLarge(q) \/ BodyLost(q)
         \/ HandlerAnswers(q) \/ HandlerDropped(q) \/ HandlerPanics(q) \/ ReplyEnds(q)
  PROVE  HttpInv'
<1>1. request[q] \in Request
  BY DEF HttpInv
<1>2. ASSUME NEW l \in Links, AcceptRequest(q, l) PROVE HttpInv'
  <2> DEFINE next == [request[q] EXCEPT !.pc = "body", !.on = l]
  <2>1. /\ request[q].pc = "unsent" /\ request' = [request EXCEPT ![q] = next]
        /\ UNCHANGED <<inFlight, answered>>
    BY <1>2 DEF AcceptRequest, RequestAt
  <2>2. next \in Request /\ next.pc = "body" /\ next.entered = request[q].entered
    BY <1>1 DEF Request
  <2> QED BY <2>1, <2>2, MovesOn
<1>3. CASE BodyLost(q) \/ ReplyEnds(q)
  <2> DEFINE next == [request[q] EXCEPT !.pc = "over"]
  <2>1. /\ request[q].pc \in {"body", "reply"} /\ request' = [request EXCEPT ![q] = next]
        /\ UNCHANGED <<inFlight, answered>>
    BY <1>3 DEF BodyLost, ReplyEnds, RequestAt, Moves
  <2>2. next \in Request /\ next.pc = "over" /\ next.entered = request[q].entered
    BY <1>1 DEF Request
  <2> QED BY <2>1, <2>2, MovesOn
<1>4. CASE HandlerAnswers(q)
  BY <1>4, HandlerEnds DEF HandlerAnswers
<1>5. CASE HandlerDropped(q) \/ HandlerPanics(q)
  BY <1>5, HandlerEnds DEF HandlerDropped, HandlerPanics
<1> QED BY <1>2, <1>3, <1>4, <1>5, HandlerBegins, BodyRefused

LEMMA HttpStarts == HttpInit => HttpInv
<1> SUFFICES ASSUME HttpInit PROVE HttpInv
  OBVIOUS
<1>1. (CHOOSE l \in Links : TRUE) \in Links
  BY HttpAssumption
<1>2. request \in [Requests -> Request]
  BY <1>1 DEF HttpInit, Request
<1>3. \A q \in Requests : request[q].pc = "unsent" /\ request[q].entered = FALSE
  BY DEF HttpInit
<1>4. AtHandler = {} /\ HaveEntered = {}
  BY <1>3 DEF AtHandler, HaveEntered
<1>5. Cardinality(AtHandler) = 0 /\ Cardinality(HaveEntered) = 0
  BY <1>4, FS_EmptySet
<1>6. inFlight = 0 /\ answered = 0
  BY DEF HttpInit
<1>7. Reconciled
  BY <1>5, <1>6 DEF Reconciled, AtHandler, HaveEntered
<1> QED BY <1>2, <1>3, <1>6, <1>7 DEF HttpInv

LEMMA HttpSteps == HttpInv /\ [HttpNext]_httpVars => HttpInv'
<1> SUFFICES ASSUME HttpInv, [HttpNext]_httpVars PROVE HttpInv'
  OBVIOUS
<1>1. UNCHANGED <<request, inFlight, answered>> => HttpInv'
  BY DEF HttpInv, Reconciled
<1>2. ASSUME NEW l \in Links, Accept(l) \/ ClientLeaves(l) \/ LinkEnds(l)
      PROVE  HttpInv'
  BY <1>1, <1>2 DEF Accept, ClientLeaves, LinkEnds
<1>3. CASE ShutDown
  BY <1>1, <1>3 DEF ShutDown
<1>4. CASE UNCHANGED httpVars
  BY <1>1, <1>4 DEF httpVars
<1> QED BY <1>2, <1>3, <1>4, RequestSteps DEF HttpNext

(* http3.rs, InFlightGuard: for any number of connections and requests, however they
   end, the gauge and the counter agree with the requests. *)
THEOREM GaugeAddsUp == HttpSpec => []Reconciled
<1>1. HttpInv => Reconciled
  BY DEF HttpInv
<1> QED BY HttpStarts, HttpSteps, <1>1, PTL DEF HttpSpec
=============================================================================
