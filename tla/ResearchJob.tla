---------------------------- MODULE ResearchJob ----------------------------
(***************************************************************************)
(* What every step of a research run is made of: the job's record, its     *)
(* three cancellation tokens, the channel to the client, and the endings   *)
(* of run_research.                                                        *)
(*                                                                         *)
(* The tokens form a tree. `job` is the run's own: the client's departure, *)
(* DELETE /research/active and the watchdog cancel it. `work` and          *)
(* `writing` are its children, each cancelled by its own timer as well     *)
(* (DeadlineToken) -- or by a delta that finds the channel closed.         *)
(*                                                                         *)
(* Several locals of research_inner are not read once the report phase     *)
(* begins; they are set back to their initial values there.  Of the reason *)
(* to stop only whether it was the run's own choice is.                    *)
(***************************************************************************)
EXTENDS Integers, FiniteSets

CONSTANTS
  Runs,                  \* the requests for a run
  Kinds,                 \* which entrances are used
  Deliveries,            \* ?stream= or not
  Faults,                \* which of AllFaults happen
  MaxSteps,              \* budget.max_steps
  CheckpointEvery,       \* checkpoint_every_steps; 0: no checkpoints
  MaxCheckpoints, MaxParseRetries, MaxDuplicateCalls, MaxReopens,
  MaxEmptyReportRetries,
  MaxRevalidationSteps, MaxRevalidationTurns,
  MaxCalls,              \* bound on the tool calls of one turn
  Sections               \* plan items of a plan that is written in sections

VARIABLE run             \* the state of each run

AllKinds == {"research", "challenge"}
AllDeliveries == {"stream", "json"}

\* ollama: a chat call fails; index: a lookup fails; db: the journal write
\* fails; panic: the job's task dies.
AllFaults == {"ollama", "index", "db", "panic"}

ASSUME ResearchSetsAssumption ==
  /\ Kinds \subseteq AllKinds
  /\ Deliveries \subseteq AllDeliveries
  /\ Faults \subseteq AllFaults

ASSUME ResearchBoundsAssumption ==
  /\ \A n \in {MaxSteps, MaxRevalidationSteps, MaxRevalidationTurns, MaxCalls,
               Sections} : n \in Nat \ {0}
  /\ \A n \in {CheckpointEvery, MaxCheckpoints, MaxParseRetries,
               MaxDuplicateCalls, MaxReopens, MaxEmptyReportRetries} : n \in Nat

Investigating == {"start", "plan", "turn", "batch", "checkpoint", "assess"}
Reporting == {"section", "draft", "redraft", "gate", "recheck",
              "recheck_batch", "rewrite", "rerewrite", "resection", "ship",
              "verdict"}
\* the job's task is alive
Working == Investigating \cup Reporting \cup {"finish", "recorded"}
PCs == {"idle", "asked"} \cup Working
         \cup {"unwinding", "unregistered", "ended"}

\* DoneReason. Only these three are ever asked about; the token budget, the
\* context window, unusable replies and repeated calls are "other".
Reasons == {"finalized", "budget_exhausted", "time_exhausted", "other"}

\* A plan with fewer items than a sectioned report needs is "short".
Plans == {"none", "short", "sections"}

(* A report: words say whether it is the first one, a rewritten one, or the account
   the server writes when there is none; shape, what its Markdown is like.  It has
   a heading ("headed"), or lacks one and nothing else ("bare"), or has a defect that
   no heading would mend ("broken"). *)
Text == [words : {"draft", "rewrite", "notice"}, shape : {"headed", "bare", "broken"}]
NoText == [words |-> "nothing", shape |-> "broken"]

(* job, work, writing say which tokens were cancelled on their own account.
   looked is rv.steps. cited is the text `citations` was computed from, seen
   the last whole text the client was sent; torn says that part of a text was
   sent that was then given up. frame is the number of the last step frame.
   early is a history variable: the run was cancelled when its report phase
   began, or when a section of the report was given up. *)
Record ==
  [pc : PCs, kind : AllKinds, delivery : AllDeliveries,
   client : {"reading", "leaving", "gone"},
   job : BOOLEAN, work : BOOLEAN, writing : BOOLEAN,
   steps : Nat, retries : Nat, dups : Nat, reopens : Nat, checks : Nat,
   last : Nat, reason : Reasons, plan : Plans, banked : BOOLEAN,
   calls : Nat, attempts : Nat, left : Nat, turns : Nat,
   looked : Nat, written : BOOLEAN, sectioned : BOOLEAN, forced : BOOLEAN,
   report : Text \cup {NoText}, cited : Text \cup {NoText},
   seen : Text \cup {NoText}, torn : BOOLEAN,
   frame : Nat, early : BOOLEAN, stored : BOOLEAN,
   terminal : {"none", "done", "error"}, panicked : BOOLEAN]

Unasked ==
  [pc |-> "idle", kind |-> "research", delivery |-> "stream",
   client |-> "reading", job |-> FALSE, work |-> FALSE, writing |-> FALSE,
   steps |-> 0, retries |-> 0, dups |-> 0, reopens |-> 0, checks |-> 0,
   last |-> 0, reason |-> "finalized", plan |-> "none", banked |-> FALSE,
   calls |-> 0, attempts |-> 0, left |-> 0, turns |-> 0,
   looked |-> 0, written |-> FALSE, sectioned |-> FALSE, forced |-> FALSE,
   report |-> NoText, cited |-> NoText, seen |-> NoText, torn |-> FALSE,
   frame |-> 0, early |-> FALSE, stored |-> FALSE, terminal |-> "none",
   panicked |-> FALSE]

-----------------------------------------------------------------------------
At(r, pc) == run[r].pc = pc

Become(r, record) == run' = [run EXCEPT ![r] = record]

\* The receiver is alive. A stream's Drop cancels the token and then drops the
\* receiver; a JSON handler's future drops the receiver and then the guard that
\* cancels the token.
Open(r) ==
  \/ run[r].client = "reading"
  \/ run[r].client = "leaving" /\ run[r].delivery = "stream"

Fired(r, token) == run[r].job \/ run[r][token]

\* Err(Cancelled): the run ends without a word.
Abort(r) == Become(r, [run[r] EXCEPT !.pc = "unwinding"])

\* Err(Failed): the run ends with an error frame.
Failed(r) == [run[r] EXCEPT !.pc = "unwinding", !.terminal = "error"]
Fail(r) == Become(r, Failed(r))

\* send: a closed channel cancels the job and aborts the run.
Send(r, record) ==
  Become(r, IF Open(r) THEN record
            ELSE [run[r] EXCEPT !.pc = "unwinding", !.job = TRUE])

-----------------------------------------------------------------------------
(* chat_turn: one turn of the model under a token. It completes unless the
   token fires first; a delta that finds the channel closed cancels the token
   it was given, which is never the job's. *)
Completes(r, token) == ~Fired(r, token)

Cut(r, token) == Fired(r, token) \/ ~Open(r)

(* MUTANT of DeadlineStops: the job's token is not ruled out first. *)
AnyStops(r, token) == Cut(r, token)

\* is_deadline_stop: cut, and the job's own token is not cancelled.
DeadlineStops(r, token) == Cut(r, token) /\ ~run[r].job

(* MUTANT of TurnFails: a cancelled turn is passed on without a question. *)
TurnFailsOnDeadline(r, token) ==
  \/ Cut(r, token) /\ Abort(r)
  \/ "ollama" \in Faults /\ Completes(r, token) /\ Fail(r)

\* Any other failure of a turn that its caller passes on.
TurnFails(r, token) ==
  \/ run[r].job /\ Abort(r)
  \/ "ollama" \in Faults /\ Completes(r, token) /\ Fail(r)
=============================================================================
