----------------------- MODULE ResearchInvestigation -----------------------
(***************************************************************************)
(* The first half of research_inner: the plan turn, the tool loop with its *)
(* budgets and counters, checkpoints, and the sufficiency check that may   *)
(* open the loop again. What the model answers is a free choice; so is     *)
(* whether the token budget or the context window is used up.              *)
(***************************************************************************)
EXTENDS ResearchJob

\* The first progress frame.
Start(r) ==
  /\ At(r, "start")
  /\ Send(r, [run[r] EXCEPT !.pc = "plan"])

\* The plan turn: a failed plan is no plan, a failed call is a failed run.
PlanTurn(r) ==
  /\ At(r, "plan")
  /\ \/ /\ Completes(r, "work")
        /\ \E p \in Plans : Become(r, [run[r] EXCEPT !.pc = "turn", !.plan = p])
     \/ /\ DeadlineStops(r, "work")
        /\ Become(r, [run[r] EXCEPT !.pc = "turn", !.work = TRUE])
     \/ TurnFails(r, "work")

-----------------------------------------------------------------------------
LeaveLoop(r, reason) ==
  [run[r] EXCEPT !.pc = "assess", !.reason = reason, !.calls = 0]

\* The checks at the top of the loop. The clock is read, not the token: time can
\* be up before the timer's task has run.
OutOfBudget(r) ==
  \/ /\ run[r].steps >= MaxSteps
     /\ Become(r, LeaveLoop(r, "budget_exhausted"))
  \/ /\ run[r].steps < MaxSteps
     /\ \E reason \in {"time_exhausted", "other"} :
           Become(r, LeaveLoop(r, reason))

\* The turn's outcomes: tool calls, prose (an answer), a call written as
\* prose, nothing.
TurnAnswered(r) ==
  \/ \E n \in 1..MaxCalls :
        Send(r, [run[r] EXCEPT !.pc = "batch", !.calls = n])
  \/ Send(r, LeaveLoop(r, "finalized"))
  \/ Send(r, Failed(r))
  \/ IF run[r].retries < MaxParseRetries
     THEN Send(r, [run[r] EXCEPT !.retries = @ + 1])
     ELSE Send(r, LeaveLoop(r, "other"))

Turn(r) ==
  /\ At(r, "turn")
  /\ \/ OutOfBudget(r)
     \/ /\ run[r].steps < MaxSteps
        /\ \/ Completes(r, "work") /\ TurnAnswered(r)
           \/ /\ DeadlineStops(r, "work")
              /\ Become(r, LeaveLoop(r, "time_exhausted"))
           \/ TurnFails(r, "work")

-----------------------------------------------------------------------------
(* The calls of one turn, in order. A call is answered by taking it off
   `calls`; leaving the loop in between leaves the rest unanswered. *)

\* An unknown tool or bad arguments.
UnmappedCall(r) ==
  IF run[r].retries < MaxParseRetries
  THEN Become(r, [run[r] EXCEPT !.calls = @ - 1, !.retries = @ + 1])
  ELSE Become(r, [LeaveLoop(r, "other") EXCEPT !.retries = @ + 1])

FinalizeCall(r) == Become(r, LeaveLoop(r, "finalized"))

\* There is an earlier call to repeat: one that was a step, or one this batch
\* refused.
Repeatable(r) == run[r].steps > 0 \/ run[r].reason # "finalized"

(* MUTANT of DuplicateCall: a refusal costs nothing. *)
DuplicateForFree(r) ==
  /\ Repeatable(r)
  /\ Become(r, [run[r] EXCEPT !.calls = @ - 1])

DuplicateCall(r) ==
  /\ Repeatable(r)
  /\ IF run[r].dups < MaxDuplicateCalls
     THEN Become(r, [run[r] EXCEPT !.calls = @ - 1, !.dups = @ + 1])
     ELSE Become(r, [LeaveLoop(r, "other") EXCEPT !.dups = @ + 1])

Refuse(r, reason) ==
  Become(r, [run[r] EXCEPT !.calls = @ - 1, !.reason = reason])

Stepped(r) ==
  [run[r] EXCEPT !.calls = @ - 1, !.steps = @ + 1, !.frame = run[r].steps + 1]

\* note and revise_plan. An empty revision changes nothing.
LocalCall(r) ==
  \/ Send(r, Stepped(r))
  \/ \E p \in Plans \ {"none"} : Send(r, [Stepped(r) EXCEPT !.plan = p])

\* A lookup under `work`.
LookupCall(r) ==
  \/ Send(r, Stepped(r))
  \/ "index" \in Faults /\ Fail(r)

(* MUTANT of FreshCall: the budget is off by one. *)
FreshCallLate(r) ==
  \/ run[r].steps > MaxSteps /\ Refuse(r, "budget_exhausted")
  \/ /\ run[r].steps <= MaxSteps
     /\ ~Fired(r, "work")
     /\ LocalCall(r) \/ LookupCall(r)

\* A new call: refused when a budget is gone -- by the clock, or by
\* work.is_cancelled(), which is also true of a run that was cancelled -- and
\* executed otherwise. A lookup that the deadline cuts off is refused just so;
\* one that was cancelled aborts.
FreshCall(r) ==
  \/ run[r].steps >= MaxSteps /\ Refuse(r, "budget_exhausted")
  \/ /\ run[r].steps < MaxSteps
     /\ \/ Refuse(r, "time_exhausted")
        \/ run[r].job /\ Abort(r)
        \/ ~Fired(r, "work") /\ (LocalCall(r) \/ LookupCall(r))

ToolCall(r) ==
  /\ At(r, "batch")
  /\ run[r].calls > 0
  /\ \/ UnmappedCall(r)
     \/ FinalizeCall(r)
     \/ DuplicateCall(r)
     \/ FreshCall(r)

-----------------------------------------------------------------------------
Exhausted(r) == run[r].reason \in {"budget_exhausted", "time_exhausted"}

CheckpointDue(r) ==
  /\ CheckpointEvery > 0
  /\ run[r].checks < MaxCheckpoints
  /\ run[r].steps > 0
  /\ run[r].steps - run[r].last >= CheckpointEvery
  /\ run[r].plan # "none"
  /\ ~Exhausted(r)

\* After the batch: a checkpoint, the report, or the next turn.
BatchDone(r) ==
  /\ At(r, "batch")
  /\ run[r].calls = 0
  /\ IF CheckpointDue(r)
     THEN Become(r, [run[r] EXCEPT !.pc = "checkpoint",
                                   !.last = run[r].steps,
                                   !.checks = @ + 1, !.steps = @ + 1])
     ELSE Become(r, [run[r] EXCEPT
                       !.pc = IF Exhausted(r) THEN "assess" ELSE "turn"])

\* The checkpoint turn banks sections, or nothing.
Checkpoint(r) ==
  /\ At(r, "checkpoint")
  /\ \/ /\ Completes(r, "work")
        /\ \E b \in {run[r].banked, TRUE} :
              Send(r, [run[r] EXCEPT !.pc = "turn", !.banked = b])
     \/ /\ DeadlineStops(r, "work")
        /\ Send(r, [run[r] EXCEPT !.pc = "turn", !.work = TRUE])
     \/ TurnFails(r, "work")

-----------------------------------------------------------------------------
\* The report phase opens: locals of the investigation are dead from here on.
OpenReport(r) ==
  LET sectioned == run[r].plan = "sections"
  IN [run[r] EXCEPT !.pc = IF sectioned THEN "section" ELSE "draft",
                    !.sectioned = sectioned,
                    !.left = IF sectioned THEN Sections ELSE 0,
                    !.early = run[r].job,
                    !.reason = IF @ = "finalized" THEN @ ELSE "other",
                    !.plan = "none", !.work = FALSE, !.retries = 0,
                    !.dups = 0, !.reopens = 0, !.checks = 0, !.last = 0]

\* The sufficiency check: asked of a run with a plan that chose to stop. An
\* open item opens the tools once more, if there is room.
Assess(r) ==
  /\ At(r, "assess")
  /\ IF run[r].plan = "none" \/ run[r].reason # "finalized"
     THEN Become(r, OpenReport(r))
     ELSE \/ Completes(r, "work") /\ Become(r, OpenReport(r))
          \/ /\ Completes(r, "work")
             /\ run[r].reopens < MaxReopens
             /\ run[r].steps < MaxSteps
             /\ Become(r, [run[r] EXCEPT !.pc = "turn", !.reopens = @ + 1])
          \/ DeadlineStops(r, "work") /\ Become(r, OpenReport(r))
          \/ TurnFails(r, "work")

InvestigationStep(r) ==
  \/ Start(r) \/ PlanTurn(r) \/ Turn(r) \/ ToolCall(r)
  \/ BatchDone(r) \/ Checkpoint(r) \/ Assess(r)
=============================================================================
