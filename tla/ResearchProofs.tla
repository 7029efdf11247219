--------------------------- MODULE ResearchProofs ---------------------------
(***************************************************************************)
(* Slots and the list of active runs agree with the runs at work, and what *)
(* a run promises of its text, its journal and its budgets, for any number *)
(* of requests, slots, steps and retries, under every fault.               *)
(*                                                                         *)
(* SlotsMatchRuns is not inductive: it does not say that a run is listed   *)
(* until it has unwound, that a request holds its permit from its handler  *)
(* on, nor that permits are finitely many. SlotInv adds these.             *)
(*                                                                         *)
(* What a run promises is a matter of its own record. RunGood says of it   *)
(* what holds at each place of research_inner; the steps of a run fall     *)
(* into a few kinds (Investigated, Moved, Stopped, Finished, Aside), each  *)
(* of which keeps RunGood.                                                 *)
(*                                                                         *)
(* That a run is finite: Position, its place and what its counters leave,  *)
(* grows lexicographically with each step that is not a disturbance.       *)
(***************************************************************************)
EXTENDS ResearchProperties, FiniteSetTheorems, TLAPS

\* The job's task has not ended.
Alive == Working \cup {"unwinding"}

\* Each request has a record with a place in it.
Tracked ==
  /\ run = [r \in Runs |-> run[r]]
  /\ \A r \in Runs : "pc" \in DOMAIN run[r]

SlotInv ==
  /\ Tracked
  /\ permits \subseteq Runs
  /\ IsFiniteSet(permits)
  /\ Cardinality(permits) <= MaxConcurrent
  /\ registry \subseteq permits
  /\ \A r \in Runs :
        /\ r \in registry <=> run[r].pc \in Alive
        /\ run[r].pc \in {"idle", "ended"} <=> r \notin permits

\* What a step of a live run does to slots: nothing, and the run stays alive.
Passed(r) ==
  /\ run' = [run EXCEPT ![r] = run'[r]]
  /\ "pc" \in DOMAIN run'[r]
  /\ run'[r].pc \in Alive

-----------------------------------------------------------------------------
\* SlotInv says what SlotsMatchRuns promises.
LEMMA SlotInvSuffices == SlotInv => SlotsMatchRuns
  BY DEF SlotInv, SlotsMatchRuns, Alive

\* Before the first request every slot is free.
LEMMA SlotInvInit == Init => SlotInv
<1>. SUFFICES ASSUME Init PROVE SlotInv
  OBVIOUS
<1>1. /\ Tracked
      /\ \A r \in Runs : run[r].pc = "idle"
  BY DEF Init, Tracked, Unasked
<1>2. permits = {} /\ registry = {}
  BY DEF Init
<1>3. IsFiniteSet({}) /\ Cardinality({}) = 0
  BY FS_EmptySet
<1>4. "idle" \notin Alive
  BY DEF Alive, Working, Investigating, Reporting
<1>. QED
  BY <1>1, <1>2, <1>3, <1>4, MaxConcurrentAssumption DEF SlotInv

-----------------------------------------------------------------------------
(* Steps of a live run. *)

\* A live run that is given a live record has passed.
LEMMA BecomePasses ==
  ASSUME NEW r \in Runs, Tracked, NEW rec, "pc" \in DOMAIN rec,
         rec.pc \in Alive, Become(r, rec)
  PROVE  Passed(r)
  BY DEF Tracked, Passed, Become

\* research_inner up to the report: no outcome of a turn or a call takes a run
\* out of its task other than by unwinding.
LEMMA InvestigationPasses ==
  ASSUME NEW r \in Runs, Tracked, InvestigationStep(r)
  PROVE  Passed(r)
<1>. "pc" \in DOMAIN run[r]
  BY DEF Tracked
<1>. USE DEF Tracked, Passed, At, Become, Send, Failed, Fail, Abort, Alive,
             Working, Investigating, Reporting, LeaveLoop
<1>1. CASE Start(r)
  BY <1>1 DEF Start
<1>2. CASE PlanTurn(r)
  BY <1>2 DEF PlanTurn, TurnFails
<1>3. CASE Turn(r)
  BY <1>3, ZenonT(40) DEF Turn, OutOfBudget, TurnAnswered, TurnFails
<1>4. CASE ToolCall(r)
  <2>1. CASE UnmappedCall(r)
    BY <1>4, <2>1 DEF ToolCall, UnmappedCall
  <2>2. CASE FinalizeCall(r)
    BY <1>4, <2>2 DEF ToolCall, FinalizeCall
  <2>3. CASE DuplicateCall(r)
    BY <1>4, <2>3 DEF ToolCall, DuplicateCall
  <2>4. CASE FreshCall(r)
    BY <1>4, <2>4 DEF ToolCall, FreshCall, Refuse, LocalCall, LookupCall, Stepped
  <2>. QED
    BY <1>4, <2>1, <2>2, <2>3, <2>4 DEF ToolCall
<1>5. CASE BatchDone(r)
  <2>1. CASE CheckpointDue(r)
    <3>1. Become(r, [run[r] EXCEPT !.pc = "checkpoint", !.last = run[r].steps,
                                   !.checks = @ + 1, !.steps = @ + 1])
      BY <1>5, <2>1 DEF BatchDone
    <3>. QED
      BY <3>1
  <2>2. CASE ~CheckpointDue(r)
    <3>. DEFINE pc == IF Exhausted(r) THEN "assess" ELSE "turn"
    <3>1. pc \in Alive
      OBVIOUS
    <3>2. Become(r, [run[r] EXCEPT !.pc = pc])
      BY <1>5, <2>2 DEF BatchDone
    <3>. HIDE DEF pc
    <3>. QED
      BY <3>1, <3>2
  <2>. QED
    BY <2>1, <2>2
<1>6. CASE Checkpoint(r)
  BY <1>6 DEF Checkpoint, TurnFails
<1>7. CASE Assess(r)
  <2>1. /\ "pc" \in DOMAIN OpenReport(r)
        /\ OpenReport(r).pc \in {"section", "draft"}
    BY DEF OpenReport
  <2>2. CASE Become(r, OpenReport(r))
    BY <2>1, <2>2
  <2>3. CASE Become(r, [run[r] EXCEPT !.pc = "turn", !.reopens = @ + 1])
    BY <2>3
  <2>4. CASE TurnFails(r, "work")
    BY <2>4 DEF TurnFails
  <2>. QED
    BY <1>7, <2>2, <2>3, <2>4 DEF Assess
<1>. QED
  BY <1>1, <1>2, <1>3, <1>4, <1>5, <1>6, <1>7 DEF InvestigationStep

\* The repair of a report goes on in one of two places.
LEMMA RepairAlive ==
  ASSUME NEW r, "pc" \in DOMAIN run[r]
  PROVE  /\ "pc" \in DOMAIN Repair(r)
         /\ Repair(r).pc \in {"resection", "rewrite"}
  BY DEF Repair, GoTo

\* The same of the report phase and the end of run_research.
LEMMA ReportPasses ==
  ASSUME NEW r \in Runs, Tracked, ReportStep(r)
  PROVE  Passed(r)
<1>. "pc" \in DOMAIN run[r]
  BY DEF Tracked
<1>. USE DEF Tracked, Passed, At, Become, Send, Failed, Fail, Abort, Alive,
             Working, Investigating, Reporting, GoTo
<1>1. CASE SectionTurn(r)
  BY <1>1 DEF SectionTurn, FallBack, Wrote, GaveUp
<1>2. CASE SectionsDone(r)
  BY <1>2 DEF SectionsDone, Drafted
<1>3. CASE Draft(r)
  BY <1>3 DEF Draft, Drafted, EmptyDraft, DeadlineForces, Forced, TurnFails
<1>4. CASE Redraft(r)
  BY <1>4 DEF Redraft, Drafted, DeadlineForces, Forced, TurnFails
<1>5. CASE Gate(r)
  BY <1>5, RepairAlive DEF Gate
<1>6. CASE Recheck(r)
  <2>1. CASE Become(r, Repair(r))
    BY <2>1, RepairAlive
  <2>2. ASSUME NEW n \in 1..MaxCalls,
               Become(r, [run[r] EXCEPT !.pc = "recheck_batch",
                                        !.calls = n, !.turns = @ + 1])
        PROVE  Passed(r)
    BY <2>2
  <2>3. CASE Abort(r)
    BY <2>3
  <2>. QED
    BY <1>6, <2>1, <2>2, <2>3 DEF Recheck
<1>7. CASE RecheckCall(r)
  BY <1>7 DEF RecheckCall
<1>8. CASE RecheckBatchDone(r)
  BY <1>8 DEF RecheckBatchDone
<1>9. CASE Rewrite(r)
  BY <1>9 DEF Rewrite, SendRewrite, Rewritten, EmptyRewrite, RewriteLost, Tear
<1>10. CASE Rerewrite(r)
  BY <1>10 DEF Rerewrite, SendRewrite, Rewritten, RewriteLost, Tear
<1>11. CASE ResectionTurn(r)
  BY <1>11 DEF ResectionTurn, Wrote, GaveUp
<1>12. CASE ResectionDone(r)
  <2>. PICK text \in IF run[r].written THEN Assembled("rewrite") ELSE {run[r].report} :
         Become(r, [GoTo(r, "ship") EXCEPT !.report = text, !.cited = text,
                                           !.written = FALSE])
    BY <1>12 DEF ResectionDone
  <2>. QED
    OBVIOUS
<1>13. CASE Ship(r)
  BY <1>13 DEF Ship
<1>14. CASE Verdict(r)
  BY <1>14 DEF Verdict, TurnFails
<1>15. CASE Finish(r)
  BY <1>15 DEF Finish
<1>16. CASE Done(r)
  BY <1>16 DEF Done
<1>. QED
  BY <1>1, <1>2, <1>3, <1>4, <1>5, <1>6, <1>7, <1>8, <1>9, <1>10, <1>11,
     <1>12, <1>13, <1>14, <1>15, <1>16 DEF ReportStep

\* The same of panics, timers, DELETE, the watchdog and clients: none of them
\* touches the list or the permits.
LEMMA EnvironmentPasses ==
  ASSUME NEW r \in Runs, SlotInv, Environment(r)
  PROVE  Passed(r) /\ SlotsUnchanged
<1>1. Tracked /\ "pc" \in DOMAIN run[r]
  BY DEF SlotInv, Tracked
<1>2. r \in registry => run[r].pc \in Alive
  BY DEF SlotInv
<1>. USE <1>1 DEF Tracked, Passed, Become, Alive, Working, Cancelled
<1>3. CASE Panic(r)
  BY <1>3 DEF Panic, Unasked
<1>4. CASE WorkExpires(r)
  BY <1>4 DEF WorkExpires
<1>5. CASE WindowExpires(r)
  BY <1>5 DEF WindowExpires
<1>6. CASE Delete(r)
  BY <1>2, <1>6 DEF Delete
<1>7. CASE Reap(r)
  BY <1>2, <1>7 DEF Reap
<1>8. CASE ClientLeaves(r)
  BY <1>8 DEF ClientLeaves
<1>. QED
  BY <1>3, <1>4, <1>5, <1>6, <1>7, <1>8 DEF Environment

-----------------------------------------------------------------------------
\* A step that keeps a live run alive disturbs no slot.
LEMMA PassedKeepsSlots ==
  ASSUME NEW r \in Runs, SlotInv, Passed(r), SlotsUnchanged, run[r].pc \in Alive
  PROVE  SlotInv'
<1>1. Tracked'
  BY DEF SlotInv, Tracked, Passed
<1>2. \A s \in Runs : run'[s].pc = run[s].pc \/ s = r
  BY DEF SlotInv, Tracked, Passed
<1>3. {"idle", "ended"} \cap Alive = {}
  BY DEF Alive, Working, Investigating, Reporting
<1>. QED
  BY <1>1, <1>2, <1>3 DEF SlotInv, SlotsUnchanged, Passed

\* Only a run whose task has not ended takes these steps.
LEMMA StepsAreAlive ==
  ASSUME NEW r \in Runs, SlotInv, RunStep(r) \/ Environment(r)
  PROVE  run[r].pc \in Alive
<1>. USE DEF Alive, Working, Investigating, Reporting
<1>1. CASE InvestigationStep(r)
  BY <1>1 DEF InvestigationStep, At, Start, PlanTurn, Turn, ToolCall, BatchDone,
              Checkpoint, Assess
<1>2. CASE ReportStep(r)
  BY <1>2 DEF ReportStep, At, SectionTurn, SectionsDone, Draft, Redraft, Gate,
              Recheck, RecheckCall, RecheckBatchDone, Rewrite, Rerewrite,
              ResectionTurn, ResectionDone, Ship, Verdict, Finish, Done
<1>3. CASE Environment(r)
  BY <1>3 DEF SlotInv, Environment, Panic, WorkExpires, WindowExpires, Delete,
              Reap, ClientLeaves
<1>. QED
  BY <1>1, <1>2, <1>3 DEF RunStep

-----------------------------------------------------------------------------
(* Steps that take or give back a slot. *)

\* try_acquire_owned: a permit is taken only while one is free.
LEMMA AdmitKeepsSlots ==
  ASSUME NEW r \in Runs, SlotInv, Admit(r)
  PROVE  SlotInv'
<1>1. r \notin permits /\ r \notin registry
  BY DEF SlotInv, Admit, At
<1>2. Cardinality(permits \cup {r}) = Cardinality(permits) + 1
      /\ IsFiniteSet(permits \cup {r}) /\ Cardinality(permits) \in Nat
  BY <1>1, FS_AddElement, FS_CardinalityType DEF SlotInv
<1>3. IsFiniteSet(permits)' /\ (Cardinality(permits) <= MaxConcurrent)'
  BY <1>2, MaxConcurrentAssumption DEF Admit
<1>4. /\ Tracked'
      /\ run'[r].pc = "asked"
      /\ \A s \in Runs \ {r} : run'[s] = run[s]
  BY DEF SlotInv, Tracked, Admit, Become
<1>5. "asked" \notin Alive
  BY DEF Alive, Working, Investigating, Reporting
<1>. QED
  BY <1>1, <1>3, <1>4, <1>5 DEF SlotInv, Admit

\* The run is listed by a handler that holds its permit.
LEMMA LaunchKeepsSlots ==
  ASSUME NEW r \in Runs, SlotInv, Launch(r)
  PROVE  SlotInv'
<1>1. r \in permits
  BY DEF SlotInv, Launch, At
<1>2. /\ Tracked'
      /\ run'[r].pc = "start"
      /\ \A s \in Runs \ {r} : run'[s] = run[s]
  BY DEF SlotInv, Tracked, Launch, Become
<1>3. "start" \in Alive \ {"idle", "ended"}
  BY DEF Alive, Working, Investigating
<1>. QED
  BY <1>1, <1>2, <1>3 DEF SlotInv, Launch

\* InflightGuard::drop: the entry goes, and the permit is still held.
LEMMA UnregisterKeepsSlots ==
  ASSUME NEW r \in Runs, SlotInv, Unregister(r)
  PROVE  SlotInv'
<1>1. r \in permits
  BY DEF SlotInv, Unregister, At
<1>2. /\ Tracked'
      /\ run'[r].pc = "unregistered"
      /\ \A s \in Runs \ {r} : run'[s] = run[s]
  BY DEF SlotInv, Tracked, Unregister, Become
<1>3. "unregistered" \notin Alive \cup {"idle", "ended"}
  BY DEF Alive, Working, Investigating, Reporting
<1>. QED
  BY <1>1, <1>2, <1>3 DEF SlotInv, Unregister

\* The handler or the job's task is gone, and the permit with it.
LEMMA OverKeepsSlots ==
  ASSUME NEW r \in Runs, SlotInv, DropHandler(r) \/ Release(r)
  PROVE  SlotInv'
<1>1. /\ Over(r)
      /\ permits' = permits \ {r}
      /\ registry' = registry
      /\ run[r].pc \in {"asked", "unregistered"}
  BY DEF DropHandler, Release, At
<1>2. {"asked", "unregistered", "ended"} \cap Alive = {}
  BY DEF Alive, Working, Investigating, Reporting
<1>3. r \notin registry
  BY <1>1, <1>2 DEF SlotInv
<1>4. /\ IsFiniteSet(permits \ {r})
      /\ Cardinality(permits \ {r}) <= Cardinality(permits)
  BY FS_Subset DEF SlotInv
<1>5. Cardinality(permits) \in Nat /\ Cardinality(permits \ {r}) \in Nat
  BY <1>4, FS_CardinalityType DEF SlotInv
<1>6. IsFiniteSet(permits)' /\ (Cardinality(permits) <= MaxConcurrent)'
  BY <1>1, <1>4, <1>5, MaxConcurrentAssumption DEF SlotInv
<1>7. /\ Tracked'
      /\ run'[r].pc = "ended"
      /\ \A s \in Runs \ {r} : run'[s] = run[s]
  BY <1>1 DEF SlotInv, Tracked, Over, Unasked, Become
<1>. QED
  BY <1>1, <1>2, <1>3, <1>6, <1>7 DEF SlotInv

-----------------------------------------------------------------------------
\* Every step keeps SlotInv.
LEMMA SlotInvNext == SlotInv /\ [Next]_vars => SlotInv'
<1>1. ASSUME SlotInv, NEW r \in Runs, Admit(r)
      PROVE  SlotInv'
  BY <1>1, AdmitKeepsSlots
<1>2. ASSUME SlotInv, NEW r \in Runs, DropHandler(r) \/ Release(r)
      PROVE  SlotInv'
  BY <1>2, OverKeepsSlots
<1>3. ASSUME SlotInv, NEW r \in Runs, Launch(r)
      PROVE  SlotInv'
  BY <1>3, LaunchKeepsSlots
<1>4. ASSUME SlotInv, NEW r \in Runs, Unregister(r)
      PROVE  SlotInv'
  BY <1>4, UnregisterKeepsSlots
<1>5. ASSUME SlotInv, NEW r \in Runs, RunStep(r)
      PROVE  SlotInv'
  <2>1. Tracked /\ SlotsUnchanged
    BY <1>5 DEF SlotInv, RunStep
  <2>2. Passed(r)
    BY <1>5, <2>1, InvestigationPasses, ReportPasses DEF RunStep
  <2>. QED
    BY <1>5, <2>1, <2>2, StepsAreAlive, PassedKeepsSlots
<1>6. ASSUME SlotInv, NEW r \in Runs, Environment(r)
      PROVE  SlotInv'
  BY <1>6, EnvironmentPasses, StepsAreAlive, PassedKeepsSlots
<1>7. ASSUME SlotInv, UNCHANGED vars
      PROVE  SlotInv'
  BY <1>7 DEF SlotInv, Tracked, vars
<1>. QED
  BY <1>1, <1>2, <1>3, <1>4, <1>5, <1>6, <1>7 DEF Next

(* launch_research_job never admits more runs than it has slots, whoever works
   is listed and holds a slot, and whoever is listed holds one: however runs
   end -- done, failed, cancelled, panicked, abandoned by the client at any
   moment -- no slot leaks and the list does not lie. *)
THEOREM SlotsAlwaysMatch == Spec => []SlotsMatchRuns
<1>1. Init => SlotInv
  BY SlotInvInit
<1>2. SlotInv /\ [Next]_vars => SlotInv'
  BY SlotInvNext
<1>3. SlotInv => SlotsMatchRuns
  BY SlotInvSuffices
<1>. QED
  BY <1>1, <1>2, <1>3, PTL DEF Spec

-----------------------------------------------------------------------------
(* What a run's own record obeys, apart from slots. *)

\* Each run has a record with all its fields.
Shaped ==
  /\ run = [r \in Runs |-> run[r]]
  /\ \A r \in Runs : DOMAIN run[r] = DOMAIN Unasked

\* The places of the report phase without a report.
Undrafted == {"section", "draft", "redraft"}

\* A batch begins below the budget; only a checkpoint may end above it.
InLoop(x) ==
  /\ x.steps \in Nat /\ x.steps <= MaxSteps + 1
  /\ x.pc = "batch" => x.steps <= MaxSteps

\* The investigation touches no text, no verdict and no count of the check.
SameText(x, y) ==
  /\ DOMAIN y = DOMAIN x
  /\ y.kind = x.kind /\ y.report = x.report /\ y.seen = x.seen
  /\ y.cited = x.cited /\ y.stored = x.stored /\ y.looked = x.looked
  /\ y.panicked = x.panicked

\* What a step of research_inner up to the report may do to a run: it goes on,
\* it ends for a reason, or the report phase opens.
Investigated(x, y) ==
  /\ SameText(x, y)
  /\ InLoop(y)
  /\ \/ y.frame = x.frame /\ y.steps \in {x.steps, x.steps + 1}
     \/ y.frame = x.steps + 1 /\ y.steps = x.steps + 1
  /\ \/ /\ y.pc \in Investigating
        /\ y.terminal = x.terminal /\ y.early = x.early /\ y.sectioned = x.sectioned
     \/ /\ y.pc = "unwinding"
        /\ y.early = x.early /\ y.sectioned = x.sectioned
        /\ \/ y.terminal = "error"
           \/ y.terminal = x.terminal /\ y.job = TRUE
     \/ /\ y.pc = IF y.sectioned = TRUE THEN "section" ELSE "draft"
        /\ y.sectioned \in BOOLEAN
        /\ y.terminal = x.terminal /\ y.early = x.job /\ y.job = x.job

\* What Send makes of a run whose channel is closed.
Undelivered(r) == [run[r] EXCEPT !.pc = "unwinding", !.job = TRUE]

\* The fields the proofs read.
LEMMA Fields ==
  ASSUME NEW r \in Runs, Shaped
  PROVE  {"pc", "kind", "delivery", "client", "job", "work", "writing", "steps",
          "retries", "dups", "reopens", "checks", "last", "reason", "plan",
          "banked", "calls", "attempts", "left", "turns", "looked", "written",
          "sectioned", "forced", "report", "cited", "seen", "torn", "frame",
          "early", "stored", "terminal", "panicked"} \subseteq DOMAIN run[r]
  BY DEF Shaped, Unasked

\* A run is what it becomes.
LEMMA Becomes ==
  ASSUME NEW r \in Runs, Shaped, NEW rec, Become(r, rec)
  PROVE  run'[r] = rec
  BY DEF Become, Shaped

\* A frame that is sent goes through, or ends the run as cancelled.
LEMMA Sends ==
  ASSUME NEW r \in Runs, Shaped, NEW rec, Send(r, rec)
  PROVE  run'[r] = rec \/ run'[r] = Undelivered(r)
  BY DEF Send, Undelivered, Become, Shaped

\* The loop is left for any reason.
LEMMA LeavingLoop ==
  ASSUME NEW r \in Runs, Shaped, InLoop(run[r]), NEW reason
  PROVE  Investigated(run[r], LeaveLoop(r, reason))
  BY Fields DEF Investigated, SameText, InLoop, LeaveLoop, Investigating

\* A failed run has its error frame, an aborted one was cancelled.
LEMMA Stopping ==
  ASSUME NEW r \in Runs, Shaped, InLoop(run[r])
  PROVE  /\ Investigated(run[r], Failed(r))
         /\ Investigated(run[r], Undelivered(r))
         /\ run[r].job => Investigated(run[r], [run[r] EXCEPT !.pc = "unwinding"])
  BY Fields DEF Investigated, SameText, InLoop, Failed, Undelivered

\* A turn that fails, or is aborted by a cancelled run.
LEMMA Failing ==
  ASSUME NEW r \in Runs, Shaped, InLoop(run[r]), TurnFails(r, "work")
  PROVE  Investigated(run[r], run'[r])
  BY Becomes, Stopping DEF TurnFails, Abort, Fail

\* OpenReport notes whether the run was cancelled.
LEMMA Opening ==
  ASSUME NEW r \in Runs, Shaped, InLoop(run[r])
  PROVE  Investigated(run[r], OpenReport(r))
  BY Fields DEF OpenReport, Investigated, SameText, InLoop, Investigating


\* A step below the budget stays within it.
LEMMA Stepping ==
  ASSUME NEW r \in Runs, Shaped, InLoop(run[r]), run[r].steps < MaxSteps,
         At(r, "batch")
  PROVE  /\ Investigated(run[r], Stepped(r))
         /\ \A p : Investigated(run[r], [Stepped(r) EXCEPT !.plan = p])
  BY Fields, ResearchBoundsAssumption
     DEF Stepped, Investigated, SameText, InLoop, Investigating, At

\* Every step of the investigation is of this kind.
LEMMA InvestigationDoes ==
  ASSUME NEW r \in Runs, Shaped, InLoop(run[r]), InvestigationStep(r)
  PROVE  Investigated(run[r], run'[r])
<1>. USE Fields, Becomes, Sends, Stopping DEF At
<1>a. \A n \in {MaxSteps} : n \in Nat
  BY ResearchBoundsAssumption
<1>1. CASE Start(r)
  <2>1. Investigated(run[r], [run[r] EXCEPT !.pc = "plan"])
    BY DEF Investigated, SameText, InLoop, Investigating
  <2>. QED
    BY <1>1, <2>1 DEF Start
<1>2. CASE PlanTurn(r)
  <2>1. /\ \A p : Investigated(run[r], [run[r] EXCEPT !.pc = "turn", !.plan = p])
        /\ Investigated(run[r], [run[r] EXCEPT !.pc = "turn", !.work = TRUE])
    BY DEF Investigated, SameText, InLoop, Investigating
  <2>2. ASSUME NEW p \in Plans,
               Become(r, [run[r] EXCEPT !.pc = "turn", !.plan = p])
        PROVE  Investigated(run[r], run'[r])
    BY <2>1, <2>2
  <2>. QED
    BY <1>2, <2>1, <2>2, Failing DEF PlanTurn
<1>3. CASE Turn(r)
  <2>1. CASE OutOfBudget(r)
    BY <2>1, LeavingLoop DEF OutOfBudget
  <2>2. CASE run[r].steps < MaxSteps /\ TurnAnswered(r)
    <3>1. ASSUME NEW n \in 1..MaxCalls
          PROVE Investigated(run[r], [run[r] EXCEPT !.pc = "batch", !.calls = n])
      BY <1>3, <2>2, <1>a DEF Turn, Investigated, SameText, InLoop, Investigating
    <3>2. Investigated(run[r], [run[r] EXCEPT !.retries = @ + 1])
      BY <1>3 DEF Turn, Investigated, SameText, InLoop, Investigating
    <3>. QED
      BY <2>2, <3>1, <3>2, LeavingLoop DEF TurnAnswered
  <2>3. CASE Become(r, LeaveLoop(r, "time_exhausted"))
    BY <2>3, LeavingLoop
  <2>. QED
    BY <1>3, <2>1, <2>2, <2>3, Failing DEF Turn
<1>4. CASE ToolCall(r)
  <2>0. At(r, "batch")
    BY <1>4 DEF ToolCall
  <2>1. CASE UnmappedCall(r)
    <3>1. Investigated(run[r], [run[r] EXCEPT !.calls = @ - 1, !.retries = @ + 1])
      BY <2>0 DEF Investigated, SameText, InLoop, Investigating
    <3>2. Investigated(run[r], [LeaveLoop(r, "other") EXCEPT !.retries = @ + 1])
      BY DEF Investigated, SameText, InLoop, Investigating, LeaveLoop
    <3>. QED
      BY <2>1, <3>1, <3>2 DEF UnmappedCall
  <2>2. CASE FinalizeCall(r)
    BY <2>2, LeavingLoop DEF FinalizeCall
  <2>3. CASE DuplicateCall(r)
    <3>1. Investigated(run[r], [run[r] EXCEPT !.calls = @ - 1, !.dups = @ + 1])
      BY <2>0 DEF Investigated, SameText, InLoop, Investigating
    <3>2. Investigated(run[r], [LeaveLoop(r, "other") EXCEPT !.dups = @ + 1])
      BY DEF Investigated, SameText, InLoop, Investigating, LeaveLoop
    <3>. QED
      BY <2>3, <3>1, <3>2 DEF DuplicateCall
  <2>4. CASE FreshCall(r)
    <3>1. ASSUME NEW reason, Refuse(r, reason)
          PROVE  Investigated(run[r], run'[r])
      <4>1. Investigated(run[r], [run[r] EXCEPT !.calls = @ - 1, !.reason = reason])
        BY <2>0 DEF Investigated, SameText, InLoop, Investigating
      <4>. QED
        BY <3>1, <4>1 DEF Refuse
    <3>2. CASE run[r].job /\ Abort(r)
      BY <3>2 DEF Abort
    <3>3. CASE run[r].steps < MaxSteps /\ LocalCall(r)
      BY <2>0, <3>3, Stepping DEF LocalCall
    <3>4. CASE run[r].steps < MaxSteps /\ LookupCall(r)
      BY <2>0, <3>4, Stepping DEF LookupCall, Fail
    <3>. QED
      BY <2>4, <3>1, <3>2, <3>3, <3>4 DEF FreshCall
  <2>. QED
    BY <1>4, <2>1, <2>2, <2>3, <2>4 DEF ToolCall
<1>5. CASE BatchDone(r)
  <2>1. Investigated(run[r], [run[r] EXCEPT !.pc = "checkpoint",
                                !.last = run[r].steps,
                                !.checks = @ + 1, !.steps = @ + 1])
    BY <1>5, <1>a DEF BatchDone, Investigated, SameText, InLoop, Investigating
  <2>2. \A pc \in {"assess", "turn"} :
           Investigated(run[r], [run[r] EXCEPT !.pc = pc])
    BY DEF Investigated, SameText, InLoop, Investigating
  <2>. QED
    BY <1>5, <2>1, <2>2 DEF BatchDone
<1>6. CASE Checkpoint(r)
  <2>1. /\ \A b : Investigated(run[r], [run[r] EXCEPT !.pc = "turn", !.banked = b])
        /\ Investigated(run[r], [run[r] EXCEPT !.pc = "turn", !.work = TRUE])
    BY DEF Investigated, SameText, InLoop, Investigating
  <2>. QED
    <3>1. ASSUME NEW b, Send(r, [run[r] EXCEPT !.pc = "turn", !.banked = b])
          PROVE  Investigated(run[r], run'[r])
      BY <2>1, <3>1
    <3>2. CASE Send(r, [run[r] EXCEPT !.pc = "turn", !.work = TRUE])
      BY <2>1, <3>2
    <3>. QED
      BY <1>6, <3>1, <3>2, Failing DEF Checkpoint
<1>7. CASE Assess(r)
  <2>1. Investigated(run[r], [run[r] EXCEPT !.pc = "turn", !.reopens = @ + 1])
    BY DEF Investigated, SameText, InLoop, Investigating
  <2>. QED
    BY <1>7, <2>1, Opening, Failing DEF Assess
<1>. QED
  BY <1>1, <1>2, <1>3, <1>4, <1>5, <1>6, <1>7 DEF InvestigationStep

-----------------------------------------------------------------------------
\* A run that ends has a terminal event, was cancelled or panicked.
Ending(x) ==
  /\ x.pc = "unwinding" /\ x.terminal = "none" => x.job = TRUE \/ x.panicked = TRUE
  /\ x.terminal # "none" => x.pc \in {"unwinding", "unregistered"}

\* A heading is added once.
LEMMA RepairedTwice ==
  /\ \A text : Repaired(Repaired(text)) = Repaired(text)
  /\ Repaired(NoText) = NoText
  /\ \A words : \A text \in Assembled(words) : Repaired(text) = text
  BY DEF Repaired, NoText, Assembled

\* A rewrite that was streamed as the model wrote it.
Streamed(x) == x.cited = x.report /\ x.report.words = "rewrite" /\ ~x.sectioned

\* The client has the whole report; its heading is mended, unless it was streamed.
Shown(x) ==
  /\ x.seen = x.report
  /\ x.report = Repaired(x.cited) \/ Streamed(x)

\* What JournalMatchesStream promises.
Journalled(x) ==
  /\ x.report = Repaired(x.cited)
  /\ x.report = Repaired(x.seen)
  /\ x.seen # x.report => x.seen.words = "rewrite" /\ ~x.sectioned

\* Texts, their citations and what was sent, by the place of the run.
Texted(x) ==
  /\ x.pc \in Investigating \cup Undrafted => x.report = NoText
  /\ x.pc \in Reporting \ (Undrafted \cup {"verdict"})
       => x.report = Repaired(x.cited)
  /\ x.pc \in {"rewrite", "rerewrite"} => ~x.sectioned
  /\ x.pc \in {"verdict", "finish"} => Shown(x)
  /\ x.stored = TRUE => Journalled(x)
  /\ x.stored \in BOOLEAN
  /\ x.stored = TRUE => x.pc \in {"recorded", "unwinding", "unregistered"}

\* A cancelled run that writes its report whole stays before its first draft.
Dropped(x) ==
  /\ x.pc = "section" => x.sectioned = TRUE
  /\ x.early = TRUE /\ x.sectioned # TRUE
       => /\ x.job = TRUE /\ x.stored = FALSE
          /\ x.pc \in {"draft", "unwinding", "unregistered"}

\* Only a challenge can fail with a report in hand.
Surviving(x) ==
  /\ x.kind \in AllKinds
  /\ x.terminal = "error" /\ x.report # NoText => x.kind = "challenge"

\* Budgets; the number of the last step frame is at most the steps made.
Counted(x) ==
  /\ InLoop(x)
  /\ x.looked \in Nat /\ x.frame \in Nat
  /\ x.looked <= MaxRevalidationSteps
  /\ x.pc \in Investigating => x.looked = 0
  /\ x.pc \in {"recheck", "recheck_batch"} => x.reason = "finalized"
  /\ x.looked > 0 => x.reason = "finalized"
  /\ x.pc \in Working => x.frame <= x.steps + x.looked

RunGood(x) == Ending(x) /\ Texted(x) /\ Dropped(x) /\ Surviving(x) /\ Counted(x)

\* A step that keeps all this, and the order of the step frames.
Kept(x, y) == DOMAIN y = DOMAIN x /\ RunGood(y) /\ y.frame >= x.frame

\* Steps of that kind keep RunGood.
LEMMA InvestigationKeeps ==
  ASSUME NEW r \in Runs, Shaped, RunGood(run[r]), NEW y, Investigated(run[r], y),
         run[r].pc \in Investigating
  PROVE  Kept(run[r], y)
<1>1. Ending(y)
  BY Fields DEF Investigated, SameText, RunGood, Ending, Investigating
<1>2. Texted(y)
  BY Fields DEF Investigated, SameText, RunGood, Texted, Ending, Investigating,
                Reporting, Undrafted
<1>3. Dropped(y)
  BY Fields DEF Investigated, SameText, RunGood, Dropped, Texted, Investigating
<1>4. Surviving(y)
  BY Fields DEF Investigated, SameText, RunGood, Surviving, Texted, Investigating
<1>5. Counted(y) /\ y.frame >= run[r].frame
  BY Fields DEF Investigated, SameText, RunGood, Counted, InLoop, Investigating,
                Working, Reporting
<1>. QED
  BY <1>1, <1>2, <1>3, <1>4, <1>5 DEF Kept, RunGood, Investigated, SameText


\* A step from one place of the report phase to another.
Moved(x, y) ==
  /\ DOMAIN y = DOMAIN x
  /\ \A f \in {"kind", "job", "sectioned", "stored", "terminal", "panicked",
               "steps", "looked", "frame", "reason"} : y[f] = x[f]
  /\ y.early = x.early \/ x.sectioned = TRUE
  /\ y.pc \in Reporting
  /\ y.pc = x.pc \/ x.pc # "draft" \/ x.job # TRUE
  /\ y.pc \in {"recheck", "recheck_batch"} => x.reason = "finalized"
  /\ IF y.pc \in Undrafted
     THEN y.report = x.report /\ x.pc \in Undrafted /\ y.pc \in {x.pc, "redraft"}
     ELSE IF y.pc = "verdict" THEN Shown(y) ELSE y.report = Repaired(y.cited)
  /\ y.pc \in {"rewrite", "rerewrite"} => ~x.sectioned

\* Such a step keeps RunGood.
LEMMA MovedKeeps ==
  ASSUME NEW x, NEW y, RunGood(x), x.pc \in Reporting, Moved(x, y)
  PROVE  Kept(x, y)
<1>. USE DEF Moved, Reporting
<1>1. Ending(y)
  BY DEF RunGood, Ending
<1>2. Texted(y)
  BY DEF RunGood, Texted, Shown, Streamed, Undrafted, Investigating
<1>3. Dropped(y)
  BY DEF RunGood, Dropped, Texted, Undrafted
<1>4. Surviving(y)
  BY DEF RunGood, Surviving, Ending
<1>5. Counted(y) /\ y.frame >= x.frame
  BY DEF RunGood, Counted, InLoop, Working, Investigating
<1>. QED
  BY <1>1, <1>2, <1>3, <1>4, <1>5 DEF Kept, RunGood

\* A step that ends a run in the report phase.
Stopped(x, y) ==
  /\ DOMAIN y = DOMAIN x
  /\ \A f \in {"kind", "sectioned", "stored", "panicked", "steps", "early", "frame",
               "reason", "report"} : y[f] = x[f]
  /\ y.pc = "unwinding"
  /\ \/ y.looked = x.looked
     \/ /\ x.pc = "recheck_batch" /\ x.looked < MaxRevalidationSteps
        /\ y.looked = x.looked + 1
  /\ \/ y.terminal = x.terminal /\ y.job = TRUE
     \/ /\ y.terminal = "error" /\ y.job = x.job
        /\ x.report = NoText \/ x.kind # "research"

\* Such an end keeps RunGood.
LEMMA StoppedKeeps ==
  ASSUME NEW x, NEW y, RunGood(x), x.pc \in Reporting, Stopped(x, y)
  PROVE  Kept(x, y)
<1>. USE DEF Stopped, Reporting
<1>1. Ending(y)
  BY DEF RunGood, Ending
<1>2. Texted(y)
  BY DEF RunGood, Texted, Undrafted, Investigating
<1>3. Dropped(y)
  BY DEF RunGood, Dropped, Texted, Undrafted
<1>4. Surviving(y)
  BY DEF RunGood, Surviving, Ending, AllKinds
<1>5. Counted(y) /\ y.frame >= x.frame
  BY ResearchBoundsAssumption DEF RunGood, Counted, InLoop, Working, Investigating
<1>. QED
  BY <1>1, <1>2, <1>3, <1>4, <1>5 DEF Kept, RunGood

\* The ends of the report phase are such ends; a failed run has no report yet or is
\* a challenge.
LEMMA ReportStops ==
  ASSUME NEW r \in Runs, Shaped, RunGood(run[r]), run[r].pc \in Reporting
  PROVE  /\ run[r].report = NoText \/ run[r].kind # "research"
              => Kept(run[r], Failed(r))
         /\ Kept(run[r], Undelivered(r))
         /\ run[r].job => Kept(run[r], [run[r] EXCEPT !.pc = "unwinding"])
<1>1. run[r].report = NoText \/ run[r].kind # "research"
        => Stopped(run[r], Failed(r))
  BY Fields DEF Stopped, Failed
<1>2. Stopped(run[r], Undelivered(r))
  BY Fields DEF Stopped, Undelivered
<1>3. run[r].job => Stopped(run[r], [run[r] EXCEPT !.pc = "unwinding"])
  BY Fields DEF Stopped
<1>. QED
  BY <1>1, <1>2, <1>3, StoppedKeeps

\* The steps that write the first report.  A cancelled run gets no further than
\* its first draft, unless it writes in sections.
LEMMA WritingKeeps ==
  ASSUME NEW r \in Runs, Shaped, RunGood(run[r]), run[r].pc \in Undrafted
  PROVE  /\ At(r, "section") =>
              /\ Moved(run[r], Wrote(r))
              /\ \A b : Moved(run[r], [GaveUp(r) EXCEPT !.written = @ \/ b,
                                                       !.early = @ \/ run[r].job])
              /\ \A text : Moved(run[r], [Drafted(r, text)
                                            EXCEPT !.forced = ~run[r].written])
         /\ At(r, "draft") =>
              /\ Moved(run[r], [run[r] EXCEPT !.attempts = @ + 1])
              /\ Moved(run[r], [run[r] EXCEPT !.pc = "redraft"]) \/ run[r].job
         /\ ~run[r].job =>
              /\ \A text : Moved(run[r], Drafted(r, text))
              /\ Moved(run[r], Forced(r))
<1>. USE Fields DEF Moved, Reporting, Undrafted, At
<1>1. At(r, "section") => Moved(run[r], Wrote(r))
  BY DEF Wrote
<1>2. At(r, "section") =>
              /\ \A b : Moved(run[r], [GaveUp(r) EXCEPT !.written = @ \/ b,
                                                       !.early = @ \/ run[r].job])
  BY DEF GaveUp, RunGood, Dropped
<1>3. ASSUME At(r, "section"), NEW text
      PROVE  Moved(run[r], [Drafted(r, text) EXCEPT !.forced = ~run[r].written])
  BY <1>3, ZenonT(40) DEF Drafted
<1>4. At(r, "draft") =>
              /\ Moved(run[r], [run[r] EXCEPT !.attempts = @ + 1])
              /\ Moved(run[r], [run[r] EXCEPT !.pc = "redraft"]) \/ run[r].job
  OBVIOUS
<1>5. ASSUME ~run[r].job, NEW text
      PROVE  Moved(run[r], Drafted(r, text)) /\ Moved(run[r], Forced(r))
  BY <1>5, ZenonT(40) DEF Drafted, Forced
<1>. HIDE DEF Moved, Reporting, Undrafted, At
<1>. QED
  BY <1>1, <1>2, <1>3, <1>4, <1>5

\* The steps of the gate and the citation check; the tools are opened only for a
\* run that chose to stop.
LEMMA CheckingKeeps ==
  ASSUME NEW r \in Runs, Shaped, RunGood(run[r]),
         run[r].pc \in {"gate", "recheck", "recheck_batch"}
  PROVE  /\ Moved(run[r], GoTo(r, "ship")) /\ Moved(run[r], Repair(r))
         /\ run[r].reason = "finalized" =>
              /\ Moved(run[r], GoTo(r, "recheck"))
              /\ Moved(run[r], [run[r] EXCEPT !.pc = "recheck"])
              /\ \A n : Moved(run[r], [run[r] EXCEPT !.pc = "recheck_batch",
                                            !.calls = n, !.turns = @ + 1])
         /\ Moved(run[r], [run[r] EXCEPT !.calls = @ - 1])
<1>. USE Fields DEF Moved, Reporting, Undrafted, RunGood, Texted, Counted
<1>1. Moved(run[r], GoTo(r, "ship")) /\ Moved(run[r], Repair(r))
  BY ZenonT(40) DEF GoTo, Repair
<1>2. run[r].reason = "finalized" => Moved(run[r], GoTo(r, "recheck"))
  BY DEF GoTo
<1>4. run[r].reason = "finalized" =>
        /\ Moved(run[r], [run[r] EXCEPT !.pc = "recheck"])
        /\ \A n : Moved(run[r], [run[r] EXCEPT !.pc = "recheck_batch",
                                               !.calls = n, !.turns = @ + 1])
  BY ZenonT(40)
<1>3. Moved(run[r], [run[r] EXCEPT !.calls = @ - 1])
  OBVIOUS
<1>. QED
  BY <1>1, <1>2, <1>3, <1>4

\* A lookup of the check is within its budget and numbered on.
LEMMA LookingKeeps ==
  ASSUME NEW r \in Runs, Shaped, RunGood(run[r]), At(r, "recheck_batch"),
         run[r].looked < MaxRevalidationSteps, NEW looked,
         looked = [[run[r] EXCEPT !.calls = @ - 1] EXCEPT !.looked = @ + 1]
  PROVE  /\ Kept(run[r], looked)
         /\ Kept(run[r], [looked EXCEPT !.frame = LookupFrame(r)])
         /\ run[r].job => Kept(run[r], [looked EXCEPT !.pc = "unwinding"])
<1>. USE Fields, ResearchBoundsAssumption DEF At, Reporting
<1>1. ASSUME NEW y, y = looked \/ y = [looked EXCEPT !.frame = LookupFrame(r)]
      PROVE  Kept(run[r], y)
  <2>1. /\ DOMAIN y = DOMAIN run[r]
        /\ \A f \in {"pc", "kind", "job", "sectioned", "stored", "terminal",
                     "panicked", "steps", "early", "reason", "report", "seen",
                     "cited"} : y[f] = run[r][f]
        /\ y.looked = run[r].looked + 1
        /\ y.frame \in {run[r].frame, LookupFrame(r)}
    <3>1. CASE y = looked
      BY <3>1
    <3>2. CASE y = [looked EXCEPT !.frame = LookupFrame(r)]
      BY <3>2
    <3>. QED
      BY <1>1, <3>1, <3>2
  <2>2. Ending(y)
    BY <2>1 DEF RunGood, Ending
  <2>3. Texted(y)
    BY <2>1 DEF RunGood, Texted, Undrafted, Investigating
  <2>4. Dropped(y)
    BY <2>1 DEF RunGood, Dropped, Texted, Undrafted
  <2>5. Surviving(y)
    BY <2>1 DEF RunGood, Surviving, Ending, AllKinds
  <2>6. Counted(y) /\ y.frame >= run[r].frame
    BY <2>1 DEF RunGood, Counted, InLoop, Working, Investigating, LookupFrame
  <2>. QED
    BY <2>1, <2>2, <2>3, <2>4, <2>5, <2>6 DEF Kept, RunGood
<1>2. run[r].job => Kept(run[r], [looked EXCEPT !.pc = "unwinding"])
  <2>1. run[r].job => Stopped(run[r], [looked EXCEPT !.pc = "unwinding"])
    BY DEF Stopped
  <2>. QED
    BY <2>1, StoppedKeeps
<1>. QED
  BY <1>1, <1>2

\* The steps of the rewrite: the citations are those of the new text.
LEMMA RepairingKeeps ==
  ASSUME NEW r \in Runs, Shaped, RunGood(run[r]),
         run[r].pc \in {"rewrite", "rerewrite", "resection", "ship"}
  PROVE  /\ run[r].pc \in {"rewrite", "rerewrite"} =>
              /\ \A text : text.words = "rewrite" => Moved(run[r], Rewritten(r, text))
              /\ Moved(run[r], GoTo(r, "rerewrite"))
         /\ Moved(run[r], GoTo(r, "ship"))
         /\ Moved(run[r], [GoTo(r, "ship") EXCEPT !.torn = TRUE])
         /\ Moved(run[r], [run[r] EXCEPT !.attempts = @ + 1])
         /\ Moved(run[r], [[run[r] EXCEPT !.attempts = @ + 1] EXCEPT !.torn = TRUE])
         /\ Moved(run[r], Wrote(r)) /\ Moved(run[r], GaveUp(r))
         /\ \A text : Repaired(text) = text =>
               Moved(run[r], [GoTo(r, "ship") EXCEPT
                                !.report = text, !.cited = text, !.written = FALSE])
         /\ Moved(run[r], [run[r] EXCEPT !.pc = "verdict", !.seen = run[r].report])
<1>. USE Fields DEF Moved, Reporting, Undrafted, RunGood, Texted
<1>1. ASSUME run[r].pc \in {"rewrite", "rerewrite"}, NEW text, text.words = "rewrite"
      PROVE  Moved(run[r], Rewritten(r, text))
  BY <1>1, ZenonT(40) DEF Rewritten, Shown, Streamed
<1>7. ASSUME run[r].pc \in {"rewrite", "rerewrite"}
      PROVE  Moved(run[r], GoTo(r, "rerewrite"))
  BY <1>7, ZenonT(40) DEF GoTo
<1>2. /\ Moved(run[r], GoTo(r, "ship"))
      /\ Moved(run[r], [GoTo(r, "ship") EXCEPT !.torn = TRUE])
  BY ZenonT(40) DEF GoTo
<1>3. Moved(run[r], [run[r] EXCEPT !.attempts = @ + 1])
         /\ Moved(run[r], [[run[r] EXCEPT !.attempts = @ + 1] EXCEPT !.torn = TRUE])
  OBVIOUS
<1>4. Moved(run[r], Wrote(r)) /\ Moved(run[r], GaveUp(r))
  BY DEF Wrote, GaveUp
<1>5. ASSUME NEW text, Repaired(text) = text
      PROVE  Moved(run[r], [GoTo(r, "ship") EXCEPT
                              !.report = text, !.cited = text, !.written = FALSE])
  BY <1>5, ZenonT(40) DEF GoTo
<1>6. Moved(run[r], [run[r] EXCEPT !.pc = "verdict", !.seen = run[r].report])
  BY DEF Shown
<1>. QED
  BY <1>1, <1>2, <1>3, <1>4, <1>5, <1>6, <1>7

-----------------------------------------------------------------------------
\* A step that ends the report phase well, or the run after it.
Finished(x, y) ==
  /\ DOMAIN y = DOMAIN x
  /\ \A f \in {"kind", "job", "sectioned", "panicked", "steps", "early", "looked",
               "frame", "reason", "seen", "cited"} : y[f] = x[f]
  /\ y.report = IF x.pc = "finish" THEN Repaired(x.report) ELSE x.report
  /\ \/ /\ x.pc = "verdict" /\ y.pc = "finish"
        /\ y.stored = x.stored /\ y.terminal = x.terminal
     \/ /\ x.pc = "finish" /\ y.pc = "recorded"
        /\ y.stored \in {x.stored, TRUE} /\ y.terminal = x.terminal
     \/ /\ x.pc = "recorded" /\ y.pc = "unwinding"
        /\ y.stored = x.stored /\ y.terminal = "done"

\* Such a step keeps RunGood: by then the client has the whole report.
LEMMA FinishedKeeps ==
  ASSUME NEW x, NEW y, RunGood(x), Finished(x, y)
  PROVE  Kept(x, y)
<1>. USE DEF Finished
<1>1. Ending(y)
  BY DEF RunGood, Ending
<1>2. Texted(y)
  <2>1. CASE x.pc = "verdict"
    BY <2>1 DEF RunGood, Texted, Shown, Streamed, Undrafted, Investigating, Reporting
  <2>2. CASE x.pc = "finish"
    <3>1. Journalled(y)
      BY <2>2, RepairedTwice DEF RunGood, Texted, Shown, Streamed, Journalled
    <3>. QED
      BY <2>2, <3>1 DEF RunGood, Texted, Undrafted, Investigating, Reporting
  <2>3. CASE x.pc = "recorded"
    BY <2>3 DEF RunGood, Texted, Journalled, Undrafted, Investigating, Reporting
  <2>. QED
    BY <2>1, <2>2, <2>3
<1>3. Dropped(y)
  BY DEF RunGood, Dropped, Texted, Undrafted
<1>4. Surviving(y)
  BY DEF RunGood, Surviving, Ending, AllKinds
<1>5. Counted(y) /\ y.frame >= x.frame
  <2>1. /\ x.pc \in Working
        /\ y.pc \notin Investigating \cup {"recheck", "recheck_batch"}
    BY DEF Working, Investigating, Reporting
  <2>2. y.pc # "batch"
    BY <2>1 DEF Investigating
  <2>. QED
    BY <2>1, <2>2 DEF RunGood, Counted, InLoop
<1>. QED
  BY <1>1, <1>2, <1>3, <1>4, <1>5 DEF Kept, RunGood

\* A turn of the report phase that is cut by a cancellation or fails.
LEMMA ReportFails ==
  ASSUME NEW r \in Runs, Shaped, RunGood(run[r]), run[r].pc \in Reporting,
         run[r].report = NoText \/ run[r].kind # "research"
  PROVE  /\ TurnFails(r, "writing") => Kept(run[r], run'[r])
         /\ Fail(r) => Kept(run[r], run'[r])
         /\ run[r].job /\ Abort(r) => Kept(run[r], run'[r])
<1>1. Fail(r) => Kept(run[r], run'[r])
  BY Becomes, ReportStops DEF Fail
<1>2. run[r].job /\ Abort(r) => Kept(run[r], run'[r])
  BY Becomes, ReportStops DEF Abort
<1>. QED
  BY <1>1, <1>2 DEF TurnFails

\* Every step of the report phase keeps RunGood.
LEMMA ReportKeeps ==
  ASSUME NEW r \in Runs, Shaped, RunGood(run[r]), ReportStep(r)
  PROVE  Kept(run[r], run'[r])
<1>1. CASE run[r].pc \in Undrafted
  <2>0. /\ run[r].pc \in Reporting /\ run[r].report = NoText
        /\ Fail(r) \/ TurnFails(r, "writing") => Kept(run[r], run'[r])
    BY <1>1, ReportFails DEF Undrafted, Reporting, RunGood, Texted
  <2>. DEFINE Case(rec) == Moved(run[r], rec) /\ Become(r, rec)
  <2>1. \A rec : Case(rec) => Kept(run[r], run'[r])
    BY <2>0, MovedKeeps, Becomes
  <2>2. CASE SectionTurn(r)
    <3>1. CASE Become(r, Wrote(r))
      BY <1>1, <2>1, <2>2, <3>1, WritingKeeps DEF SectionTurn
    <3>2. CASE FallBack(r)
      BY <1>1, <2>1, <2>2, <3>2, WritingKeeps DEF SectionTurn, FallBack
    <3>. QED
      BY <2>0, <2>2, <3>1, <3>2 DEF SectionTurn
  <2>3. CASE SectionsDone(r)
    <3>1. PICK text : Become(r, [Drafted(r, text) EXCEPT !.forced = ~run[r].written])
      BY <2>3 DEF SectionsDone
    <3>. QED
      BY <1>1, <2>1, <2>3, <3>1, WritingKeeps DEF SectionsDone
  <2>4. CASE Draft(r)
    BY <1>1, <2>0, <2>1, <2>4, WritingKeeps
       DEF Draft, EmptyDraft, DeadlineForces, DeadlineStops, Completes, Fired
  <2>5. CASE Redraft(r)
    BY <1>1, <2>0, <2>1, <2>5, WritingKeeps
       DEF Redraft, DeadlineForces, DeadlineStops, Completes, Fired
  <2>. QED
    BY <1>1, <2>2, <2>3, <2>4, <2>5
       DEF ReportStep, At, Undrafted, Gate, Recheck, RecheckCall, RecheckBatchDone,
           Rewrite, Rerewrite, ResectionTurn, ResectionDone, Ship, Verdict,
           Finish, Done
<1>2. CASE run[r].pc \in {"gate", "recheck", "recheck_batch"}
  <2>0. run[r].pc \in Reporting
    BY <1>2 DEF Reporting
  <2>1. \A rec : Moved(run[r], rec) /\ Become(r, rec) => Kept(run[r], run'[r])
    BY <2>0, MovedKeeps, Becomes
  <2>2. CASE Gate(r)
    BY <1>2, <2>1, <2>2, CheckingKeeps DEF Gate
  <2>3. CASE Recheck(r)
    <3>1. run[r].reason = "finalized"
      BY <2>3 DEF Recheck, At, RunGood, Counted
    <3>2. CASE Become(r, Repair(r))
      BY <1>2, <2>1, <3>2, CheckingKeeps
    <3>3. ASSUME NEW n, Become(r, [run[r] EXCEPT !.pc = "recheck_batch",
                                            !.calls = n, !.turns = @ + 1])
          PROVE  Kept(run[r], run'[r])
      BY <1>2, <2>1, <3>1, <3>3, CheckingKeeps
    <3>4. CASE run[r].job /\ Abort(r)
      BY <2>0, <3>4, Becomes, ReportStops DEF Abort
    <3>. QED
      BY <2>3, <3>2, <3>3, <3>4 DEF Recheck
  <2>4. CASE RecheckCall(r)
    <3>. DEFINE looked == [[run[r] EXCEPT !.calls = @ - 1] EXCEPT !.looked = @ + 1]
    <3>1. CASE Become(r, [run[r] EXCEPT !.calls = @ - 1])
      BY <1>2, <2>1, <3>1, CheckingKeeps
    <3>2. CASE run[r].looked < MaxRevalidationSteps
      <4>1. /\ Kept(run[r], looked)
            /\ Kept(run[r], [looked EXCEPT !.frame = LookupFrame(r)])
            /\ run[r].job => Kept(run[r], [looked EXCEPT !.pc = "unwinding"])
        BY <2>4, <3>2, LookingKeeps DEF RecheckCall
      <4>2. CASE Send(r, [looked EXCEPT !.frame = LookupFrame(r)])
        BY <2>0, <4>1, <4>2, Sends, ReportStops
      <4>3. CASE Become(r, looked)
        BY <4>1, <4>3, Becomes
      <4>4. CASE run[r].job /\ Become(r, [looked EXCEPT !.pc = "unwinding"])
        BY <4>1, <4>4, Becomes
      <4>. HIDE DEF looked
      <4>. QED
        BY <2>4, <3>1, <4>2, <4>3, <4>4 DEF RecheckCall, looked
    <3>. QED
      BY <2>4, <3>1, <3>2 DEF RecheckCall
  <2>5. CASE RecheckBatchDone(r)
    BY <1>2, <2>1, <2>5, CheckingKeeps DEF RecheckBatchDone, At, RunGood, Counted
  <2>. QED
    BY <1>2, <2>2, <2>3, <2>4, <2>5
       DEF ReportStep, At, SectionTurn, SectionsDone, Draft, Redraft,
           Rewrite, Rerewrite, ResectionTurn, ResectionDone, Ship, Verdict,
           Finish, Done
<1>3. CASE run[r].pc \in {"rewrite", "rerewrite", "resection", "ship"}
  <2>0. run[r].pc \in Reporting
    BY <1>3 DEF Reporting
  <2>1. \A rec : Moved(run[r], rec) /\ (Become(r, rec) \/ Send(r, rec))
                   => Kept(run[r], run'[r])
    BY <2>0, MovedKeeps, Becomes, Sends, ReportStops
  <2>2. Tear(r, GoTo(r, "ship")) \/ Become(r, GoTo(r, "ship"))
          => Kept(run[r], run'[r])
    BY <1>3, <2>1, RepairingKeeps DEF Tear
  <2>3. RewriteLost(r) => Kept(run[r], run'[r])
    BY <2>0, <2>2, Becomes, ReportStops DEF RewriteLost, Abort
  <2>9. ASSUME run[r].pc \in {"rewrite", "rerewrite"}, SendRewrite(r)
        PROVE  Kept(run[r], run'[r])
    <3>1. PICK text \in ByModel("rewrite") : Send(r, Rewritten(r, text))
      BY <2>9 DEF SendRewrite
    <3>2. text.words = "rewrite"
      BY DEF ByModel
    <3>. QED
      BY <1>3, <2>1, <2>9, <3>1, <3>2, RepairingKeeps
  <2>4. CASE Rewrite(r)
    <3>1. run[r].pc = "rewrite"
      BY <2>4 DEF Rewrite, At
    <3>2. EmptyRewrite(r) \/ Become(r, GoTo(r, "rerewrite")) => Kept(run[r], run'[r])
      BY <1>3, <2>1, <2>2, <3>1, RepairingKeeps DEF EmptyRewrite, Tear
    <3>. QED
      BY <2>3, <2>4, <2>9, <3>1, <3>2 DEF Rewrite
  <2>5. CASE Rerewrite(r)
    BY <2>2, <2>3, <2>5, <2>9 DEF Rerewrite, At
  <2>6. CASE ResectionTurn(r)
    BY <1>3, <2>1, <2>6, RepairingKeeps DEF ResectionTurn
  <2>7. CASE ResectionDone(r)
    <3>1. PICK text \in IF run[r].written THEN Assembled("rewrite") ELSE {run[r].report} :
            Become(r, [GoTo(r, "ship") EXCEPT !.report = text, !.cited = text,
                                              !.written = FALSE])
      BY <2>7 DEF ResectionDone
    <3>2. run[r].report = Repaired(run[r].cited)
      BY <2>7 DEF ResectionDone, At, RunGood, Texted, Reporting, Undrafted
    <3>3. Repaired(text) = text
      BY <3>1, <3>2, RepairedTwice
    <3>. QED
      BY <1>3, <2>1, <3>1, <3>3, RepairingKeeps
  <2>8. CASE Ship(r)
    BY <1>3, <2>1, <2>8, RepairingKeeps DEF Ship
  <2>. QED
    BY <1>3, <2>4, <2>5, <2>6, <2>7, <2>8
       DEF ReportStep, At, SectionTurn, SectionsDone, Draft, Redraft, Gate,
           Recheck, RecheckCall, RecheckBatchDone, Verdict, Finish, Done
<1>4. CASE Verdict(r)
  <2>0. run[r].pc \in Reporting
    BY <1>4 DEF Reporting, Verdict, At
  <2>1. Finished(run[r], [run[r] EXCEPT !.pc = "finish"])
    BY <1>4, Fields DEF Verdict, At, Finished
  <2>. QED
    BY <1>4, <2>0, <2>1, FinishedKeeps, Becomes, ReportFails DEF Verdict
<1>5. CASE Finish(r)
  <2>. DEFINE final == [run[r] EXCEPT !.pc = "recorded", !.report = Repaired(run[r].report)]
  <2>1. /\ Finished(run[r], final)
        /\ Finished(run[r], [final EXCEPT !.stored = TRUE])
    BY <1>5, Fields DEF Finish, At, Finished
  <2>2. Become(r, final) \/ Become(r, [final EXCEPT !.stored = TRUE])
    BY <1>5 DEF Finish
  <2>. HIDE DEF final
  <2>. QED
    BY <2>1, <2>2, FinishedKeeps, Becomes
<1>6. CASE Done(r)
  <2>1. Finished(run[r], [run[r] EXCEPT !.pc = "unwinding", !.terminal = "done"])
    BY <1>6, Fields DEF Done, At, Finished
  <2>. QED
    BY <1>6, <2>1, FinishedKeeps, Becomes DEF Done
<1>. QED
  BY <1>1, <1>2, <1>3, <1>4, <1>5, <1>6
     DEF ReportStep, At, Undrafted, SectionTurn, SectionsDone, Draft, Redraft, Gate,
         Recheck, RecheckCall, RecheckBatchDone, Rewrite, Rerewrite, ResectionTurn,
         ResectionDone, Ship
-----------------------------------------------------------------------------
\* A request that is not launched has done nothing.
Fresh(x) ==
  x.pc \in {"idle", "asked"} =>
    /\ x.report = NoText /\ x.early = FALSE
    /\ x.steps = 0 /\ x.looked = 0 /\ x.frame = 0

RunInv ==
  /\ SlotInv
  /\ Shaped
  /\ \A r \in Runs : RunGood(run[r]) /\ Fresh(run[r])

\* A timer, a cancellation or a client that leaves.
Aside(x, y) ==
  /\ DOMAIN y = DOMAIN x
  /\ \A f \in DOMAIN x \ {"job", "work", "writing", "client"} : y[f] = x[f]
  /\ x.job = TRUE => y.job = TRUE

\* Such a step keeps RunGood.
LEMMA AsideKeeps ==
  ASSUME NEW r \in Runs, Shaped, RunGood(run[r]), NEW y, Aside(run[r], y)
  PROVE  Kept(run[r], y)
<1>1. /\ DOMAIN y = DOMAIN run[r]
      /\ \A f \in {"pc", "kind", "sectioned", "stored", "terminal", "panicked",
                   "steps", "early", "looked", "frame", "reason", "report", "seen",
                   "cited"} : y[f] = run[r][f]
  BY Fields DEF Aside
<1>2. Ending(y) /\ Dropped(y)
  BY <1>1 DEF RunGood, Ending, Dropped, Aside
<1>3. Texted(y) /\ Surviving(y)
  BY <1>1 DEF RunGood, Texted, Shown, Streamed, Journalled, Surviving
<1>4. Counted(y) /\ y.frame >= run[r].frame
  BY <1>1 DEF RunGood, Counted, InLoop
<1>. QED
  BY <1>1, <1>2, <1>3, <1>4 DEF Kept, RunGood

\* Panics, timers, DELETE, the watchdog and clients keep RunGood.
LEMMA EnvironmentKeeps ==
  ASSUME NEW r \in Runs, Shaped, RunGood(run[r]), Environment(r)
  PROVE  Kept(run[r], run'[r])
<1>1. CASE Panic(r)
  <2>. DEFINE y == [Unasked EXCEPT !.pc = "unwinding", !.panicked = TRUE,
                               !.stored = run[r].stored, !.frame = run[r].frame]
  <2>1. DOMAIN y = DOMAIN run[r]
    BY DEF Shaped
  <2>2. Ending(y)
    BY DEF Ending, Unasked
  <2>3. Texted(y)
    BY RepairedTwice
       DEF RunGood, Texted, Journalled, Unasked, Investigating, Reporting, Undrafted
  <2>4. Dropped(y) /\ Surviving(y)
    BY DEF Dropped, Surviving, Unasked, AllKinds
  <2>5. Counted(y) /\ y.frame >= run[r].frame
    BY ResearchBoundsAssumption
       DEF RunGood, Counted, InLoop, Unasked, Investigating, Reporting, Working
  <2>6. run'[r] = y
    BY <1>1, Becomes DEF Panic
  <2>. HIDE DEF y
  <2>. QED
    BY <2>1, <2>2, <2>3, <2>4, <2>5, <2>6 DEF Kept, RunGood
<1>2. CASE WorkExpires(r)
  <2>1. Aside(run[r], [run[r] EXCEPT !.work = TRUE])
    BY Fields DEF Aside
  <2>. QED
    BY <1>2, <2>1, AsideKeeps, Becomes DEF WorkExpires
<1>3. CASE WindowExpires(r)
  <2>1. Aside(run[r], [run[r] EXCEPT !.writing = TRUE])
    BY Fields DEF Aside
  <2>. QED
    BY <1>3, <2>1, AsideKeeps, Becomes DEF WindowExpires
<1>4. CASE Delete(r) \/ Reap(r)
  <2>1. Aside(run[r], Cancelled(r))
    BY Fields DEF Aside, Cancelled
  <2>. QED
    BY <1>4, <2>1, AsideKeeps, Becomes DEF Delete, Reap
<1>5. CASE ClientLeaves(r)
  <2>1. /\ Aside(run[r], [run[r] EXCEPT !.client = "leaving",
                                        !.job = @ \/ run[r].delivery = "stream"])
        /\ Aside(run[r], [run[r] EXCEPT !.client = "gone", !.job = TRUE])
    BY Fields DEF Aside
  <2>. QED
    BY <1>5, <2>1, AsideKeeps, Becomes DEF ClientLeaves
<1>. QED
  BY <1>1, <1>2, <1>3, <1>4, <1>5 DEF Environment

\* What a step of r does to all runs.
Lived(r) ==
  /\ run' = [run EXCEPT ![r] = run'[r]]
  /\ DOMAIN run'[r] = DOMAIN run[r]
  /\ RunGood(run'[r]) /\ Fresh(run'[r])
  /\ run'[r].frame >= run[r].frame \/ run'[r].pc = "ended"

\* A step of a live run.
LEMMA TaskLives ==
  ASSUME NEW r \in Runs, RunInv, RunStep(r) \/ Environment(r)
  PROVE  Lived(r)
<1>1. SlotInv /\ Tracked /\ Shaped /\ RunGood(run[r])
  BY DEF RunInv, SlotInv
<1>2. Passed(r)
  BY <1>1, InvestigationPasses, ReportPasses, EnvironmentPasses DEF RunStep
<1>3. Kept(run[r], run'[r])
  <2>1. CASE InvestigationStep(r)
    <3>1. run[r].pc \in Investigating
      BY <2>1 DEF InvestigationStep, At, Start, PlanTurn, Turn, ToolCall, BatchDone,
              Checkpoint, Assess, Investigating
    <3>. QED
      BY <1>1, <2>1, <3>1, InvestigationDoes, InvestigationKeeps
         DEF RunGood, Counted
  <2>2. CASE ReportStep(r)
    BY <1>1, <2>2, ReportKeeps
  <2>3. CASE Environment(r)
    BY <1>1, <2>3, EnvironmentKeeps
  <2>. QED
    BY <2>1, <2>2, <2>3 DEF RunStep
<1>4. Fresh(run'[r])
  BY <1>2 DEF Fresh, Passed, Alive, Working, Investigating, Reporting
<1>. QED
  BY <1>2, <1>3, <1>4 DEF Lived, Kept, Passed

\* A step that takes or gives back a slot, or lists or unlists the run.
LEMMA SlotStepLives ==
  ASSUME NEW r \in Runs, RunInv,
         Admit(r) \/ DropHandler(r) \/ Launch(r) \/ Unregister(r) \/ Release(r)
  PROVE  Lived(r)
<1>1. Shaped /\ RunGood(run[r]) /\ Fresh(run[r])
  BY DEF RunInv
<1>2. \A rec : Become(r, rec) => run'[r] = rec /\ run' = [run EXCEPT ![r] = run'[r]]
  BY <1>1, Becomes DEF Become
<1>. USE Fields, <1>1, <1>2
<1>3. CASE Admit(r)
  <2>. PICK k \in Kinds, d \in Deliveries :
         Become(r, [run[r] EXCEPT !.pc = "asked", !.kind = k, !.delivery = d])
    BY <1>3 DEF Admit
  <2>. DEFINE y == [run[r] EXCEPT !.pc = "asked", !.kind = k, !.delivery = d]
  <2>0. At(r, "idle") /\ k \in AllKinds
    BY <1>3, ResearchSetsAssumption DEF Admit
  <2>1. Ending(y) /\ Dropped(y) /\ Fresh(y)
    BY <2>0 DEF RunGood, Ending, Dropped, Fresh, At, Texted
  <2>2. Texted(y)
    BY <2>0 DEF RunGood, Texted, At, Investigating, Reporting, Undrafted
  <2>3. Surviving(y)
    BY <2>0 DEF RunGood, Surviving, Fresh, At, Ending
  <2>4. Counted(y) /\ y.frame >= run[r].frame
    BY <2>0 DEF RunGood, Counted, InLoop, Fresh, At, Investigating, Reporting,
                Working
  <2>5. /\ run'[r] = y /\ DOMAIN y = DOMAIN run[r]
        /\ run' = [run EXCEPT ![r] = run'[r]]
    OBVIOUS
  <2>. QED
    BY <2>5, <2>1, <2>2, <2>3, <2>4 DEF Lived, RunGood
<1>4. CASE DropHandler(r) \/ Release(r)
  <2>. DEFINE y == [Unasked EXCEPT !.pc = "ended"]
  <2>1. Ending(y) /\ Dropped(y) /\ Fresh(y) /\ Surviving(y)
    BY DEF Ending, Dropped, Fresh, Surviving, Unasked, AllKinds
  <2>2. Texted(y)
    BY DEF Texted, Unasked, Investigating, Reporting, Undrafted
  <2>3. Counted(y)
    BY ResearchBoundsAssumption
       DEF Counted, InLoop, Unasked, Investigating, Reporting, Working
  <2>4. y.pc = "ended" /\ DOMAIN y = DOMAIN run[r]
    BY DEF Shaped, Unasked
  <2>5. Become(r, y)
    BY <1>4 DEF DropHandler, Release, Over
  <2>. HIDE DEF y
  <2>. QED
    BY <2>1, <2>2, <2>3, <2>4, <2>5 DEF Lived, RunGood
<1>5. CASE Launch(r)
  <2>. DEFINE y == [run[r] EXCEPT !.pc = "start"]
  <2>0. At(r, "asked")
    BY <1>5 DEF Launch
  <2>1. Ending(y) /\ Dropped(y) /\ Fresh(y)
    BY <2>0 DEF RunGood, Ending, Dropped, Fresh, At, Texted
  <2>2. Texted(y)
    BY <2>0 DEF RunGood, Texted, Fresh, At, Investigating, Reporting, Undrafted
  <2>3. Surviving(y)
    BY <2>0 DEF RunGood, Surviving, Fresh, At, Ending
  <2>4. Counted(y) /\ y.frame >= run[r].frame
    BY <2>0 DEF RunGood, Counted, InLoop, Fresh, At, Investigating, Reporting,
                Working
  <2>. QED
    BY <1>5, <2>1, <2>2, <2>3, <2>4 DEF Lived, RunGood, Launch
<1>6. CASE Unregister(r)
  <2>. DEFINE y == [run[r] EXCEPT !.pc = "unregistered"]
  <2>0. At(r, "unwinding")
    BY <1>6 DEF Unregister
  <2>1. Ending(y) /\ Dropped(y) /\ Fresh(y)
    BY <2>0 DEF RunGood, Ending, Dropped, Fresh, At, Texted
  <2>2. Texted(y)
    BY <2>0 DEF RunGood, Texted, Journalled, At, Investigating, Reporting, Undrafted
  <2>3. Surviving(y)
    BY <2>0 DEF RunGood, Surviving, At, Ending
  <2>4. Counted(y) /\ y.frame >= run[r].frame
    BY <2>0 DEF RunGood, Counted, InLoop, At, Investigating, Reporting, Working
  <2>. QED
    BY <1>6, <2>1, <2>2, <2>3, <2>4 DEF Lived, RunGood, Unregister
<1>. QED
  BY <1>3, <1>4, <1>5, <1>6

\* Requests that were not made obey it.
LEMMA RunInvInit == Init => RunInv
<1>. SUFFICES ASSUME Init PROVE RunInv
  OBVIOUS
<1>1. Shaped /\ \A r \in Runs : run[r] = Unasked
  BY DEF Init, Shaped
<1>2. Ending(Unasked) /\ Dropped(Unasked) /\ Fresh(Unasked) /\ Surviving(Unasked)
  BY DEF Ending, Dropped, Fresh, Surviving, Unasked, AllKinds
<1>3. Texted(Unasked)
  BY DEF Texted, Unasked, Investigating, Reporting, Undrafted
<1>4. Counted(Unasked)
  BY ResearchBoundsAssumption
       DEF Counted, InLoop, Unasked, Investigating, Reporting, Working
<1>. QED
  BY <1>1, <1>2, <1>3, <1>4, SlotInvInit DEF RunInv, RunGood

\* Every step is a step of one run.
LEMMA SomeRunLives ==
  ASSUME RunInv, Next
  PROVE  \E r \in Runs : Lived(r)
  BY TaskLives, SlotStepLives DEF Next

\* Every step keeps RunInv.
LEMMA RunInvNext == RunInv /\ [Next]_vars => RunInv'
<1>. SUFFICES ASSUME RunInv, [Next]_vars PROVE RunInv'
  OBVIOUS
<1>1. SlotInv'
  BY SlotInvNext DEF RunInv
<1>2. CASE Next
  <2>1. PICK r \in Runs : Lived(r)
    BY <1>2, SomeRunLives
  <2>2. \A s \in Runs : s # r => run'[s] = run[s]
    BY <2>1 DEF Lived, RunInv, Shaped
  <2>3. Shaped'
    BY <2>1, <2>2 DEF Lived, RunInv, Shaped
  <2>. QED
    BY <1>1, <2>1, <2>2, <2>3 DEF Lived, RunInv
<1>3. CASE UNCHANGED vars
  BY <1>1, <1>3 DEF vars, RunInv, Shaped
<1>. QED
  BY <1>2, <1>3

(* RunInv holds: no single conjunct of it is inductive alone, because whether a
   text is complete, a cancellation noted or a budget kept depends on the place a
   run has reached. *)
THEOREM RunInvariant == Spec => []RunInv
  BY RunInvInit, RunInvNext, PTL DEF Spec

(* A run ends without a word only if it was cancelled or its task died: no time-out,
   no failed call and no closed window is ever taken for a departure. *)
THEOREM NoRunVanishes == Spec => []OnlyTheCancelledVanish
<1>1. RunInv => OnlyTheCancelledVanish
  BY DEF RunInv, RunGood, Ending, OnlyTheCancelledVanish
<1>. QED
  BY <1>1, RunInvariant, PTL

(* The journal holds the text the client was sent, with the citations of that very
   text, whichever rewrites were begun, torn or given up on the way -- or, of a whole
   rewrite that was streamed, that text under the heading it lacked; and a run
   cancelled during its investigation is not in it, unless it writes in sections. *)
THEOREM JournalHonest == Spec => []JournalIsHonest
<1>1. RunInv => JournalMatchesStream
  BY DEF RunInv, RunGood, Texted, Journalled, JournalMatchesStream
<1>2. RunInv => CancelledRunsAreDropped
  BY DEF RunInv, RunGood, Dropped, CancelledRunsAreDropped
<1>. QED
  BY <1>1, <1>2, RunInvariant, PTL DEF JournalIsHonest

(* Once there is a report no failure of the model or the index costs a research run;
   only a challenge can still fail. *)
THEOREM ReportsAreKept == Spec => []ReportsSurvive
<1>1. RunInv => ReportsSurvive
  BY DEF RunInv, RunGood, Surviving, ReportsSurvive
<1>. QED
  BY <1>1, RunInvariant, PTL

(* For every budget: at most one step too many, the citation check within its own
   budget and never after a budget stopped the run, step frames numbered upwards. *)
THEOREM BudgetsHold == Spec => StepsAreCounted
<1>. DEFINE Counts == \A r \in Runs :
       /\ run'[r].steps <= MaxSteps + 1
       /\ run'[r].looked <= MaxRevalidationSteps
       /\ run'[r].looked > 0 => run'[r].reason = "finalized"
       /\ run'[r].frame >= run[r].frame \/ run'[r].pc = "ended"
<1>1. RunInv /\ [Next]_vars => [Counts]_vars
  <2>. SUFFICES ASSUME RunInv, Next PROVE Counts
    OBVIOUS
  <2>1. RunInv'
    BY RunInvNext
  <2>2. PICK r \in Runs : Lived(r)
    BY SomeRunLives
  <2>3. \A s \in Runs : run[s].frame \in Nat /\ (s # r => run'[s] = run[s])
    BY <2>2 DEF Lived, RunInv, Shaped, RunGood, Counted
  <2>. QED
    BY <2>1, <2>2, <2>3 DEF RunInv, RunGood, Counted, InLoop, Lived
<1>. QED
  BY <1>1, RunInvariant, PTL DEF Spec, StepsAreCounted
-----------------------------------------------------------------------------
(* How far a run is: its counters are within their limits, and each of its steps
   leads to a later position. *)

\* The places before the loop may have been left for a counter that is used up.
Untried == {"idle", "asked", "start", "plan", "turn", "batch", "checkpoint"}

Limited(x) ==
  /\ x.pc \in PCs
  /\ x.retries \in Nat /\ x.dups \in Nat /\ x.reopens \in 0..MaxReopens
  /\ x.calls \in 0..MaxCalls /\ x.left \in 0..Sections
  /\ x.attempts \in 0..MaxEmptyReportRetries
  /\ x.turns \in 0..MaxRevalidationTurns
  /\ x.pc \in Untried \/ (x.pc = "assess" /\ x.reason = "finalized")
       => x.retries <= MaxParseRetries /\ x.dups <= MaxDuplicateCalls

Later(x, y) == Before(Position(x), Position(y))

Advanced(x, y) == Limited(y) /\ Later(x, y)

OutOf(x) == x.reason \in {"budget_exhausted", "time_exhausted"}

\* The stage of each place.
LEMMA StageIs ==
  ASSUME NEW x
  PROVE  /\ x.pc = "idle" => Stage(x) = 0
         /\ x.pc = "asked" => Stage(x) = 1
         /\ x.pc = "start" => Stage(x) = 2
         /\ x.pc = "plan" => Stage(x) = 3
         /\ x.pc \in Loop => Stage(x) = 4
         /\ x.pc \in {"section", "draft"} => Stage(x) = 5
         /\ x.pc = "redraft" => Stage(x) = 6
         /\ x.pc = "gate" => Stage(x) = 7
         /\ x.pc \in {"recheck", "recheck_batch"} => Stage(x) = 8
         /\ x.pc \in {"rewrite", "resection"} => Stage(x) = 9
         /\ x.pc = "rerewrite" => Stage(x) = 10
         /\ x.pc = "ship" => Stage(x) = 11
         /\ x.pc = "verdict" => Stage(x) = 12
         /\ x.pc = "finish" => Stage(x) = 13
         /\ x.pc = "recorded" => Stage(x) = 14
         /\ x.pc = "unwinding" => Stage(x) = 15
         /\ x.pc = "unregistered" => Stage(x) = 16
         /\ x.pc = "ended" => Stage(x) = 17
  BY DEF Stage, Loop

\* Round, costs and place within the tool loop and the loops of the report.
LEMMA RoundIs ==
  ASSUME NEW x
  PROVE  /\ x.pc \in {"turn", "batch", "checkpoint"} =>
              Round(x) = 2 * x.reopens /\ Spent(x) = x.steps + x.retries + x.dups
         /\ x.pc = "assess" => Round(x) = 2 * x.reopens + 1
         /\ x.pc \in {"section", "resection"} => Round(x) = Sections - x.left
         /\ x.pc \in {"draft", "rewrite"} => Round(x) = x.attempts
         /\ x.pc \in {"recheck", "recheck_batch"} => Round(x) = x.turns
         /\ x.pc \notin {"turn", "batch", "checkpoint"} => Spent(x) = 0
         /\ x.pc \notin Loop \cup {"section", "resection", "draft", "rewrite",
                                   "recheck", "recheck_batch"} => Round(x) = 0
  BY DEF Round, Spent, Loop

LEMMA PlaceIs ==
  ASSUME NEW x
  PROVE  /\ x.pc = "turn" => Place(x) = 1
         /\ x.pc = "batch" => Place(x) = IF OutOf(x) THEN 3 * MaxCalls + 1 - x.calls
                                                     ELSE 2 * x.calls
         /\ x.pc = "recheck_batch" => Place(x) = MaxCalls - x.calls
         /\ x.pc = "recheck" => Place(x) = MaxCalls + 1
         /\ x.pc \notin {"turn", "batch", "recheck", "recheck_batch"} => Place(x) = 0
  BY DEF Place, OutOf

\* Positions are ordered by stage, round, costs and place.
LEMMA LaterIs ==
  ASSUME NEW x, NEW y
  PROVE  Later(x, y) <=>
           \/ Stage(x) < Stage(y)
           \/ /\ Stage(x) = Stage(y)
              /\ \/ Round(x) < Round(y)
                 \/ /\ Round(x) = Round(y)
                    /\ \/ Spent(x) < Spent(y)
                       \/ Spent(x) = Spent(y) /\ Place(x) < Place(y)
  BY DEF Later, Before, Position

\* The budgets as numbers.
LEMMA Budgets ==
  /\ MaxSteps \in Nat /\ MaxRevalidationTurns \in Nat /\ MaxCalls \in Nat
  /\ Sections \in Nat /\ MaxParseRetries \in Nat /\ MaxDuplicateCalls \in Nat
  /\ MaxReopens \in Nat /\ MaxEmptyReportRetries \in Nat
  BY ResearchBoundsAssumption

\* A run within its limits is at one of finitely many positions.
LEMMA LimitedPosition ==
  ASSUME NEW x, Limited(x), InLoop(x)
  PROVE  Position(x) \in Positions
<1>1. Stage(x) \in 0..17
  BY StageIs DEF Limited, PCs, Working, Investigating, Reporting, Loop
<1>2. Round(x) \in 0..(2 * MaxReopens + 1 + MaxEmptyReportRetries
                         + MaxRevalidationTurns + Sections)
  <2>1. CASE x.pc \in Loop
    BY <2>1, RoundIs, Budgets DEF Limited, Loop
  <2>2. CASE x.pc \notin Loop
    BY <2>2, RoundIs, Budgets DEF Limited
  <2>. QED
    BY <2>1, <2>2
<1>3. Spent(x) \in 0..(MaxSteps + 1 + MaxParseRetries + MaxDuplicateCalls)
  <2>1. CASE x.pc \in {"turn", "batch", "checkpoint"}
    <3>1. Spent(x) = x.steps + x.retries + x.dups
      BY <2>1, RoundIs
    <3>2. x.retries <= MaxParseRetries /\ x.dups <= MaxDuplicateCalls
      BY <2>1 DEF Limited, Untried
    <3>. QED
      BY <3>1, <3>2, Budgets DEF Limited, InLoop
  <2>2. CASE x.pc \notin {"turn", "batch", "checkpoint"}
    BY <2>2, RoundIs, Budgets
  <2>. QED
    BY <2>1, <2>2
<1>4. Place(x) \in 0..(3 * MaxCalls + 1)
  <2>1. CASE x.pc = "batch"
    BY <2>1, PlaceIs, Budgets DEF Limited
  <2>2. CASE x.pc # "batch"
    BY <2>2, PlaceIs, Budgets DEF Limited
  <2>. QED
    BY <2>1, <2>2
<1>. QED
  BY <1>1, <1>2, <1>3, <1>4 DEF Position, Positions

\* A step to a later stage that leaves the counters alone or sets them back.
LEMMA NextStage ==
  ASSUME NEW x, NEW y, Limited(x), Stage(x) < Stage(y),
         y.pc \in PCs, y.pc # "assess", y.pc \in Untried => x.pc \in Untried,
         y.retries \in {0, x.retries}, y.dups \in {0, x.dups},
         y.reopens \in {0, x.reopens}, y.calls \in {0, x.calls},
         y.left \in {0, x.left, Sections}, y.attempts \in {0, x.attempts},
         y.turns \in {0, x.turns}
  PROVE  Advanced(x, y)
<1>1. Limited(y)
  BY Budgets DEF Limited, Untried
<1>. QED
  BY <1>1, LaterIs DEF Advanced

\* A live run may end at any time.
LEMMA EndsLater ==
  ASSUME NEW x, NEW y, Limited(x), x.pc \in Working, y.pc = "unwinding",
         \A f \in {"retries", "dups", "reopens", "left", "attempts", "turns"} : y[f] = x[f],
         y.calls \in 0..MaxCalls
  PROVE  Advanced(x, y)
<1>1. Stage(x) < 15 /\ Stage(y) = 15
  BY StageIs DEF Working, Investigating, Reporting, Loop
<1>2. Limited(y)
  BY DEF Limited, Untried, PCs, Alive
<1>. QED
  BY <1>1, <1>2, LaterIs DEF Advanced

\* The ways a run ends within its task.
LEMMA StopsLater ==
  ASSUME NEW r \in Runs, Shaped, Limited(run[r]), run[r].pc \in Working
  PROVE  /\ Advanced(run[r], Failed(r)) /\ Advanced(run[r], Undelivered(r))
         /\ Advanced(run[r], [run[r] EXCEPT !.pc = "unwinding"])
         /\ \A token : TurnFails(r, token) => Advanced(run[r], run'[r])
<1>1. /\ Advanced(run[r], Failed(r)) /\ Advanced(run[r], Undelivered(r))
      /\ Advanced(run[r], [run[r] EXCEPT !.pc = "unwinding"])
  <2>1. ASSUME NEW y, y \in {Failed(r), Undelivered(r), [run[r] EXCEPT !.pc = "unwinding"]}
        PROVE  Advanced(run[r], y)
    <3>1. /\ y.pc = "unwinding" /\ y.calls = run[r].calls
          /\ \A f \in {"retries", "dups", "reopens", "left", "attempts", "turns"} :
               y[f] = run[r][f]
      <4>1. CASE y = Failed(r)
        BY <4>1, Fields DEF Failed
      <4>2. CASE y = Undelivered(r)
        BY <4>2, Fields DEF Undelivered
      <4>3. CASE y = [run[r] EXCEPT !.pc = "unwinding"]
        BY <4>3, Fields
      <4>. QED
        BY <2>1, <4>1, <4>2, <4>3
    <3>. QED
      BY <3>1, EndsLater DEF Limited
  <2>. QED
    BY <2>1
<1>. QED
  BY <1>1, Becomes DEF TurnFails, Abort, Fail

\* Costs in the tool loop.
LEMMA CostsLater ==
  ASSUME NEW x, NEW y, Limited(x), InLoop(x), Limited(y), InLoop(y),
         {x.pc, y.pc} \subseteq {"turn", "batch", "checkpoint"},
         y.reopens = x.reopens,
         \/ x.steps + x.retries + x.dups < y.steps + y.retries + y.dups
         \/ /\ x.steps + x.retries + x.dups = y.steps + y.retries + y.dups
            /\ Place(x) < Place(y)
  PROVE  Advanced(x, y)
<1>1. Stage(x) = 4 /\ Stage(y) = 4
  BY StageIs DEF Loop
<1>2. Round(x) = Round(y) /\ Spent(x) = x.steps + x.retries + x.dups
      /\ Spent(y) = y.steps + y.retries + y.dups
  BY RoundIs
<1>. QED
  BY <1>1, <1>2, LaterIs DEF Advanced

\* The loop is left, for the sufficiency check.
LEMMA LeavingLater ==
  ASSUME NEW x, NEW y, Limited(x), x.pc \in {"turn", "batch"}, y.pc = "assess",
         \A f \in {"reopens", "left", "attempts", "turns"} : y[f] = x[f],
         y.calls \in {0, x.calls},
         y.retries \in Nat, y.dups \in Nat,
         y.reason = "finalized" => y.retries = x.retries /\ y.dups = x.dups
  PROVE  Advanced(x, y)
<1>1. Limited(y)
  BY Budgets DEF Limited, Untried, PCs, Working, Investigating
<1>2. Stage(x) = 4 /\ Stage(y) = 4
  BY StageIs DEF Loop
<1>3. Round(x) = 2 * x.reopens /\ Round(y) = 2 * x.reopens + 1
  BY RoundIs
<1>. QED
  BY <1>1, <1>2, <1>3, LaterIs DEF Advanced, Limited

\* Every step of the investigation leads on.
LEMMA InvestigationAdvances ==
  ASSUME NEW r \in Runs, Shaped, InLoop(run[r]), Limited(run[r]), InvestigationStep(r)
  PROVE  Advanced(run[r], run'[r])
<1>0. run[r].pc \in Investigating
  BY DEF InvestigationStep, At, Start, PlanTurn, Turn, ToolCall, BatchDone,
         Checkpoint, Assess, Investigating
<1>a. /\ \A token : TurnFails(r, token) => Advanced(run[r], run'[r])
      /\ Fail(r) \/ Abort(r) => Advanced(run[r], run'[r])
      /\ \A y : Advanced(run[r], y) /\ (Become(r, y) \/ Send(r, y))
               => Advanced(run[r], run'[r])
      /\ Send(r, Failed(r)) => Advanced(run[r], run'[r])
  BY <1>0, StopsLater, Becomes, Sends DEF Working, Fail, Abort
<1>b. ASSUME run[r].pc \in {"turn", "batch"}
      PROVE  \A reason : Advanced(run[r], LeaveLoop(r, reason))
  <2>1. ASSUME NEW reason, NEW y, y = LeaveLoop(r, reason)
        PROVE  Advanced(run[r], y)
    <3>1. /\ y.pc = "assess" /\ y.calls = 0
          /\ \A f \in {"reopens", "left", "attempts", "turns", "retries", "dups"} :
               y[f] = run[r][f]
      BY <2>1, Fields DEF LeaveLoop
    <3>. QED
      BY <1>b, <3>1, LeavingLater DEF Limited
  <2>. QED
    BY <2>1
<1>1. CASE Start(r)
  <2>1. Advanced(run[r], [run[r] EXCEPT !.pc = "plan"])
    BY <1>1, Fields, NextStage, StageIs
       DEF Start, At, Untried, PCs, Working, Investigating
  <2>. QED
    BY <1>1, <1>a, <2>1 DEF Start
<1>2. CASE PlanTurn(r)
  <2>1. ASSUME NEW y, NEW p, \/ y = [run[r] EXCEPT !.pc = "turn", !.plan = p]
                            \/ y = [run[r] EXCEPT !.pc = "turn", !.work = p]
        PROVE  Advanced(run[r], y)
    <3>1. /\ y.pc = "turn"
          /\ \A f \in {"retries", "reopens", "left", "attempts", "turns", "dups", "calls"} :
               y[f] = run[r][f]
      <4>1. CASE y = [run[r] EXCEPT !.pc = "turn", !.plan = p]
        BY <4>1, Fields
      <4>2. CASE y = [run[r] EXCEPT !.pc = "turn", !.work = p]
        BY <4>2, Fields
      <4>. QED
        BY <2>1, <4>1, <4>2
    <3>2. run[r].pc = "plan" /\ Stage(run[r]) = 3 /\ Stage(y) = 4
      BY <1>2, <3>1, StageIs DEF PlanTurn, At, Loop
    <3>. QED
      BY <3>1, <3>2, NextStage DEF Untried, PCs, Working, Investigating
  <2>. QED
    BY <1>2, <1>a, <2>1 DEF PlanTurn
<1>3. CASE Turn(r)
  <2>0. run[r].pc = "turn" /\ Place(run[r]) = 1
    BY <1>3, PlaceIs DEF Turn, At
  <2>1. CASE OutOfBudget(r)
    BY <1>a, <1>b, <2>0, <2>1 DEF OutOfBudget
  <2>2. CASE run[r].steps < MaxSteps /\ TurnAnswered(r)
    <3>1. ASSUME NEW n \in 1..MaxCalls
          PROVE  Advanced(run[r], [run[r] EXCEPT !.pc = "batch", !.calls = n])
      <4>. DEFINE y == [run[r] EXCEPT !.pc = "batch", !.calls = n]
      <4>1. /\ y.pc = "batch" /\ y.calls = n
            /\ \A f \in {"retries", "dups", "reopens", "left", "attempts", "turns",
                         "steps"} : y[f] = run[r][f]
        BY Fields
      <4>. HIDE DEF y
      <4>2. Limited(y) /\ InLoop(y)
        BY <2>0, <2>2, <4>1, Budgets
           DEF Limited, InLoop, Untried, PCs, Working, Investigating
      <4>3. Place(y) > 1
        BY <4>1, PlaceIs, Budgets
      <4>. QED
        BY <2>0, <4>1, <4>2, <4>3, CostsLater DEF y
    <3>2. ASSUME run[r].retries < MaxParseRetries
          PROVE  Advanced(run[r], [run[r] EXCEPT !.retries = @ + 1])
      <4>. DEFINE y == [run[r] EXCEPT !.retries = @ + 1]
      <4>1. /\ y.retries = run[r].retries + 1
            /\ \A f \in {"pc", "dups", "reopens", "left", "attempts", "turns", "steps",
                         "calls", "reason"} : y[f] = run[r][f]
        BY Fields
      <4>. HIDE DEF y
      <4>2. Limited(y) /\ InLoop(y)
        BY <2>0, <3>2, <4>1, Budgets
           DEF Limited, InLoop, Untried, PCs, Working, Investigating
      <4>3. run[r].steps + run[r].retries + run[r].dups < y.steps + y.retries + y.dups
        BY <4>1 DEF Limited, InLoop
      <4>. QED
        BY <2>0, <4>1, <4>2, <4>3, CostsLater DEF y
    <3>3. CASE \E n \in 1..MaxCalls :
                 Send(r, [run[r] EXCEPT !.pc = "batch", !.calls = n])
      BY <1>a, <3>1, <3>3
    <3>. QED
      BY <1>a, <1>b, <2>0, <2>2, <3>2, <3>3 DEF TurnAnswered
  <2>3. CASE Become(r, LeaveLoop(r, "time_exhausted"))
    BY <1>a, <1>b, <2>0, <2>3
  <2>. QED
    BY <1>3, <1>a, <2>1, <2>2, <2>3 DEF Turn
<1>4. CASE ToolCall(r)
  <2>0. run[r].pc = "batch" /\ run[r].calls > 0
    BY <1>4 DEF ToolCall, At
  <2>1. CASE UnmappedCall(r)
    <3>1. ASSUME run[r].retries < MaxParseRetries
          PROVE  Advanced(run[r], [run[r] EXCEPT !.calls = @ - 1, !.retries = @ + 1])
      <4>. DEFINE y == [run[r] EXCEPT !.calls = @ - 1, !.retries = @ + 1]
      <4>1. /\ y.retries = run[r].retries + 1 /\ y.calls = run[r].calls - 1
            /\ \A f \in {"pc", "dups", "reopens", "left", "attempts", "turns", "steps",
                         "reason"} : y[f] = run[r][f]
        BY Fields
      <4>. HIDE DEF y
      <4>2. Limited(y) /\ InLoop(y)
        BY <2>0, <3>1, <4>1, Budgets
           DEF Limited, InLoop, Untried, PCs, Working, Investigating
      <4>3. run[r].steps + run[r].retries + run[r].dups < y.steps + y.retries + y.dups
        BY <4>1 DEF Limited, InLoop
      <4>. QED
        BY <2>0, <4>1, <4>2, <4>3, CostsLater DEF y
    <3>2. Advanced(run[r], [LeaveLoop(r, "other") EXCEPT !.retries = @ + 1])
      <4>. DEFINE y == [LeaveLoop(r, "other") EXCEPT !.retries = @ + 1]
      <4>1. /\ y.pc = "assess" /\ y.calls = 0 /\ y.reason = "other"
            /\ y.retries = run[r].retries + 1
            /\ \A f \in {"reopens", "left", "attempts", "turns", "dups"} : y[f] = run[r][f]
        BY Fields DEF LeaveLoop
      <4>. HIDE DEF y
      <4>2. Advanced(run[r], y)
        BY <2>0, <4>1, LeavingLater DEF Limited
      <4>. QED
        BY <4>2 DEF y
    <3>. QED
      BY <1>a, <2>1, <3>1, <3>2 DEF UnmappedCall
  <2>2. CASE FinalizeCall(r)
    BY <1>a, <1>b, <2>0, <2>2 DEF FinalizeCall
  <2>3. CASE DuplicateCall(r)
    <3>1. ASSUME run[r].dups < MaxDuplicateCalls
          PROVE  Advanced(run[r], [run[r] EXCEPT !.calls = @ - 1, !.dups = @ + 1])
      <4>. DEFINE y == [run[r] EXCEPT !.calls = @ - 1, !.dups = @ + 1]
      <4>1. /\ y.dups = run[r].dups + 1 /\ y.calls = run[r].calls - 1
            /\ \A f \in {"pc", "retries", "reopens", "left", "attempts", "turns", "steps",
                         "reason"} : y[f] = run[r][f]
        BY Fields
      <4>. HIDE DEF y
      <4>2. Limited(y) /\ InLoop(y)
        BY <2>0, <3>1, <4>1, Budgets
           DEF Limited, InLoop, Untried, PCs, Working, Investigating
      <4>3. run[r].steps + run[r].retries + run[r].dups < y.steps + y.retries + y.dups
        BY <4>1 DEF Limited, InLoop
      <4>. QED
        BY <2>0, <4>1, <4>2, <4>3, CostsLater DEF y
    <3>2. Advanced(run[r], [LeaveLoop(r, "other") EXCEPT !.dups = @ + 1])
      <4>. DEFINE y == [LeaveLoop(r, "other") EXCEPT !.dups = @ + 1]
      <4>1. /\ y.pc = "assess" /\ y.calls = 0 /\ y.reason = "other"
            /\ y.dups = run[r].dups + 1
            /\ \A f \in {"reopens", "left", "attempts", "turns", "retries"} : y[f] = run[r][f]
        BY Fields DEF LeaveLoop
      <4>. HIDE DEF y
      <4>2. Advanced(run[r], y)
        BY <2>0, <4>1, LeavingLater DEF Limited
      <4>. QED
        BY <4>2 DEF y
    <3>. QED
      BY <1>a, <2>3, <3>1, <3>2 DEF DuplicateCall
  <2>4. CASE FreshCall(r)
    <3>1. ASSUME NEW reason \in {"budget_exhausted", "time_exhausted"}
          PROVE  Advanced(run[r], [run[r] EXCEPT !.calls = @ - 1, !.reason = reason])
      <4>. DEFINE y == [run[r] EXCEPT !.calls = @ - 1, !.reason = reason]
      <4>1. /\ y.reason = reason /\ y.calls = run[r].calls - 1
            /\ \A f \in {"pc", "retries", "reopens", "left", "attempts", "turns", "steps",
                         "dups"} : y[f] = run[r][f]
        BY Fields
      <4>. HIDE DEF y
      <4>2. Limited(y) /\ InLoop(y)
        BY <2>0, <4>1, Budgets
           DEF Limited, InLoop, Untried, PCs, Working, Investigating
      <4>3. Place(run[r]) < Place(y)
        <5>1. Place(y) = 3 * MaxCalls + 2 - run[r].calls
          BY <2>0, <4>1, PlaceIs, Budgets DEF OutOf, Limited
        <5>2. Place(run[r]) \in {3 * MaxCalls + 1 - run[r].calls, 2 * run[r].calls}
          BY <2>0, PlaceIs
        <5>. QED
          BY <5>1, <5>2, Budgets DEF Limited
      <4>. QED
        BY <2>0, <4>1, <4>2, <4>3, CostsLater DEF y
    <3>2. ASSUME run[r].steps < MaxSteps
          PROVE  /\ Advanced(run[r], Stepped(r))
                 /\ \A p : Advanced(run[r], [Stepped(r) EXCEPT !.plan = p])
      <4>1. ASSUME NEW y, NEW p, y = Stepped(r) \/ y = [Stepped(r) EXCEPT !.plan = p]
            PROVE  Advanced(run[r], y)
        <5>1. /\ y.steps = run[r].steps + 1 /\ y.calls = run[r].calls - 1
              /\ \A f \in {"pc", "retries", "reopens", "left", "attempts", "turns", "dups",
                           "reason"} : y[f] = run[r][f]
          <6>1. CASE y = Stepped(r)
            BY <6>1, Fields DEF Stepped
          <6>2. CASE y = [Stepped(r) EXCEPT !.plan = p]
            BY <6>2, Fields DEF Stepped
          <6>. QED
            BY <4>1, <6>1, <6>2
        <5>2. Limited(y) /\ InLoop(y)
          BY <2>0, <3>2, <5>1, Budgets
             DEF Limited, InLoop, Untried, PCs, Working, Investigating
        <5>3. run[r].steps + run[r].retries + run[r].dups < y.steps + y.retries + y.dups
          BY <5>1 DEF Limited, InLoop
        <5>. QED
          BY <2>0, <5>1, <5>2, <5>3, CostsLater
      <4>. QED
        BY <4>1
    <3>3. ASSUME NEW reason \in {"budget_exhausted", "time_exhausted"}, Refuse(r, reason)
          PROVE  Advanced(run[r], run'[r])
      BY <1>a, <3>1, <3>3 DEF Refuse
    <3>4. CASE run[r].steps < MaxSteps /\ (LocalCall(r) \/ LookupCall(r))
      BY <1>a, <3>2, <3>4 DEF LocalCall, LookupCall
    <3>. QED
      BY <1>a, <2>4, <3>3, <3>4 DEF FreshCall
  <2>. QED
    BY <1>4, <2>1, <2>2, <2>3, <2>4 DEF ToolCall
<1>5. CASE BatchDone(r)
  <2>0. run[r].pc = "batch" /\ run[r].calls = 0
    BY <1>5 DEF BatchDone, At
  <2>1. ASSUME CheckpointDue(r)
        PROVE  Advanced(run[r], [run[r] EXCEPT !.pc = "checkpoint",
                                   !.last = run[r].steps,
                                   !.checks = @ + 1, !.steps = @ + 1])
    <3>. DEFINE y == [run[r] EXCEPT !.pc = "checkpoint", !.last = run[r].steps,
                                    !.checks = @ + 1, !.steps = @ + 1]
    <3>1. /\ y.pc = "checkpoint" /\ y.steps = run[r].steps + 1
          /\ \A f \in {"retries", "reopens", "left", "attempts", "turns", "dups", "calls",
                       "reason"} : y[f] = run[r][f]
      BY Fields
    <3>. HIDE DEF y
    <3>2. Limited(y) /\ InLoop(y)
      BY <2>0, <3>1, Budgets DEF Limited, InLoop, Untried, PCs, Working, Investigating
    <3>3. run[r].steps + run[r].retries + run[r].dups < y.steps + y.retries + y.dups
      BY <3>1 DEF Limited, InLoop
    <3>. QED
      BY <2>0, <3>1, <3>2, <3>3, CostsLater DEF y
  <2>2. CASE Exhausted(r) /\ Become(r, [run[r] EXCEPT !.pc = "assess"])
    <3>1. Advanced(run[r], [run[r] EXCEPT !.pc = "assess"])
      BY <2>0, <2>2, Fields, LeavingLater DEF Limited, Exhausted
    <3>. QED
      BY <1>a, <2>2, <3>1
  <2>3. CASE ~Exhausted(r) /\ Become(r, [run[r] EXCEPT !.pc = "turn"])
    <3>. DEFINE y == [run[r] EXCEPT !.pc = "turn"]
    <3>1. /\ y.pc = "turn"
          /\ \A f \in {"retries", "reopens", "left", "attempts", "turns", "dups", "calls",
                       "reason", "steps"} : y[f] = run[r][f]
      BY Fields
    <3>. HIDE DEF y
    <3>2. Limited(y) /\ InLoop(y)
      BY <2>0, <3>1, Budgets DEF Limited, InLoop, Untried, PCs, Working, Investigating
    <3>3. Place(run[r]) = 0 /\ Place(y) = 1
      BY <2>0, <2>3, <3>1, PlaceIs DEF Exhausted, OutOf
    <3>4. Advanced(run[r], y)
      BY <2>0, <3>1, <3>2, <3>3, CostsLater
    <3>. QED
      BY <1>a, <2>3, <3>4 DEF y
  <2>. QED
    BY <1>5, <1>a, <2>1, <2>2, <2>3 DEF BatchDone
<1>6. CASE Checkpoint(r)
  <2>0. run[r].pc = "checkpoint"
    BY <1>6 DEF Checkpoint, At
  <2>1. ASSUME NEW y, NEW b, \/ y = [run[r] EXCEPT !.pc = "turn", !.banked = b]
                            \/ y = [run[r] EXCEPT !.pc = "turn", !.work = b]
        PROVE  Advanced(run[r], y)
    <3>1. /\ y.pc = "turn"
          /\ \A f \in {"retries", "reopens", "left", "attempts", "turns", "dups", "calls",
                       "reason", "steps"} : y[f] = run[r][f]
      <4>1. CASE y = [run[r] EXCEPT !.pc = "turn", !.banked = b]
        BY <4>1, Fields
      <4>2. CASE y = [run[r] EXCEPT !.pc = "turn", !.work = b]
        BY <4>2, Fields
      <4>. QED
        BY <2>1, <4>1, <4>2
    <3>2. Limited(y) /\ InLoop(y)
      BY <2>0, <3>1, Budgets DEF Limited, InLoop, Untried, PCs, Working, Investigating
    <3>3. Place(run[r]) = 0 /\ Place(y) = 1
      BY <2>0, <3>1, PlaceIs
    <3>. QED
      BY <2>0, <3>1, <3>2, <3>3, CostsLater
  <2>. QED
    BY <1>6, <1>a, <2>1 DEF Checkpoint
<1>7. CASE Assess(r)
  <2>0. run[r].pc = "assess"
    BY <1>7 DEF Assess, At
  <2>1. Advanced(run[r], OpenReport(r))
    <3>1. OpenReport(r).pc \in {"section", "draft"}
      BY Fields DEF OpenReport
    <3>2. Stage(run[r]) = 4 /\ Stage(OpenReport(r)) = 5
      BY <2>0, <3>1, StageIs DEF Loop
    <3>3. /\ OpenReport(r).left \in {0, Sections}
          /\ \A f \in {"retries", "dups", "reopens"} : OpenReport(r)[f] = 0
          /\ \A f \in {"calls", "attempts", "turns"} : OpenReport(r)[f] = run[r][f]
      BY Fields DEF OpenReport
    <3>. QED
      BY <3>1, <3>2, <3>3, NextStage DEF PCs, Working, Reporting, Untried
  <2>2. ASSUME run[r].reason = "finalized", run[r].reopens < MaxReopens
        PROVE  Advanced(run[r], [run[r] EXCEPT !.pc = "turn", !.reopens = @ + 1])
    <3>. DEFINE y == [run[r] EXCEPT !.pc = "turn", !.reopens = @ + 1]
    <3>1. /\ y.pc = "turn" /\ y.reopens = run[r].reopens + 1
          /\ \A f \in {"retries", "left", "attempts", "turns", "dups", "calls",
                       "reason", "steps"} : y[f] = run[r][f]
      BY Fields
    <3>. HIDE DEF y
    <3>2. Limited(y)
      BY <2>0, <2>2, <3>1, Budgets DEF Limited, Untried, PCs, Working, Investigating
    <3>3. /\ Stage(run[r]) = 4 /\ Stage(y) = 4
          /\ Round(run[r]) = 2 * run[r].reopens + 1
          /\ Round(y) = 2 * (run[r].reopens + 1)
      BY <2>0, <3>1, StageIs, RoundIs DEF Loop
    <3>. QED
      BY <3>2, <3>3, LaterIs DEF Advanced, Limited, y
  <2>. QED
    BY <1>7, <1>a, <2>1, <2>2 DEF Assess
<1>. QED
  BY <1>1, <1>2, <1>3, <1>4, <1>5, <1>6, <1>7 DEF InvestigationStep

\* A later round of the same stage.
LEMMA RoundLater ==
  ASSUME NEW x, NEW y, Limited(y), Stage(x) = Stage(y), Round(x) < Round(y)
  PROVE  Advanced(x, y)
  BY LaterIs DEF Advanced

\* The counters that a step of the report phase may set back: it goes to the next
\* stage.
SetBack(x, y) ==
  /\ y.retries = x.retries /\ y.dups = x.dups /\ y.reopens = x.reopens
  /\ y.calls = x.calls
  /\ y.left \in {x.left, Sections}
  /\ y.attempts \in {0, x.attempts} /\ y.turns \in {0, x.turns}

\* The stages of the report phase that a step may go to from each.
LEMMA ReportStages ==
  ASSUME NEW x, NEW y, Limited(x), SetBack(x, y),
         \/ x.pc \in {"section", "draft"} /\ y.pc \in {"redraft", "gate"}
         \/ x.pc = "redraft" /\ y.pc = "gate"
         \/ x.pc = "gate" /\ y.pc \in {"recheck", "rewrite", "resection", "ship"}
         \/ x.pc = "recheck" /\ y.pc \in {"rewrite", "resection"}
         \/ x.pc = "rewrite" /\ y.pc \in {"rerewrite", "ship", "verdict"}
         \/ x.pc = "rerewrite" /\ y.pc \in {"ship", "verdict"}
         \/ x.pc = "resection" /\ y.pc = "ship"
         \/ x.pc = "ship" /\ y.pc = "verdict"
         \/ x.pc = "verdict" /\ y.pc = "finish"
         \/ x.pc = "finish" /\ y.pc = "recorded"
         \/ x.pc = "recorded" /\ y.pc = "unwinding"
  PROVE  Advanced(x, y)
<1>1. Stage(x) < Stage(y)
  BY StageIs
<1>2. y.pc \in PCs /\ y.pc \notin Untried \cup {"assess"}
  BY DEF PCs, Working, Reporting, Untried
<1>. QED
  BY <1>1, <1>2, NextStage DEF SetBack

\* What the steps to another stage make of the counters.
LEMMA ReportSetsBack ==
  ASSUME NEW r \in Runs, Shaped
  PROVE  /\ \A text : /\ SetBack(run[r], Drafted(r, text))
                      /\ Drafted(r, text).pc = "gate"
                      /\ \A b : /\ SetBack(run[r], [Drafted(r, text) EXCEPT !.forced = b])
                               /\ [Drafted(r, text) EXCEPT !.forced = b].pc = "gate"
         /\ SetBack(run[r], Forced(r)) /\ Forced(r).pc = "gate"
         /\ \A pc : /\ SetBack(run[r], GoTo(r, pc)) /\ GoTo(r, pc).pc = pc
                    /\ SetBack(run[r], [GoTo(r, pc) EXCEPT !.torn = TRUE])
                    /\ [GoTo(r, pc) EXCEPT !.torn = TRUE].pc = pc
         /\ SetBack(run[r], Repair(r)) /\ Repair(r).pc \in {"rewrite", "resection"}
         /\ \A text : /\ SetBack(run[r], Rewritten(r, text))
                      /\ Rewritten(r, text).pc = "verdict"
<1>1. ASSUME NEW text, NEW b, NEW y,
             y = Drafted(r, text) \/ y = [Drafted(r, text) EXCEPT !.forced = b]
      PROVE  SetBack(run[r], y) /\ y.pc = "gate"
  <2>1. CASE y = Drafted(r, text)
    BY <2>1, Fields DEF Drafted, SetBack
  <2>2. CASE y = [Drafted(r, text) EXCEPT !.forced = b]
    BY <2>2, Fields DEF Drafted, SetBack
  <2>. QED
    BY <1>1, <2>1, <2>2
<1>2. SetBack(run[r], Forced(r)) /\ Forced(r).pc = "gate"
  BY <1>1 DEF Forced
<1>3. ASSUME NEW pc, NEW y, y = GoTo(r, pc) \/ y = [GoTo(r, pc) EXCEPT !.torn = TRUE]
      PROVE  SetBack(run[r], y) /\ y.pc = pc
  <2>1. CASE y = GoTo(r, pc)
    BY <2>1, Fields DEF GoTo, SetBack
  <2>2. CASE y = [GoTo(r, pc) EXCEPT !.torn = TRUE]
    BY <2>2, Fields DEF GoTo, SetBack
  <2>. QED
    BY <1>3, <2>1, <2>2
<1>4. SetBack(run[r], Repair(r)) /\ Repair(r).pc \in {"rewrite", "resection"}
  <2>1. CASE run[r].sectioned
    BY <2>1, Fields DEF Repair, GoTo, SetBack
  <2>2. CASE ~run[r].sectioned
    BY <1>3, <2>2 DEF Repair
  <2>. QED
    BY <2>1, <2>2
<1>5. ASSUME NEW text
      PROVE  SetBack(run[r], Rewritten(r, text)) /\ Rewritten(r, text).pc = "verdict"
  BY Fields DEF Rewritten, SetBack
<1>. QED
  BY <1>1, <1>2, <1>3, <1>4, <1>5

\* One more section is written or given up.
LEMMA SectionsLater ==
  ASSUME NEW r \in Runs, Shaped, Limited(run[r]), run[r].left > 0,
         run[r].pc \in {"section", "resection"}
  PROVE  /\ Advanced(run[r], Wrote(r)) /\ Advanced(run[r], GaveUp(r))
         /\ \A b, c : Advanced(run[r], [GaveUp(r) EXCEPT !.written = b, !.early = c])
<1>1. ASSUME NEW b, NEW c, NEW y,
             y \in {Wrote(r), GaveUp(r), [GaveUp(r) EXCEPT !.written = b, !.early = c]}
      PROVE  Advanced(run[r], y)
  <2>1. /\ y.left = run[r].left - 1
        /\ \A f \in {"pc", "retries", "reopens", "attempts", "turns", "dups", "calls"} :
             y[f] = run[r][f]
    <3>1. CASE y = Wrote(r)
      BY <3>1, Fields DEF Wrote
    <3>2. CASE y = GaveUp(r)
      BY <3>2, Fields DEF GaveUp
    <3>3. CASE y = [GaveUp(r) EXCEPT !.written = b, !.early = c]
      BY <3>3, Fields DEF GaveUp
    <3>. QED
      BY <1>1, <3>1, <3>2, <3>3
  <2>2. Limited(y)
    BY <2>1, Budgets DEF Limited, Untried
  <2>3. Round(run[r]) = Sections - run[r].left /\ Round(y) = Sections - run[r].left + 1
    BY <2>1, RoundIs, Budgets DEF Limited
  <2>4. Stage(run[r]) = Stage(y) /\ Round(run[r]) < Round(y)
    BY <2>1, <2>3, StageIs, Budgets DEF Limited
  <2>. QED
    BY <2>2, <2>4, RoundLater
<1>. QED
  BY <1>1

\* One more attempt at a report.
LEMMA AttemptsLater ==
  ASSUME NEW r \in Runs, Shaped, Limited(run[r]), run[r].pc \in {"draft", "rewrite"},
         run[r].attempts < MaxEmptyReportRetries
  PROVE  /\ Advanced(run[r], [run[r] EXCEPT !.attempts = @ + 1])
         /\ Advanced(run[r], [[run[r] EXCEPT !.attempts = @ + 1] EXCEPT !.torn = TRUE])
<1>1. ASSUME NEW y, \/ y = [run[r] EXCEPT !.attempts = @ + 1]
                    \/ y = [[run[r] EXCEPT !.attempts = @ + 1] EXCEPT !.torn = TRUE]
      PROVE  Advanced(run[r], y)
  <2>1. /\ y.attempts = run[r].attempts + 1
        /\ \A f \in {"pc", "retries", "reopens", "left", "turns", "dups", "calls"} :
             y[f] = run[r][f]
    <3>1. CASE y = [run[r] EXCEPT !.attempts = @ + 1]
      BY <3>1, Fields
    <3>2. CASE y = [[run[r] EXCEPT !.attempts = @ + 1] EXCEPT !.torn = TRUE]
      BY <3>2, Fields
    <3>. QED
      BY <1>1, <3>1, <3>2
  <2>2. Limited(y)
    BY <2>1, Budgets DEF Limited, Untried
  <2>3. Round(run[r]) = run[r].attempts /\ Round(y) = run[r].attempts + 1
    BY <2>1, RoundIs
  <2>4. Stage(run[r]) = Stage(y) /\ Round(run[r]) < Round(y)
    BY <2>1, <2>3, StageIs DEF Limited
  <2>. QED
    BY <2>2, <2>4, RoundLater
<1>. QED
  BY <1>1

\* A call of the citation check is taken off the batch.
Answered(x, y) ==
  /\ y.calls = x.calls - 1
  /\ \A f \in {"retries", "reopens", "left", "turns", "dups", "attempts"} : y[f] = x[f]
  /\ y.pc \in {"recheck_batch", "unwinding"}

\* The citation check: its turns are counted, its batches are answered call by call.
LEMMA CheckLater ==
  ASSUME NEW r \in Runs, Shaped, Limited(run[r])
  PROVE  /\ At(r, "recheck") /\ run[r].turns < MaxRevalidationTurns =>
              \A n \in 1..MaxCalls :
                Advanced(run[r], [run[r] EXCEPT !.pc = "recheck_batch",
                                                !.calls = n, !.turns = @ + 1])
         /\ At(r, "recheck_batch") =>
              Advanced(run[r], [run[r] EXCEPT !.pc = "recheck"])
         /\ At(r, "recheck_batch") /\ run[r].calls > 0 =>
              \A y : Answered(run[r], y) => Advanced(run[r], y)
<1>1. ASSUME At(r, "recheck"), run[r].turns < MaxRevalidationTurns, NEW n \in 1..MaxCalls,
             NEW y, y = [run[r] EXCEPT !.pc = "recheck_batch", !.calls = n, !.turns = @ + 1]
      PROVE  Advanced(run[r], y)
  <2>1. /\ y.pc = "recheck_batch" /\ y.calls = n /\ y.turns = run[r].turns + 1
        /\ \A f \in {"retries", "reopens", "left", "attempts", "dups"} : y[f] = run[r][f]
    BY <1>1, Fields
  <2>2. Limited(y)
    BY <1>1, <2>1, Budgets DEF Limited, Untried, PCs, Working, Reporting
  <2>3. Round(run[r]) = run[r].turns /\ Round(y) = run[r].turns + 1
    BY <1>1, <2>1, RoundIs DEF At
  <2>4. Stage(run[r]) = 8 /\ Stage(y) = 8
    <3>1. run[r].pc = "recheck"
      BY <1>1 DEF At
    <3>. QED
      BY <2>1, <3>1, StageIs
  <2>5. Round(run[r]) < Round(y)
    BY <2>3 DEF Limited
  <2>. QED
    BY <2>2, <2>4, <2>5, RoundLater
<1>2. ASSUME At(r, "recheck_batch"), NEW y,
             \/ /\ y.pc = "recheck" /\ y.calls = run[r].calls
             \/ /\ run[r].calls > 0 /\ y.pc = "recheck_batch"
                /\ y.calls = run[r].calls - 1,
             \A f \in {"retries", "reopens", "left", "turns", "dups", "attempts"} :
               y[f] = run[r][f]
      PROVE  Advanced(run[r], y)
  <2>1. Limited(y)
    BY <1>2, Budgets DEF Limited, Untried, PCs, Working, Reporting, At
  <2>2. Stage(run[r]) = Stage(y) /\ Round(run[r]) = Round(y) /\ Spent(run[r]) = Spent(y)
    BY <1>2, StageIs, RoundIs DEF At
  <2>3. Place(run[r]) = MaxCalls - run[r].calls
    BY <1>2, PlaceIs DEF At
  <2>4. Place(y) = IF y.pc = "recheck" THEN MaxCalls + 1 ELSE MaxCalls - y.calls
    BY <1>2, PlaceIs
  <2>5. Place(run[r]) < Place(y)
    BY <1>2, <2>3, <2>4, Budgets DEF Limited
  <2>. QED
    BY <2>1, <2>2, <2>5, LaterIs DEF Advanced
<1>3. At(r, "recheck_batch") => Advanced(run[r], [run[r] EXCEPT !.pc = "recheck"])
  <2>. SUFFICES ASSUME At(r, "recheck_batch"), NEW y, y = [run[r] EXCEPT !.pc = "recheck"]
                PROVE  Advanced(run[r], y)
    OBVIOUS
  <2>1. /\ y.pc = "recheck"
        /\ \A f \in {"retries", "reopens", "left", "turns", "dups", "attempts", "calls"} :
             y[f] = run[r][f]
    BY Fields
  <2>. QED
    BY <1>2, <2>1
<1>4. ASSUME At(r, "recheck_batch"), run[r].calls > 0, NEW y, y.calls = run[r].calls - 1,
             \A f \in {"retries", "reopens", "left", "turns", "dups", "attempts"} :
               y[f] = run[r][f],
             y.pc = "unwinding"
      PROVE  Advanced(run[r], y)
  <2>1. run[r].pc \in Working
    BY <1>4 DEF At, Working, Reporting
  <2>2. y.calls \in 0..MaxCalls
    BY <1>4, Budgets DEF Limited
  <2>. QED
    BY <1>4, <2>1, <2>2, EndsLater
<1>5. ASSUME At(r, "recheck_batch"), run[r].calls > 0, NEW y, Answered(run[r], y)
      PROVE  Advanced(run[r], y)
  <2>1. CASE y.pc = "recheck_batch"
    BY <1>2, <1>5, <2>1 DEF Answered
  <2>2. CASE y.pc = "unwinding"
    BY <1>4, <1>5, <2>2 DEF Answered
  <2>. QED
    BY <1>5, <2>1, <2>2 DEF Answered
<1>6. At(r, "recheck") /\ run[r].turns < MaxRevalidationTurns =>
        \A n \in 1..MaxCalls :
          Advanced(run[r], [run[r] EXCEPT !.pc = "recheck_batch",
                                          !.calls = n, !.turns = @ + 1])
  BY <1>1
<1>. QED
  BY <1>3, <1>5, <1>6

\* Every step of the report phase leads on.
LEMMA ReportAdvances ==
  ASSUME NEW r \in Runs, Shaped, Limited(run[r]), ReportStep(r)
  PROVE  Advanced(run[r], run'[r])
<1>0. run[r].pc \in Working
  BY DEF ReportStep, At, SectionTurn, SectionsDone, Draft, Redraft, Gate, Recheck,
         RecheckCall, RecheckBatchDone, Rewrite, Rerewrite, ResectionTurn,
         ResectionDone, Ship, Verdict, Finish, Done, Working, Reporting
<1>a. /\ \A token : TurnFails(r, token) => Advanced(run[r], run'[r])
      /\ Fail(r) \/ Abort(r) => Advanced(run[r], run'[r])
      /\ \A y : Advanced(run[r], y) /\ (Become(r, y) \/ Send(r, y))
               => Advanced(run[r], run'[r])
  BY <1>0, StopsLater, Becomes, Sends DEF Fail, Abort
<1>1. CASE SectionTurn(r)
  BY <1>1, <1>a, SectionsLater DEF SectionTurn, FallBack, At
<1>2. CASE SectionsDone(r)
  <2>1. PICK text : Become(r, [Drafted(r, text) EXCEPT !.forced = ~run[r].written])
    BY <1>2 DEF SectionsDone
  <2>2. run[r].pc = "section"
    BY <1>2 DEF SectionsDone, At
  <2>. QED
    BY <1>a, <2>1, <2>2, ReportStages, ReportSetsBack
<1>3. CASE Draft(r)
  <2>0. run[r].pc = "draft"
    BY <1>3 DEF Draft, At
  <2>1. (\E text : Become(r, Drafted(r, text))) \/ Become(r, Forced(r))
          => Advanced(run[r], run'[r])
    BY <1>a, <2>0, ReportStages, ReportSetsBack
  <2>2. EmptyDraft(r) => Advanced(run[r], run'[r])
    BY <1>a, <2>0, AttemptsLater DEF EmptyDraft
  <2>3. Advanced(run[r], [run[r] EXCEPT !.pc = "redraft"])
    <3>. DEFINE y == [run[r] EXCEPT !.pc = "redraft"]
    <3>1. SetBack(run[r], y) /\ y.pc = "redraft"
      BY Fields DEF SetBack
    <3>. QED
      BY <2>0, <3>1, ReportStages
  <2>. QED
    BY <1>3, <1>a, <2>1, <2>2, <2>3 DEF Draft, DeadlineForces
<1>4. CASE Redraft(r)
  <2>0. run[r].pc = "redraft"
    BY <1>4 DEF Redraft, At
  <2>1. (\E text : Become(r, Drafted(r, text))) \/ Become(r, Forced(r))
          => Advanced(run[r], run'[r])
    BY <1>a, <2>0, ReportStages, ReportSetsBack
  <2>. QED
    BY <1>4, <1>a, <2>1 DEF Redraft, DeadlineForces
<1>5. CASE Gate(r)
  <2>0. run[r].pc = "gate"
    BY <1>5 DEF Gate, At
  <2>1. /\ Advanced(run[r], GoTo(r, "ship")) /\ Advanced(run[r], GoTo(r, "recheck"))
        /\ Advanced(run[r], Repair(r))
    BY <2>0, ReportStages, ReportSetsBack
  <2>. QED
    BY <1>5, <1>a, <2>1 DEF Gate
<1>6. CASE Recheck(r)
  <2>0. run[r].pc = "recheck"
    BY <1>6 DEF Recheck, At
  <2>1. Become(r, Repair(r)) => Advanced(run[r], run'[r])
    BY <1>a, <2>0, ReportStages, ReportSetsBack
  <2>2. ASSUME NEW n \in 1..MaxCalls, run[r].turns < MaxRevalidationTurns,
               Become(r, [run[r] EXCEPT !.pc = "recheck_batch",
                                        !.calls = n, !.turns = @ + 1])
        PROVE  Advanced(run[r], run'[r])
    BY <1>a, <2>0, <2>2, CheckLater DEF At
  <2>3. run[r].turns >= MaxRevalidationTurns \/ run[r].turns < MaxRevalidationTurns
    BY Budgets DEF Limited
  <2>. QED
    BY <1>6, <1>a, <2>1, <2>2, <2>3 DEF Recheck
<1>7. CASE RecheckCall(r)
  <2>. DEFINE answered == [run[r] EXCEPT !.calls = @ - 1]
              looked == [answered EXCEPT !.looked = @ + 1]
  <2>0. At(r, "recheck_batch") /\ run[r].calls > 0
    BY <1>7 DEF RecheckCall
  <2>1. ASSUME NEW y, y \in {answered, looked, [looked EXCEPT !.frame = LookupFrame(r)],
                             [looked EXCEPT !.pc = "unwinding"]}
        PROVE  Advanced(run[r], y)
    <3>1. /\ y.calls = run[r].calls - 1
          /\ \A f \in {"retries", "reopens", "left", "turns", "dups", "attempts"} :
               y[f] = run[r][f]
          /\ y.pc \in {run[r].pc, "unwinding"}
      <4>1. CASE y = answered
        BY <4>1, Fields
      <4>2. CASE y = looked
        BY <4>2, Fields
      <4>3. CASE y = [looked EXCEPT !.frame = LookupFrame(r)]
        BY <4>3, Fields
      <4>4. CASE y = [looked EXCEPT !.pc = "unwinding"]
        BY <4>4, Fields
      <4>. HIDE DEF looked, answered
      <4>. QED
        BY <2>1, <4>1, <4>2, <4>3, <4>4
    <3>. QED
      BY <2>0, <3>1, CheckLater DEF At, Answered
  <2>2. /\ Advanced(run[r], answered) /\ Advanced(run[r], looked)
        /\ Advanced(run[r], [looked EXCEPT !.frame = LookupFrame(r)])
        /\ Advanced(run[r], [looked EXCEPT !.pc = "unwinding"])
    BY <2>1
  <2>3. \/ Become(r, answered) \/ Become(r, looked)
        \/ Send(r, [looked EXCEPT !.frame = LookupFrame(r)])
        \/ Become(r, [looked EXCEPT !.pc = "unwinding"])
    BY <1>7 DEF RecheckCall
  <2>. HIDE DEF looked, answered
  <2>. QED
    BY <1>a, <2>2, <2>3
<1>8. CASE RecheckBatchDone(r)
  BY <1>8, <1>a, CheckLater DEF RecheckBatchDone
<1>9. CASE Rewrite(r) \/ Rerewrite(r)
  <2>0. run[r].pc \in {"rewrite", "rerewrite"}
    BY <1>9 DEF Rewrite, Rerewrite, At
  <2>1. Tear(r, GoTo(r, "ship")) \/ SendRewrite(r) => Advanced(run[r], run'[r])
    BY <1>a, <2>0, ReportStages, ReportSetsBack DEF Tear, SendRewrite
  <2>2. RewriteLost(r) => Advanced(run[r], run'[r])
    BY <1>a, <2>1 DEF RewriteLost
  <2>3. CASE Rewrite(r)
    <3>0. run[r].pc = "rewrite"
      BY <2>3 DEF Rewrite, At
    <3>1. EmptyRewrite(r) => Advanced(run[r], run'[r])
      BY <1>a, <2>1, <3>0, AttemptsLater DEF EmptyRewrite, Tear
    <3>2. Advanced(run[r], GoTo(r, "rerewrite"))
      BY <3>0, ReportStages, ReportSetsBack
    <3>. QED
      BY <1>a, <2>1, <2>2, <2>3, <3>1, <3>2 DEF Rewrite
  <2>4. CASE Rerewrite(r)
    BY <1>a, <2>1, <2>2, <2>4 DEF Rerewrite
  <2>. QED
    BY <1>9, <2>3, <2>4
<1>10. CASE ResectionTurn(r)
  BY <1>10, <1>a, SectionsLater DEF ResectionTurn, At
<1>11. CASE ResectionDone(r)
  <2>1. ASSUME NEW text
        PROVE  Advanced(run[r], [GoTo(r, "ship") EXCEPT !.report = text, !.cited = text,
                                                        !.written = FALSE])
    <3>. DEFINE y == [GoTo(r, "ship") EXCEPT !.report = text, !.cited = text,
                                             !.written = FALSE]
    <3>1. SetBack(run[r], y) /\ y.pc = "ship"
      BY Fields DEF SetBack, GoTo
    <3>2. run[r].pc = "resection"
      BY <1>11 DEF ResectionDone, At
    <3>. HIDE DEF y
    <3>3. Advanced(run[r], y)
      BY <3>1, <3>2, ReportStages
    <3>. QED
      BY <3>3 DEF y
  <2>. QED
    BY <1>11, <1>a, <2>1 DEF ResectionDone
<1>12. CASE Ship(r) \/ Verdict(r) \/ Finish(r) \/ Done(r)
  <2>1. ASSUME NEW y,
               \/ y = [run[r] EXCEPT !.pc = "verdict", !.seen = run[r].report]
               \/ y = [run[r] EXCEPT !.pc = "finish"]
               \/ y = [run[r] EXCEPT !.pc = "unwinding", !.terminal = "done"]
        PROVE  SetBack(run[r], y)
    <3>1. CASE y = [run[r] EXCEPT !.pc = "verdict", !.seen = run[r].report]
      BY <3>1, Fields DEF SetBack
    <3>2. CASE y = [run[r] EXCEPT !.pc = "finish"]
      BY <3>2, Fields DEF SetBack
    <3>5. CASE y = [run[r] EXCEPT !.pc = "unwinding", !.terminal = "done"]
      BY <3>5, Fields DEF SetBack
    <3>. QED
      BY <2>1, <3>1, <3>2, <3>5
  <2>2. CASE Ship(r)
    <3>. DEFINE y == [run[r] EXCEPT !.pc = "verdict", !.seen = run[r].report]
    <3>1. run[r].pc = "ship" /\ y.pc = "verdict" /\ SetBack(run[r], y)
      BY <2>1, <2>2, Fields DEF Ship, At
    <3>2. Send(r, y)
      BY <2>2 DEF Ship
    <3>. HIDE DEF y
    <3>. QED
      BY <1>a, <3>1, <3>2, ReportStages
  <2>3. CASE Verdict(r)
    <3>. DEFINE y == [run[r] EXCEPT !.pc = "finish"]
    <3>1. run[r].pc = "verdict" /\ y.pc = "finish" /\ SetBack(run[r], y)
      BY <2>1, <2>3, Fields DEF Verdict, At
    <3>2. Become(r, y) \/ TurnFails(r, "writing")
      BY <2>3 DEF Verdict
    <3>. HIDE DEF y
    <3>. QED
      BY <1>a, <3>1, <3>2, ReportStages
  <2>4. CASE Finish(r)
    <3>. DEFINE final == [run[r] EXCEPT !.pc = "recorded",
                                        !.report = Repaired(run[r].report)]
                kept == [final EXCEPT !.stored = TRUE]
    <3>0. run[r].pc = "finish"
      BY <2>4 DEF Finish, At
    <3>1. SetBack(run[r], final) /\ final.pc = "recorded"
      BY Fields DEF SetBack
    <3>2. SetBack(run[r], kept) /\ kept.pc = "recorded"
      BY Fields DEF SetBack
    <3>3. Become(r, final) \/ Become(r, kept)
      BY <2>4 DEF Finish
    <3>. HIDE DEF final, kept
    <3>. QED
      BY <1>a, <3>0, <3>1, <3>2, <3>3, ReportStages
  <2>5. CASE Done(r)
    <3>. DEFINE y == [run[r] EXCEPT !.pc = "unwinding", !.terminal = "done"]
    <3>1. run[r].pc = "recorded" /\ y.pc = "unwinding" /\ SetBack(run[r], y)
      BY <2>1, <2>5, Fields DEF Done, At
    <3>2. Become(r, y)
      BY <2>5 DEF Done
    <3>. HIDE DEF y
    <3>. QED
      BY <1>a, <3>1, <3>2, ReportStages
  <2>. QED
    BY <1>12, <2>2, <2>3, <2>4, <2>5
<1>. QED
  BY <1>1, <1>2, <1>3, <1>4, <1>5, <1>6, <1>7, <1>8, <1>9, <1>10, <1>11, <1>12
     DEF ReportStep

\* A timer, a cancellation or a client that leaves does not move a run.
LEMMA AsideStays ==
  ASSUME NEW r \in Runs, Shaped, Limited(run[r]), NEW y, Aside(run[r], y)
  PROVE  Limited(y) /\ Disturbed(run[r], y)
<1>1. \A f \in {"pc", "retries", "dups", "reopens", "calls", "left", "attempts", "turns",
                "reason"} : y[f] = run[r][f]
  BY Fields DEF Aside
<1>2. Limited(y)
  BY <1>1 DEF Limited
<1>. QED
  BY <1>2 DEF Aside, Disturbed

\* What others do to a run ends it or leaves it where it is.
LEMMA EnvironmentStays ==
  ASSUME NEW r \in Runs, Shaped, Limited(run[r]), Environment(r)
  PROVE  Limited(run'[r]) /\ (Later(run[r], run'[r]) \/ Disturbed(run[r], run'[r]))
<1>1. CASE Panic(r)
  <2>. DEFINE y == [Unasked EXCEPT !.pc = "unwinding", !.panicked = TRUE,
                               !.stored = run[r].stored, !.frame = run[r].frame]
  <2>1. /\ y.pc = "unwinding"
        /\ \A f \in {"retries", "dups", "reopens", "calls", "left", "attempts", "turns"} :
             y[f] = 0
    BY DEF Unasked
  <2>2. run'[r] = y /\ run[r].pc \in Working
    BY <1>1, Becomes DEF Panic
  <2>. HIDE DEF y
  <2>3. Stage(run[r]) < Stage(y)
    BY <2>1, <2>2, StageIs DEF Working, Investigating, Reporting, Loop
  <2>4. Limited(y)
    BY <2>1, Budgets DEF Limited, Untried, PCs
  <2>. QED
    BY <2>2, <2>3, <2>4, LaterIs
<1>2. CASE WorkExpires(r)
  <2>1. Aside(run[r], [run[r] EXCEPT !.work = TRUE])
    BY Fields DEF Aside
  <2>. QED
    BY <1>2, <2>1, AsideStays, Becomes DEF WorkExpires
<1>3. CASE WindowExpires(r)
  <2>1. Aside(run[r], [run[r] EXCEPT !.writing = TRUE])
    BY Fields DEF Aside
  <2>. QED
    BY <1>3, <2>1, AsideStays, Becomes DEF WindowExpires
<1>4. CASE Delete(r) \/ Reap(r)
  <2>1. Aside(run[r], Cancelled(r))
    BY Fields DEF Aside, Cancelled
  <2>. QED
    BY <1>4, <2>1, AsideStays, Becomes DEF Delete, Reap
<1>5. CASE ClientLeaves(r)
  <2>1. /\ Aside(run[r], [run[r] EXCEPT !.client = "leaving",
                                        !.job = @ \/ run[r].delivery = "stream"])
        /\ Aside(run[r], [run[r] EXCEPT !.client = "gone", !.job = TRUE])
    BY Fields DEF Aside
  <2>. QED
    BY <1>5, <2>1, AsideStays, Becomes DEF ClientLeaves
<1>. QED
  BY <1>1, <1>2, <1>3, <1>4, <1>5 DEF Environment

\* The handler's steps and the end of the task lead on.
LEMMA SlotStepAdvances ==
  ASSUME NEW r \in Runs, Shaped, Limited(run[r]),
         Admit(r) \/ DropHandler(r) \/ Launch(r) \/ Unregister(r) \/ Release(r)
  PROVE  Advanced(run[r], run'[r])
<1>1. ASSUME NEW y, run'[r] = y,
             \/ At(r, "idle") /\ y.pc = "asked"
             \/ At(r, "asked") /\ y.pc = "start"
             \/ At(r, "unwinding") /\ y.pc = "unregistered",
             \A f \in {"retries", "dups", "reopens", "calls", "left", "attempts", "turns"} :
               y[f] = run[r][f]
      PROVE  Advanced(run[r], run'[r])
  <2>1. Stage(run[r]) < Stage(y)
    BY <1>1, StageIs DEF At
  <2>2. /\ y.pc \in PCs /\ y.pc # "assess"
        /\ y.pc \in Untried => run[r].pc \in Untried
    BY <1>1 DEF At, Untried, PCs, Working, Investigating
  <2>. QED
    BY <1>1, <2>1, <2>2, NextStage
<1>2. CASE Admit(r)
  <2>. PICK k \in Kinds, d \in Deliveries :
         Become(r, [run[r] EXCEPT !.pc = "asked", !.kind = k, !.delivery = d])
    BY <1>2 DEF Admit
  <2>. DEFINE y == [run[r] EXCEPT !.pc = "asked", !.kind = k, !.delivery = d]
  <2>1. /\ y.pc = "asked"
        /\ \A f \in {"retries", "dups", "reopens", "calls", "left", "attempts", "turns"} :
             y[f] = run[r][f]
    BY Fields
  <2>2. At(r, "idle") /\ run'[r] = y
    BY <1>2, Becomes DEF Admit
  <2>. HIDE DEF y
  <2>. QED
    BY <1>1, <2>1, <2>2
<1>3. CASE Launch(r)
  <2>. DEFINE y == [run[r] EXCEPT !.pc = "start"]
  <2>1. /\ y.pc = "start"
        /\ \A f \in {"retries", "dups", "reopens", "calls", "left", "attempts", "turns"} :
             y[f] = run[r][f]
    BY Fields
  <2>2. At(r, "asked") /\ run'[r] = y
    BY <1>3, Becomes DEF Launch
  <2>. HIDE DEF y
  <2>. QED
    BY <1>1, <2>1, <2>2
<1>4. CASE Unregister(r)
  <2>. DEFINE y == [run[r] EXCEPT !.pc = "unregistered"]
  <2>1. /\ y.pc = "unregistered"
        /\ \A f \in {"retries", "dups", "reopens", "calls", "left", "attempts", "turns"} :
             y[f] = run[r][f]
    BY Fields
  <2>2. At(r, "unwinding") /\ run'[r] = y
    BY <1>4, Becomes DEF Unregister
  <2>. HIDE DEF y
  <2>. QED
    BY <1>1, <2>1, <2>2
<1>5. CASE DropHandler(r) \/ Release(r)
  <2>. DEFINE y == [Unasked EXCEPT !.pc = "ended"]
  <2>1. /\ y.pc = "ended"
        /\ \A f \in {"retries", "dups", "reopens", "calls", "left", "attempts", "turns"} :
             y[f] = 0
    BY DEF Unasked
  <2>2. run'[r] = y /\ (At(r, "asked") \/ At(r, "unregistered"))
    BY <1>5, Becomes DEF DropHandler, Release, Over
  <2>. HIDE DEF y
  <2>3. Stage(run[r]) < Stage(y)
    BY <2>1, <2>2, StageIs DEF At
  <2>4. Limited(y)
    BY <2>1, Budgets DEF Limited, Untried, PCs
  <2>. QED
    BY <2>2, <2>3, <2>4, LaterIs DEF Advanced
<1>. QED
  BY <1>2, <1>3, <1>4, <1>5

LimitInv == RunInv /\ \A r \in Runs : Limited(run[r])

\* Every step leads each run on, or leaves it where it is.
LEMMA EveryStepAdvances ==
  ASSUME LimitInv, Next
  PROVE  /\ \A s \in Runs : Limited(run'[s])
         /\ \A s \in Runs : \/ Later(run[s], run'[s])
                            \/ ~RunStep(s) /\ Disturbed(run[s], run'[s])
<1>0. Shaped /\ \A s \in Runs : InLoop(run[s]) /\ Limited(run[s])
  BY DEF LimitInv, RunInv, RunGood, Counted
<1>1. \A s \in Runs : RunStep(s) => Advanced(run[s], run'[s])
  BY <1>0, InvestigationAdvances, ReportAdvances DEF RunStep
<1>2. PICK r \in Runs :
        \/ Admit(r) \/ DropHandler(r) \/ Launch(r) \/ RunStep(r)
        \/ Unregister(r) \/ Release(r) \/ Environment(r)
  BY DEF Next
<1>3. Limited(run'[r]) /\ (Later(run[r], run'[r]) \/ Disturbed(run[r], run'[r]))
  BY <1>0, <1>1, <1>2, SlotStepAdvances, EnvironmentStays DEF Advanced
<1>4. ASSUME NEW s \in Runs, s # r
      PROVE  run'[s] = run[s]
  <2>1. PICK q \in Runs : Lived(q)
    BY SomeRunLives DEF LimitInv
  <2>2. \E rec : Become(r, rec)
    <3>1. RunStep(r) \/ Environment(r) => \E rec : run' = [run EXCEPT ![r] = rec]
      BY <1>0, InvestigationPasses, ReportPasses, EnvironmentPasses
         DEF RunStep, Passed, LimitInv, RunInv, SlotInv
    <3>. QED
      BY <1>2, <3>1 DEF Admit, DropHandler, Launch, Unregister, Release, Over, Become
  <2>. QED
    BY <1>0, <1>4, <2>2 DEF Become, Shaped
<1>5. \A s \in Runs : s # r => Disturbed(run[s], run'[s])
  BY <1>4 DEF Disturbed
<1>6. \A s \in Runs : Limited(run'[s])
  BY <1>0, <1>3, <1>4
<1>. QED
  BY <1>1, <1>3, <1>5, <1>6 DEF Advanced

(* Each step of a run goes to a later one of finitely many positions: the counters
   alone bound every run, whatever the model answers, whatever fails, and with every
   timer and the watchdog off. *)
THEOREM RunsAreFinite == Spec => CountersEndRuns
<1>. DEFINE Leads == \A r \in Runs : run'[r] # run[r] =>
       /\ Position(run'[r]) \in Positions
       /\ \/ Before(Position(run[r]), Position(run'[r]))
          \/ ~RunStep(r) /\ Disturbed(run[r], run'[r])
<1>1. Init => LimitInv
  <2>. SUFFICES ASSUME Init PROVE LimitInv
    OBVIOUS
  <2>1. \A r \in Runs : run[r] = Unasked
    BY DEF Init
  <2>2. Limited(Unasked)
    BY Budgets DEF Limited, Unasked, PCs, Untried
  <2>. QED
    BY <2>1, <2>2, RunInvInit DEF LimitInv
<1>2. LimitInv /\ [Next]_vars => LimitInv'
  <2>. SUFFICES ASSUME LimitInv, [Next]_vars PROVE LimitInv'
    OBVIOUS
  <2>1. RunInv'
    BY RunInvNext DEF LimitInv
  <2>2. CASE Next
    BY <2>1, <2>2, EveryStepAdvances DEF LimitInv
  <2>3. CASE UNCHANGED vars
    BY <2>1, <2>3 DEF vars, LimitInv
  <2>. QED
    BY <2>2, <2>3
<1>3. LimitInv /\ [Next]_vars => [Leads]_vars
  <2>. SUFFICES ASSUME LimitInv, Next PROVE Leads
    OBVIOUS
  <2>1. /\ \A r \in Runs : Limited(run'[r])
        /\ \A r \in Runs : \/ Later(run[r], run'[r])
                           \/ ~RunStep(r) /\ Disturbed(run[r], run'[r])
    BY EveryStepAdvances
  <2>2. RunInv'
    BY RunInvNext DEF LimitInv
  <2>3. \A r \in Runs : InLoop(run'[r])
    BY <2>2 DEF RunInv, RunGood, Counted
  <2>4. \A r \in Runs : Position(run'[r]) \in Positions
    BY <2>1, <2>3, LimitedPosition
  <2>. QED
    BY <2>1, <2>4 DEF Later
<1>. QED
  BY <1>1, <1>2, <1>3, PTL DEF Spec, CountersEndRuns

=============================================================================
