------------------------------ MODULE Research ------------------------------
(***************************************************************************)
(* Research runs on one server: admission by a fixed number of permits,    *)
(* the registry that lists and cancels them, the watchdog, the timers, and *)
(* the clients that leave -- around the runs of ResearchInvestigation and  *)
(* ResearchReport.                                                         *)
(*                                                                         *)
(* A permit is taken by the handler and moves into the job with the        *)
(* registry entry; the two are dropped when the job's future ends, the     *)
(* entry first.                                                            *)
(***************************************************************************)
EXTENDS ResearchInvestigation, ResearchReport

CONSTANT MaxConcurrent      \* [research].max_concurrent

ASSUME MaxConcurrentAssumption == MaxConcurrent \in Nat \ {0}

VARIABLES
  permits,                  \* requests and runs that hold a permit
  registry                  \* runs that are listed as active

vars == <<run, permits, registry>>

Init ==
  /\ run = [r \in Runs |-> Unasked]
  /\ permits = {}
  /\ registry = {}

-----------------------------------------------------------------------------
\* launch_research_job, up to its await: a slot or a refusal.
Admit(r) ==
  /\ At(r, "idle")
  /\ Cardinality(permits) < MaxConcurrent
  /\ permits' = permits \cup {r}
  /\ \E k \in Kinds, d \in Deliveries :
        Become(r, [run[r] EXCEPT !.pc = "asked", !.kind = k, !.delivery = d])
  /\ UNCHANGED registry

Over(r) == Become(r, [Unasked EXCEPT !.pc = "ended"])

\* The client leaves while the handler waits for the model catalogue: its
\* future is dropped, and the permit with it.
DropHandler(r) ==
  /\ At(r, "asked")
  /\ Over(r)
  /\ permits' = permits \ {r}
  /\ UNCHANGED registry

\* The rest of the handler: the run is listed and its task spawned.
Launch(r) ==
  /\ At(r, "asked")
  /\ Become(r, [run[r] EXCEPT !.pc = "start"])
  /\ registry' = registry \cup {r}
  /\ UNCHANGED permits

\* The task's locals are dropped in reverse order.
Unregister(r) ==
  /\ At(r, "unwinding")
  /\ Become(r, [run[r] EXCEPT !.pc = "unregistered"])
  /\ registry' = registry \ {r}
  /\ UNCHANGED permits

Release(r) ==
  /\ At(r, "unregistered")
  /\ Over(r)
  /\ permits' = permits \ {r}
  /\ UNCHANGED registry

-----------------------------------------------------------------------------
SlotsUnchanged == UNCHANGED <<permits, registry>>

RunStep(r) == (InvestigationStep(r) \/ ReportStep(r)) /\ SlotsUnchanged

\* The task dies, and its locals with it.
Panic(r) ==
  /\ "panic" \in Faults
  /\ run[r].pc \in Working
  /\ Become(r, [Unasked EXCEPT !.pc = "unwinding", !.panicked = TRUE,
                               !.stored = run[r].stored, !.frame = run[r].frame])
  /\ SlotsUnchanged

\* The two timers of DeadlineToken.
WorkExpires(r) ==
  /\ run[r].pc \in Investigating
  /\ ~run[r].work
  /\ Become(r, [run[r] EXCEPT !.work = TRUE])
  /\ SlotsUnchanged

WindowExpires(r) ==
  /\ run[r].pc \in Reporting
  /\ ~run[r].writing
  /\ Become(r, [run[r] EXCEPT !.writing = TRUE])
  /\ SlotsUnchanged

Cancelled(r) == [run[r] EXCEPT !.job = TRUE]

(* MUTANT of Delete: the entry is taken off the list at once. *)
DeleteAndUnlist(r) ==
  /\ r \in registry
  /\ ~run[r].job
  /\ Become(r, Cancelled(r))
  /\ registry' = registry \ {r}
  /\ UNCHANGED permits

\* DELETE /research/active/{run_id}
Delete(r) ==
  /\ r \in registry
  /\ ~run[r].job
  /\ Become(r, Cancelled(r))
  /\ SlotsUnchanged

\* A run can only be past its worst case if the timer of its phase went off.
Overdue(r) ==
  \/ run[r].pc \in Investigating /\ run[r].work
  \/ run[r].pc \in Reporting /\ run[r].writing
  \/ run[r].pc \notin Investigating \cup Reporting

\* The watchdog: cancel_overdue.
Reap(r) ==
  /\ r \in registry
  /\ Overdue(r)
  /\ ~run[r].job
  /\ Become(r, Cancelled(r))
  /\ SlotsUnchanged

\* A client leaves in two steps: a stream is cancelled and then closed, the
\* channel of a JSON request is closed and then the run cancelled.
ClientLeaves(r) ==
  /\ run[r].pc \in Working
  /\ \/ /\ run[r].client = "reading"
        /\ Become(r, [run[r] EXCEPT !.client = "leaving",
                                    !.job = @ \/ run[r].delivery = "stream"])
     \/ /\ run[r].client = "leaving"
        /\ Become(r, [run[r] EXCEPT !.client = "gone", !.job = TRUE])
  /\ SlotsUnchanged

-----------------------------------------------------------------------------
Environment(r) ==
  \/ Panic(r) \/ WorkExpires(r) \/ WindowExpires(r)
  \/ Delete(r) \/ Reap(r) \/ ClientLeaves(r)

Next ==
  \E r \in Runs :
    \/ Admit(r) \/ DropHandler(r) \/ Launch(r) \/ RunStep(r)
    \/ Unregister(r) \/ Release(r) \/ Environment(r)

Spec == Init /\ [][Next]_vars

\* The runtime polls every task: a handler is run to its end and so is a run.
\* Every call a run waits for comes back, each has a time limit. No timer, no
\* watchdog and no client is relied on.
Progress(r) == Launch(r) \/ RunStep(r) \/ Unregister(r) \/ Release(r)

FairSpec == Spec /\ \A r \in Runs : WF_vars(Progress(r))
=============================================================================
