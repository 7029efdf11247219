------------------------- MODULE ResearchProperties -------------------------
(***************************************************************************)
(* What research runs promise, and what the repository says they promise.  *)
(***************************************************************************)
EXTENDS Research

\* Types of the state.
TypeOK ==
  /\ run \in [Runs -> Record]
  /\ permits \subseteq Runs
  /\ registry \subseteq Runs

\* launch_research_job: slots are never over-admitted, whoever works holds one
\* and is listed, and whoever is listed holds one -- so neither the list nor
\* the count of slots lies about a run, however it ends.
SlotsMatchRuns ==
  /\ Cardinality(permits) <= MaxConcurrent
  /\ registry \subseteq permits
  /\ \A r \in Runs :
        /\ run[r].pc \in Working => r \in registry
        /\ run[r].pc \in {"idle", "ended"} => r \notin permits

\* run_research: a run ends without a terminal event only if it was cancelled
\* or its task died. In particular no deadline is ever taken for a departure.
OnlyTheCancelledVanish ==
  \A r \in Runs :
     run[r].pc = "unwinding" /\ run[r].terminal = "none"
       => run[r].job \/ run[r].panicked

\* What is journalled is what the client was sent last, and its citations were
\* computed from these words and no earlier ones: where the server added a missing
\* heading they were counted without it, and "here, and only here" -- a whole
\* rewrite, which had been streamed -- the client was sent the text without it.
JournalMatchesStream ==
  \A r \in Runs :
     run[r].stored =>
       /\ run[r].report = Repaired(run[r].cited)
       /\ run[r].report = Repaired(run[r].seen)
       /\ run[r].seen # run[r].report
            => run[r].seen.words = "rewrite" /\ ~run[r].sectioned

\* Checkpoints, re-opened tools and refused calls included, a run exceeds its
\* step budget by one checkpoint at most; the citation check has a budget of
\* its own, and none for a run that a budget stopped.  The numbers of the step
\* frames the client sees never fall, across checkpoints and from the
\* investigation into the citation check.
StepsAreCounted ==
  [][\A r \in Runs :
       /\ run'[r].steps <= MaxSteps + 1
       /\ run'[r].looked <= MaxRevalidationSteps
       /\ run'[r].looked > 0 => run'[r].reason = "finalized"
       /\ run'[r].frame >= run[r].frame \/ run'[r].pc = "ended"]_vars

\* A run cancelled during its investigation writes no report and is not
\* journalled -- a run that writes in sections excepted.
CancelledRunsAreDropped ==
  \A r \in Runs : run[r].stored /\ run[r].early => run[r].sectioned

\* The journal: what is in it was sent, a heading that the server added to a
\* streamed rewrite excepted, and no run that was dropped is in it.
JournalIsHonest == JournalMatchesStream /\ CancelledRunsAreDropped

\* "This phase's failures are absorbed": once there is a report, no failure of
\* the model or the index turns the run into a failed one. (A challenge still
\* has its verdict to ask for.)
ReportsSurvive ==
  \A r \in Runs :
     run[r].terminal = "error" /\ run[r].report # NoText
       => run[r].kind = "challenge"

\* "The loop's termination rests on counters, not on the clock": a run that
\* was admitted ends and frees its slot, with every timer switched off and
\* whatever the model answers.
RunsEnd == \A r \in Runs : At(r, "asked") ~> At(r, "ended")

-----------------------------------------------------------------------------
(* How far a run is. The stages follow each other; within the tool loop and
   within each loop of the report phase the counters of that loop say which
   round it is in, and in the tool loop how much of it is spent. A batch of
   calls whose budget is gone is answered call by call; any other batch costs
   something of what is spent, or ends. *)
Loop == {"turn", "batch", "checkpoint", "assess"}

Stage(x) ==
  CASE x.pc = "idle" -> 0
    [] x.pc = "asked" -> 1
    [] x.pc = "start" -> 2
    [] x.pc = "plan" -> 3
    [] x.pc \in Loop -> 4
    [] x.pc \in {"section", "draft"} -> 5
    [] x.pc = "redraft" -> 6
    [] x.pc = "gate" -> 7
    [] x.pc \in {"recheck", "recheck_batch"} -> 8
    [] x.pc \in {"rewrite", "resection"} -> 9
    [] x.pc = "rerewrite" -> 10
    [] x.pc = "ship" -> 11
    [] x.pc = "verdict" -> 12
    [] x.pc = "finish" -> 13
    [] x.pc = "recorded" -> 14
    [] x.pc = "unwinding" -> 15
    [] x.pc = "unregistered" -> 16
    [] x.pc = "ended" -> 17

Round(x) ==
  CASE x.pc \in Loop \ {"assess"} -> 2 * x.reopens
    [] x.pc = "assess" -> 2 * x.reopens + 1
    [] x.pc \in {"section", "resection"} -> Sections - x.left
    [] x.pc \in {"draft", "rewrite"} -> x.attempts
    [] x.pc \in {"recheck", "recheck_batch"} -> x.turns
    [] OTHER -> 0

Spent(x) ==
  IF x.pc \in Loop \ {"assess"} THEN x.steps + x.retries + x.dups ELSE 0

Place(x) ==
  CASE x.pc = "turn" -> 1
    [] x.pc = "batch" /\ x.reason \notin {"budget_exhausted", "time_exhausted"}
         -> 2 * x.calls
    [] x.pc = "batch" /\ x.reason \in {"budget_exhausted", "time_exhausted"}
         -> 3 * MaxCalls + 1 - x.calls
    [] x.pc = "recheck_batch" -> MaxCalls - x.calls
    [] x.pc = "recheck" -> MaxCalls + 1
    [] OTHER -> 0

Position(x) == <<Stage(x), Round(x), Spent(x), Place(x)>>

\* The budgets leave a run finitely many positions.
Positions ==
  (0..17)
    \X (0..(2 * MaxReopens + 1 + MaxEmptyReportRetries + MaxRevalidationTurns + Sections))
    \X (0..(MaxSteps + 1 + MaxParseRetries + MaxDuplicateCalls))
    \X (0..(3 * MaxCalls + 1))

Before(p, q) ==
  \/ p[1] < q[1]
  \/ p[1] = q[1] /\ p[2] < q[2]
  \/ p[1] = q[1] /\ p[2] = q[2] /\ p[3] < q[3]
  \/ p[1] = q[1] /\ p[2] = q[2] /\ p[3] = q[3] /\ p[4] < q[4]

\* A timer went off, the run was cancelled or its client left.
Disturbed(x, y) ==
  \A f \in DOMAIN x \ {"job", "work", "writing", "client"} : y[f] = x[f]

\* "The loop's termination rests on counters, not on the clock": each step of a
\* run goes to a later one of finitely many positions, whatever the model answers,
\* whatever fails and with every timer off; others only end a run, or disturb it
\* where it is.
CountersEndRuns ==
  [][\A r \in Runs : run'[r] # run[r] =>
       /\ Position(run'[r]) \in Positions
       /\ \/ Before(Position(run[r]), Position(run'[r]))
          \/ ~RunStep(r) /\ Disturbed(run[r], run'[r])]_vars

-----------------------------------------------------------------------------
\* inflight.rs: "a cancelled run is never journalled at all" -- even read as
\* speaking only of runs whose report was still to be written.
CancelledIsNotJournalled ==
  \A r \in Runs : run[r].early => ~run[r].stored

\* write_report: "an empty content streamed nothing, so the client saw no
\* partial report".
NothingTorn == \A r \in Runs : run[r].stored => ~run[r].torn

\* The verdict turn: "Every failure shape degrades to "inconclusive" (...),
\* never to a failed run".
VerdictNeverFails ==
  \A r \in Runs : run[r].terminal = "error" => run[r].seen = NoText
=============================================================================
