--------------------------- MODULE ResearchReport ---------------------------
(***************************************************************************)
(* The second half of research_inner, and the end of run_research: the     *)
(* report is written -- whole or section by section --, its citations are  *)
(* checked and it is sent back once if they fail, it is sent to the client,*)
(* scored if it is a challenge, and journalled.                            *)
(*                                                                         *)
(* From the first draft on, failures cost the repair and not the report.   *)
(* Whether the citations of a text are in order is a free choice, as is    *)
(* what the model writes.                                                  *)
(***************************************************************************)
EXTENDS ResearchJob

\* repair_missing_heading: only where nothing else is wrong.
Repaired(text) ==
  IF text.shape = "bare" THEN [words |-> text.words, shape |-> "headed"] ELSE text

\* What the model may write, and what is assembled of its sections: the server puts
\* a heading over them, and a banked section may leave a fence open.
ByModel(words) == {[words |-> words, shape |-> s] : s \in {"headed", "bare", "broken"}}
Assembled(words) == {[words |-> words, shape |-> s] : s \in {"headed", "broken"}}

(* MUTANT of Drafted: the draft is repaired by nobody. *)
DraftedUnrepaired(r, text) ==
  [run[r] EXCEPT !.pc = "gate", !.report = text, !.cited = text,
                 !.attempts = 0, !.written = FALSE, !.banked = FALSE]

\* The citations are counted before the heading is repaired, and nothing of the
\* draft has been sent.
Drafted(r, text) ==
  [run[r] EXCEPT !.pc = "gate", !.report = Repaired(text), !.cited = text,
                 !.attempts = 0, !.written = FALSE, !.banked = FALSE]

\* forced_synthesis: the server writes its own account, heading included.
Forced(r) ==
  [Drafted(r, [words |-> "notice", shape |-> "headed"]) EXCEPT !.forced = TRUE]

-----------------------------------------------------------------------------
(* write_sectioned_report: one section per item. A section nobody can write --
   the window is over, the tokens are spent, the turn was cancelled or said
   nothing usable -- is the banked one, or a stub. *)
Wrote(r) == [run[r] EXCEPT !.left = @ - 1, !.written = TRUE]

GaveUp(r) == [run[r] EXCEPT !.left = @ - 1]

FallBack(r) ==
  \E banked \in {FALSE, run[r].banked} :
     Become(r, [GaveUp(r) EXCEPT !.written = @ \/ banked,
                                 !.early = @ \/ run[r].job])

SectionTurn(r) ==
  /\ At(r, "section")
  /\ run[r].left > 0
  /\ \/ Completes(r, "writing") /\ Become(r, Wrote(r))
     \/ FallBack(r)
     \/ "ollama" \in Faults /\ Completes(r, "writing") /\ Fail(r)

\* A document of stubs only counts as the server's own.
SectionsDone(r) ==
  /\ At(r, "section")
  /\ run[r].left = 0
  /\ \E text \in Assembled("draft") :
        /\ run[r].written \/ text.shape = "headed"
        /\ Become(r, [Drafted(r, text) EXCEPT !.forced = ~run[r].written])

-----------------------------------------------------------------------------
(* write_report with the content gate closed. No report is a failed run; only
   the window's end is an excuse. *)
DeadlineForces(r) == DeadlineStops(r, "writing") /\ Become(r, Forced(r))

\* The model says nothing: asked again, unless the attempts are used up or the
\* window ends in this very moment.
EmptyDraft(r) ==
  \/ /\ run[r].attempts < MaxEmptyReportRetries
     /\ Become(r, [run[r] EXCEPT !.attempts = @ + 1])
  \/ Fail(r)

Draft(r) ==
  /\ At(r, "draft")
  /\ \/ /\ Completes(r, "writing")
        /\ \/ \E text \in ByModel("draft") : Become(r, Drafted(r, text))
           \/ EmptyDraft(r)
           \/ Become(r, [run[r] EXCEPT !.pc = "redraft"])
     \/ DeadlineForces(r)
     \/ TurnFails(r, "writing")

\* The draft was a tool call: asked once more.
Redraft(r) ==
  /\ At(r, "redraft")
  /\ \/ /\ Completes(r, "writing")
        /\ \E text \in ByModel("draft") : Become(r, Drafted(r, text))
     \/ Completes(r, "writing") /\ Fail(r)
     \/ DeadlineForces(r)
     \/ TurnFails(r, "writing")

-----------------------------------------------------------------------------
GoTo(r, pc) == [run[r] EXCEPT !.pc = pc, !.attempts = 0, !.turns = 0]

Repair(r) ==
  IF run[r].sectioned
  THEN [GoTo(r, "resection") EXCEPT !.left = Sections, !.written = FALSE]
  ELSE GoTo(r, "rewrite")

Broken(r) == run[r].report.shape = "broken"

\* check_citations on the draft. A report that passes is shipped, and so is one
\* the server wrote; bad citations open the tools again if the run chose to
\* stop; anything else goes to the rewrite, a defect of the Markdown alone too.
Gate(r) ==
  /\ At(r, "gate")
  /\ \/ /\ run[r].forced \/ ~Broken(r)
        /\ Become(r, GoTo(r, "ship"))
     \/ /\ ~run[r].forced
        /\ run[r].reason = "finalized"
        /\ Become(r, GoTo(r, "recheck"))
     \/ /\ ~run[r].forced
        /\ run[r].reason # "finalized" \/ Broken(r)
        /\ Become(r, Repair(r))

Recheck(r) ==
  /\ At(r, "recheck")
  /\ IF run[r].looked >= MaxRevalidationSteps
        \/ run[r].turns >= MaxRevalidationTurns
     THEN Become(r, Repair(r))
     ELSE \/ /\ Completes(r, "writing")
             /\ \E n \in 1..MaxCalls :
                   Become(r, [run[r] EXCEPT !.pc = "recheck_batch",
                                            !.calls = n, !.turns = @ + 1])
          \/ Completes(r, "writing") /\ Become(r, Repair(r))
          \/ DeadlineStops(r, "writing") /\ Become(r, Repair(r))
          \/ "ollama" \in Faults /\ ~run[r].job /\ Become(r, Repair(r))
          \/ run[r].job /\ Abort(r)

\* Numbered on from the investigation's steps.
LookupFrame(r) == run[r].steps + run[r].looked + 1

\* A call of the check. What is not a lookup is answered for free.
RecheckCall(r) ==
  /\ At(r, "recheck_batch")
  /\ run[r].calls > 0
  /\ LET answered == [run[r] EXCEPT !.calls = @ - 1]
         looked == [answered EXCEPT !.looked = @ + 1]
     IN \/ Become(r, answered)
        \/ /\ run[r].looked < MaxRevalidationSteps
           /\ \/ /\ Completes(r, "writing")
                 /\ Send(r, [looked EXCEPT !.frame = LookupFrame(r)])
              \/ "index" \in Faults /\ ~run[r].job /\ Become(r, looked)
              \/ DeadlineStops(r, "writing") /\ Become(r, looked)
              \/ run[r].job /\ Become(r, [looked EXCEPT !.pc = "unwinding"])

RecheckBatchDone(r) ==
  /\ At(r, "recheck_batch")
  /\ run[r].calls = 0
  /\ Become(r, [run[r] EXCEPT !.pc = "recheck"])

-----------------------------------------------------------------------------
(* write_report with the gate open: the text is streamed while it is written,
   so what is given up half-way has been seen. The draft is shipped if no
   rewrite comes of it. *)
Tear(r, record) ==
  \/ Become(r, record)
  \/ Open(r) /\ Become(r, [record EXCEPT !.torn = TRUE])

(* MUTANT of Rewritten: the citations of the draft are kept. *)
RewrittenUnchecked(r, text) ==
  [run[r] EXCEPT !.pc = "verdict", !.attempts = 0, !.report = text, !.seen = text]

Rewritten(r, text) ==
  [run[r] EXCEPT !.pc = "verdict", !.attempts = 0, !.report = text,
                 !.cited = text, !.seen = text]

SendRewrite(r) == \E text \in ByModel("rewrite") : Send(r, Rewritten(r, text))

(* MUTANT of EmptyRewrite: the attempts are not counted. *)
EmptyRewriteUncounted(r) ==
  \/ Tear(r, run[r])
  \/ Tear(r, GoTo(r, "ship"))

\* The turn came back with nothing: an empty answer, or a turn abandoned as
\* stalled or as runaway thinking, whatever it had streamed.
EmptyRewrite(r) ==
  \/ /\ run[r].attempts < MaxEmptyReportRetries
     /\ Tear(r, [run[r] EXCEPT !.attempts = @ + 1])
  \/ Tear(r, GoTo(r, "ship"))

(* MUTANT of RewriteLost: a failed rewrite is raised, not absorbed. *)
RewriteRaised(r) ==
  \/ "ollama" \in Faults /\ ~run[r].job /\ Fail(r)
  \/ DeadlineStops(r, "writing") /\ Tear(r, GoTo(r, "ship"))
  \/ run[r].job /\ Abort(r)

RewriteLost(r) ==
  \/ "ollama" \in Faults /\ ~run[r].job /\ Tear(r, GoTo(r, "ship"))
  \/ DeadlineStops(r, "writing") /\ Tear(r, GoTo(r, "ship"))
  \/ run[r].job /\ Abort(r)

\* A reply that opens like a tool call was not streamed: asked once more.
Rewrite(r) ==
  /\ At(r, "rewrite")
  /\ \/ Completes(r, "writing") /\ SendRewrite(r)
     \/ Completes(r, "writing") /\ EmptyRewrite(r)
     \/ Completes(r, "writing") /\ Become(r, GoTo(r, "rerewrite"))
     \/ RewriteLost(r)

Rerewrite(r) ==
  /\ At(r, "rerewrite")
  /\ \/ Completes(r, "writing") /\ SendRewrite(r)
     \/ Completes(r, "writing") /\ Tear(r, GoTo(r, "ship"))
     \/ RewriteLost(r)

\* rewrite_sections: the sections at fault, one turn each. Whatever fails
\* keeps the section it had.
ResectionTurn(r) ==
  /\ At(r, "resection")
  /\ run[r].left > 0
  /\ \/ Completes(r, "writing") /\ Become(r, Wrote(r))
     \/ Become(r, GaveUp(r))

ResectionDone(r) ==
  /\ At(r, "resection")
  /\ run[r].left = 0
  /\ \E text \in IF run[r].written THEN Assembled("rewrite") ELSE {run[r].report} :
        Become(r, [GoTo(r, "ship") EXCEPT !.report = text, !.cited = text,
                                          !.written = FALSE])

-----------------------------------------------------------------------------
\* The whole report goes out in one event.
Ship(r) ==
  /\ At(r, "ship")
  /\ Send(r, [run[r] EXCEPT !.pc = "verdict", !.seen = run[r].report])

\* A challenge is scored, unless the server wrote its report.
Verdict(r) ==
  /\ At(r, "verdict")
  /\ LET done == [run[r] EXCEPT !.pc = "finish"]
     IN IF run[r].kind = "research" \/ run[r].forced
        THEN Become(r, done)
        ELSE \/ Completes(r, "writing") /\ Become(r, done)
             \/ DeadlineStops(r, "writing") /\ Become(r, done)
             \/ TurnFails(r, "writing")

\* run_research: the heading is repaired, that of a rewrite after the client has
\* watched it arrive. A report that is still broken Markdown is not journalled, unless
\* the server wrote it; the journal is under no token of the run.
Finish(r) ==
  /\ At(r, "finish")
  /\ LET final == [run[r] EXCEPT !.pc = "recorded", !.report = Repaired(run[r].report)]
     IN \/ /\ run[r].forced \/ ~Broken(r)
           /\ Become(r, [final EXCEPT !.stored = TRUE])
        \/ /\ "db" \in Faults \/ (Broken(r) /\ ~run[r].forced)
           /\ Become(r, final)

Done(r) ==
  /\ At(r, "recorded")
  /\ Become(r, [run[r] EXCEPT !.pc = "unwinding", !.terminal = "done"])

ReportStep(r) ==
  \/ SectionTurn(r) \/ SectionsDone(r) \/ Draft(r) \/ Redraft(r)
  \/ Gate(r) \/ Recheck(r) \/ RecheckCall(r) \/ RecheckBatchDone(r)
  \/ Rewrite(r) \/ Rerewrite(r) \/ ResectionTurn(r) \/ ResectionDone(r)
  \/ Ship(r) \/ Verdict(r) \/ Finish(r) \/ Done(r)
=============================================================================
