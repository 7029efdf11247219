--------------------------- MODULE ResearchCorpus ---------------------------
(***************************************************************************)
(* The saved runs of one project: what POST /research and a challenge check *)
(* of the runs they build on, how a run that has ended is stored, who       *)
(* deletes stored runs, and a client that pages through the list of those.  *)
(***************************************************************************)
EXTENDS Naturals, FiniteSets

CONSTANTS
  MaxRuns,     \* runs of one behaviour
  Files,       \* the files of the index
  Texts,       \* what the index may hold of a file
  Gone,        \* no file, or one that is deleted
  MaxContext,  \* [research] limit of the runs one request may name
  PageLimit    \* rows of one page of the list

ASSUME CorpusAssumption ==
  /\ Gone \notin Texts
  /\ MaxRuns \in Nat /\ MaxContext \in Nat /\ PageLimit \in Nat \ {0}

VARIABLES
  index,  \* project_files.sha256 of each file
  run,    \* each run, from its start to its row and the row's end
  page    \* the client who pages: the cursor, and the rows still owed

corpusVars == <<index, run, page>>

Runs == 1 .. MaxRuns   \* run ids, in the order in which they are minted
NoRun == 0             \* no subject

(* phase: new; running; stored, a row of research_runs; gone, no row any more
   or never one.  seq: the ordinal in the project.  subject: the run that a
   challenge attacks, NoRun for research.  verdict: the challenge reached one.
   context: context_run_ids_json.  baseline: research_run_files, what was read
   of each file, Gone where nothing was. *)
Run == [phase : {"new", "running", "stored", "gone"}, seq : Nat,
        subject : Runs \cup {NoRun}, verdict : BOOLEAN, context : SUBSET Runs,
        baseline : [Files -> Texts \cup {Gone}]]
NewRun == [phase |-> "new", seq |-> 0, subject |-> NoRun, verdict |-> FALSE,
           context |-> {}, baseline |-> [f \in Files |-> Gone]]
GoneRun == [NewRun EXCEPT !.phase = "gone"]

CorpusTypeOK ==
  /\ index \in [Files -> Texts \cup {Gone}]
  /\ run \in [Runs -> Run]
  /\ page \in [before : Nat, owed : SUBSET Runs, state : {"unread", "reading", "read"}]

CorpusInit ==
  /\ index \in [Files -> Texts]
  /\ run = [r \in Runs |-> NewRun]
  /\ page = [before |-> 0, owed |-> {}, state |-> "unread"]

Phase(p) == {r \in Runs : run[r].phase = p}
Stored == Phase("stored")
IsChallenge(r) == run[r].subject # NoRun

-----------------------------------------------------------------------------
(* research_validity_ctes.  A stored run is invalid when a file it read has
   moved, when a run of its context is gone, and when one is invalid. *)
Moved(r) == \E f \in Files : run[r].baseline[f] \notin {Gone, index[f]}

Unsound == {r \in Stored : Moved(r) \/ ~(run[r].context \subseteq Stored)}

(* The edges: who names whom, among the stored runs. *)
Edges == {e \in Stored \X Stored : e[2] \in run[e[1]].context}

(* What the recursion reaches from the runs that are unsound themselves. *)
Reached(unsound, edges) ==
  LET spread[n \in 0 .. MaxRuns] ==
        IF n = 0 THEN unsound
        ELSE LET before == spread[n - 1]
             IN  before \cup {e[1] : e \in {d \in edges : d[2] \in before}}
  IN  spread[MaxRuns]

Invalid == Reached(Unsound, Edges)

Valid == Stored \ Invalid

(* The rows of the list with the filter valid=true. *)
Listed == Valid
Below(r, rows) == {q \in rows : run[q].seq > run[r].seq}

(* MUTANT of PageOf: cut, then filtered. *)
PageCutFirst(before) ==
  LET rows == {r \in Stored : run[r].seq < before}
  IN  {r \in rows : Cardinality(Below(r, rows)) < PageLimit} \cap Listed

(* The filter is applied before the page is cut; the page ends with the row
   whose seq is the cursor. *)
PageOf(before) ==
  LET rows == {r \in Listed : run[r].seq < before}
  IN  {r \in rows : Cardinality(Below(r, rows)) < PageLimit}

(* What a step of someone else leaves of what the client is owed. *)
StillOwed == page' = [page EXCEPT !.owed = @ \cap Listed']

-----------------------------------------------------------------------------
NextRun(r) == run[r].phase = "new" /\ \A q \in 1 .. r - 1 : run[q].phase # "new"

(* POST /research, load_prior_reports: each run named is stored and valid. *)
Ask(r, named) ==
  /\ NextRun(r)
  /\ named \subseteq Valid /\ Cardinality(named) <= MaxContext
  /\ run' = [run EXCEPT ![r] = [NewRun EXCEPT !.phase = "running", !.context = named]]
  /\ UNCHANGED <<index, page>>

(* POST /research/{run_id}/challenge: of a valid run that is no challenge. *)
Challenge(r, subject) ==
  /\ NextRun(r)
  /\ subject \in Valid /\ ~IsChallenge(subject)
  /\ run' = [run EXCEPT ![r] = [NewRun EXCEPT !.phase = "running", !.subject = subject]]
  /\ UNCHANGED <<index, page>>

(* The run reads a file for the first time: its baseline. *)
ReadFile(r, f) ==
  /\ run[r].phase = "running"
  /\ run[r].baseline[f] = Gone /\ index[f] # Gone
  /\ run' = [run EXCEPT ![r].baseline[f] = index[f]]
  /\ UNCHANGED <<index, page>>

(* A run that is aborted, or whose insert fails, leaves no row. *)
Leave(r) ==
  /\ run[r].phase = "running"
  /\ run' = [run EXCEPT ![r] = GoneRun]
  /\ UNCHANGED <<index, page>>

(* MUTANT of IsNextSeq: the ordinal is the number of rows, plus one. *)
IsCountSeq(n) == n = Cardinality(Stored) + 1

(* The seq read by the inserting transaction is greater than every stored one,
   and 1 for an empty corpus. *)
IsNextSeq(n) ==
  /\ n \in Nat \ {0}
  /\ \A r \in Stored : run[r].seq < n
  /\ n = 1 \/ \E r \in Stored : run[r].seq = n - 1

Without(rows) == [r \in Runs |-> IF r \in rows THEN GoneRun ELSE run[r]]

(* MUTANT of Evicted: stale challenges, which no trust column counts, stay. *)
EvictedValid(r, verdict) ==
  IF IsChallenge(r) /\ verdict
    THEN {q \in Valid \ {r} : run[q].subject = run[r].subject}
    ELSE {}

(* The challenges of the same subject that a verdict evicts. *)
Evicted(r, verdict) ==
  IF IsChallenge(r) /\ verdict
    THEN {q \in Stored \ {r} : run[q].subject = run[r].subject}
    ELSE {}

(* insert_run: the row and the eviction are one transaction. *)
Record(r, verdict, n) ==
  /\ run[r].phase = "running"
  /\ verdict => IsChallenge(r)
  /\ IsNextSeq(n)
  /\ run' = [Without(Evicted(r, verdict)) EXCEPT ![r] =
               [run[r] EXCEPT !.phase = "stored", !.seq = n, !.verdict = verdict]]
  /\ UNCHANGED index
  /\ StillOwed

-----------------------------------------------------------------------------
(* DELETE of one run or of a list of runs, and prune_expired_research: which
   rows have expired is up to the clock, the pins, and the retention that each
   row was stamped with. *)
DeleteRuns(rows) ==
  /\ rows # {} /\ rows \subseteq Stored
  /\ run' = Without(rows)
  /\ UNCHANGED index
  /\ StillOwed

(* The indexing core stores another text of a file, or deletes it. *)
Reindex(f, t) ==
  /\ index' = [index EXCEPT ![f] = t]
  /\ UNCHANGED run
  /\ StillOwed

(* GET /research/runs, with before_seq from the second page on: the client asks
   until there is no cursor, which only a full page has. *)
OpenList ==
  /\ page.state = "unread"
  /\ page' = [before |-> MaxRuns + 1, owed |-> Listed, state |-> "reading"]
  /\ UNCHANGED <<index, run>>

NextPage ==
  /\ page.state = "reading"
  /\ LET rows == PageOf(page.before)
         full == Cardinality(rows) = PageLimit
     IN  page' = [before |-> IF full THEN CHOOSE n \in {run[r].seq : r \in rows} :
                                            \A r \in rows : n <= run[r].seq
                             ELSE 0,
                  owed |-> page.owed \ rows,
                  state |-> IF full THEN "reading" ELSE "read"]
  /\ UNCHANGED <<index, run>>

-----------------------------------------------------------------------------
RunStep(r) ==
  \/ \E named \in SUBSET Valid : Ask(r, named)
  \/ \E subject \in Valid : Challenge(r, subject)
  \/ \E f \in Files : ReadFile(r, f)
  \/ Leave(r)
  \/ \E verdict \in BOOLEAN, n \in 1 .. MaxRuns : Record(r, verdict, n)

CorpusNext ==
  \/ \E r \in Runs : RunStep(r)
  \/ \E rows \in SUBSET Stored : DeleteRuns(rows)
  \/ \E f \in Files, t \in Texts \cup {Gone} : Reindex(f, t)
  \/ OpenList \/ NextPage

CorpusSpec == CorpusInit /\ [][CorpusNext]_corpusVars

-----------------------------------------------------------------------------
(* insert_run: "a reader is never asked to reconcile a pile of verdicts": one
   challenge with a verdict is stored of each subject, however many challenges
   of it run at once and whichever of them had gone stale. *)
OneStandingVerdict ==
  \A p, q \in Stored :
    run[p].verdict /\ run[q].verdict /\ run[p].subject = run[q].subject => p = q

(* research_validity_ctes: "every edge points to a strictly earlier row", so
   that the recursion ends, although rows go in any order, their ordinals are
   given out again and a run is stored long after its context was looked at. *)
ContextIsEarlier ==
  \A r \in Stored : \A p \in run[r].context \cap Stored : run[p].seq < run[r].seq

(* A client who follows the cursor to its end has been shown every run that
   was listed when they began and has been ever since, while runs are stored,
   deleted, and turn invalid and valid again. *)
PagesShowEveryRun == page.state = "read" => page.owed = {}
=============================================================================
