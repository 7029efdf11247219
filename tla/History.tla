------------------------------ MODULE History ------------------------------
(***************************************************************************)
(* The git history of one project: a repository whose tracked refs move,   *)
(* indexers that walk a window of it and post what they found, and a       *)
(* server that replaces the window by what was posted.                     *)
(***************************************************************************)
EXTENDS Integers, FiniteSets

CONSTANTS
  Indexers,    \* runs of mindex-index that may overlap: hook, cron, a full run
  MaxCommits,  \* commits ever made
  Skipped,     \* those the walk drops: short, generated merges, out of scope
  MaxAge,      \* history_max_age_days
  MaxWalk,     \* history_max_commits
  MaxDay,      \* days of one behaviour
  MaxMoves     \* ref moves, failures and prunes of one behaviour

ASSUME HistoryAssumption ==
  /\ Indexers # {}
  /\ MaxCommits \in Nat /\ MaxAge \in Nat /\ MaxDay \in Nat /\ MaxMoves \in Nat
  /\ Skipped \subseteq 1 .. MaxCommits
  /\ MaxWalk \in Nat \ {0}

VARIABLES
  day,      \* the clock
  made,     \* the commits so far, with the day of each
  reached,  \* those that the tracked refs reach
  held,     \* project_commits
  walk,     \* what each indexer has walked and not posted yet
  moves     \* ref moves, failures and prunes so far

historyVars == <<day, made, reached, held, walk, moves>>

Commits == 1 .. MaxCommits  \* in the order in which they are made
Unmade == -1                \* the day of a commit that is not

WalkState == [pc : {"idle", "post"}, commits : SUBSET Commits, since : Int]
NoWalk == [pc |-> "idle", commits |-> {}, since |-> 0]

HistoryTypeOK ==
  /\ day \in 0 .. MaxDay
  /\ made \in [Commits -> Unmade .. MaxDay]
  /\ reached \subseteq {c \in Commits : made[c] # Unmade}
  /\ held \subseteq Commits
  /\ walk \in [Indexers -> WalkState]
  /\ moves \in 0 .. MaxMoves

HistoryInit ==
  /\ day = 0
  /\ made = [c \in Commits |-> Unmade]
  /\ reached = {} /\ held = {}
  /\ walk = [i \in Indexers |-> NoWalk]
  /\ moves = 0

-----------------------------------------------------------------------------
(* The n newest of a set of commits: by date, and of one day in the order of
   their shas, which here is the order in which they were made. *)
Newest(n, commits) ==
  {c \in commits : Cardinality({d \in commits : d > c}) < n}

(* git::walk: git log cuts by age and by count, then the filters drop some. *)
Walked ==
  Newest(MaxWalk, {c \in reached : made[c] >= day - MaxAge}) \ Skipped

(* The window the request speaks for, one day wider than the walk's. *)
Since == day - (MaxAge + 1)

Move == moves < MaxMoves /\ moves' = moves + 1

-----------------------------------------------------------------------------
NewCommit(c) ==
  /\ made[c] = Unmade /\ \A d \in 1 .. c - 1 : made[d] # Unmade
  /\ made' = [made EXCEPT ![c] = day]
  /\ reached' = reached \cup {c}
  /\ UNCHANGED <<day, held, walk, moves>>

(* A reset, a force-push, a branch that is deleted or comes back. *)
MoveRefs(commits) ==
  /\ Move
  /\ commits # reached
  /\ reached' = commits
  /\ UNCHANGED <<day, made, held, walk>>

Midnight ==
  /\ day < MaxDay
  /\ day' = day + 1
  /\ UNCHANGED <<made, reached, held, walk, moves>>

-----------------------------------------------------------------------------
(* Without a ref to walk the indexer gives up. *)
StartWalk(i) ==
  /\ walk[i].pc = "idle" /\ reached # {}
  /\ walk' = [walk EXCEPT ![i] = [pc |-> "post", commits |-> Walked, since |-> Since]]
  /\ UNCHANGED <<day, made, reached, held, moves>>

(* What the transaction leaves of commits that the request does not name. *)
OutsideWindow(since) == {c \in held : made[c] < since}

(* MUTANT of Post: inserts only. *)
PostAdds(i) ==
  /\ walk[i].pc = "post"
  /\ held' = held \cup walk[i].commits
  /\ walk' = [walk EXCEPT ![i] = NoWalk]
  /\ UNCHANGED <<day, made, reached, moves>>

(* reconcile_history, one transaction. *)
Post(i) ==
  /\ walk[i].pc = "post"
  /\ held' = walk[i].commits \cup OutsideWindow(walk[i].since)
  /\ walk' = [walk EXCEPT ![i] = NoWalk]
  /\ UNCHANGED <<day, made, reached, moves>>

(* The request fails, or the transaction does and is rolled back. *)
PostFails(i) ==
  /\ walk[i].pc = "post"
  /\ Move
  /\ walk' = [walk EXCEPT ![i] = NoWalk]
  /\ UNCHANGED <<day, made, reached, held>>

(* DELETE /history: a commit dies only if older_than condemns it and it is not
   among the newest keep_last. *)
Prune(olderThan, keepLast) ==
  /\ Move
  /\ held' = Newest(keepLast, held) \cup {c \in held : made[c] >= olderThan}
  /\ UNCHANGED <<day, made, reached, walk>>

-----------------------------------------------------------------------------
HistoryNext ==
  \/ Midnight
  \/ \E c \in Commits : NewCommit(c)
  \/ \E commits \in SUBSET {c \in Commits : made[c] # Unmade} : MoveRefs(commits)
  \/ \E i \in Indexers : StartWalk(i) \/ Post(i) \/ PostFails(i)
  \/ \E olderThan \in 0 .. MaxDay + 1, keepLast \in 0 .. MaxCommits :
       Prune(olderThan, keepLast)

HistorySpec == HistoryInit /\ [][HistoryNext]_historyVars

-----------------------------------------------------------------------------
(* Once the refs and the clock stand still, the window of the next walk holds
   what that walk finds and nothing else, whatever was rewritten, pruned or
   lost before, and although an old walk may be posted after a newer one; as
   long as there is a ref to walk. *)
HistoryCatchesUp ==
  <>[](reached = {} \/ {c \in held : made[c] >= Since} = Walked)
=============================================================================
