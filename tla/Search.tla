------------------------------- MODULE Search -------------------------------
(***************************************************************************)
(* POST /search over its two stores: the candidates are read from SQLite,  *)
(* ranked by Qdrant and their text is read from SQLite again, while files  *)
(* are indexed anew, deleted and collected.                                *)
(***************************************************************************)
EXTENDS Naturals, FiniteSets

CONSTANTS
  Chunks,       \* chunks that are ever made
  SourceFiles,  \* files they come from
  Unborn,       \* of a chunk that is not made yet
  Scores,       \* scores a chunk may get; Unscorable stands for NaN
  Unscorable,
  Selectors,    \* files that the include and exclude of a request admit
  TopKs         \* values of top_k

VARIABLES
  row,     \* of each chunk in SQLite: its file and its status
  points,  \* chunks with a point in the project's collection
  score,   \* how similar each chunk is to the query, open until they are ranked
  search,  \* the request
  steady   \* history: chunks that could be found since the request came in, and
           \* that Qdrant's query reached

searchVars == <<row, points, score, search, steady>>

Row == [file : SourceFiles, status : {"active", "deleted"}]

ASSUME SearchAssumption == IsFiniteSet(Chunks) /\ Unborn \notin Row

Wanted(c) == row[c] # Unborn /\ row[c].file \in search.want
Active(c) == row[c] # Unborn /\ row[c].status = "active"
Findable == {c \in points : Wanted(c) /\ Active(c)}

SearchTypeOK ==
  /\ row \in [Chunks -> Row \cup {Unborn}]
  /\ points \subseteq Chunks /\ steady \subseteq points
  /\ score \in [Chunks -> Scores \cup {Unscorable}]
  /\ search.pc \in {"embed", "candidates", "qdrant", "fetch", "done"}
  /\ search.candidates \subseteq Chunks /\ search.hits \subseteq Chunks

SearchInit ==
  /\ row = [c \in Chunks |-> Unborn]
  /\ points = {} /\ steady = {}
  /\ score = [c \in Chunks |-> Unscorable]
  /\ \E want \in Selectors, k \in TopKs :
       search = [pc |-> "embed", want |-> want, topK |-> k, candidates |-> {},
                 hits |-> {}, answer |-> <<>>, status |-> 0]

-----------------------------------------------------------------------------
(* The other side: the slice transaction of a file, deletes, upserts that come
   any time later, even late, and the collector.  A search cannot tell a row
   that is deleted from one that is purged, so none is purged here; the other
   side rests when the request is answered, which bounds the model. *)
Searching == search.pc # "done"

ReplaceChunks(f) ==
  LET old == {c \in Chunks : Active(c) /\ row[c].file = f}
  IN \E new \in SUBSET {c \in Chunks : row[c] = Unborn} :
       /\ Searching /\ old \cup new # {}
       /\ row' = [c \in Chunks |->
                    IF c \in old THEN [file |-> f, status |-> "deleted"]
                    ELSE IF c \in new THEN [file |-> f, status |-> "active"] ELSE row[c]]
       /\ steady' = steady \ old
       /\ UNCHANGED <<points, score, search>>

Upsert(c) ==
  /\ Searching /\ row[c] # Unborn
  /\ points' = points \cup {c}
  /\ UNCHANGED <<row, score, search, steady>>

Collect(c) ==
  /\ Searching /\ row[c] # Unborn /\ ~Active(c)
  /\ points' = points \ {c}
  /\ UNCHANGED <<row, score, search, steady>>

-----------------------------------------------------------------------------
Goes(pc) == search.pc = pc /\ UNCHANGED <<row, points>>

Ends(status) == search' = [search EXCEPT !.pc = "done", !.status = status]

Answers(status) == Ends(status) /\ UNCHANGED <<score, steady>>

(* The query's vector; a busy, unreachable or garbled embedder ends it. *)
EmbedQuery ==
  /\ Goes("embed")
  /\ search' = [search EXCEPT !.pc = "candidates"]
  /\ steady' = Findable
  /\ UNCHANGED score

(* build_search_query: active chunks of the files that the selectors admit. *)
ReadCandidates ==
  /\ Goes("candidates")
  /\ LET found == {c \in Chunks : Wanted(c) /\ Active(c)}
     IN IF found = {} THEN Answers(404)
        ELSE /\ search' = [search EXCEPT !.pc = "qdrant", !.candidates = found]
             /\ UNCHANGED <<score, steady>>

Higher(v, w) == v # Unscorable /\ w # Unscorable /\ v > w
Outscores(c, d) == Higher(score[c], score[d])

(* MUTANT of InScope: the has_id filter is not sent. *)
InScopeUnfiltered == points

(* What Qdrant may rank: the points whose ids were sent. *)
InScope == points \cap search.candidates

(* The query is approximate: of the points in scope it walks to some, and answers
   with the best top_k of these; a NaN compares with nothing. *)
RankPoints ==
  /\ Goes("qdrant")
  /\ \E reached \in SUBSET InScope :
     \E hits \in SUBSET reached, similarity \in [reached -> Scores \cup {Unscorable}] :
       /\ \/ Cardinality(hits) = search.topK
          \/ Cardinality(hits) < search.topK /\ hits = reached
       /\ \A h \in hits, o \in reached \ hits : ~Higher(similarity[o], similarity[h])
       /\ steady' = steady \cap reached
       /\ IF hits = {} THEN Ends(404) /\ UNCHANGED score
          ELSE /\ search' = [search EXCEPT !.pc = "fetch", !.hits = hits]
               /\ score' = [c \in Chunks |->
                             IF c \in reached THEN similarity[c] ELSE Unscorable]

(* rank_by_score: best first, NaN last. *)
RanksBefore(c, d) ==
  \/ Outscores(c, d)
  \/ score[c] # Unscorable /\ score[d] = Unscorable

(* The text of the winners whose rows are still active. *)
FetchRows ==
  /\ Goes("fetch")
  /\ LET found == {c \in search.hits : Active(c)}
         places == 1..Cardinality(found)
     IN IF found = {} THEN Answers(404)
        ELSE \E ranked \in [places -> found] :
               /\ {ranked[i] : i \in places} = found
               /\ \A i, j \in places : i < j => ~RanksBefore(ranked[j], ranked[i])
               /\ search' = [search EXCEPT !.pc = "done", !.answer = ranked, !.status = 200]
               /\ UNCHANGED <<score, steady>>

(* Each step may fail, and the client may leave at each. *)
SearchFails ==
  \/ Goes("embed") /\ Answers(503)
  \/ Goes("candidates") /\ (Answers(500) \/ Answers(503))
  \/ Goes("qdrant") /\ Answers(503)
  \/ Goes("fetch") /\ Answers(500)

SearchLeft == Searching /\ Goes(search.pc) /\ Answers(499)

SearchNext ==
  \/ \E f \in SourceFiles : ReplaceChunks(f)
  \/ \E c \in Chunks : Upsert(c) \/ Collect(c)
  \/ EmbedQuery \/ ReadCandidates \/ RankPoints \/ FetchRows
  \/ SearchFails \/ SearchLeft

SearchSpec == SearchInit /\ [][SearchNext]_searchVars

-----------------------------------------------------------------------------
(* search_core: a 200 names at least one chunk and none that is not active, ranks
   no unscorable one above a scored one, and a chunk that could be found all the
   while is missing -- from a 200 or by a 404 -- only if Qdrant's query did not reach
   it or found top_k candidates that it does not outscore. *)
SearchIsHonest ==
  LET places == DOMAIN search.answer
      answer == {search.answer[i] : i \in places}
      rivals(c) == {h \in search.hits \cap search.candidates : ~Outscores(c, h)}
  IN /\ search.status = 200 =>
          /\ answer # {} /\ \A c \in answer : Active(c) /\ Wanted(c)
          /\ \A i, j \in places :
               i < j /\ score[search.answer[i]] = Unscorable
                 => score[search.answer[j]] = Unscorable
     /\ search.status \in {200, 404} =>
          \A c \in steady \ answer : Cardinality(rivals(c)) = search.topK
=============================================================================
