------------------------------ MODULE Slicing ------------------------------
(***************************************************************************)
(* slicing/markdown.rs and slicing/traits.rs: how a text becomes chunks.   *)
(* A document is a list of blocks that is packed; a source file is a       *)
(* syntax tree from which nodes are selected, and whose other lines are    *)
(* filled into windows.  One character is one token here, and positions    *)
(* count from 0.  The state is the input, built up piece by piece.         *)
(***************************************************************************)
EXTENDS Integers, FiniteSets, SequencesExt

CONSTANTS
  MinTokens, MaxTokens, GapMinTokens,
  BlockSizes, Levels, MaxBlocks,   \* bounds of a document
  NodeSizes, MaxNodes              \* bounds of a source file

ASSUME SlicingAssumption ==
  /\ MinTokens \in Nat /\ MaxTokens \in Nat \ {0} /\ GapMinTokens \in Nat \ {0}
  /\ BlockSizes \subseteq Nat /\ Levels \subseteq Nat
  /\ NodeSizes \subseteq Nat \ {0}

VARIABLES
  blocks,  \* of a document, in order: size and heading level, 0 for no heading
  nodes    \* of a source file, the leaves of its syntax tree

slicingVars == <<blocks, nodes>>

(* tokens_between: a token that ends where the range does is not counted. *)
Between(a, b) == IF b > a THEN b - 1 - a ELSE 0

Least(S) == CHOOSE x \in S : \A y \in S : x <= y
Greatest(S) == CHOOSE x \in S : \A y \in S : x >= y

-----------------------------------------------------------------------------
(* Documents.  Chunk (i, j) holds the blocks i+1..j.  Costs are counted in
   twentieths of the program's. *)
HardHeadingLevel == 2
ChunkCost == 7
SwallowedHeadingCost == 5

BlockEnd[k \in 0..Len(blocks)] == IF k = 0 THEN 0 ELSE BlockEnd[k - 1] + blocks[k].size

Fits(i, j) == i = j - 1 \/ Between(BlockEnd[i], BlockEnd[j]) <= MaxTokens

Swallowed(i, j) == {k \in i + 2..j : blocks[k].level # 0}

(* MUTANT of Allowed: takes a level-2 heading for a soft one. *)
AllowedBelowTop(i, j) == \A k \in Swallowed(i, j) : blocks[k].level >= HardHeadingLevel
Allowed(i, j) == \A k \in Swallowed(i, j) : blocks[k].level > HardHeadingLevel

Cost(i, j) == ChunkCost + SwallowedHeadingCost * Cardinality(Swallowed(i, j))

(* Where the last chunk of the first j blocks may begin.  The search goes back
   from j and ends at the first chunk above the cap. *)
Starts(j) == {i \in 0..j - 1 : Allowed(i, j) /\ \A k \in i..j - 1 : Fits(k, j)}

Total(best, i, j) == best[i].cost + Cost(i, j)

(* Of equally cheap chunks the shortest wins. *)
Back(best, j) ==
  Greatest({i \in Starts(j) : \A k \in Starts(j) : Total(best, i, j) <= Total(best, k, j)})

Improve(best, j) ==
  IF j = 0 THEN [cost |-> 0, cuts |-> <<0>>]
  ELSE [cost |-> Total(best, Back(best, j), j), cuts |-> Append(best[Back(best, j)].cuts, j)]

Best[j \in 0..Len(blocks)] == Improve(Best, j)

Pack == Best[Len(blocks)].cuts

-----------------------------------------------------------------------------
(* The text of a source file: each leaf stands after `lead` line breaks.  A
   nested leaf is in one inner node with the leaf before it. *)
LeafEnd[k \in 0..Len(nodes)] ==
  IF k = 0 THEN 0 ELSE LeafEnd[k - 1] + (nodes[k].lead + nodes[k].size)
LeafStart(k) == LeafEnd[k] - nodes[k].size
TextEnd == LeafEnd[Len(nodes)]
Breaks == UNION {LeafEnd[k - 1]..LeafStart(k) - 1 : k \in DOMAIN nodes}

LineStart(at) == Greatest({0} \cup {p + 1 : p \in {q \in Breaks : q < at}})
NextLine(at) == Least({TextEnd} \cup {p + 1 : p \in {q \in Breaks : q >= at}})

(* A syntax node is the run of leaves it spans. *)
StartOf(n) == LeafStart(n[1])
EndOf(n) == LeafEnd[n[2]]
Width(n) == Between(StartOf(n), EndOf(n))
StartsLine(n) == LineStart(StartOf(n)) = StartOf(n)

Roots ==
  {n \in (DOMAIN nodes) \X (DOMAIN nodes) :
     /\ n[1] <= n[2]
     /\ \A k \in n[1]..n[2] : nodes[k].nested <=> k > n[1]
     /\ n[2] = Len(nodes) \/ ~nodes[n[2] + 1].nested}
Leaves(n) == {<<k, k>> : k \in n[1]..n[2]}
Siblings(n) ==
  IF n \in Roots THEN Roots
  ELSE Leaves(CHOOSE root \in Roots : n[1] \in root[1]..root[2])

InWindow(n) == Width(n) \in MinTokens..MaxTokens

(* The walk: a node within the window is a chunk; one above it is descended into. *)
Selected ==
  {n \in Roots : InWindow(n)}
    \cup {n \in UNION {Leaves(root) : root \in {r \in Roots : Width(r) > MaxTokens}} :
            InWindow(n)}

(* MUTANT of EmittedEnd: does not look at what has been emitted. *)
NothingEmitted(n) == 0
EmittedEnd(n) == Greatest({0} \cup {EndOf(m) : m \in {s \in Selected : s[1] < n[1]}})

(* Node n takes in `prev`, a comment or attribute directly above what it has. *)
Absorbs(n, prev) ==
  /\ prev[1] = prev[2] /\ nodes[prev[1]].kind = "comment"
  /\ nodes[prev[2] + 1].lead <= 1
  /\ StartOf(prev) >= EmittedEnd(n)
  /\ StartsLine(prev)
  /\ Between(StartOf(prev), EndOf(n)) <= MaxTokens

Absorbed(n) ==
  LET before == {m \in Siblings(n) : m[1] < n[1]}
  IN {m \in before : \A p \in before : p[1] >= m[1] => Absorbs(n, p)}

ChunkStart(n) ==
  IF StartsLine(n) THEN Least({StartOf(m) : m \in Absorbed(n) \cup {n}}) ELSE StartOf(n)

Spans == {<<ChunkStart(n), EndOf(n)>> : n \in Selected}

-----------------------------------------------------------------------------
(* Lines that no span touches, in maximal runs. *)
Cursor(before) == Greatest({0} \cup {NextLine(s[2]) : s \in before})
Earlier(s) == {t \in Spans : t[1] < s[1] \/ (t[1] = s[1] /\ t[2] < s[2])}

Gaps ==
  {g \in {<<Cursor(Earlier(s)), LineStart(s[1])>> : s \in Spans}
           \cup {<<Cursor(Spans), TextEnd>>} : g[1] < g[2]}

(* A line longer than the window is cut after every MaxTokens tokens. *)
TokenBoundary(from) == from + MaxTokens

Cuts(from, end) ==
  LET cut[n \in 0..end] == IF n = 0 THEN from ELSE TokenBoundary(cut[n - 1])
  IN cut

ChopLine(w, end) ==
  LET cut == Cuts(w.from, end)
      pieces == Least({n \in 0..end : Between(cut[n], end) <= MaxTokens})
  IN [w EXCEPT !.out = @ \o [n \in 1..pieces |-> <<cut[n - 1], cut[n]>>],
               !.from = cut[pieces],
               !.blank = IF pieces > 0 THEN 0 ELSE @]

(* Where a full window ends.  w.fit is the end of the last line that fitted,
   w.blank that of the last blank line in the window, or 0. *)
CutAt(w, atParagraph) ==
  IF atParagraph /\ Between(w.from, w.blank) >= GapMinTokens THEN w.blank ELSE w.fit

CloseFull(w, end, atParagraph) ==
  IF Between(w.from, end) > MaxTokens /\ w.fit > w.from
  THEN [w EXCEPT !.out = Append(@, <<w.from, CutAt(w, atParagraph)>>),
                 !.from = CutAt(w, atParagraph), !.blank = 0]
  ELSE w

AddLine(w, end, atParagraph) ==
  LET chopped == ChopLine(CloseFull(w, end, atParagraph), end)
  IN [chopped EXCEPT !.blank = IF w.fit..end - 1 \subseteq Breaks THEN end ELSE @,
                     !.fit = end]

NoWindow(a) == [from |-> a, fit |-> a, blank |-> 0, out |-> <<>>]

ByLine(w, p, b, atParagraph) ==
  IF p = b \/ p - 1 \in Breaks THEN AddLine(w, p, atParagraph) ELSE w

(* Both slicers cut lines into windows this way, and the source slicer prefers
   to end a window at a paragraph. *)
CutLines(a, b, atParagraph) ==
  LET w[p \in a..b] == IF p = a THEN NoWindow(a) ELSE ByLine(w[p - 1], p, b, atParagraph)
  IN w[b]

SplitByLines(a, b) ==
  LET w == CutLines(a, b, FALSE)
  IN IF w.from < b THEN Append(w.out, <<w.from, b>>) ELSE w.out

(* A tail too small to stand alone joins the last window, if that has room. *)
PackWindow(a, b) ==
  LET w == CutLines(a, b, TRUE)
      small == Between(w.from, b) < GapMinTokens
      joins == w.out # <<>> /\ Between(Last(w.out)[1], b) <= MaxTokens
  IN CASE Between(a, b) < GapMinTokens -> <<>>
       [] Between(a, b) >= GapMinTokens /\ ~small -> Append(w.out, <<w.from, b>>)
       [] Between(a, b) >= GapMinTokens /\ small /\ joins ->
            Front(w.out) \o << <<Last(w.out)[1], b>> >>
       [] OTHER -> w.out

Windows ==
  {w \in UNION {ToSet(PackWindow(g[1], g[2])) : g \in Gaps} :
     ~(w[1]..w[2] - 1 \subseteq Breaks)}

-----------------------------------------------------------------------------
SlicingInit == blocks = <<>> /\ nodes = <<>>

AddBlock ==
  /\ Len(blocks) < MaxBlocks
  /\ \E size \in BlockSizes, level \in Levels :
       blocks' = Append(blocks, [size |-> size, level |-> level])
  /\ UNCHANGED nodes

AddNode ==
  /\ Len(nodes) < MaxNodes
  /\ \E kind \in {"comment", "code"}, lead \in 0..2, size \in NodeSizes, nested \in BOOLEAN :
       /\ nodes = <<>> => lead = 0 /\ ~nested
       /\ nodes' = Append(nodes, [kind |-> kind, lead |-> lead, size |-> size,
                                  nested |-> nested])
  /\ UNCHANGED blocks

(* One input at a time. *)
SlicingNext == (nodes = <<>> /\ AddBlock) \/ (blocks = <<>> /\ AddNode)

SlicingSpec == SlicingInit /\ [][SlicingNext]_slicingVars

-----------------------------------------------------------------------------
(* markdown.rs: the packing is the optimum over every way to cut the document
   that keeps the cap and crosses no hard heading -- not what filling each chunk
   to the cap gives. *)
PackingIsBest ==
  LET last == Len(blocks)
      legal(cuts) ==
        /\ {0, last} \subseteq cuts
        /\ \A k \in 1..last : blocks[k].level \in 1..HardHeadingLevel => k - 1 \in cuts
        /\ \A c, d \in cuts :
             (c + 1 < d /\ \A e \in cuts : ~(c < e /\ e < d))
               => Between(BlockEnd[c], BlockEnd[d]) <= MaxTokens
      price(cuts) ==
        7 * (Cardinality(cuts) - 1)
          + 5 * Cardinality({k \in 1..last : blocks[k].level > HardHeadingLevel
                                               /\ k - 1 \notin cuts})
      packed == ToSet(Pack)
  IN blocks # <<>> =>
       /\ legal(packed)
       /\ \A cuts \in SUBSET (0..last) : legal(cuts) => price(packed) <= price(cuts)

(* traits.rs: the chunks of a file do not overlap, none is above the window, and
   what is in none is on a line of a selected node or less than a fragment before
   one or the end; split_by_lines loses nothing of an oversized block. *)
ChunksPartitionTheText ==
  LET chunks == Spans \cup Windows
      windows == SplitByLines(0, TextEnd)
      touched(p) == \E s \in Spans : LineStart(s[1]) <= p /\ p < NextLine(s[2])
      ahead(p) == Least({TextEnd} \cup {LineStart(s[1]) : s \in {t \in Spans : t[1] > p}})
  IN nodes # <<>> =>
       /\ \A c, d \in chunks : c = d \/ c[2] <= d[1] \/ d[2] <= c[1]
       /\ \A c \in chunks \cup ToSet(windows) :
            c[1] < c[2] /\ Between(c[1], c[2]) <= MaxTokens
       /\ \A p \in (0..TextEnd - 1) \ Breaks :
            \/ \E c \in chunks : c[1] <= p /\ p < c[2]
            \/ touched(p)
            \/ Between(p, ahead(p)) < GapMinTokens
       /\ windows[1][1] = 0 /\ Last(windows)[2] = TextEnd
       /\ \A k \in 1..Len(windows) - 1 : windows[k][2] = windows[k + 1][1]
=============================================================================
