--------------------------- MODULE SlicingProofs ---------------------------
(***************************************************************************)
(* The packing of a document is the best there is, and the chunks of a     *)
(* source file partition its text, for every text and every window.        *)
(***************************************************************************)
EXTENDS Slicing, SequenceTheorems, FiniteSetTheorems, TLAPS

(* Numbers.  Induction is over a set of naturals instead of a predicate. *)
LEMMA LeastExists ==
  ASSUME NEW S, S \subseteq Nat, S # {}
  PROVE  \E n \in S : \A m \in S : n <= m
<1> DEFINE R == {e \in Nat \X Nat : e[1] < e[2]}
<1>1. IsWellFoundedOn(R, Nat)
  BY NatLessThanWellFounded DEF OpToRel
<1> HIDE DEF R
<1>2. PICK n \in S : \A m \in S : <<m, n>> \notin R
  BY <1>1, WFMin
<1>3. ASSUME NEW m \in S PROVE n <= m
  <2>1. ~(m < n)
    BY <1>2 DEF R
  <2> QED BY <2>1
<1> QED BY <1>3

LEMMA GreatestExists ==
  ASSUME NEW S, NEW b \in Nat, S \subseteq 0..b, S # {}
  PROVE  \E n \in S : \A m \in S : m <= n
<1> DEFINE T == {b - m : m \in S}
<1>1. T \subseteq Nat /\ T # {}
  <2>1. PICK m \in S : TRUE
    OBVIOUS
  <2>2. b - m \in T /\ \A k \in S : b - k \in Nat
    OBVIOUS
  <2> QED BY <2>2
<1>2. PICK k \in T : \A l \in T : k <= l
  BY <1>1, LeastExists
<1>3. PICK n \in S : k = b - n
  OBVIOUS
<1>4. \A m \in S : m <= n
  BY <1>2, <1>3
<1> QED BY <1>4

LEMMA LeastOf ==
  ASSUME NEW S, S \subseteq Nat, S # {}
  PROVE  Least(S) \in S /\ \A m \in S : Least(S) <= m
BY LeastExists DEF Least

LEMMA GreatestOf ==
  ASSUME NEW S, NEW b \in Nat, S \subseteq 0..b, S # {}
  PROVE  Greatest(S) \in S /\ \A m \in S : m <= Greatest(S)
BY GreatestExists DEF Greatest

LEMMA FromAllBelow ==
  ASSUME NEW S, \A n \in Nat : (\A m \in 0..n - 1 : m \in S) => n \in S
  PROVE  Nat \subseteq S
<1> DEFINE T == Nat \ S
<1>1. SUFFICES ASSUME T # {} PROVE FALSE
  OBVIOUS
<1>2. PICK n \in T : \A m \in T : n <= m
  BY <1>1, LeastExists
<1>3. \A m \in 0..n - 1 : m \in S
  BY <1>2
<1> QED BY <1>2, <1>3

LEMMA FromOneBelow ==
  ASSUME NEW S, 0 \in S, \A n \in Nat : n \in S => n + 1 \in S
  PROVE  Nat \subseteq S
<1>1. ASSUME NEW n \in Nat, \A m \in 0..n - 1 : m \in S PROVE n \in S
  <2>1. CASE n = 0
    BY <2>1
  <2>2. CASE n # 0
    <3>1. n - 1 \in 0..n - 1 /\ n - 1 \in Nat /\ (n - 1) + 1 = n
      BY <2>2
    <3>2. n - 1 \in S
      BY <1>1, <3>1
    <3> QED BY <3>1, <3>2
  <2> QED BY <2>1, <2>2
<1> QED BY <1>1, FromAllBelow

-----------------------------------------------------------------------------
(* The prefix sums of a sequence of numbers: what their recursive definition
   names exists, and never falls. *)
IsSums(f, base, x, n) ==
  f = [k \in 0..n |-> IF k = 0 THEN base ELSE f[k - 1] + x[k]]

LEMMA SumsExist ==
  ASSUME NEW n \in Nat, NEW base \in Nat, NEW x \in [1..n -> Nat]
  PROVE  \E f : IsSums(f, base, x, n)
<1> DEFINE Upto(m) == \E f \in [0..m -> Nat] :
                        /\ f[0] = base
                        /\ \A k \in 1..m : f[k] = f[k - 1] + x[k]
           S == {m \in Nat : m <= n => Upto(m)}
<1>1. Upto(0)
  <2>1. [k \in 0..0 |-> base] \in [0..0 -> Nat]
    OBVIOUS
  <2>2. [k \in 0..0 |-> base][0] = base
    OBVIOUS
  <2>3. 1..0 = {}
    OBVIOUS
  <2> QED BY <2>1, <2>2, <2>3
<1>2. ASSUME NEW m \in Nat, m + 1 <= n, Upto(m) PROVE Upto(m + 1)
  <2>1. PICK f \in [0..m -> Nat] : f[0] = base /\ \A k \in 1..m : f[k] = f[k - 1] + x[k]
    BY <1>2
  <2> DEFINE g == [k \in 0..m + 1 |-> IF k = m + 1 THEN f[m] + x[m + 1] ELSE f[k]]
  <2>2. x[m + 1] \in Nat /\ f[m] \in Nat
    BY <1>2
  <2>3. g \in [0..m + 1 -> Nat]
    BY <2>2
  <2>4. g[0] = base
    BY <2>1
  <2>5. ASSUME NEW k \in 1..m + 1 PROVE g[k] = g[k - 1] + x[k]
    <3>1. k - 1 \in 0..m /\ g[k - 1] = f[k - 1]
      OBVIOUS
    <3>2. CASE k = m + 1
      BY <3>1, <3>2
    <3>3. CASE k \in 1..m
      BY <2>1, <3>1, <3>3
    <3> QED BY <3>2, <3>3
  <2> QED BY <2>3, <2>4, <2>5
<1> HIDE DEF Upto
<1>3. Nat \subseteq S
  <2>1. 0 \in S
    BY <1>1
  <2>2. ASSUME NEW m \in Nat, m \in S PROVE m + 1 \in S
    BY <1>2, <2>2
  <2> QED BY <2>1, <2>2, FromOneBelow
<1>4. Upto(n)
  BY <1>3
<1>5. PICK f \in [0..n -> Nat] : f[0] = base /\ \A k \in 1..n : f[k] = f[k - 1] + x[k]
  BY <1>4 DEF Upto
<1>6. IsSums(f, base, x, n)
  BY <1>5 DEF IsSums
<1> QED BY <1>6

LEMMA SumsAre ==
  ASSUME NEW n \in Nat, NEW base \in Nat, NEW x \in [1..n -> Nat],
         NEW f, IsSums(f, base, x, n)
  PROVE  /\ f \in [0..n -> Nat]
         /\ f[0] = base
         /\ \A k \in 1..n : f[k] = f[k - 1] + x[k]
         /\ \A k, l \in 0..n : k <= l => f[k] <= f[l]
<1>1. /\ DOMAIN f = 0..n
      /\ f[0] = base
      /\ \A k \in 1..n : f[k] = f[k - 1] + x[k]
  BY DEF IsSums
<1> DEFINE S == {m \in Nat : m <= n => \A k \in 0..m : f[k] \in Nat /\ f[k] <= f[m]}
<1>2. Nat \subseteq S
  <2>1. 0 \in S
    BY <1>1
  <2>2. ASSUME NEW m \in Nat, m \in S PROVE m + 1 \in S
    <3>1. CASE m + 1 <= n
      <4>1. f[m + 1] = f[m] + x[m + 1] /\ x[m + 1] \in Nat
        BY <1>1, <3>1
      <4>2. \A k \in 0..m : f[k] \in Nat /\ f[k] <= f[m]
        BY <2>2, <3>1
      <4>3. f[m] \in Nat /\ f[m + 1] \in Nat
        BY <4>1, <4>2
      <4> QED BY <4>1, <4>2, <4>3
    <3> QED BY <3>1
  <2> QED BY <2>1, <2>2, FromOneBelow
<1>3. \A l \in 0..n : \A k \in 0..l : f[k] \in Nat /\ f[k] <= f[l]
  BY <1>2
<1>4. f \in [0..n -> Nat]
  <2>1. f = [k \in 0..n |-> f[k]]
    BY DEF IsSums
  <2>2. \A k \in 0..n : f[k] \in Nat
    BY <1>3
  <2> QED BY <2>1, <2>2
<1> QED BY <1>1, <1>3, <1>4

-----------------------------------------------------------------------------
(* Documents. *)
DocOK == blocks \in Seq([size : Nat, level : Nat])

LEMMA BlockIs ==
  ASSUME DocOK
  PROVE  /\ Len(blocks) \in Nat
         /\ \A k \in 1..Len(blocks) : blocks[k].size \in Nat /\ blocks[k].level \in Nat
<1>1. Len(blocks) \in Nat
  BY LenProperties DEF DocOK
<1>2. \A k \in 1..Len(blocks) : blocks[k] \in [size : Nat, level : Nat]
  BY ElementOfSeq DEF DocOK
<1> QED BY <1>1, <1>2

LEMMA BlockEndIs ==
  ASSUME DocOK
  PROVE  /\ BlockEnd \in [0..Len(blocks) -> Nat]
         /\ \A k, l \in 0..Len(blocks) : k <= l => BlockEnd[k] <= BlockEnd[l]
<1> DEFINE n == Len(blocks)
           x == [k \in 1..n |-> blocks[k].size]
<1>1. n \in Nat /\ x \in [1..n -> Nat]
  BY BlockIs
<1>2. \E f : f = [k \in 0..n |-> IF k = 0 THEN 0 ELSE f[k - 1] + blocks[k].size]
  <2>1. PICK f : IsSums(f, 0, x, n)
    BY <1>1, SumsExist
  <2>2. \A k \in 0..n : k # 0 => x[k] = blocks[k].size
    BY <1>1
  <2> HIDE DEF x
  <2>3. f = [k \in 0..n |-> IF k = 0 THEN 0 ELSE f[k - 1] + blocks[k].size]
    BY <1>1, <2>1, <2>2 DEF IsSums
  <2> QED BY <2>3
<1>3. BlockEnd = [k \in 0..n |-> IF k = 0 THEN 0 ELSE BlockEnd[k - 1] + blocks[k].size]
  BY <1>2 DEF BlockEnd
<1>4. IsSums(BlockEnd, 0, x, n)
  BY <1>1, <1>3 DEF IsSums
<1> QED BY <1>1, <1>4, SumsAre

(* What PackingIsBest says of the cuts of a whole document, of its first n blocks. *)
Hard(k) == blocks[k].level \in 1..HardHeadingLevel
Soft(k) == blocks[k].level > HardHeadingLevel
Buried(C, n) == {k \in 1..n : Soft(k) /\ k - 1 \notin C}
Adjacent(C, c, d) == c < d /\ \A e \in C : ~(c < e /\ e < d)

LegalTo(C, n) ==
  /\ C \subseteq 0..n /\ {0, n} \subseteq C
  /\ \A k \in 1..n : Hard(k) => k - 1 \in C
  /\ \A c, d \in C : Adjacent(C, c, d) => Fits(c, d)

PriceTo(C, n) == 7 * (Cardinality(C) - 1) + 5 * Cardinality(Buried(C, n))

(* A chunk that fits leaves room for every chunk that starts later. *)
LEMMA LaterFits ==
  ASSUME DocOK, NEW j \in 1..Len(blocks), NEW i \in 0..j - 1, Fits(i, j)
  PROVE  \A k \in i..j - 1 : Fits(k, j)
<1> SUFFICES ASSUME NEW k \in i..j - 1, k # j - 1 PROVE Fits(k, j)
  BY DEF Fits
<1>1. BlockEnd[i] <= BlockEnd[k] /\ BlockEnd[i] \in Nat /\ BlockEnd[k] \in Nat /\ BlockEnd[j] \in Nat
  <2>1. {i, k, j} \subseteq 0..Len(blocks) /\ i <= k
    BY BlockIs
  <2> QED BY <2>1, BlockEndIs
<1>2. Between(BlockEnd[k], BlockEnd[j]) <= Between(BlockEnd[i], BlockEnd[j])
  BY <1>1 DEF Between
<1>3. Between(BlockEnd[i], BlockEnd[j]) <= MaxTokens
  BY DEF Fits
<1> QED BY <1>1, <1>2, <1>3, SlicingAssumption DEF Fits, Between

LEMMA BuriedFinite ==
  ASSUME NEW n \in Nat, NEW C, C \subseteq 0..n
  PROVE  /\ IsFiniteSet(C) /\ IsFiniteSet(Buried(C, n))
         /\ Cardinality(C) \in Nat /\ Cardinality(Buried(C, n)) \in Nat
<1>1. IsFiniteSet(0..n) /\ IsFiniteSet(1..n)
  BY FS_Interval
<1>2. IsFiniteSet(C) /\ IsFiniteSet(Buried(C, n))
  BY <1>1, FS_Subset DEF Buried
<1> QED BY <1>2, FS_CardinalityType

(* One more chunk (i, j) after legal cuts of the first i blocks. *)
LEMMA OneMoreChunk ==
  ASSUME DocOK, NEW j \in 1..Len(blocks), NEW i \in Starts(j), NEW C, LegalTo(C, i)
  PROVE  /\ LegalTo(C \cup {j}, j)
         /\ PriceTo(C \cup {j}, j) = PriceTo(C, i) + Cost(i, j)
<1> DEFINE D == C \cup {j}
<1>1. /\ i \in 0..j - 1 /\ Allowed(i, j) /\ Fits(i, j)
      /\ C \subseteq 0..i /\ 0 \in C /\ i \in C /\ j \notin C
      /\ i \in Nat /\ j \in Nat
  BY DEF Starts, LegalTo
<1>2. \A k \in 1..j : blocks[k].level \in Nat
  BY BlockIs
<1>3. LegalTo(D, j)
  <2>1. D \subseteq 0..j /\ {0, j} \subseteq D
    BY <1>1
  <2>2. ASSUME NEW k \in 1..j, Hard(k) PROVE k - 1 \in D
    <3>1. CASE k \in 1..i
      BY <2>2, <3>1 DEF LegalTo
    <3>2. CASE k = i + 1
      BY <1>1, <3>2
    <3>3. CASE k \in i + 2..j
      <4>1. k \in Swallowed(i, j)
        BY <1>2, <2>2, <3>3 DEF Swallowed, Hard
      <4>2. blocks[k].level > HardHeadingLevel
        BY <1>1, <4>1 DEF Allowed
      <4> QED BY <1>2, <2>2, <4>2 DEF Hard, HardHeadingLevel
    <3> QED BY <1>1, <3>1, <3>2, <3>3
  <2>3. ASSUME NEW c \in D, NEW d \in D, Adjacent(D, c, d) PROVE Fits(c, d)
    <3>1. CASE d = j
      <4>1. c = i
        BY <1>1, <2>3, <3>1 DEF Adjacent
      <4> QED BY <1>1, <3>1, <4>1
    <3>2. CASE d # j
      <4>1. c \in C /\ d \in C
        BY <1>1, <2>3, <3>2 DEF Adjacent
      <4> QED BY <2>3, <4>1 DEF LegalTo, Adjacent
    <3> QED BY <3>1, <3>2
  <2> QED BY <2>1, <2>2, <2>3 DEF LegalTo
<1>4. Buried(D, j) = Buried(C, i) \cup Swallowed(i, j)
  <2>1. ASSUME NEW k \in 1..i PROVE k \in Buried(D, j) <=> k \in Buried(C, i)
    BY <1>1 DEF Buried
  <2>2. i + 1 \notin Buried(D, j)
    BY <1>1 DEF Buried
  <2>3. ASSUME NEW k \in i + 2..j PROVE k \in Buried(D, j) <=> k \in Swallowed(i, j)
    <3>1. k - 1 \notin D /\ k \in 1..j
      BY <1>1
    <3>2. Soft(k) <=> blocks[k].level # 0
      BY <1>1, <1>2, <3>1 DEF Soft, Allowed, Swallowed, HardHeadingLevel
    <3> QED BY <3>1, <3>2 DEF Buried, Swallowed
  <2>4. /\ Buried(D, j) \subseteq (1..i) \cup {i + 1} \cup (i + 2..j)
        /\ Buried(C, i) \subseteq 1..i /\ Swallowed(i, j) \subseteq i + 2..j
    BY <1>1 DEF Buried, Swallowed
  <2> QED BY <1>1, <2>1, <2>2, <2>3, <2>4
<1>5. Buried(C, i) \cap Swallowed(i, j) = {}
  BY <1>1 DEF Buried, Swallowed
<1>6. /\ IsFiniteSet(C) /\ IsFiniteSet(Buried(C, i)) /\ IsFiniteSet(Swallowed(i, j))
      /\ Cardinality(C) \in Nat /\ Cardinality(Buried(C, i)) \in Nat
      /\ Cardinality(Swallowed(i, j)) \in Nat
  <2>1. IsFiniteSet(Swallowed(i, j))
    <3>1. IsFiniteSet(i + 2..j)
      BY <1>1, FS_Interval
    <3> QED BY <3>1, FS_Subset DEF Swallowed
  <2> QED BY <1>1, <2>1, BuriedFinite, FS_CardinalityType
<1>7. Cardinality(D) = Cardinality(C) + 1
  BY <1>1, <1>6, FS_AddElement
<1>8. Cardinality(Buried(D, j)) = Cardinality(Buried(C, i)) + Cardinality(Swallowed(i, j))
  <2>1. Cardinality(Buried(C, i) \cap Swallowed(i, j)) = 0
    BY <1>5, FS_EmptySet
  <2>2. Cardinality(Buried(C, i) \cup Swallowed(i, j))
          = Cardinality(Buried(C, i)) + Cardinality(Swallowed(i, j))
              - Cardinality(Buried(C, i) \cap Swallowed(i, j))
    BY <1>6, FS_Union
  <2>3. Cardinality(Buried(D, j)) = Cardinality(Buried(C, i) \cup Swallowed(i, j))
    BY <1>4
  <2> HIDE DEF D
  <2> QED BY <1>6, <2>1, <2>2, <2>3
<1>9. PriceTo(D, j) = PriceTo(C, i) + Cost(i, j)
  BY <1>6, <1>7, <1>8 DEF PriceTo, Cost, ChunkCost, SwallowedHeadingCost
<1> QED BY <1>3, <1>9

(* Every legal way to cut the first j blocks ends in one chunk more than a legal
   way to cut fewer. *)
LEMMA LastChunk ==
  ASSUME DocOK, NEW j \in 1..Len(blocks), NEW D, LegalTo(D, j)
  PROVE  \E i \in Starts(j) : LegalTo(D \ {j}, i)
<1> DEFINE before == D \cap 0..j - 1
<1>1. D \subseteq 0..j /\ 0 \in D /\ j \in D /\ j \in Nat
  BY DEF LegalTo
<1>2. PICK i \in before : \A e \in before : e <= i
  <2>1. before \subseteq 0..j - 1 /\ 0 \in before /\ j - 1 \in Nat
    BY <1>1
  <2> HIDE DEF before
  <2> QED BY <2>1, GreatestExists
<1>3. i \in D /\ i \in 0..j - 1 /\ D \ {j} \subseteq 0..i /\ \A e \in D : ~(i < e /\ e < j)
  BY <1>1, <1>2
<1>4. i \in Starts(j)
  <2>1. Fits(i, j)
    BY <1>1, <1>3 DEF LegalTo, Adjacent
  <2>2. \A k \in i..j - 1 : Fits(k, j)
    BY <1>3, <2>1, LaterFits
  <2>3. ASSUME NEW k \in Swallowed(i, j) PROVE blocks[k].level > HardHeadingLevel
    <3>1. k \in i + 2..j /\ blocks[k].level # 0 /\ blocks[k].level \in Nat
      BY <1>1, <1>3, BlockIs DEF Swallowed
    <3>2. k - 1 \notin D /\ k \in 1..j
      BY <1>3, <3>1
    <3>3. ~Hard(k)
      BY <3>2 DEF LegalTo
    <3> QED BY <3>1, <3>3 DEF Hard, HardHeadingLevel
  <2> QED BY <1>3, <2>2, <2>3 DEF Starts, Allowed
<1>5. LegalTo(D \ {j}, i)
  <2>1. D \ {j} \subseteq 0..i /\ {0, i} \subseteq D \ {j}
    BY <1>1, <1>3
  <2>2. ASSUME NEW k \in 1..i, Hard(k) PROVE k - 1 \in D \ {j}
    BY <1>1, <1>3, <2>2 DEF LegalTo
  <2>3. ASSUME NEW c \in D \ {j}, NEW d \in D \ {j}, Adjacent(D \ {j}, c, d)
        PROVE  Fits(c, d)
    <3>1. Adjacent(D, c, d)
      BY <1>1, <1>3, <2>1, <2>3 DEF Adjacent
    <3> QED BY <3>1 DEF LegalTo
  <2> QED BY <2>1, <2>2, <2>3 DEF LegalTo
<1> QED BY <1>4, <1>5

-----------------------------------------------------------------------------
(* The table of best packings.  Its row j is made from the rows before it. *)
Cheapest(best, j) ==
  {i \in Starts(j) : \A k \in Starts(j) : Total(best, i, j) <= Total(best, k, j)}

Rows(best, n) == \A j \in 0..n : best[j].cost \in Nat

LEMMA CostIs == \A i, j \in Nat : Cost(i, j) \in Nat
<1> SUFFICES ASSUME NEW i \in Nat, NEW j \in Nat PROVE Cost(i, j) \in Nat
  OBVIOUS
<1>1. IsFiniteSet(i + 2..j)
  BY FS_Interval
<1>2. Cardinality(Swallowed(i, j)) \in Nat
  BY <1>1, FS_Subset, FS_CardinalityType DEF Swallowed
<1> QED BY <1>2 DEF Cost, ChunkCost, SwallowedHeadingCost

(* A chunk of one block is always a choice, so that one of the cheapest exists. *)
LEMMA BackIs ==
  ASSUME NEW j \in Nat \ {0}, NEW best, Rows(best, j - 1)
  PROVE  /\ Back(best, j) \in Starts(j)
         /\ Total(best, Back(best, j), j) \in Nat
         /\ \A k \in Starts(j) : Total(best, Back(best, j), j) <= Total(best, k, j)
<1>1. Starts(j) \subseteq 0..j - 1 /\ j - 1 \in Nat
  BY DEF Starts
<1>2. j - 1 \in Starts(j)
  <2>1. Swallowed(j - 1, j) = {}
    BY DEF Swallowed
  <2> QED BY <2>1 DEF Starts, Allowed, Fits
<1>3. \A i \in Starts(j) : Total(best, i, j) \in Nat
  <2>1. ASSUME NEW i \in Starts(j) PROVE best[i].cost \in Nat /\ Cost(i, j) \in Nat
    <3>1. i \in 0..j - 1 /\ i \in Nat /\ j \in Nat
      BY <1>1
    <3>2. Cost(i, j) \in Nat
      BY <3>1, CostIs
    <3> QED BY <3>1, <3>2 DEF Rows
  <2> QED BY <2>1 DEF Total
<1> DEFINE totals == {Total(best, i, j) : i \in Starts(j)}
<1>4. PICK t \in totals : \A u \in totals : t <= u
  <2>1. totals \subseteq Nat /\ totals # {}
    BY <1>2, <1>3
  <2> HIDE DEF totals
  <2> QED BY <2>1, LeastExists
<1>5. Cheapest(best, j) # {}
  BY <1>4 DEF Cheapest
<1>6. Back(best, j) \in Cheapest(best, j)
  <2>1. Cheapest(best, j) \subseteq 0..j - 1
    BY <1>1 DEF Cheapest
  <2>2. Greatest(Cheapest(best, j)) \in Cheapest(best, j)
    BY <1>1, <1>5, <2>1, GreatestOf
  <2> QED BY <2>2 DEF Back, Cheapest
<1> QED BY <1>3, <1>6 DEF Cheapest

LEMMA SameRows ==
  ASSUME NEW j \in Nat, NEW f, NEW g, Rows(f, j - 1), \A i \in 0..j - 1 : f[i] = g[i]
  PROVE  Improve(f, j) = Improve(g, j) /\ Improve(f, j).cost \in Nat
<1>1. CASE j = 0
  BY <1>1 DEF Improve
<1>2. CASE j # 0
  <2>1. Starts(j) \subseteq 0..j - 1
    BY DEF Starts
  <2>2. \A i \in Starts(j) : Total(f, i, j) = Total(g, i, j)
    BY <2>1 DEF Total
  <2>3. Cheapest(f, j) = Cheapest(g, j)
    BY <2>2 DEF Cheapest
  <2>4. Back(f, j) = Back(g, j)
    BY <2>3 DEF Back, Cheapest
  <2>5. Back(f, j) \in Starts(j) /\ Total(f, Back(f, j), j) \in Nat
    BY <1>2, BackIs
  <2>6. Total(f, Back(f, j), j) = Total(g, Back(g, j), j) /\ f[Back(f, j)] = g[Back(g, j)]
    BY <2>1, <2>2, <2>4, <2>5
  <2> QED BY <1>2, <2>5, <2>6 DEF Improve
<1> QED BY <1>1, <1>2

LEMMA BestIs ==
  ASSUME Len(blocks) \in Nat
  PROVE  \A j \in 0..Len(blocks) : Best[j] = Improve(Best, j) /\ Best[j].cost \in Nat
<1> DEFINE n == Len(blocks)
           Table(f, m) == /\ f = [j \in 0..m |-> f[j]]
                          /\ \A j \in 0..m : f[j] = Improve(f, j) /\ f[j].cost \in Nat
           S == {m \in Nat : \E f : Table(f, m)}
<1>1. 0 \in S
  <2> DEFINE f == [j \in 0..0 |-> [cost |-> 0, cuts |-> <<0>>]]
  <2>1. f[0] = Improve(f, 0) /\ f[0].cost \in Nat
    BY DEF Improve
  <2>2. Table(f, 0)
    BY <2>1
  <2> QED BY <2>2
<1>2. ASSUME NEW m \in Nat, m \in S PROVE m + 1 \in S
  <2>1. PICK f : Table(f, m)
    BY <1>2
  <2> DEFINE g == [j \in 0..m + 1 |-> IF j = m + 1 THEN Improve(f, m + 1) ELSE f[j]]
  <2>2. \A j \in 0..m : g[j] = f[j]
    OBVIOUS
  <2>3. ASSUME NEW j \in 0..m + 1 PROVE g[j] = Improve(g, j) /\ g[j].cost \in Nat
    <3>1. Rows(f, j - 1) /\ \A i \in 0..j - 1 : f[i] = g[i]
      <4>1. \A i \in 0..j - 1 : i \in 0..m
        OBVIOUS
      <4> HIDE DEF g
      <4> QED BY <2>1, <2>2, <4>1 DEF Rows
    <3> HIDE DEF g
    <3>2. Improve(f, j) = Improve(g, j) /\ Improve(f, j).cost \in Nat
      BY <3>1, SameRows
    <3>3. g[j] = Improve(f, j)
      BY <2>1 DEF g
    <3> QED BY <3>2, <3>3
  <2>4. g = [j \in 0..m + 1 |-> g[j]]
    OBVIOUS
  <2> HIDE DEF g
  <2>5. Table(g, m + 1)
    BY <2>3, <2>4
  <2>6. m + 1 \in Nat
    OBVIOUS
  <2> HIDE DEF Table
  <2> QED BY <2>5, <2>6
<1>3. PICK f : Table(f, n)
  <2> HIDE DEF S
  <2>1. Nat \subseteq S
    BY <1>1, <1>2, FromOneBelow
  <2> QED BY <2>1 DEF S
<1>4. f = [j \in 0..n |-> Improve(f, j)]
  BY <1>3
<1>5. Best = [j \in 0..n |-> Improve(Best, j)]
  BY <1>4 DEF Best
<1> DEFINE T == {m \in Nat : m <= n => Best[m].cost \in Nat}
<1>6. ASSUME NEW m \in Nat, \A k \in 0..m - 1 : k \in T PROVE m \in T
  <2>1. CASE m <= n
    <3>1. Rows(Best, m - 1)
      BY <1>6, <2>1 DEF Rows
    <3>2. Improve(Best, m).cost \in Nat
      BY <3>1, SameRows
    <3> QED BY <1>5, <2>1, <3>2
  <2> QED BY <2>1
<1>7. Nat \subseteq T
  <2> HIDE DEF T
  <2> QED BY <1>6, FromAllBelow
<1>8. ASSUME NEW j \in 0..n PROVE Best[j] = Improve(Best, j) /\ Best[j].cost \in Nat
  <2>1. j \in Nat /\ j <= n
    OBVIOUS
  <2>2. Best[j].cost \in Nat
    BY <1>7, <2>1
  <2>3. Best[j] = Improve(Best, j)
    BY <1>5
  <2> QED BY <2>2, <2>3
<1> QED BY <1>8

-----------------------------------------------------------------------------
(* Row j: a legal packing of the first j blocks, none of which is cheaper. *)
Optimal(j) ==
  /\ Best[j].cuts \in Seq(Nat)
  /\ LegalTo(ToSet(Best[j].cuts), j)
  /\ Best[j].cost = PriceTo(ToSet(Best[j].cuts), j)
  /\ \A C : LegalTo(C, j) => Best[j].cost <= PriceTo(C, j)

LEMMA AppendedSet ==
  ASSUME NEW s \in Seq(Nat), NEW e \in Nat
  PROVE  Append(s, e) \in Seq(Nat) /\ ToSet(Append(s, e)) = ToSet(s) \cup {e}
<1>1. /\ Append(s, e) \in Seq(Nat)
      /\ Len(Append(s, e)) = Len(s) + 1
      /\ \A k \in 1..Len(s) : Append(s, e)[k] = s[k]
      /\ Append(s, e)[Len(s) + 1] = e
      /\ Len(s) \in Nat
  BY AppendProperties, LenProperties
<1>2. DOMAIN s = 1..Len(s) /\ DOMAIN Append(s, e) = 1..Len(s) + 1
  BY <1>1, LenProperties
<1>3. DOMAIN Append(s, e) = DOMAIN s \cup {Len(s) + 1}
  BY <1>1, <1>2
<1> QED BY <1>1, <1>2, <1>3 DEF ToSet

LEMMA PriceIs == \A n \in Nat : \A C : LegalTo(C, n) => PriceTo(C, n) \in Int
<1> SUFFICES ASSUME NEW n \in Nat, NEW C, LegalTo(C, n) PROVE PriceTo(C, n) \in Int
  OBVIOUS
<1>1. C \subseteq 0..n
  BY DEF LegalTo
<1>2. Cardinality(C) \in Nat /\ Cardinality(Buried(C, n)) \in Nat
  BY <1>1, BuriedFinite
<1> QED BY <1>2 DEF PriceTo

LEMMA EachRowOptimal ==
  ASSUME DocOK
  PROVE  \A j \in 0..Len(blocks) : Optimal(j)
<1> DEFINE n == Len(blocks)
           S == {j \in Nat : j <= n => Optimal(j)}
<1>1. n \in Nat /\ \A j \in 0..n : Best[j] = Improve(Best, j) /\ Best[j].cost \in Nat
  BY BlockIs, BestIs
<1>2. Optimal(0)
  <2>1. Best[0] = [cost |-> 0, cuts |-> <<0>>]
    <3>1. Best[0] = Improve(Best, 0)
      BY <1>1
    <3> QED BY <3>1 DEF Improve
  <2>2. ToSet(<<0>>) = {0} /\ <<0>> \in Seq(Nat)
    BY DEF ToSet
  <2>3. LegalTo({0}, 0)
    BY DEF LegalTo, Adjacent
  <2>4. ASSUME NEW C, LegalTo(C, 0) PROVE PriceTo(C, 0) = 0
    <3>1. C = {0} /\ Buried(C, 0) = {}
      <4>1. 1..0 = {} /\ 0..0 = {0}
        OBVIOUS
      <4> QED BY <2>4, <4>1 DEF LegalTo, Buried
    <3>2. Cardinality(C) = 1 /\ Cardinality(Buried(C, 0)) = 0
      BY <3>1, FS_EmptySet, FS_Singleton
    <3> QED BY <3>2 DEF PriceTo
  <2> QED BY <2>1, <2>2, <2>3, <2>4 DEF Optimal
<1>3. ASSUME NEW j \in 1..n, \A i \in 0..j - 1 : Optimal(i) PROVE Optimal(j)
  <2> DEFINE i == Back(Best, j)
             packed == ToSet(Best[j].cuts)
  <2>1. Rows(Best, j - 1) /\ j \in Nat \ {0}
    BY <1>1 DEF Rows
  <2>2. /\ i \in Starts(j)
        /\ \A k \in Starts(j) : Total(Best, i, j) <= Total(Best, k, j)
    BY <2>1, BackIs
  <2>3. i \in 0..j - 1 /\ i \in Nat
    BY <2>2 DEF Starts
  <2>4. /\ Best[j].cost = Best[i].cost + Cost(i, j)
        /\ Best[j].cuts = Append(Best[i].cuts, j)
    <3>1. Best[j] = Improve(Best, j)
      BY <1>1, <2>1
    <3> QED BY <2>1, <3>1 DEF Improve, Total
  <2> HIDE DEF i
  <2>5. Optimal(i)
    BY <1>3, <2>3
  <2>6. Best[j].cuts \in Seq(Nat) /\ packed = ToSet(Best[i].cuts) \cup {j}
    BY <2>1, <2>4, <2>5, AppendedSet DEF Optimal
  <2>7. LegalTo(packed, j) /\ Best[j].cost = PriceTo(packed, j)
    BY <2>2, <2>4, <2>5, <2>6, OneMoreChunk DEF Optimal
  <2>8. ASSUME NEW C, LegalTo(C, j) PROVE Best[j].cost <= PriceTo(C, j)
    <3>1. PICK k \in Starts(j) : LegalTo(C \ {j}, k)
      BY <2>8, LastChunk
    <3>2. k \in 0..j - 1 /\ k \in Nat /\ j \in Nat
      BY <2>1, <3>1 DEF Starts
    <3>3. PriceTo(C, j) = PriceTo(C \ {j}, k) + Cost(k, j)
      <4>1. (C \ {j}) \cup {j} = C
        BY <2>8 DEF LegalTo
      <4> QED BY <3>1, <4>1, OneMoreChunk
    <3>4. Best[k].cost <= PriceTo(C \ {j}, k)
      BY <1>3, <3>1, <3>2 DEF Optimal
    <3>5. Best[j].cost <= Best[k].cost + Cost(k, j)
      BY <2>2, <2>4, <3>1 DEF Total
    <3>6. /\ Best[k].cost \in Nat /\ Cost(k, j) \in Nat /\ Best[j].cost \in Nat
          /\ PriceTo(C \ {j}, k) \in Int
      <4>1. k \in 0..n /\ j \in 0..n
        BY <1>1, <3>2
      <4> QED BY <1>1, <3>1, <3>2, <4>1, CostIs, PriceIs
    <3> QED BY <3>3, <3>4, <3>5, <3>6
  <2> QED BY <2>6, <2>7, <2>8 DEF Optimal
<1>4. ASSUME NEW j \in Nat, \A i \in 0..j - 1 : i \in S PROVE j \in S
  <2>1. CASE j = 0
    BY <1>2, <2>1
  <2>2. CASE j \in 1..n
    BY <1>3, <1>4, <2>2
  <2> QED BY <1>1, <2>1, <2>2
<1>5. Nat \subseteq S
  <2> HIDE DEF S
  <2> QED BY <1>4, FromAllBelow
<1> QED BY <1>1, <1>5

-----------------------------------------------------------------------------
SlicingTypeOK ==
  /\ blocks \in Seq([size : BlockSizes, level : Levels])
  /\ nodes \in Seq([kind : {"comment", "code"}, lead : 0..2, size : NodeSizes,
                    nested : BOOLEAN])

LEMMA SlicingTyped == SlicingSpec => []SlicingTypeOK
<1>1. SlicingInit => SlicingTypeOK
  BY DEF SlicingInit, SlicingTypeOK
<1>2. SlicingTypeOK /\ [SlicingNext]_slicingVars => SlicingTypeOK'
  <2> SUFFICES ASSUME SlicingTypeOK, [SlicingNext]_slicingVars PROVE SlicingTypeOK'
    OBVIOUS
  <2>1. CASE AddBlock
    BY <2>1, AppendProperties DEF AddBlock, SlicingTypeOK
  <2>2. CASE AddNode
    BY <2>2, AppendProperties DEF AddNode, SlicingTypeOK
  <2>3. CASE UNCHANGED slicingVars
    BY <2>3 DEF slicingVars, SlicingTypeOK
  <2> QED BY <2>1, <2>2, <2>3 DEF SlicingNext
<1> QED BY <1>1, <1>2, PTL DEF SlicingSpec

LEMMA TypedDocument == SlicingTypeOK => DocOK
<1>1. [size : BlockSizes, level : Levels] \subseteq [size : Nat, level : Nat]
  BY SlicingAssumption
<1> QED BY <1>1, SeqMonotonic DEF SlicingTypeOK, DocOK

LEMMA OptimalIsBest == ASSUME DocOK PROVE PackingIsBest
<1> DEFINE n == Len(blocks)
           legal(cuts) ==
             /\ {0, n} \subseteq cuts
             /\ \A k \in 1..n : blocks[k].level \in 1..HardHeadingLevel => k - 1 \in cuts
             /\ \A c, d \in cuts :
                  (c + 1 < d /\ \A e \in cuts : ~(c < e /\ e < d))
                    => Between(BlockEnd[c], BlockEnd[d]) <= MaxTokens
           price(cuts) ==
             7 * (Cardinality(cuts) - 1)
               + 5 * Cardinality({k \in 1..n : blocks[k].level > HardHeadingLevel
                                                 /\ k - 1 \notin cuts})
<1>1. n \in Nat /\ Optimal(n) /\ Pack = Best[n].cuts
  BY BlockIs, EachRowOptimal DEF Pack
<1>2. ASSUME NEW C, C \subseteq 0..n PROVE legal(C) <=> LegalTo(C, n)
  <2>1. ASSUME NEW c \in C, NEW d \in C
        PROVE  ((c + 1 < d /\ \A e \in C : ~(c < e /\ e < d))
                  => Between(BlockEnd[c], BlockEnd[d]) <= MaxTokens)
                 <=> (Adjacent(C, c, d) => Fits(c, d))
    <3>1. c \in Nat /\ d \in Nat
      BY <1>1, <1>2
    <3> QED BY <3>1 DEF Adjacent, Fits
  <2> QED BY <1>2, <2>1 DEF LegalTo, Hard
<1>3. ASSUME NEW C PROVE price(C) = PriceTo(C, n)
  BY DEF PriceTo, Buried, Soft
<1>4. ToSet(Pack) \subseteq 0..n /\ LegalTo(ToSet(Pack), n)
  BY <1>1 DEF Optimal, LegalTo
<1>5. ASSUME NEW C \in SUBSET (0..n), legal(C) PROVE price(ToSet(Pack)) <= price(C)
  <2>1. PriceTo(ToSet(Pack), n) <= PriceTo(C, n)
    BY <1>1, <1>2, <1>5 DEF Optimal
  <2> QED BY <1>3, <2>1
<1>6. legal(ToSet(Pack))
  BY <1>2, <1>4
<1> QED BY <1>5, <1>6 DEF PackingIsBest

(* markdown.rs, pack: whatever the blocks of a document are, no way to cut it
   that keeps the cap and crosses no hard heading is cheaper than the packing. *)
THEOREM PackingOptimal == SlicingSpec => []PackingIsBest
<1>1. SlicingTypeOK => PackingIsBest
  BY TypedDocument, OptimalIsBest
<1> QED BY <1>1, SlicingTyped, PTL

-----------------------------------------------------------------------------
(* Source files: leaves, line breaks and lines. *)
FileOK == nodes \in Seq([kind : {"comment", "code"}, lead : Nat, size : Nat \ {0},
                         nested : BOOLEAN])

LEMMA LeafIs ==
  ASSUME FileOK
  PROVE  /\ Len(nodes) \in Nat /\ DOMAIN nodes = 1..Len(nodes)
         /\ \A k \in 1..Len(nodes) : /\ nodes[k].lead \in Nat /\ nodes[k].size \in Nat \ {0}
                                     /\ nodes[k].nested \in BOOLEAN
<1>1. Len(nodes) \in Nat /\ DOMAIN nodes = 1..Len(nodes)
  BY LenProperties DEF FileOK
<1>2. \A k \in 1..Len(nodes) : nodes[k] \in [kind : {"comment", "code"}, lead : Nat,
                                             size : Nat \ {0}, nested : BOOLEAN]
  BY ElementOfSeq DEF FileOK
<1> QED BY <1>1, <1>2

LEMMA LeafEndIs ==
  ASSUME FileOK
  PROVE  /\ LeafEnd \in [0..Len(nodes) -> Nat] /\ LeafEnd[0] = 0
         /\ \A k \in 1..Len(nodes) : LeafEnd[k] = LeafEnd[k - 1] + (nodes[k].lead + nodes[k].size)
         /\ \A k, l \in 0..Len(nodes) : k <= l => LeafEnd[k] <= LeafEnd[l]
<1> DEFINE n == Len(nodes)
           x == [k \in 1..n |-> nodes[k].lead + nodes[k].size]
<1>1. n \in Nat /\ x \in [1..n -> Nat]
  BY LeafIs
<1>2. \A k \in 0..n : k # 0 => /\ x[k] = nodes[k].lead + nodes[k].size
                               /\ nodes[k].lead \in Nat /\ nodes[k].size \in Nat
  BY <1>1, LeafIs
<1> HIDE DEF x
<1>3. \E f : f = [k \in 0..n |-> IF k = 0 THEN 0 ELSE f[k - 1] + (nodes[k].lead + nodes[k].size)]
  <2>1. PICK f : IsSums(f, 0, x, n)
    BY <1>1, SumsExist
  <2>2. f = [k \in 0..n |-> IF k = 0 THEN 0 ELSE f[k - 1] + (nodes[k].lead + nodes[k].size)]
    BY <1>1, <1>2, <2>1 DEF IsSums
  <2> QED BY <2>2
<1>4. LeafEnd = [k \in 0..n |-> IF k = 0 THEN 0
                               ELSE LeafEnd[k - 1] + (nodes[k].lead + nodes[k].size)]
  BY <1>3 DEF LeafEnd
<1>5. IsSums(LeafEnd, 0, x, n)
  BY <1>1, <1>2, <1>4 DEF IsSums
<1>6. /\ LeafEnd \in [0..n -> Nat] /\ LeafEnd[0] = 0
      /\ \A k \in 1..n : LeafEnd[k] = LeafEnd[k - 1] + x[k]
      /\ \A k, l \in 0..n : k <= l => LeafEnd[k] <= LeafEnd[l]
  <2> HIDE DEF n, x
  <2>1. LeafEnd \in [0..n -> Nat]
    BY <1>1, <1>5, SumsAre
  <2>2. LeafEnd[0] = 0
    BY <1>1, <1>5, SumsAre
  <2>3. \A k \in 1..n : LeafEnd[k] = LeafEnd[k - 1] + x[k]
    <3> SUFFICES ASSUME NEW k \in 1..n PROVE LeafEnd[k] = LeafEnd[k - 1] + x[k]
      OBVIOUS
    <3>1. k \in 0..n /\ k # 0
      BY <1>1
    <3> QED BY <1>5, <3>1 DEF IsSums
  <2>4. \A k, l \in 0..n : k <= l => LeafEnd[k] <= LeafEnd[l]
    BY <1>1, <1>5, SumsAre
  <2> QED BY <2>1, <2>2, <2>3, <2>4
<1>7. \A k \in 1..n : k \in 0..n /\ k # 0
  BY <1>1
<1> QED BY <1>2, <1>6, <1>7

LEMMA LeafBounds ==
  ASSUME FileOK, NEW k \in 1..Len(nodes)
  PROVE  /\ LeafEnd[k - 1] \in Nat /\ LeafStart(k) \in Nat /\ LeafEnd[k] \in Nat /\ TextEnd \in Nat
         /\ LeafEnd[k - 1] <= LeafStart(k) /\ LeafStart(k) < LeafEnd[k] /\ LeafEnd[k] <= TextEnd
<1>1. Len(nodes) \in Nat /\ {k - 1, k, Len(nodes)} \subseteq 0..Len(nodes) /\ k <= Len(nodes)
  BY LeafIs
<1>2. nodes[k].lead \in Nat /\ nodes[k].size \in Nat \ {0}
  BY LeafIs
<1>3. LeafEnd[k - 1] \in Nat /\ LeafEnd[k] \in Nat /\ LeafEnd[Len(nodes)] \in Nat
  BY <1>1, LeafEndIs
<1>4. LeafEnd[k] = LeafEnd[k - 1] + (nodes[k].lead + nodes[k].size) /\ LeafEnd[k] <= LeafEnd[Len(nodes)]
  BY <1>1, LeafEndIs
<1>5. LeafStart(k) = LeafEnd[k - 1] + nodes[k].lead
  BY <1>2, <1>3, <1>4 DEF LeafStart
<1>6. TextEnd \in Nat /\ LeafEnd[k] <= TextEnd
  BY <1>3, <1>4 DEF TextEnd
<1>7. LeafEnd[k] = LeafStart(k) + nodes[k].size
  BY <1>2, <1>3, <1>4, <1>5
<1>8. LeafStart(k) \in Nat /\ LeafEnd[k - 1] <= LeafStart(k)
  BY <1>2, <1>3, <1>5
<1>9. LeafStart(k) < LeafEnd[k]
  BY <1>2, <1>7, <1>8
<1> QED BY <1>3, <1>6, <1>8, <1>9

LEMMA LeavesInOrder ==
  ASSUME FileOK, NEW k \in 1..Len(nodes), NEW l \in 1..Len(nodes), k < l
  PROVE  LeafEnd[k] <= LeafStart(l)
<1>1. Len(nodes) \in Nat /\ k \in 0..Len(nodes) /\ l - 1 \in 0..Len(nodes) /\ k <= l - 1
  BY LeafIs
<1>2. LeafEnd[k] <= LeafEnd[l - 1]
  BY <1>1, LeafEndIs
<1> QED BY <1>2, LeafBounds

LEMMA BreaksAre ==
  ASSUME FileOK
  PROVE  TextEnd \in Nat /\ Breaks \subseteq 0..TextEnd - 1
<1>1. TextEnd \in Nat
  BY LeafIs, LeafEndIs DEF TextEnd
<1>2. ASSUME NEW k \in DOMAIN nodes, NEW p \in LeafEnd[k - 1]..LeafStart(k) - 1
      PROVE  p \in 0..TextEnd - 1
  <2>1. k \in 1..Len(nodes)
    BY LeafIs
  <2>2. /\ LeafEnd[k - 1] \in Nat /\ LeafStart(k) \in Nat /\ LeafEnd[k] \in Nat
        /\ LeafStart(k) < LeafEnd[k] /\ LeafEnd[k] <= TextEnd
    BY <2>1, LeafBounds
  <2> QED BY <1>1, <2>2
<1> QED BY <1>1, <1>2 DEF Breaks

LEMMA LineStartIs ==
  ASSUME FileOK, NEW at \in 0..TextEnd
  PROVE  LineStart(at) \in 0..at
<1> DEFINE starts == {0} \cup {p + 1 : p \in {q \in Breaks : q < at}}
<1>1. starts \subseteq 0..at /\ starts # {} /\ at \in Nat
  BY BreaksAre
<1>2. Greatest(starts) \in starts
  <2> HIDE DEF starts
  <2> QED BY <1>1, GreatestOf
<1> QED BY <1>1, <1>2 DEF LineStart

LEMMA NextLineIs ==
  ASSUME FileOK, NEW at \in 0..TextEnd
  PROVE  NextLine(at) \in at..TextEnd
<1> DEFINE starts == {TextEnd} \cup {p + 1 : p \in {q \in Breaks : q >= at}}
<1>1. starts \subseteq at..TextEnd /\ starts # {} /\ at \in Nat /\ starts \subseteq Nat
  BY BreaksAre
<1>2. Least(starts) \in starts
  <2> HIDE DEF starts
  <2> QED BY <1>1, LeastOf
<1> QED BY <1>1, <1>2 DEF NextLine

-----------------------------------------------------------------------------
(* Syntax nodes: runs of leaves, of which those selected are disjoint. *)
Run(n) == n \in (DOMAIN nodes) \X (DOMAIN nodes) /\ n[1] <= n[2]

LEMMA RootsAre ==
  ASSUME FileOK
  PROVE  /\ \A r \in Roots : Run(r)
         /\ \A r, s \in Roots : r[1] <= s[2] /\ s[1] <= r[2] => r = s
<1>1. \A r \in Roots : Run(r)
  BY DEF Roots, Run
<1>2. ASSUME NEW r \in Roots, NEW s \in Roots, r[1] <= s[2], s[1] <= r[2], r[1] < s[1]
      PROVE  FALSE
  <2>1. s[1] \in r[1]..r[2] /\ s[1] > r[1] /\ s[1] \in s[1]..s[2]
    BY <1>1, <1>2, LeafIs DEF Run
  <2>2. nodes[s[1]].nested <=> s[1] > r[1]
    BY <2>1 DEF Roots
  <2>3. nodes[s[1]].nested <=> s[1] > s[1]
    BY <2>1 DEF Roots
  <2> QED BY <2>1, <2>2, <2>3
<1>3. ASSUME NEW r \in Roots, NEW s \in Roots, r[1] = s[1], r[2] < s[2]
      PROVE  FALSE
  <2>1. /\ r[2] + 1 \in s[1]..s[2] /\ r[2] + 1 > s[1]
        /\ r[2] # Len(nodes)
    BY <1>1, <1>3, LeafIs DEF Run
  <2>2. nodes[r[2] + 1].nested <=> r[2] + 1 > s[1]
    BY <2>1 DEF Roots
  <2>3. ~nodes[r[2] + 1].nested
    BY <2>1 DEF Roots
  <2> QED BY <2>1, <2>2, <2>3
<1>4. ASSUME NEW r \in Roots, NEW s \in Roots, r[1] <= s[2], s[1] <= r[2]
      PROVE  r = s
  <2>1. r[1] \in Nat /\ r[2] \in Nat /\ s[1] \in Nat /\ s[2] \in Nat
        /\ r = <<r[1], r[2]>> /\ s = <<s[1], s[2]>>
    BY <1>1, LeafIs DEF Run
  <2>2. r[1] = s[1]
    BY <1>2, <1>4, <2>1
  <2>3. r[2] = s[2]
    BY <1>3, <2>1, <2>2
  <2> QED BY <2>1, <2>2, <2>3
<1> QED BY <1>1, <1>4

LEMMA LeavesAre ==
  ASSUME FileOK, NEW r \in Roots, NEW n \in Leaves(r)
  PROVE  Run(n) /\ n = <<n[1], n[1]>> /\ n[1] \in r[1]..r[2]
<1>1. PICK k \in r[1]..r[2] : n = <<k, k>>
  BY DEF Leaves
<1>2. Run(r)
  BY RootsAre
<1>3. k \in DOMAIN nodes
  BY <1>2, LeafIs DEF Run
<1> QED BY <1>1, <1>3, LeafIs DEF Run

(* A selected node is a root, or a leaf of a root that is too wide. *)
LEMMA SelectedIs ==
  ASSUME FileOK, NEW n \in Selected
  PROVE  /\ Run(n) /\ InWindow(n)
         /\ n \in Roots \/ \E r \in Roots : Width(r) > MaxTokens /\ n \in Leaves(r)
BY RootsAre, LeavesAre DEF Selected

LEMMA SelectedApart ==
  ASSUME FileOK, NEW m \in Selected, NEW n \in Selected, m # n
  PROVE  m[2] < n[1] \/ n[2] < m[1]
<1>1. /\ Run(m) /\ Run(n) /\ m[1] \in Nat /\ m[2] \in Nat /\ n[1] \in Nat /\ n[2] \in Nat
      /\ m = <<m[1], m[2]>> /\ n = <<n[1], n[2]>>
  BY SelectedIs, LeafIs DEF Run
<1> SUFFICES ASSUME m[1] <= n[2], n[1] <= m[2] PROVE FALSE
  BY <1>1
<1>2. \A k \in Selected : k \in Roots => ~(Width(k) > MaxTokens)
  <2>1. ASSUME NEW k \in Selected PROVE ~(Width(k) > MaxTokens)
    <3>1. Width(k) \in MinTokens..MaxTokens
      BY SelectedIs DEF InWindow
    <3> QED BY <3>1, SlicingAssumption
  <2> QED BY <2>1
<1>3. CASE m \in Roots /\ n \in Roots
  BY <1>3, RootsAre
<1>4. ASSUME NEW k \in Selected, NEW l \in Selected, k \in Roots, l \notin Roots,
             Run(k), k[1] \in Nat, k[2] \in Nat, l[1] \in Nat,
             k[1] <= l[2], l[1] <= k[2]
      PROVE  FALSE
  <2>1. PICK r \in Roots : Width(r) > MaxTokens /\ l \in Leaves(r)
    BY <1>4, SelectedIs
  <2>2. l[2] = l[1] /\ l[1] \in r[1]..r[2] /\ Run(r)
    BY <2>1, LeavesAre, RootsAre
  <2>3. r[1] \in Nat /\ r[2] \in Nat
    BY <2>2, LeafIs DEF Run
  <2>4. r = k
    BY <1>4, <2>2, <2>3, RootsAre
  <2> QED BY <1>2, <1>4, <2>1, <2>4
<1>5. CASE m \in Roots /\ n \notin Roots
  BY <1>1, <1>4, <1>5
<1>6. CASE m \notin Roots /\ n \in Roots
  BY <1>1, <1>4, <1>6
<1>7. CASE m \notin Roots /\ n \notin Roots
  <2>1. m[2] = m[1] /\ n[2] = n[1]
    BY <1>7, SelectedIs, LeavesAre
  <2> QED BY <1>1, <2>1
<1> QED BY <1>3, <1>5, <1>6, <1>7

LEMMA RunBounds ==
  ASSUME FileOK, NEW n, Run(n)
  PROVE  /\ n[1] \in 1..Len(nodes) /\ n[2] \in 1..Len(nodes) /\ n[1] <= n[2]
         /\ StartOf(n) \in Nat /\ EndOf(n) \in Nat
         /\ StartOf(n) < EndOf(n) /\ EndOf(n) <= TextEnd
<1>1. n[1] \in 1..Len(nodes) /\ n[2] \in 1..Len(nodes) /\ n[1] <= n[2]
  BY LeafIs DEF Run
<1>2. LeafEnd[n[1]] <= LeafEnd[n[2]]
  <2>1. n[1] \in 0..Len(nodes) /\ n[2] \in 0..Len(nodes)
    BY <1>1, LeafIs
  <2> QED BY <1>1, <2>1, LeafEndIs
<1>3. /\ LeafStart(n[1]) \in Nat /\ LeafEnd[n[1]] \in Nat /\ LeafStart(n[1]) < LeafEnd[n[1]]
      /\ LeafEnd[n[2]] \in Nat /\ TextEnd \in Nat /\ LeafEnd[n[2]] <= TextEnd
  BY <1>1, LeafBounds
<1> QED BY <1>1, <1>2, <1>3 DEF StartOf, EndOf

(* What was emitted before a selected node ends before the node begins. *)
LEMMA EmittedEndIs ==
  ASSUME FileOK, NEW n \in Selected
  PROVE  /\ EmittedEnd(n) \in Nat /\ EmittedEnd(n) <= StartOf(n)
         /\ \A m \in Selected : m[1] < n[1] => EndOf(m) <= EmittedEnd(n)
<1>1. Run(n) /\ StartOf(n) \in Nat /\ n[1] \in 1..Len(nodes)
  BY SelectedIs, RunBounds
<1>2. ASSUME NEW m \in Selected, m[1] < n[1] PROVE EndOf(m) \in 0..StartOf(n)
  <2>1. /\ Run(m) /\ EndOf(m) \in Nat /\ m # n
        /\ m[1] \in 1..Len(nodes) /\ m[2] \in 1..Len(nodes) /\ n[2] \in 1..Len(nodes)
        /\ m[1] <= m[2] /\ n[1] <= n[2]
    BY <1>1, <1>2, SelectedIs, RunBounds
  <2>2. m[2] < n[1]
    <3>1. m[2] < n[1] \/ n[2] < m[1]
      BY <2>1, SelectedApart
    <3> QED BY <1>1, <1>2, <2>1, <3>1, LeafIs
  <2>3. LeafEnd[m[2]] <= LeafStart(n[1])
    BY <1>1, <2>1, <2>2, LeavesInOrder
  <2> QED BY <1>1, <2>1, <2>3 DEF StartOf, EndOf
<1> DEFINE ends == {0} \cup {EndOf(m) : m \in {s \in Selected : s[1] < n[1]}}
<1>3. ends \subseteq 0..StartOf(n) /\ ends # {}
  BY <1>1, <1>2
<1>4. Greatest(ends) \in ends /\ \A e \in ends : e <= Greatest(ends)
  <2> HIDE DEF ends
  <2> QED BY <1>1, <1>3, GreatestOf
<1>5. EmittedEnd(n) = Greatest(ends)
  BY DEF EmittedEnd
<1>6. \A m \in Selected : m[1] < n[1] => EndOf(m) \in ends
  OBVIOUS
<1> HIDE DEF ends
<1>7. EmittedEnd(n) \in 0..StartOf(n)
  BY <1>3, <1>4, <1>5
<1>8. \A m \in Selected : m[1] < n[1] => EndOf(m) <= EmittedEnd(n)
  BY <1>4, <1>5, <1>6
<1> QED BY <1>1, <1>7, <1>8

LEMMA SiblingsAre ==
  ASSUME FileOK, NEW n \in Selected
  PROVE  \A m \in Siblings(n) : Run(m)
<1>1. CASE n \in Roots
  BY <1>1, RootsAre DEF Siblings
<1>2. CASE n \notin Roots
  <2> DEFINE parent == CHOOSE root \in Roots : n[1] \in root[1]..root[2]
  <2>1. PICK r \in Roots : n \in Leaves(r)
    BY <1>2, SelectedIs
  <2>2. n[1] \in r[1]..r[2]
    BY <2>1, LeavesAre
  <2>3. parent \in Roots
    BY <2>2
  <2>4. Siblings(n) = Leaves(parent)
    BY <1>2 DEF Siblings
  <2> HIDE DEF parent
  <2> QED BY <2>3, <2>4, LeavesAre
<1> QED BY <1>1, <1>2

(* The chunk of a selected node begins no earlier than what was emitted ends. *)
LEMMA ChunkStartIs ==
  ASSUME FileOK, NEW n \in Selected
  PROVE  /\ ChunkStart(n) \in Nat /\ ChunkStart(n) <= StartOf(n)
         /\ EmittedEnd(n) <= ChunkStart(n)
         /\ Between(ChunkStart(n), EndOf(n)) <= MaxTokens
<1>1. Run(n) /\ StartOf(n) \in Nat
  BY SelectedIs, RunBounds
<1>2. Between(StartOf(n), EndOf(n)) <= MaxTokens
  <2>1. Width(n) \in MinTokens..MaxTokens
    BY SelectedIs DEF InWindow
  <2> QED BY <2>1, SlicingAssumption DEF Width
<1>3. CASE ~StartsLine(n)
  BY <1>1, <1>2, <1>3, EmittedEndIs DEF ChunkStart
<1>4. CASE StartsLine(n)
  <2> DEFINE starts == {StartOf(m) : m \in Absorbed(n) \cup {n}}
  <2>1. ASSUME NEW m \in Absorbed(n)
        PROVE  Run(m) /\ Absorbs(n, m) /\ StartOf(m) \in Nat
    <3>1. m \in Siblings(n) /\ m[1] < n[1] /\ Run(m)
      BY SiblingsAre DEF Absorbed
    <3>2. m[1] \in Nat /\ StartOf(m) \in Nat
      BY <3>1, RunBounds, LeafIs
    <3>3. m[1] >= m[1]
      BY <3>2
    <3> QED BY <3>1, <3>2, <3>3 DEF Absorbed
  <2>2. starts \subseteq Nat /\ StartOf(n) \in starts
    BY <1>1, <2>1
  <2>3. Least(starts) \in starts /\ Least(starts) <= StartOf(n)
    <3> HIDE DEF starts
    <3> QED BY <2>2, LeastOf
  <2>4. ChunkStart(n) = Least(starts)
    BY <1>4 DEF ChunkStart
  <2>5. PICK m \in Absorbed(n) \cup {n} : Least(starts) = StartOf(m)
    BY <2>3
  <2>6. EmittedEnd(n) <= StartOf(m) /\ Between(StartOf(m), EndOf(n)) <= MaxTokens
    <3>1. CASE m = n
      BY <1>2, <3>1, EmittedEndIs
    <3>2. CASE m \in Absorbed(n)
      BY <2>1, <3>2, EmittedEndIs DEF Absorbs
    <3> QED BY <3>1, <3>2
  <2> HIDE DEF starts
  <2> QED BY <2>2, <2>3, <2>4, <2>5, <2>6
<1> QED BY <1>3, <1>4

Apart(c, d) == c = d \/ c[2] <= d[1] \/ d[2] <= c[1]
Piece(c) == /\ c \in (0..TextEnd) \X (0..TextEnd) /\ c[1] < c[2]
            /\ Between(c[1], c[2]) <= MaxTokens

LEMMA SpansAre ==
  ASSUME FileOK
  PROVE  /\ \A s \in Spans : Piece(s)
         /\ \A s, t \in Spans : Apart(s, t)
<1>1. ASSUME NEW n \in Selected
      PROVE  /\ Run(n) /\ ChunkStart(n) \in 0..TextEnd /\ EndOf(n) \in 0..TextEnd
             /\ ChunkStart(n) < EndOf(n) /\ Between(ChunkStart(n), EndOf(n)) <= MaxTokens
             /\ n[1] \in Nat /\ n[2] \in Nat /\ n[1] <= n[2]
  <2>1. Run(n) /\ TextEnd \in Nat
    BY SelectedIs, BreaksAre
  <2>2. StartOf(n) \in Nat /\ EndOf(n) \in Nat /\ StartOf(n) < EndOf(n) /\ EndOf(n) <= TextEnd
    BY <2>1, RunBounds
  <2>3. n[1] \in Nat /\ n[2] \in Nat /\ n[1] <= n[2]
    BY <2>1, LeafIs DEF Run
  <2> QED BY <2>1, <2>2, <2>3, ChunkStartIs
<1>2. \A s \in Spans : Piece(s)
  BY <1>1 DEF Spans, Piece
<1>3. ASSUME NEW m \in Selected, NEW n \in Selected, m[1] < n[1]
      PROVE  EndOf(m) <= ChunkStart(n)
  <2>1. EndOf(m) <= EmittedEnd(n) /\ EmittedEnd(n) <= ChunkStart(n) /\ EmittedEnd(n) \in Nat
    BY <1>3, EmittedEndIs, ChunkStartIs
  <2> QED BY <1>1, <2>1
<1>4. ASSUME NEW m \in Selected, NEW n \in Selected, m # n
      PROVE  m[1] < n[1] \/ n[1] < m[1]
  BY <1>1, <1>4, SelectedApart
<1>5. ASSUME NEW s \in Spans, NEW t \in Spans PROVE Apart(s, t)
  <2>1. PICK m \in Selected : s = <<ChunkStart(m), EndOf(m)>>
    BY DEF Spans
  <2>2. PICK n \in Selected : t = <<ChunkStart(n), EndOf(n)>>
    BY DEF Spans
  <2>3. CASE m = n
    BY <2>1, <2>2, <2>3 DEF Apart
  <2>4. CASE m # n
    BY <1>3, <1>4, <2>1, <2>2, <2>4 DEF Apart
  <2> QED BY <2>3, <2>4
<1> QED BY <1>2, <1>5

-----------------------------------------------------------------------------
(* Gaps: between the lines that the spans touch. *)
LEMMA CursorIs ==
  ASSUME FileOK, NEW B, B \subseteq Spans
  PROVE  /\ Cursor(B) \in 0..TextEnd
         /\ \A t \in B : t[2] <= NextLine(t[2]) /\ NextLine(t[2]) <= Cursor(B)
         /\ Cursor(B) = 0 \/ \E t \in B : Cursor(B) = NextLine(t[2])
<1> DEFINE lines == {0} \cup {NextLine(s[2]) : s \in B}
<1>1. TextEnd \in Nat /\ \A t \in B : t[2] \in 0..TextEnd
  BY BreaksAre, SpansAre DEF Piece
<1>2. \A t \in B : NextLine(t[2]) \in t[2]..TextEnd
  BY <1>1, NextLineIs
<1>3. lines \subseteq 0..TextEnd /\ lines # {} /\ \A t \in B : NextLine(t[2]) \in lines
  BY <1>1, <1>2
<1>4. Cursor(B) = Greatest(lines)
  BY DEF Cursor
<1>5. Cursor(B) \in lines /\ \A l \in lines : l <= Cursor(B)
  <2> HIDE DEF lines
  <2> QED BY <1>1, <1>3, <1>4, GreatestOf
<1>6. Cursor(B) = 0 \/ \E t \in B : Cursor(B) = NextLine(t[2])
  BY <1>5
<1> HIDE DEF lines
<1> QED BY <1>1, <1>2, <1>3, <1>5, <1>6

LEMMA EarlierSpans ==
  ASSUME FileOK, NEW s \in Spans, NEW t \in Spans
  PROVE  /\ t \in Earlier(s) => t[2] <= s[1]
         /\ t \in Earlier(s) \/ t = s \/ s \in Earlier(t)
<1>1. Piece(s) /\ Piece(t) /\ Apart(s, t)
  BY SpansAre
<1>2. /\ s[1] \in Nat /\ s[2] \in Nat /\ t[1] \in Nat /\ t[2] \in Nat
      /\ s[1] < s[2] /\ t[1] < t[2]
  BY <1>1, BreaksAre DEF Piece
<1>3. s = t \/ s[2] <= t[1] \/ t[2] <= s[1]
  BY <1>1 DEF Apart
<1> QED BY <1>2, <1>3 DEF Earlier

LEMMA GapsAre ==
  ASSUME FileOK, NEW g \in Gaps
  PROVE  /\ g \in (0..TextEnd) \X (0..TextEnd) /\ g[1] < g[2]
         /\ \A t \in Spans : t[2] <= g[1] \/ g[2] <= t[1]
<1>1. TextEnd \in Nat /\ \A t \in Spans : Piece(t)
  BY BreaksAre, SpansAre
<1>2. CASE g = <<Cursor(Spans), TextEnd>>
  <2>1. Cursor(Spans) \in 0..TextEnd /\ \A t \in Spans : t[2] <= Cursor(Spans)
    <3>1. ASSUME NEW t \in Spans PROVE t[2] <= Cursor(Spans)
      <4>1. t[2] \in 0..TextEnd /\ NextLine(t[2]) \in t[2]..TextEnd
        BY <1>1, NextLineIs DEF Piece
      <4> QED BY <1>1, <4>1, CursorIs
    <3> QED BY <3>1, CursorIs
  <2> QED BY <1>1, <1>2, <2>1 DEF Gaps
<1>3. ASSUME NEW s \in Spans, g = <<Cursor(Earlier(s)), LineStart(s[1])>>
      PROVE  /\ g \in (0..TextEnd) \X (0..TextEnd) /\ g[1] < g[2]
             /\ \A t \in Spans : t[2] <= g[1] \/ g[2] <= t[1]
  <2>1. Earlier(s) \subseteq Spans
    BY DEF Earlier
  <2>2. s[1] \in 0..TextEnd /\ LineStart(s[1]) \in 0..s[1]
    BY <1>1, LineStartIs DEF Piece
  <2>3. Cursor(Earlier(s)) \in 0..TextEnd
    BY <2>1, CursorIs
  <2>4. ASSUME NEW t \in Spans PROVE t[2] <= g[1] \/ g[2] <= t[1]
    <3>1. t[1] \in 0..TextEnd /\ t[2] \in 0..TextEnd /\ s[2] \in 0..TextEnd /\ s[1] < s[2]
      BY <1>1 DEF Piece
    <3>2. CASE t \in Earlier(s)
      <4>1. t[2] <= NextLine(t[2]) /\ NextLine(t[2]) <= Cursor(Earlier(s))
        BY <2>1, <3>2, CursorIs
      <4>2. NextLine(t[2]) \in t[2]..TextEnd
        BY <3>1, NextLineIs
      <4> QED BY <1>1, <1>3, <2>3, <3>1, <4>1, <4>2
    <3>3. CASE t = s
      BY <1>3, <2>2, <3>3
    <3>4. CASE s \in Earlier(t)
      <4>1. s[2] <= t[1]
        BY <3>4, EarlierSpans
      <4> QED BY <1>1, <1>3, <2>2, <3>1, <4>1
    <3> QED BY <3>2, <3>3, <3>4, EarlierSpans
  <2>5. g[1] < g[2]
    BY DEF Gaps
  <2> QED BY <1>1, <1>3, <2>2, <2>3, <2>4, <2>5
<1> QED BY <1>2, <1>3 DEF Gaps

(* Between two spans the gaps are apart, and so are the gaps. *)
LEMMA GapsApart ==
  ASSUME FileOK, NEW g \in Gaps, NEW h \in Gaps
  PROVE  Apart(g, h)
<1>1. /\ g \in (0..TextEnd) \X (0..TextEnd) /\ h \in (0..TextEnd) \X (0..TextEnd)
      /\ TextEnd \in Nat /\ \A t \in Spans : Piece(t)
  BY GapsAre, BreaksAre, SpansAre
<1>2. ASSUME NEW s \in Spans, NEW B \in SUBSET Spans, s \in B
      PROVE  LineStart(s[1]) <= Cursor(B)
  <2>1. s[1] \in 0..TextEnd /\ s[2] \in 0..TextEnd /\ s[1] < s[2]
    BY <1>1 DEF Piece
  <2>2. LineStart(s[1]) \in 0..s[1] /\ NextLine(s[2]) \in s[2]..TextEnd
    BY <2>1, LineStartIs, NextLineIs
  <2>3. NextLine(s[2]) <= Cursor(B) /\ Cursor(B) \in 0..TextEnd
    BY <1>2, CursorIs
  <2> QED BY <1>1, <2>1, <2>2, <2>3
<1>3. \A s \in Spans : Earlier(s) \in SUBSET Spans
  BY DEF Earlier
<1>4. CASE g = <<Cursor(Spans), TextEnd>> /\ h = <<Cursor(Spans), TextEnd>>
  BY <1>4 DEF Apart
<1>5. ASSUME NEW s \in Spans, g = <<Cursor(Earlier(s)), LineStart(s[1])>>,
             h = <<Cursor(Spans), TextEnd>>
      PROVE  Apart(g, h)
  BY <1>2, <1>5 DEF Apart
<1>6. ASSUME NEW s \in Spans, h = <<Cursor(Earlier(s)), LineStart(s[1])>>,
             g = <<Cursor(Spans), TextEnd>>
      PROVE  Apart(g, h)
  BY <1>2, <1>6 DEF Apart
<1>7. ASSUME NEW s \in Spans, g = <<Cursor(Earlier(s)), LineStart(s[1])>>,
             NEW t \in Spans, h = <<Cursor(Earlier(t)), LineStart(t[1])>>
      PROVE  Apart(g, h)
  <2>1. CASE s = t
    BY <1>7, <2>1 DEF Apart
  <2>2. CASE s \in Earlier(t)
    BY <1>2, <1>3, <1>7, <2>2 DEF Apart
  <2>3. CASE t \in Earlier(s)
    BY <1>2, <1>3, <1>7, <2>3 DEF Apart
  <2> QED BY <2>1, <2>2, <2>3, EarlierSpans
<1> QED BY <1>4, <1>5, <1>6, <1>7 DEF Gaps

(* What is on no line of a span is in the gap before the next span. *)
Touched(p) == \E s \in Spans : LineStart(s[1]) <= p /\ p < NextLine(s[2])
LinesAhead(p) == {TextEnd} \cup {LineStart(s[1]) : s \in {t \in Spans : t[1] > p}}

LEMMA GapAround ==
  ASSUME FileOK, NEW p \in 0..TextEnd - 1, ~Touched(p)
  PROVE  \E g \in Gaps : g[1] <= p /\ p < g[2] /\ g[2] \in LinesAhead(p)
<1>1. TextEnd \in Nat /\ \A t \in Spans : Piece(t)
  BY BreaksAre, SpansAre
<1>2. ASSUME NEW t \in Spans
      PROVE  /\ t[1] \in 0..TextEnd /\ t[2] \in 0..TextEnd /\ t[1] < t[2]
             /\ LineStart(t[1]) \in 0..t[1] /\ NextLine(t[2]) \in t[2]..TextEnd
             /\ ~(LineStart(t[1]) <= p /\ p < NextLine(t[2]))
  <2>1. t[1] \in 0..TextEnd /\ t[2] \in 0..TextEnd /\ t[1] < t[2]
    BY <1>1 DEF Piece
  <2>2. LineStart(t[1]) \in 0..t[1] /\ NextLine(t[2]) \in t[2]..TextEnd
    BY <2>1, LineStartIs, NextLineIs
  <2> QED BY <2>1, <2>2 DEF Touched
<1>3. ASSUME NEW t \in Spans, t[1] <= p PROVE NextLine(t[2]) <= p
  BY <1>1, <1>2, <1>3
<1>4. ASSUME NEW t \in Spans, t[1] > p PROVE p < LineStart(t[1])
  BY <1>1, <1>2, <1>4
<1>5. ASSUME NEW B \in SUBSET Spans, \A t \in B : t[1] <= p PROVE Cursor(B) <= p
  <2>1. Cursor(B) = 0 \/ \E t \in B : Cursor(B) = NextLine(t[2])
    BY CursorIs
  <2> QED BY <1>3, <1>5, <2>1
<1> DEFINE next == {t \in Spans : t[1] > p}
<1>6. CASE next = {}
  <2> DEFINE g == <<Cursor(Spans), TextEnd>>
  <2>1. \A t \in Spans : t[1] <= p
    BY <1>2, <1>6
  <2>2. Cursor(Spans) <= p /\ Cursor(Spans) \in 0..TextEnd
    BY <1>5, <2>1, CursorIs
  <2>3. g \in Gaps
    BY <1>1, <2>2 DEF Gaps
  <2> QED BY <1>1, <2>2, <2>3 DEF LinesAhead
<1>7. CASE next # {}
  <2> DEFINE firsts == {t[1] : t \in next}
  <2>1. firsts \subseteq Nat /\ firsts # {}
    BY <1>2, <1>7
  <2>2. PICK f \in firsts : \A e \in firsts : f <= e
    <3> HIDE DEF firsts
    <3> QED BY <2>1, LeastExists
  <2>3. PICK s \in next : f = s[1]
    BY <2>2
  <2>4. s \in Spans /\ s[1] > p /\ \A t \in next : s[1] <= t[1]
    BY <2>2, <2>3
  <2>5. ASSUME NEW t \in Earlier(s) PROVE t[1] <= p
    <3>1. t \in Spans /\ t[2] <= s[1]
      BY <2>4, EarlierSpans DEF Earlier
    <3>2. t[1] < s[1]
      BY <1>2, <2>4, <3>1
    <3> QED BY <1>2, <2>4, <3>1, <3>2
  <2> DEFINE g == <<Cursor(Earlier(s)), LineStart(s[1])>>
  <2>6. Earlier(s) \in SUBSET Spans
    BY DEF Earlier
  <2>7. Cursor(Earlier(s)) <= p /\ Cursor(Earlier(s)) \in 0..TextEnd
    BY <1>5, <2>5, <2>6, CursorIs
  <2>8. p < LineStart(s[1]) /\ LineStart(s[1]) \in 0..s[1] /\ s[1] \in 0..TextEnd
    BY <1>2, <1>4, <2>4
  <2>9. g \in Gaps
    BY <1>1, <2>4, <2>7, <2>8 DEF Gaps
  <2>10. LineStart(s[1]) \in LinesAhead(p)
    BY <2>4 DEF LinesAhead
  <2> QED BY <2>7, <2>8, <2>9, <2>10
<1> QED BY <1>6, <1>7

-----------------------------------------------------------------------------
(* A run of windows that tiles the text from a to b. *)
Tiles(o, a, b) ==
  /\ o \in Seq(Nat \X Nat)
  /\ IF o = <<>> THEN a = b ELSE o[1][1] = a /\ o[Len(o)][2] = b
  /\ \A k \in 1..Len(o) : o[k][1] < o[k][2] /\ Between(o[k][1], o[k][2]) <= MaxTokens
  /\ \A k \in 1..Len(o) - 1 : o[k][2] = o[k + 1][1]

LEMMA WindowIs ==
  ASSUME NEW o \in Seq(Nat \X Nat)
  PROVE  /\ Len(o) \in Nat
         /\ \A k \in 1..Len(o) : o[k] \in Nat \X Nat
         /\ o = <<>> <=> Len(o) = 0
BY LenProperties, ElementOfSeq, EmptySeq

LEMMA TilesJoin ==
  ASSUME NEW a \in Nat, NEW b \in Nat, NEW c \in Nat,
         NEW o, NEW q, Tiles(o, a, b), Tiles(q, b, c)
  PROVE  Tiles(o \o q, a, c)
<1> DEFINE m == Len(o)
           n == Len(q)
           r == o \o q
<1>1. o \in Seq(Nat \X Nat) /\ q \in Seq(Nat \X Nat)
  BY DEF Tiles
<1>2. /\ r \in Seq(Nat \X Nat) /\ Len(r) = m + n /\ m \in Nat /\ n \in Nat
      /\ \A k \in 1..m : r[k] = o[k]
      /\ \A k \in 1..n : r[m + k] = q[k]
  BY <1>1, ConcatProperties, LenProperties
<1>3. ASSUME NEW k \in m + 1..m + n PROVE k - m \in 1..n /\ r[k] = q[k - m]
  <2>1. k - m \in 1..n /\ m + (k - m) = k
    BY <1>2
  <2> QED BY <1>2, <2>1
<1> HIDE DEF r
<1>4. ASSUME NEW k \in 1..m + n
      PROVE  r[k][1] < r[k][2] /\ Between(r[k][1], r[k][2]) <= MaxTokens
  <2>1. CASE k \in 1..m
    BY <1>2, <2>1 DEF Tiles
  <2>2. CASE k \in m + 1..m + n
    BY <1>3, <2>2 DEF Tiles
  <2> QED BY <1>2, <2>1, <2>2
<1>5. ASSUME NEW k \in 1..m + n - 1 PROVE r[k][2] = r[k + 1][1]
  <2>1. CASE k \in 1..m - 1
    <3>1. k \in 1..m /\ k + 1 \in 1..m
      BY <1>2, <2>1
    <3> QED BY <1>2, <2>1, <3>1 DEF Tiles
  <2>2. CASE k = m
    <3>1. k \in 1..m /\ k + 1 \in m + 1..m + n /\ (k + 1) - m = 1 /\ o # <<>> /\ q # <<>>
      BY <1>1, <1>2, <2>2, WindowIs
    <3>2. r[k] = o[m] /\ r[k + 1] = q[1]
      BY <1>2, <1>3, <2>2, <3>1
    <3> QED BY <3>1, <3>2 DEF Tiles
  <2>3. CASE k \in m + 1..m + n - 1
    <3>1. /\ k \in m + 1..m + n /\ k + 1 \in m + 1..m + n
          /\ k - m \in 1..n - 1 /\ (k + 1) - m = (k - m) + 1
      <4> HIDE DEF m, n
      <4> QED BY <1>2, <2>3
    <3>2. r[k] = q[k - m] /\ r[k + 1] = q[(k - m) + 1]
      BY <1>3, <3>1
    <3> QED BY <3>1, <3>2 DEF Tiles
  <2> QED BY <1>2, <2>1, <2>2, <2>3
<1>6. IF r = <<>> THEN a = c ELSE r[1][1] = a /\ r[Len(r)][2] = c
  <2>1. CASE m = 0 /\ n = 0
    BY <1>1, <1>2, <2>1, WindowIs DEF Tiles
  <2>2. CASE m = 0 /\ n # 0
    <3>1. o = <<>> /\ q # <<>> /\ r # <<>> /\ 1 \in 1..n /\ n \in 1..n
      BY <1>1, <1>2, <2>2, WindowIs
    <3>2. r[1] = q[1] /\ r[Len(r)] = q[n]
      BY <1>2, <2>2, <3>1
    <3> QED BY <3>1, <3>2 DEF Tiles
  <2>3. CASE m # 0 /\ n = 0
    <3>1. o # <<>> /\ q = <<>> /\ r # <<>> /\ 1 \in 1..m /\ m \in 1..m
      BY <1>1, <1>2, <2>3, WindowIs
    <3>2. r[1] = o[1] /\ r[Len(r)] = o[m]
      BY <1>2, <2>3, <3>1
    <3> QED BY <3>1, <3>2 DEF Tiles
  <2>4. CASE m # 0 /\ n # 0
    <3>1. o # <<>> /\ q # <<>> /\ 1 \in 1..m /\ n \in 1..n
      <4>1. o # <<>> /\ q # <<>>
        BY <1>1, <2>4, WindowIs
      <4> HIDE DEF m, n
      <4> QED BY <1>2, <2>4, <4>1
    <3>3. r # <<>>
      <4>1. Len(r) # 0
        BY <1>2, <2>4
      <4> QED BY <1>2, <4>1, WindowIs
    <3>2. r[1] = o[1] /\ r[Len(r)] = q[n]
      BY <1>2, <3>1
    <3> QED BY <3>1, <3>2, <3>3 DEF Tiles
  <2> QED BY <2>1, <2>2, <2>3, <2>4
<1>7. Tiles(r, a, c)
  BY <1>2, <1>4, <1>5, <1>6 DEF Tiles
<1> QED BY <1>7 DEF r

LEMMA OneWindow ==
  ASSUME NEW a \in Nat, NEW b \in Nat, a < b, Between(a, b) <= MaxTokens
  PROVE  Tiles(<< <<a, b>> >>, a, b)
<1> DEFINE o == << <<a, b>> >>
<1>1. o \in Seq(Nat \X Nat) /\ Len(o) = 1 /\ o[1] = <<a, b>> /\ o # <<>>
  OBVIOUS
<1> HIDE DEF o
<1> QED BY <1>1 DEF Tiles, o

LEMMA TilesLonger ==
  ASSUME NEW a \in Nat, NEW b \in Nat, NEW c \in Nat, NEW o, Tiles(o, a, b),
         b < c, Between(b, c) <= MaxTokens
  PROVE  Tiles(Append(o, <<b, c>>), a, c)
<1>1. o \in Seq(Nat \X Nat)
  BY DEF Tiles
<1>2. Append(o, <<b, c>>) = o \o << <<b, c>> >>
  <2>1. <<b, c>> \in Nat \X Nat
    OBVIOUS
  <2> QED BY <1>1, <2>1, AppendIsConcat
<1> QED BY <1>2, OneWindow, TilesJoin

LEMMA TilesInOrder ==
  ASSUME NEW a \in Nat, NEW b \in Nat, NEW o, Tiles(o, a, b)
  PROVE  /\ a <= b
         /\ \A k \in 1..Len(o) : a <= o[k][1] /\ o[k][2] <= b
         /\ \A k, l \in 1..Len(o) : k < l => o[k][2] <= o[l][1]
<1> DEFINE n == Len(o)
<1>1. /\ n \in Nat /\ (o = <<>> <=> n = 0)
      /\ \A k \in 1..n : o[k][1] \in Nat /\ o[k][2] \in Nat /\ o[k][1] < o[k][2]
  BY WindowIs DEF Tiles
<1> DEFINE S == {l \in Nat : l <= n => \A k \in 1..l - 1 : o[k][2] <= o[l][1]}
<1>2. ASSUME NEW l \in Nat, l \in S PROVE l + 1 \in S
  <2> SUFFICES ASSUME l + 1 <= n, NEW k \in 1..l PROVE o[k][2] <= o[l + 1][1]
    OBVIOUS
  <2>1. l \in 1..n - 1 /\ l \in 1..n /\ l + 1 \in 1..n /\ k \in 1..n
    BY <1>1
  <2>2. o[l][2] = o[l + 1][1]
    BY <2>1 DEF Tiles
  <2>3. CASE k = l
    BY <1>1, <2>1, <2>2, <2>3
  <2>4. CASE k \in 1..l - 1
    <3>1. o[k][2] <= o[l][1]
      BY <1>1, <1>2, <2>1, <2>4
    <3> QED BY <1>1, <2>1, <2>2, <3>1
  <2> QED BY <2>3, <2>4
<1>3. Nat \subseteq S
  <2>1. 0 \in S
    OBVIOUS
  <2> HIDE DEF S
  <2> QED BY <1>2, <2>1, FromOneBelow
<1>4. ASSUME NEW k \in 1..n, NEW l \in 1..n, k < l PROVE o[k][2] <= o[l][1]
  <2>1. l \in Nat /\ l <= n /\ k \in 1..l - 1
    BY <1>1, <1>4
  <2> QED BY <1>3, <2>1
<1>5. ASSUME NEW k \in 1..n PROVE a <= o[k][1] /\ o[k][2] <= b
  <2>1. 1 \in 1..n /\ n \in 1..n /\ o # <<>> /\ 1 <= k /\ k <= n
    BY <1>1
  <2>2. o[1][1] = a /\ o[n][2] = b
    BY <2>1 DEF Tiles
  <2>3. o[1][1] <= o[k][1]
    <3>1. CASE k = 1
      BY <1>1, <2>1, <3>1
    <3>2. CASE 1 < k
      BY <1>1, <1>4, <2>1, <3>2
    <3> QED BY <1>1, <2>1, <3>1, <3>2
  <2>4. o[k][2] <= o[n][2]
    <3>1. CASE k = n
      BY <1>1, <2>1, <3>1
    <3>2. CASE k < n
      BY <1>1, <1>4, <2>1, <3>2
    <3> QED BY <1>1, <2>1, <3>1, <3>2
  <2> HIDE DEF n
  <2> QED BY <2>2, <2>3, <2>4
<1>6. a <= b
  <2>1. CASE n = 0
    BY <1>1, <2>1 DEF Tiles
  <2>2. CASE n # 0
    <3>1. 1 \in 1..n
      BY <1>1, <2>2
    <3> QED BY <1>1, <1>5, <3>1
  <2> QED BY <2>1, <2>2
<1> QED BY <1>4, <1>5, <1>6

LEMMA TilesCover ==
  ASSUME NEW a \in Nat, NEW b \in Nat, NEW o, Tiles(o, a, b), NEW p \in a..b - 1
  PROVE  \E k \in 1..Len(o) : o[k][1] <= p /\ p < o[k][2]
<1> DEFINE n == Len(o)
           B == {k \in 1..n : o[k][1] <= p}
<1>1. /\ n \in Nat /\ (o = <<>> <=> n = 0)
      /\ \A k \in 1..n : o[k][1] \in Nat /\ o[k][2] \in Nat
  BY WindowIs DEF Tiles
<1>2. o # <<>> /\ o[1][1] = a /\ o[n][2] = b
  BY DEF Tiles
<1>3. 1 \in B /\ B \subseteq 0..n
  BY <1>1, <1>2
<1>4. PICK k \in B : \A l \in B : l <= k
  <2> HIDE DEF B
  <2> QED BY <1>1, <1>3, GreatestExists
<1>5. ASSUME o[k][2] <= p PROVE FALSE
  <2>1. k # n
    BY <1>1, <1>2, <1>5
  <2>2. k \in 1..n - 1 /\ k + 1 \in 1..n /\ ~(k + 1 <= k)
    BY <1>1, <1>4, <2>1
  <2>3. o[k][2] = o[k + 1][1]
    BY <2>2 DEF Tiles
  <2>4. k + 1 \in B
    BY <1>5, <2>2, <2>3
  <2> QED BY <1>4, <2>2, <2>4
<1> QED BY <1>1, <1>4, <1>5

LEMMA TilesFront ==
  ASSUME NEW a \in Nat, NEW b \in Nat, NEW o, Tiles(o, a, b), o # <<>>
  PROVE  /\ Last(o)[1] \in Nat /\ Last(o)[1] < b
         /\ Tiles(Front(o), a, Last(o)[1])
<1> DEFINE n == Len(o)
           f == Front(o)
<1>1. /\ o \in Seq(Nat \X Nat) /\ n \in Nat /\ n # 0
      /\ \A k \in 1..n : o[k] \in Nat \X Nat
  BY WindowIs DEF Tiles
<1>2. /\ f \in Seq(Nat \X Nat) /\ Len(f) = n - 1
      /\ \A k \in 1..n - 1 : f[k] = o[k]
  <2> HIDE DEF n
  <2>1. \A k \in 1..n - 1 : o[k] \in Nat \X Nat
    BY <1>1
  <2>2. f = SubSeq(o, 1, n - 1)
    BY DEF Front, n
  <2>3. /\ f \in Seq(Nat \X Nat)
        /\ Len(f) = IF 1 <= n - 1 THEN (n - 1) - 1 + 1 ELSE 0
        /\ \A k \in 1..(n - 1) - 1 + 1 : f[k] = o[1 + k - 1]
    BY <1>1, <2>1, <2>2, SubSeqProperties
  <2>4. (n - 1) - 1 + 1 = n - 1 /\ \A k \in 1..n - 1 : 1 + k - 1 = k
    BY <1>1
  <2> QED BY <1>1, <2>3, <2>4
<1>3. 1 \in 1..n /\ n \in 1..n /\ Last(o) = o[n]
  BY <1>1 DEF Last
<1>4. o[n][1] \in Nat /\ o[n][1] < b
  BY <1>1, <1>3 DEF Tiles
<1> HIDE DEF f
<1>5. IF f = <<>> THEN a = o[n][1] ELSE f[1][1] = a /\ f[Len(f)][2] = o[n][1]
  <2>1. CASE n = 1
    <3>1. f = <<>>
      BY <1>2, <2>1, WindowIs
    <3> QED BY <2>1, <3>1 DEF Tiles
  <2>2. CASE n # 1
    <3>1. 1 \in 1..n - 1 /\ n - 1 \in 1..n - 1 /\ (n - 1) + 1 = n /\ Len(f) # 0
      <4> HIDE DEF n
      <4> QED BY <1>1, <1>2, <2>2
    <3>2. f # <<>>
      BY <1>2, <3>1, WindowIs
    <3>3. o[n - 1][2] = o[n][1] /\ o[1][1] = a
      BY <3>1 DEF Tiles
    <3> QED BY <1>2, <3>1, <3>2, <3>3
  <2> QED BY <2>1, <2>2
<1>6. \A k \in 1..n - 1 : f[k][1] < f[k][2] /\ Between(f[k][1], f[k][2]) <= MaxTokens
  <2>1. \A k \in 1..n - 1 : k \in 1..n
    BY <1>1
  <2>2. \A k \in 1..n : o[k][1] < o[k][2] /\ Between(o[k][1], o[k][2]) <= MaxTokens
    BY DEF Tiles
  <2> HIDE DEF n
  <2> QED BY <1>2, <2>1, <2>2
<1>7. ASSUME NEW k \in 1..(n - 1) - 1 PROVE f[k][2] = f[k + 1][1]
  <2>1. k \in 1..n - 1 /\ k + 1 \in 1..n - 1
    BY <1>1
  <2>2. o[k][2] = o[k + 1][1]
    BY <2>1 DEF Tiles
  <2> QED BY <1>2, <2>1, <2>2
<1>8. Tiles(f, a, o[n][1])
  BY <1>2, <1>5, <1>6, <1>7 DEF Tiles
<1> QED BY <1>3, <1>4, <1>8 DEF f

-----------------------------------------------------------------------------
(* A line longer than the window is cut into windows. *)
LEMMA CutsAre ==
  ASSUME NEW from \in Nat, NEW end \in Nat
  PROVE  LET cut == Cuts(from, end)
         IN /\ cut \in [0..end -> Nat] /\ cut[0] = from
            /\ \A n \in 1..end : cut[n] = cut[n - 1] + MaxTokens
            /\ \A n \in 0..end : from <= cut[n] /\ n <= cut[n]
<1> DEFINE x == [n \in 1..end |-> MaxTokens]
           cut == Cuts(from, end)
<1>1. x \in [1..end -> Nat] /\ \A n \in 0..end : n # 0 => x[n] = MaxTokens
  BY SlicingAssumption
<1> HIDE DEF x
<1>2. \E f : f = [n \in 0..end |-> IF n = 0 THEN from ELSE f[n - 1] + MaxTokens]
  <2>1. PICK f : IsSums(f, from, x, end)
    BY <1>1, SumsExist
  <2>2. f = [n \in 0..end |-> IF n = 0 THEN from ELSE f[n - 1] + MaxTokens]
    BY <1>1, <2>1 DEF IsSums
  <2> QED BY <2>2
<1>3. cut = [n \in 0..end |-> IF n = 0 THEN from ELSE cut[n - 1] + MaxTokens]
  BY <1>2 DEF Cuts, TokenBoundary
<1> HIDE DEF cut
<1>4. IsSums(cut, from, x, end)
  BY <1>1, <1>3 DEF IsSums
<1>5. cut \in [0..end -> Nat] /\ cut[0] = from /\ \A k, l \in 0..end : k <= l => cut[k] <= cut[l]
  <2>1. cut \in [0..end -> Nat]
    BY <1>1, <1>4, SumsAre
  <2>2. cut[0] = from
    BY <1>3
  <2>3. \A k, l \in 0..end : k <= l => cut[k] <= cut[l]
    BY <1>1, <1>4, SumsAre
  <2> QED BY <2>1, <2>2, <2>3
<1>6. ASSUME NEW n \in 1..end PROVE cut[n] = cut[n - 1] + MaxTokens
  <2>1. n \in 0..end /\ n # 0
    OBVIOUS
  <2> QED BY <1>3, <2>1
<1> DEFINE S == {n \in Nat : n <= end => n <= cut[n]}
<1>7. Nat \subseteq S
  <2>1. 0 \in S
    BY <1>5
  <2>2. ASSUME NEW n \in Nat, n \in S PROVE n + 1 \in S
    <3>1. CASE n + 1 <= end
      <4>1. n \in 0..end /\ n + 1 \in 1..end /\ (n + 1) - 1 = n
        BY <3>1
      <4>2. cut[n + 1] = cut[n] + MaxTokens /\ cut[n] \in Nat /\ n <= cut[n]
        BY <1>5, <1>6, <2>2, <4>1
      <4>3. n + 1 <= cut[n + 1]
        BY <4>2, SlicingAssumption
      <4> QED BY <4>3
    <3> QED BY <3>1
  <2> HIDE DEF S
  <2> QED BY <2>1, <2>2, FromOneBelow
<1>8. ASSUME NEW n \in 0..end PROVE from <= cut[n] /\ n <= cut[n]
  <2>1. 0 \in 0..end /\ 0 <= n /\ n \in Nat /\ n <= end
    OBVIOUS
  <2> QED BY <1>5, <1>7, <2>1
<1> QED BY <1>5, <1>6, <1>8 DEF cut

WindowRecord == [from : Nat, fit : Nat, blank : Nat, out : Seq(Nat \X Nat)]

LEMMA ChopLineIs ==
  ASSUME NEW a \in Nat, NEW end \in Nat, NEW w \in WindowRecord,
         w.from < end, Tiles(w.out, a, w.from)
  PROVE  LET r == ChopLine(w, end)
         IN /\ r \in WindowRecord /\ r.fit = w.fit /\ r.blank \in {0, w.blank}
            /\ w.from <= r.from /\ r.from < end
            /\ Between(r.from, end) <= MaxTokens
            /\ Tiles(r.out, a, r.from)
<1> DEFINE cut == Cuts(w.from, end)
           enough == {n \in 0..end : Between(cut[n], end) <= MaxTokens}
           pieces == Least(enough)
           q == [n \in 1..pieces |-> <<cut[n - 1], cut[n]>>]
           r == ChopLine(w, end)
<1>1. w.from \in Nat /\ w.fit \in Nat /\ w.blank \in Nat /\ w.out \in Seq(Nat \X Nat)
  BY DEF WindowRecord
<1>2. /\ cut \in [0..end -> Nat] /\ cut[0] = w.from
      /\ \A n \in 1..end : cut[n] = cut[n - 1] + MaxTokens
      /\ \A n \in 0..end : w.from <= cut[n] /\ n <= cut[n]
  BY <1>1, CutsAre
<1>3. r = [w EXCEPT !.out = @ \o q, !.from = cut[pieces],
                    !.blank = IF pieces > 0 THEN 0 ELSE @]
  BY DEF ChopLine
<1> HIDE DEF cut, r
<1>4. enough \subseteq Nat /\ enough # {}
  <2>1. end \in 0..end /\ cut[end] \in Nat /\ end <= cut[end]
    BY <1>2
  <2>2. Between(cut[end], end) = 0
    BY <2>1 DEF Between
  <2>3. end \in enough
    BY <2>1, <2>2, SlicingAssumption
  <2> QED BY <2>3
<1>5. /\ pieces \in 0..end /\ Between(cut[pieces], end) <= MaxTokens
      /\ \A n \in enough : pieces <= n
  <2>1. Least(enough) \in enough /\ \A n \in enough : Least(enough) <= n
    <3> HIDE DEF enough
    <3> QED BY <1>4, LeastOf
  <2> QED BY <2>1
<1>6. ASSUME NEW n \in 1..pieces
      PROVE  /\ cut[n - 1] \in Nat /\ cut[n] = cut[n - 1] + MaxTokens /\ cut[n] \in Nat
             /\ cut[n] < end
  <2>1. n - 1 \in 0..end /\ n \in 0..end /\ n \in 1..end /\ ~(pieces <= n - 1)
    BY <1>5
  <2>2. Between(cut[n - 1], end) > MaxTokens
    <3>1. n - 1 \notin enough
      BY <1>5, <2>1
    <3>2. Between(cut[n - 1], end) \in Nat
      BY <1>2, <2>1 DEF Between
    <3> QED BY <2>1, <3>1, <3>2, SlicingAssumption
  <2>3. cut[n - 1] \in Nat /\ cut[n] \in Nat /\ cut[n] = cut[n - 1] + MaxTokens
    BY <1>2, <2>1
  <2> QED BY <2>2, <2>3, SlicingAssumption DEF Between
<1> HIDE DEF enough, pieces
<1>7. Tiles(q, w.from, cut[pieces])
  <2>1. q \in Seq(Nat \X Nat) /\ Len(q) = pieces /\ \A n \in 1..pieces : q[n] = <<cut[n - 1], cut[n]>>
    <3>1. \A n \in 1..pieces : <<cut[n - 1], cut[n]>> \in Nat \X Nat
      BY <1>6
    <3>2. pieces \in Nat
      BY <1>5
    <3> QED BY <3>1, <3>2, IsASeq
  <2> HIDE DEF q
  <2>2. IF q = <<>> THEN w.from = cut[pieces]
        ELSE q[1][1] = w.from /\ q[Len(q)][2] = cut[pieces]
    <3>1. CASE pieces = 0
      BY <1>2, <2>1, <3>1, WindowIs
    <3>2. CASE pieces # 0
      <4>1. 1 \in 1..pieces /\ pieces \in 1..pieces /\ q # <<>>
        BY <1>5, <2>1, <3>2, WindowIs
      <4> QED BY <1>2, <2>1, <4>1
    <3> QED BY <3>1, <3>2
  <2>3. ASSUME NEW n \in 1..pieces
        PROVE  q[n][1] < q[n][2] /\ Between(q[n][1], q[n][2]) <= MaxTokens
    <3>1. q[n][1] = cut[n - 1] /\ q[n][2] = cut[n - 1] + MaxTokens /\ cut[n - 1] \in Nat
      <4>1. q[n] = <<cut[n - 1], cut[n]>>
        BY <2>1
      <4> QED BY <1>6, <4>1
    <3> QED BY <3>1, SlicingAssumption DEF Between
  <2>4. ASSUME NEW n \in 1..pieces - 1 PROVE q[n][2] = q[n + 1][1]
    <3>1. n \in 1..pieces /\ n + 1 \in 1..pieces /\ (n + 1) - 1 = n
      BY <1>5
    <3>2. q[n] = <<cut[n - 1], cut[n]>> /\ q[n + 1] = <<cut[n], cut[n + 1]>>
      BY <2>1, <3>1
    <3> QED BY <3>2
  <2> QED BY <2>1, <2>2, <2>3, <2>4 DEF Tiles
<1>8. cut[pieces] \in Nat /\ w.from <= cut[pieces] /\ cut[pieces] < end
  <2>1. cut[pieces] \in Nat /\ w.from <= cut[pieces]
    BY <1>2, <1>5
  <2>2. CASE pieces = 0
    BY <1>2, <2>1, <2>2
  <2>3. CASE pieces # 0
    <3>1. pieces \in 1..pieces
      BY <1>5, <2>3
    <3> QED BY <1>6, <2>1, <3>1
  <2> QED BY <2>1, <2>2, <2>3
<1>9. Tiles(w.out \o q, a, cut[pieces])
  BY <1>1, <1>7, <1>8, TilesJoin
<1>10. w.out \o q \in Seq(Nat \X Nat)
  BY <1>9 DEF Tiles
<1> HIDE DEF q
<1>11. /\ r \in WindowRecord /\ r.fit = w.fit /\ r.blank \in {0, w.blank}
       /\ r.from = cut[pieces] /\ r.out = w.out \o q
  BY <1>1, <1>3, <1>8, <1>10 DEF WindowRecord
<1>12. /\ w.from <= r.from /\ r.from < end /\ Between(r.from, end) <= MaxTokens
       /\ Tiles(r.out, a, r.from)
  BY <1>5, <1>8, <1>9, <1>11
<1> QED BY <1>11, <1>12 DEF r

-----------------------------------------------------------------------------
(* The loop over the lines: what has been emitted tiles the text up to where the
   open window begins, and what the open window has taken in fits. *)
Filling(w, a) ==
  /\ w \in WindowRecord
  /\ a <= w.from /\ w.from <= w.fit /\ w.blank <= w.fit
  /\ Between(w.from, w.fit) <= MaxTokens
  /\ Tiles(w.out, a, w.from)

LEMMA CloseFullIs ==
  ASSUME NEW a \in Nat, NEW w, Filling(w, a), NEW end \in Nat, NEW at \in BOOLEAN
  PROVE  LET r == CloseFull(w, end, at)
         IN r \in WindowRecord /\ a <= r.from /\ r.from <= r.fit /\ r.fit = w.fit
              /\ r.blank \in {0, w.blank} /\ Tiles(r.out, a, r.from)
<1>1. w \in WindowRecord /\ w.from \in Nat /\ w.fit \in Nat /\ w.blank \in Nat
        /\ w.out \in Seq(Nat \X Nat)
  BY DEF Filling, WindowRecord
<1>2. CASE Between(w.from, end) > MaxTokens /\ w.fit > w.from
  <2> DEFINE c == CutAt(w, at)
             r == CloseFull(w, end, at)
  <2>1. c \in Nat /\ w.from < c /\ c <= w.fit
    <3>1. CASE at /\ Between(w.from, w.blank) >= GapMinTokens
      <4>1. w.blank > w.from
        BY <1>1, <3>1, SlicingAssumption DEF Between
      <4> QED BY <1>1, <3>1, <4>1 DEF CutAt, Filling
    <3>2. CASE ~(at /\ Between(w.from, w.blank) >= GapMinTokens)
      BY <1>1, <1>2, <3>2 DEF CutAt
    <3> QED BY <3>1, <3>2
  <2> HIDE DEF c
  <2>2. Between(w.from, c) <= MaxTokens
    <3>1. Between(w.from, c) <= Between(w.from, w.fit)
      BY <1>1, <2>1 DEF Between
    <3>2. Between(w.from, w.fit) <= MaxTokens /\ Between(w.from, c) \in Nat
            /\ Between(w.from, w.fit) \in Nat
      BY <1>1, <2>1 DEF Filling, Between
    <3> QED BY <3>1, <3>2, SlicingAssumption
  <2>3. Tiles(Append(w.out, <<w.from, c>>), a, c)
    BY <1>1, <2>1, <2>2, TilesLonger DEF Filling
  <2>4. r = [w EXCEPT !.out = Append(@, <<w.from, c>>), !.from = c, !.blank = 0]
    BY <1>2 DEF CloseFull, c
  <2> HIDE DEF r
  <2>5. Append(w.out, <<w.from, c>>) \in Seq(Nat \X Nat)
    BY <2>3 DEF Tiles
  <2>6. r \in WindowRecord /\ r.from = c /\ r.fit = w.fit /\ r.blank = 0
          /\ r.out = Append(w.out, <<w.from, c>>)
    BY <1>1, <2>1, <2>4, <2>5 DEF WindowRecord
  <2>7. a <= r.from
    BY <1>1, <2>1, <2>6 DEF Filling
  <2> QED BY <2>1, <2>3, <2>6, <2>7 DEF r
<1>3. CASE ~(Between(w.from, end) > MaxTokens /\ w.fit > w.from)
  BY <1>1, <1>3 DEF CloseFull, Filling
<1> QED BY <1>2, <1>3

LEMMA AddLineIs ==
  ASSUME NEW a \in Nat, NEW w, Filling(w, a), NEW end \in Nat, w.fit < end, NEW at \in BOOLEAN
  PROVE  Filling(AddLine(w, end, at), a) /\ AddLine(w, end, at).fit = end
<1> DEFINE v == CloseFull(w, end, at)
           u == ChopLine(v, end)
           r == AddLine(w, end, at)
<1>1. v \in WindowRecord /\ a <= v.from /\ v.from <= v.fit /\ v.fit = w.fit
        /\ v.blank \in {0, w.blank} /\ Tiles(v.out, a, v.from)
  BY CloseFullIs
<1>2. w.fit \in Nat /\ w.blank \in Nat /\ w.blank <= w.fit /\ v.from \in Nat
  BY <1>1 DEF Filling, WindowRecord
<1> HIDE DEF v
<1>3. v.from < end
  BY <1>1, <1>2
<1>4. u \in WindowRecord /\ u.blank \in {0, v.blank} /\ v.from <= u.from /\ u.from < end
        /\ Between(u.from, end) <= MaxTokens /\ Tiles(u.out, a, u.from)
  BY <1>1, <1>3, ChopLineIs
<1>5. r = [u EXCEPT !.blank = IF w.fit..end - 1 \subseteq Breaks THEN end ELSE @, !.fit = end]
  BY DEF AddLine, v
<1> HIDE DEF u, r
<1>6. u.from \in Nat /\ u.blank \in Nat /\ u.out \in Seq(Nat \X Nat) /\ u.fit \in Nat /\ u.blank <= end
  BY <1>1, <1>2, <1>4 DEF WindowRecord
<1>7. /\ r \in WindowRecord /\ r.from = u.from /\ r.fit = end /\ r.out = u.out
      /\ r.blank \in {end, u.blank}
  BY <1>4, <1>5, <1>6 DEF WindowRecord
<1>8. a <= r.from /\ r.from <= r.fit /\ r.blank <= r.fit
  BY <1>1, <1>2, <1>4, <1>6, <1>7
<1> QED BY <1>4, <1>7, <1>8 DEF Filling, r

(* The loop reaches b, with every line up to b taken in. *)
Lines(w, a, b, at) ==
  w = [p \in a..b |-> IF p = a THEN NoWindow(a) ELSE ByLine(w[p - 1], p, b, at)]

LEMMA LinesExist ==
  ASSUME NEW a \in Nat, NEW b \in Nat, NEW at \in BOOLEAN
  PROVE  \E w : Lines(w, a, b, at)
<1> DEFINE Upto(m) == \E w : w = [p \in a..m |-> IF p = a THEN NoWindow(a)
                                                ELSE ByLine(w[p - 1], p, b, at)]
           S == {n \in Nat : Upto(a + n)}
<1>1. Upto(a)
  <2> DEFINE w == [p \in a..a |-> NoWindow(a)]
  <2>1. \A p \in a..a : p = a
    OBVIOUS
  <2>2. w = [p \in a..a |-> IF p = a THEN NoWindow(a) ELSE ByLine(w[p - 1], p, b, at)]
    BY <2>1
  <2> QED BY <2>2
<1>2. ASSUME NEW m \in Nat, a <= m, Upto(m) PROVE Upto(m + 1)
  <2>1. PICK w : w = [p \in a..m |-> IF p = a THEN NoWindow(a) ELSE ByLine(w[p - 1], p, b, at)]
    BY <1>2
  <2> DEFINE v == [p \in a..m + 1 |-> IF p = m + 1 THEN ByLine(w[m], m + 1, b, at) ELSE w[p]]
  <2>2. ASSUME NEW p \in a..m + 1
        PROVE  v[p] = IF p = a THEN NoWindow(a) ELSE ByLine(v[p - 1], p, b, at)
    <3>1. CASE p = m + 1
      <4>1. v[p] = ByLine(w[m], m + 1, b, at) /\ p - 1 = m /\ m \in a..m + 1 /\ m # m + 1 /\ p # a
        BY <1>2, <3>1
      <4>2. v[m] = w[m]
        BY <4>1
      <4> HIDE DEF v
      <4> QED BY <3>1, <4>1, <4>2
    <3>2. CASE p \in a..m
      <4>1. v[p] = w[p] /\ p # m + 1
        BY <3>2
      <4>2. p # a => v[p - 1] = w[p - 1]
        BY <3>2
      <4>3. w[p] = IF p = a THEN NoWindow(a) ELSE ByLine(w[p - 1], p, b, at)
        BY <2>1, <3>2
      <4> HIDE DEF v
      <4> QED BY <4>1, <4>2, <4>3
    <3> QED BY <3>1, <3>2
  <2>3. v = [p \in a..m + 1 |-> v[p]]
    OBVIOUS
  <2> HIDE DEF v
  <2>4. v = [p \in a..m + 1 |-> IF p = a THEN NoWindow(a) ELSE ByLine(v[p - 1], p, b, at)]
    BY <2>2, <2>3
  <2> QED BY <2>4
<1> HIDE DEF Upto
<1>3. Nat \subseteq S
  <2>1. 0 \in S
    BY <1>1
  <2>2. ASSUME NEW n \in Nat, n \in S PROVE n + 1 \in S
    <3>1. Upto((a + n) + 1) /\ (a + n) + 1 = a + (n + 1)
      BY <1>2, <2>2
    <3>2. Upto(a + (n + 1))
      BY <3>1
    <3> QED BY <3>2
  <2> HIDE DEF S
  <2> QED BY <2>1, <2>2, FromOneBelow
<1>4. CASE a <= b
  <2>1. b - a \in Nat /\ a + (b - a) = b
    BY <1>4
  <2>2. Upto(a + (b - a))
    BY <1>3, <2>1
  <2>3. Upto(b)
    BY <2>1, <2>2
  <2> QED BY <2>3 DEF Upto, Lines
<1>5. CASE ~(a <= b)
  <2> DEFINE w == [p \in a..b |-> NoWindow(a)]
  <2>1. a..b = {}
    BY <1>5
  <2>2. w = [p \in a..b |-> IF p = a THEN NoWindow(a) ELSE ByLine(w[p - 1], p, b, at)]
    BY <2>1
  <2> QED BY <2>2 DEF Lines
<1> QED BY <1>4, <1>5

LEMMA CutLinesIs ==
  ASSUME NEW a \in Nat, NEW b \in Nat, a < b, NEW at \in BOOLEAN
  PROVE  LET w == CutLines(a, b, at)
         IN w.from \in a..b /\ Between(w.from, b) <= MaxTokens /\ Tiles(w.out, a, w.from)
<1> DEFINE w == CHOOSE w : Lines(w, a, b, at)
<1>1. Lines(w, a, b, at)
  BY LinesExist
<1>2. CutLines(a, b, at) = w[b]
  BY DEF CutLines, Lines
<1> HIDE DEF w
<1>3. w[a] = NoWindow(a) /\ \A p \in a + 1..b : w[p] = ByLine(w[p - 1], p, b, at)
  <2>1. a \in a..b
    OBVIOUS
  <2>2. ASSUME NEW p \in a + 1..b PROVE w[p] = ByLine(w[p - 1], p, b, at)
    <3>1. p \in a..b /\ p # a
      OBVIOUS
    <3> QED BY <1>1, <3>1 DEF Lines
  <2> QED BY <1>1, <2>1, <2>2 DEF Lines
<1> DEFINE Good(p) == Filling(w[p], a) /\ w[p].fit <= p /\ (p = b => w[p].fit = b)
           S == {n \in Nat : a + n <= b => Good(a + n)}
<1>4. Good(a)
  <2>1. NoWindow(a) \in WindowRecord /\ <<>> \in Seq(Nat \X Nat) /\ Between(a, a) <= MaxTokens
    BY SlicingAssumption DEF NoWindow, WindowRecord, Between
  <2>2. Tiles(<<>>, a, a)
    BY DEF Tiles
  <2> QED BY <1>3, <2>1, <2>2 DEF Filling, NoWindow
<1>5. ASSUME NEW p \in a + 1..b, Good(p - 1) PROVE Good(p)
  <2>1. p \in Nat /\ w[p - 1].fit \in Nat /\ w[p - 1].fit < p
    BY <1>5 DEF Filling, WindowRecord
  <2>2. CASE p = b \/ p - 1 \in Breaks
    <3>1. w[p] = AddLine(w[p - 1], p, at)
      BY <1>3, <2>2 DEF ByLine
    <3>2. Filling(w[p], a) /\ w[p].fit = p
      BY <1>5, <2>1, <3>1, AddLineIs
    <3> QED BY <2>1, <3>2
  <2>3. CASE ~(p = b \/ p - 1 \in Breaks)
    <3>1. w[p] = w[p - 1] /\ p # b
      BY <1>3, <2>3 DEF ByLine
    <3> QED BY <1>5, <2>1, <3>1
  <2> QED BY <2>2, <2>3
<1> HIDE DEF Good
<1>6. Nat \subseteq S
  <2>1. 0 \in S
    BY <1>4
  <2>2. ASSUME NEW n \in Nat, n \in S PROVE n + 1 \in S
    <3>1. CASE a + (n + 1) <= b
      <4>1. a + (n + 1) \in a + 1..b /\ (a + (n + 1)) - 1 = a + n /\ a + n <= b
        BY <3>1
      <4>2. Good(a + n)
        BY <2>2, <4>1
      <4>3. Good(a + (n + 1))
        BY <1>5, <4>1, <4>2
      <4> QED BY <4>3
    <3> QED BY <3>1
  <2> HIDE DEF S
  <2> QED BY <2>1, <2>2, FromOneBelow
<1>7. Good(b)
  <2>1. b - a \in Nat /\ a + (b - a) = b
    OBVIOUS
  <2>2. Good(a + (b - a))
    BY <1>6, <2>1
  <2> QED BY <2>1, <2>2
<1> QED BY <1>2, <1>7 DEF Good, Filling, WindowRecord

-----------------------------------------------------------------------------
(* Windows of a gap and of an oversized block. *)
LEMMA SplitByLinesIs ==
  ASSUME NEW a \in Nat, NEW b \in Nat, a < b
  PROVE  Tiles(SplitByLines(a, b), a, b)
<1> DEFINE w == CutLines(a, b, FALSE)
<1>1. w.from \in a..b /\ Between(w.from, b) <= MaxTokens /\ Tiles(w.out, a, w.from)
  BY CutLinesIs
<1>2. SplitByLines(a, b) = IF w.from < b THEN Append(w.out, <<w.from, b>>) ELSE w.out
  BY DEF SplitByLines
<1> HIDE DEF w
<1>3. CASE w.from < b
  BY <1>1, <1>2, <1>3, TilesLonger
<1>4. CASE ~(w.from < b)
  <2>1. w.from = b
    BY <1>1, <1>4
  <2> QED BY <1>1, <1>2, <2>1
<1> QED BY <1>3, <1>4

LEMMA PackWindowIs ==
  ASSUME NEW a \in Nat, NEW b \in Nat, a < b
  PROVE  \E e \in a..b : /\ Tiles(PackWindow(a, b), a, e)
                         /\ e = b \/ Between(e, b) < GapMinTokens
<1> DEFINE w == CutLines(a, b, TRUE)
           small == Between(w.from, b) < GapMinTokens
           joins == w.out # <<>> /\ Between(Last(w.out)[1], b) <= MaxTokens
<1>1. w.from \in a..b /\ Between(w.from, b) <= MaxTokens /\ Tiles(w.out, a, w.from)
  BY CutLinesIs
<1>2. PackWindow(a, b) =
        CASE Between(a, b) < GapMinTokens -> <<>>
          [] Between(a, b) >= GapMinTokens /\ ~small -> Append(w.out, <<w.from, b>>)
          [] Between(a, b) >= GapMinTokens /\ small /\ joins ->
               Front(w.out) \o << <<Last(w.out)[1], b>> >>
          [] OTHER -> w.out
  BY DEF PackWindow
<1> HIDE DEF w
<1>3. /\ Between(a, b) \in Nat /\ Between(w.from, b) \in Nat
      /\ Between(a, b) < GapMinTokens <=> ~(Between(a, b) >= GapMinTokens)
  BY <1>1, SlicingAssumption DEF Between
<1>4. CASE Between(a, b) < GapMinTokens
  <2>1. PackWindow(a, b) = <<>>
    BY <1>2, <1>3, <1>4
  <2>2. Tiles(<<>>, a, a) /\ a \in a..b
    BY DEF Tiles
  <2> QED BY <1>4, <2>1, <2>2
<1>5. CASE Between(a, b) >= GapMinTokens /\ ~small
  <2>1. PackWindow(a, b) = Append(w.out, <<w.from, b>>)
    BY <1>2, <1>3, <1>5
  <2>2. w.from < b
    BY <1>1, <1>3, <1>5, SlicingAssumption DEF Between
  <2>3. Tiles(Append(w.out, <<w.from, b>>), a, b) /\ b \in a..b
    BY <1>1, <2>2, TilesLonger
  <2> QED BY <2>1, <2>3
<1>6. CASE Between(a, b) >= GapMinTokens /\ small /\ joins
  <2>1. PackWindow(a, b) = Front(w.out) \o << <<Last(w.out)[1], b>> >>
    BY <1>2, <1>3, <1>6
  <2>2. /\ Last(w.out)[1] \in Nat /\ Last(w.out)[1] < w.from
        /\ Tiles(Front(w.out), a, Last(w.out)[1])
    BY <1>1, <1>6, TilesFront
  <2>3. Tiles(<< <<Last(w.out)[1], b>> >>, Last(w.out)[1], b)
    BY <1>1, <1>6, <2>2, OneWindow
  <2>4. Tiles(PackWindow(a, b), a, b) /\ b \in a..b
    BY <2>1, <2>2, <2>3, TilesJoin
  <2> QED BY <2>4
<1>7. CASE Between(a, b) >= GapMinTokens /\ small /\ ~joins
  <2>1. PackWindow(a, b) = w.out
    BY <1>2, <1>3, <1>7
  <2> QED BY <1>1, <1>7, <2>1
<1> QED BY <1>3, <1>4, <1>5, <1>6, <1>7

(* Every window lies in one gap, and those of a gap are apart. *)
LEMMA WindowsAre ==
  ASSUME FileOK
  PROVE  /\ \A w \in Windows : Piece(w)
         /\ \A v, w \in Windows : Apart(v, w)
         /\ \A w \in Windows, s \in Spans : Apart(w, s)
<1>1. TextEnd \in Nat
  BY BreaksAre
<1>2. ASSUME NEW g \in Gaps
      PROVE  /\ g[1] \in Nat /\ g[2] \in 0..TextEnd
             /\ \E e \in g[1]..g[2] : Tiles(PackWindow(g[1], g[2]), g[1], e)
  <2>1. g[1] \in Nat /\ g[2] \in Nat /\ g[2] \in 0..TextEnd /\ g[1] < g[2]
    BY <1>1, GapsAre
  <2> QED BY <2>1, PackWindowIs
<1>3. ASSUME NEW w \in Windows
      PROVE  \E g \in Gaps, k \in Nat : k \in DOMAIN PackWindow(g[1], g[2]) /\ w = PackWindow(g[1], g[2])[k]
  <2>1. PICK g \in Gaps : w \in ToSet(PackWindow(g[1], g[2]))
    BY DEF Windows
  <2>2. PICK k \in DOMAIN PackWindow(g[1], g[2]) : w = PackWindow(g[1], g[2])[k]
    BY <2>1 DEF ToSet
  <2>3. PICK e \in g[1]..g[2] : Tiles(PackWindow(g[1], g[2]), g[1], e)
    BY <1>2
  <2>4. PackWindow(g[1], g[2]) \in Seq(Nat \X Nat)
    BY <2>3 DEF Tiles
  <2>5. k \in Nat
    BY <2>4, LenProperties
  <2> QED BY <2>2, <2>5
<1>4. ASSUME NEW g \in Gaps, NEW k \in DOMAIN PackWindow(g[1], g[2])
      PROVE  LET o == PackWindow(g[1], g[2])
             IN /\ k \in 1..Len(o) /\ Len(o) \in Nat
                /\ o[k] \in Nat \X Nat /\ o[k][1] < o[k][2]
                /\ Between(o[k][1], o[k][2]) <= MaxTokens
                /\ g[1] <= o[k][1] /\ o[k][2] <= g[2]
                /\ \A l \in 1..Len(o) : k < l => o[k][2] <= o[l][1]
  <2> DEFINE o == PackWindow(g[1], g[2])
  <2>1. PICK e \in g[1]..g[2] : Tiles(o, g[1], e)
    BY <1>2
  <2> HIDE DEF o
  <2>2. g[1] \in Nat /\ g[2] \in Nat /\ e \in Nat /\ e <= g[2]
    BY <1>1, <1>2
  <2>3. o \in Seq(Nat \X Nat)
    BY <2>1 DEF Tiles
  <2>4. k \in 1..Len(o) /\ Len(o) \in Nat /\ o[k] \in Nat \X Nat
    BY <2>3, WindowIs, LenProperties DEF o
  <2>5. /\ o[k][1] < o[k][2] /\ Between(o[k][1], o[k][2]) <= MaxTokens
    BY <2>1, <2>4 DEF Tiles
  <2>6. /\ g[1] <= o[k][1] /\ o[k][2] <= e
        /\ \A l \in 1..Len(o) : k < l => o[k][2] <= o[l][1]
    BY <2>1, <2>2, <2>4, TilesInOrder
  <2>7. o[k][2] <= g[2]
    BY <2>2, <2>4, <2>6
  <2> QED BY <2>4, <2>5, <2>6, <2>7 DEF o
<1>5. ASSUME NEW w \in Windows PROVE Piece(w)
  <2>1. PICK g \in Gaps, k \in Nat : k \in DOMAIN PackWindow(g[1], g[2]) /\ w = PackWindow(g[1], g[2])[k]
    BY <1>3
  <2>2. /\ w \in Nat \X Nat /\ w[1] < w[2] /\ Between(w[1], w[2]) <= MaxTokens /\ w[2] <= g[2]
    BY <1>4, <2>1
  <2>3. w \in (0..TextEnd) \X (0..TextEnd)
    BY <1>1, <1>2, <2>2
  <2> QED BY <2>2, <2>3 DEF Piece
<1>6. ASSUME NEW v \in Windows, NEW w \in Windows PROVE Apart(v, w)
  <2>1. PICK g \in Gaps, k \in Nat : k \in DOMAIN PackWindow(g[1], g[2]) /\ v = PackWindow(g[1], g[2])[k]
    BY <1>3
  <2>2. PICK h \in Gaps, l \in Nat : l \in DOMAIN PackWindow(h[1], h[2]) /\ w = PackWindow(h[1], h[2])[l]
    BY <1>3
  <2>3. /\ v \in Nat \X Nat /\ w \in Nat \X Nat
        /\ g[1] <= v[1] /\ v[2] <= g[2] /\ h[1] <= w[1] /\ w[2] <= h[2]
        /\ g[1] \in Nat /\ g[2] \in Nat /\ h[1] \in Nat /\ h[2] \in Nat
    <3>1. v \in Nat \X Nat /\ g[1] <= v[1] /\ v[2] <= g[2]
      BY <1>4, <2>1
    <3>2. w \in Nat \X Nat /\ h[1] <= w[1] /\ w[2] <= h[2]
      BY <1>4, <2>2
    <3>3. g[1] \in Nat /\ g[2] \in Nat /\ h[1] \in Nat /\ h[2] \in Nat
      BY <1>1, <1>2
    <3> QED BY <3>1, <3>2, <3>3
  <2>4. CASE g = h
    <3> DEFINE o == PackWindow(g[1], g[2])
    <3>1. /\ k \in 1..Len(o) /\ l \in 1..Len(o) /\ Len(o) \in Nat
          /\ k < l => o[k][2] <= o[l][1]
          /\ l < k => o[l][2] <= o[k][1]
      BY <1>4, <2>1, <2>2, <2>4
    <3>2. v = o[k] /\ w = o[l]
      BY <2>1, <2>2, <2>4
    <3> HIDE DEF o
    <3>3. k = l \/ k < l \/ l < k
      BY <3>1
    <3> QED BY <3>1, <3>2, <3>3 DEF Apart
  <2>5. CASE g # h
    <3>1. g[2] <= h[1] \/ h[2] <= g[1]
      BY <2>5, GapsApart DEF Apart
    <3> QED BY <2>3, <3>1 DEF Apart
  <2> QED BY <2>4, <2>5
<1>7. ASSUME NEW w \in Windows, NEW s \in Spans PROVE Apart(w, s)
  <2>1. PICK g \in Gaps, k \in Nat : k \in DOMAIN PackWindow(g[1], g[2]) /\ w = PackWindow(g[1], g[2])[k]
    BY <1>3
  <2>2. w \in Nat \X Nat /\ g[1] <= w[1] /\ w[2] <= g[2] /\ g[1] \in Nat /\ g[2] \in Nat
    BY <1>1, <1>2, <1>4, <2>1
  <2>3. s[2] <= g[1] \/ g[2] <= s[1]
    BY GapsAre
  <2>4. s[1] \in Nat /\ s[2] \in Nat
    BY <1>1, SpansAre DEF Piece
  <2> QED BY <2>2, <2>3, <2>4 DEF Apart
<1> QED BY <1>5, <1>6, <1>7

(* What is in no window of its gap is less than a fragment before the gap's end. *)
LEMMA WindowAround ==
  ASSUME FileOK, NEW p \in (0..TextEnd - 1) \ Breaks, ~Touched(p)
  PROVE  \/ \E w \in Windows : w[1] <= p /\ p < w[2]
         \/ \E e \in LinesAhead(p) : p < e /\ e \in Nat /\ Between(p, e) < GapMinTokens
<1>1. TextEnd \in Nat
  BY BreaksAre
<1>2. PICK g \in Gaps : g[1] <= p /\ p < g[2] /\ g[2] \in LinesAhead(p)
  BY GapAround
<1>3. g[1] \in Nat /\ g[2] \in Nat /\ g[1] < g[2]
  BY <1>1, GapsAre
<1> DEFINE o == PackWindow(g[1], g[2])
<1>4. PICK e \in g[1]..g[2] : Tiles(o, g[1], e) /\ (e = g[2] \/ Between(e, g[2]) < GapMinTokens)
  BY <1>3, PackWindowIs
<1> HIDE DEF o
<1>5. CASE p < e
  <2>1. PICK k \in 1..Len(o) : o[k][1] <= p /\ p < o[k][2]
    BY <1>2, <1>3, <1>4, <1>5, TilesCover
  <2>2. o \in Seq(Nat \X Nat)
    BY <1>4 DEF Tiles
  <2>3. o[k] \in ToSet(o) /\ o[k] \in Nat \X Nat
    BY <2>2, LenProperties, WindowIs DEF ToSet
  <2>4. p \in o[k][1]..o[k][2] - 1
    BY <2>1, <2>3
  <2>5. o[k] \in Windows
    BY <2>3, <2>4 DEF Windows, o
  <2> QED BY <2>1, <2>5
<1>6. CASE ~(p < e)
  <2>1. Between(e, g[2]) < GapMinTokens
    BY <1>2, <1>3, <1>4, <1>6
  <2>2. Between(p, g[2]) < GapMinTokens
    BY <1>2, <1>3, <1>4, <1>6, <2>1, SlicingAssumption DEF Between
  <2> QED BY <1>2, <1>3, <2>2
<1> QED BY <1>5, <1>6

LEMMA TypedFile == SlicingTypeOK => FileOK
<1> DEFINE R == [kind : {"comment", "code"}, lead : 0..2, size : NodeSizes, nested : BOOLEAN]
           T == [kind : {"comment", "code"}, lead : Nat, size : Nat \ {0}, nested : BOOLEAN]
<1>1. R \subseteq T
  <2>1. 0..2 \subseteq Nat /\ NodeSizes \subseteq Nat \ {0}
    BY SlicingAssumption
  <2> QED BY <2>1
<1>2. SlicingTypeOK => nodes \in Seq(R)
  BY DEF SlicingTypeOK
<1> HIDE DEF R, T
<1>3. SlicingTypeOK => nodes \in Seq(T)
  BY <1>1, <1>2, SeqMonotonic
<1> QED BY <1>3 DEF FileOK, T

LEMMA FilePartitioned == ASSUME FileOK PROVE ChunksPartitionTheText
<1> DEFINE chunks == Spans \cup Windows
           windows == SplitByLines(0, TextEnd)
           ahead(p) == Least(LinesAhead(p))
<1> SUFFICES ASSUME nodes # <<>> PROVE ChunksPartitionTheText
  BY DEF ChunksPartitionTheText
<1>1. TextEnd \in Nat \ {0}
  <2>1. Len(nodes) \in Nat /\ Len(nodes) # 0
    BY LeafIs, EmptySeq DEF FileOK
  <2>2. Len(nodes) \in 1..Len(nodes)
    BY <2>1
  <2> QED BY <2>2, LeafBounds
<1>2. \A c, d \in chunks : c = d \/ c[2] <= d[1] \/ d[2] <= c[1]
  BY SpansAre, WindowsAre DEF Apart
<1>3. \A c \in chunks : c[1] < c[2] /\ Between(c[1], c[2]) <= MaxTokens
  BY SpansAre, WindowsAre DEF Piece
<1>4. Tiles(windows, 0, TextEnd)
  BY <1>1, SplitByLinesIs
<1> HIDE DEF windows
<1>5. /\ windows \in Seq(Nat \X Nat) /\ windows # <<>>
      /\ windows[1][1] = 0 /\ Last(windows)[2] = TextEnd
      /\ \A k \in 1..Len(windows) - 1 : windows[k][2] = windows[k + 1][1]
  BY <1>1, <1>4 DEF Tiles, Last
<1>6. \A c \in ToSet(windows) : c[1] < c[2] /\ Between(c[1], c[2]) <= MaxTokens
  <2>1. DOMAIN windows = 1..Len(windows)
    BY <1>5, LenProperties
  <2> QED BY <1>4, <2>1 DEF Tiles, ToSet
<1>7. ASSUME NEW p \in (0..TextEnd - 1) \ Breaks
      PROVE  \/ \E c \in chunks : c[1] <= p /\ p < c[2]
             \/ Touched(p)
             \/ Between(p, ahead(p)) < GapMinTokens
  <2> SUFFICES ASSUME ~Touched(p), NEW e \in LinesAhead(p), p < e, e \in Nat,
                      Between(p, e) < GapMinTokens
               PROVE  Between(p, ahead(p)) < GapMinTokens
    BY WindowAround
  <2>1. LinesAhead(p) \subseteq Nat
    <3>1. ASSUME NEW s \in Spans PROVE LineStart(s[1]) \in Nat
      <4>1. s[1] \in 0..TextEnd
        BY SpansAre DEF Piece
      <4>2. LineStart(s[1]) \in 0..s[1]
        BY <4>1, LineStartIs
      <4> QED BY <4>1, <4>2
    <3> QED BY <1>1, <3>1 DEF LinesAhead
  <2>2. ahead(p) \in Nat /\ ahead(p) <= e
    BY <2>1, LeastOf
  <2> HIDE DEF ahead
  <2> QED BY <2>2, SlicingAssumption DEF Between
<1>8. /\ \A p : Touched(p) <=> \E s \in Spans : LineStart(s[1]) <= p /\ p < NextLine(s[2])
      /\ \A p : ahead(p) = Least({TextEnd} \cup {LineStart(s[1]) : s \in {t \in Spans : t[1] > p}})
  BY DEF Touched, LinesAhead
<1> HIDE DEF ahead
<1> QED BY <1>2, <1>3, <1>5, <1>6, <1>7, <1>8 DEF ChunksPartitionTheText, windows

(* traits.rs, parse and pack_gaps; markdown.rs, split_by_lines: whatever syntax
   tree a source file has, its chunks are apart, no chunk is above the window,
   what is in none is on a line of a selected node or a fragment, and no byte of
   an oversized block is lost. *)
THEOREM TextPartitioned == SlicingSpec => []ChunksPartitionTheText
<1>1. SlicingTypeOK => ChunksPartitionTheText
  BY TypedFile, FilePartitioned
<1> QED BY <1>1, SlicingTyped, PTL
=============================================================================
