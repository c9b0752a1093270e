------------------------ MODULE ShareRetentionProofs ------------------------
(***************************************************************************)
(* Theorems about ShareRetention for any chain, any blocks and any bounds. *)
(*                                                                         *)
(* The cleaner deletes a height because two windows of its difficulty were  *)
(* counted above it.  The invariant keeps that count: it is made once, and  *)
(* neither the chain nor the stored volume ever shrinks, so a block found   *)
(* later still has more than its window between the deleted heights and the *)
(* height it is paid from.                                                  *)
(***************************************************************************)
EXTENDS ShareRetention, FiniteSetTheorems, TLAPS

Kept == {b \in Blocks : blocks[b].st \in {"found", "locked"}}
Marked == gone \cup cl.todo

\* No block is below the first anchor or above the height being mined.
HeightsOK ==
    /\ Round <= tip
    /\ \A b \in Blocks : blocks[b].st # "none" => Round <= blocks[b].h /\ blocks[b].h <= tip + 1

\* The locals of a cleanup.
CleanerOK ==
    /\ cl.st = "ask" => cl.oldest # NoHeight
    /\ cl.st = "top" /\ cl.oldest # NoHeight => cl.d \in Diffs /\ cl.oldest <= tip
    /\ cl.st # "delete" => cl.todo = {}

\* Above a height that is or will be deleted lie two windows of the cheapest
\* difficulty, and one of the dearest below what any waiting block is paid from.
Counted == \A k \in Marked : Total(vol, k + 1, tip) >= 2 * Multi * Min(Diffs)
Covered == \A b \in Kept : \A k \in Marked : Total(vol, k + 1, PayFrom(b)) >= Multi * Max(Diffs)

IInv == TypeOK /\ HeightsOK /\ CleanerOK /\ Timely /\ Counted /\ Covered
-----------------------------------------------------------------------------
(* Sums over finite sets *)

\* Induction over finite sets: a set of finite sets has a member without a smaller one.
LEMMA Smallest ==
    ASSUME NEW S, IsFiniteSet(S), NEW B, B \subseteq SUBSET S, B # {}
    PROVE  \E s \in B : \A t \in B : t \subseteq s => t = s
  <1>1. IsWellFoundedOn(StrictSubsetOrdering(S), FiniteSubsetsOf(S))
    BY FS_StrictSubsetOrderingWellFounded
  <1>2. B \subseteq FiniteSubsetsOf(S)
    BY FS_Subset DEF FiniteSubsetsOf
  <1>3. PICK s \in B : \A t \in B : ~ (<<t, s>> \in StrictSubsetOrdering(S))
    BY <1>1, <1>2, WFMin
  <1>4. \A t \in B : t \subseteq s => t = s
    <2> TAKE t \in B
    <2>1. t \in SUBSET S /\ s \in SUBSET S /\ ~ (<<t, s>> \in StrictSubsetOrdering(S))
      BY <1>3
    <2> QED BY <2>1 DEF StrictSubsetOrdering
  <1> QED BY <1>4

Sum(f, S) == SumFunctionOnSet(f, S)
Some(s) == CHOOSE x \in s : TRUE
Step(f, g, s) == IF s = {} THEN 0 ELSE f[Some(s)] + g[s \ {Some(s)}]
Rec(f, S, g) == g = [s \in SUBSET S |-> Step(f, g, s)]

LEMMA SumIs ==
    ASSUME NEW f, NEW S
    PROVE  Sum(f, S) = (CHOOSE g : Rec(f, S, g))[S]
  BY DEF Sum, SumFunctionOnSet, FoldFunctionOnSet, MapThenFoldSet, Step, Rec, Some

LEMMA SomeIn ==
    ASSUME NEW s, s # {}
    PROVE  Some(s) \in s
  BY DEF Some

LEMMA RecUnique ==
    ASSUME NEW f, NEW S, IsFiniteSet(S), NEW T, NEW g, Rec(f, S, g), NEW h, Rec(f, T, h),
           NEW u, u \subseteq S, u \subseteq T
    PROVE  g[u] = h[u]
  <1> DEFINE B == {v \in SUBSET S : v \subseteq T /\ g[v] # h[v]}
  <1>1. SUFFICES ASSUME B # {} PROVE FALSE
    OBVIOUS
  <1>2. PICK v \in B : \A t \in B : t \subseteq v => t = v
    <2>1. B \subseteq SUBSET S
      OBVIOUS
    <2> HIDE DEF B
    <2> QED BY <1>1, <2>1, Smallest
  <1>3. g[v] = Step(f, g, v) /\ h[v] = Step(f, h, v)
    BY <1>2 DEF Rec
  <1>4. v # {}
    BY <1>2, <1>3 DEF Step
  <1>5. Some(v) \in v
    BY <1>4, SomeIn
  <1>6. v \ {Some(v)} \notin B
    BY <1>2, <1>5
  <1>7. g[v \ {Some(v)}] = h[v \ {Some(v)}]
    BY <1>2, <1>6
  <1> QED BY <1>2, <1>3, <1>7 DEF Step

LEMMA RecExists ==
    ASSUME NEW f, NEW S, IsFiniteSet(S)
    PROVE  \E g : Rec(f, S, g)
  <1> DEFINE B == {v \in SUBSET S : ~ \E g : Rec(f, v, g)}
  <1>1. SUFFICES ASSUME B # {} PROVE FALSE
    OBVIOUS
  <1>2. PICK v \in B : \A t \in B : t \subseteq v => t = v
    <2>1. B \subseteq SUBSET S
      OBVIOUS
    <2> HIDE DEF B
    <2> QED BY <1>1, <2>1, Smallest
  <1> DEFINE h(t) == CHOOSE g : Rec(f, t, g)
             G == [t \in SUBSET v |-> IF t = {} THEN 0
                                      ELSE f[Some(t)] + h(t \ {Some(t)})[t \ {Some(t)}]]
  <1>3. ASSUME NEW t, t \subseteq v, t # v
        PROVE  Rec(f, t, h(t))
    <2>1. t \notin B /\ t \in SUBSET S
      BY <1>2, <1>3
    <2>2. \E g : Rec(f, t, g)
      BY <2>1
    <2> QED BY <2>2
  <1>4. ASSUME NEW t, t \subseteq v, t # v
        PROVE  G[t] = h(t)[t]
    <2>1. h(t)[t] = Step(f, h(t), t)
      <3>1. Rec(f, t, h(t))
        BY <1>3, <1>4
      <3> HIDE DEF h
      <3> QED BY <3>1 DEF Rec
    <2>2. CASE t = {}
      BY <2>1, <2>2 DEF Step
    <2>3. CASE t # {}
      <3>1. Some(t) \in t
        BY <2>3, SomeIn
      <3>2. Rec(f, t, h(t)) /\ Rec(f, t \ {Some(t)}, h(t \ {Some(t)}))
        BY <1>3, <1>4, <3>1
      <3>3. IsFiniteSet(t)
        BY <1>2, <1>4, FS_Subset
      <3> HIDE DEF h
      <3>4. h(t)[t \ {Some(t)}] = h(t \ {Some(t)})[t \ {Some(t)}]
        BY <3>2, <3>3, RecUnique
      <3> QED BY <1>4, <2>1, <2>3, <3>4 DEF Step
    <2> QED BY <2>2, <2>3
  <1>5. ASSUME NEW t, t \subseteq v
        PROVE  G[t] = Step(f, G, t)
    <2>1. CASE t = {}
      BY <1>5, <2>1 DEF Step
    <2>2. CASE t # {}
      <3>1. Some(t) \in t
        BY <2>2, SomeIn
      <3>2. G[t \ {Some(t)}] = h(t \ {Some(t)})[t \ {Some(t)}]
        <4>1. t \ {Some(t)} \subseteq v /\ t \ {Some(t)} # v
          BY <1>5, <3>1
        <4> QED BY <1>4, <4>1
      <3>3. G[t] = f[Some(t)] + h(t \ {Some(t)})[t \ {Some(t)}]
        BY <1>5, <2>2
      <3> HIDE DEF h, G
      <3> QED BY <2>2, <3>2, <3>3 DEF Step
    <2> QED BY <2>1, <2>2
  <1>6. Rec(f, v, G)
    <2>1. G = [t \in SUBSET v |-> G[t]]
      OBVIOUS
    <2> HIDE DEF G
    <2> QED BY <1>5, <2>1 DEF Rec
  <1> QED BY <1>2, <1>6

LEMMA SumUnfold ==
    ASSUME NEW f, NEW S, IsFiniteSet(S)
    PROVE  Sum(f, S) = IF S = {} THEN 0 ELSE f[Some(S)] + Sum(f, S \ {Some(S)})
  <1> DEFINE g == CHOOSE g : Rec(f, S, g)
             T == S \ {Some(S)}
             h == CHOOSE h : Rec(f, T, h)
  <1>1. IsFiniteSet(T)
    BY FS_Subset
  <1>2. Rec(f, S, g) /\ Rec(f, T, h)
    BY <1>1, RecExists
  <1>3. Sum(f, S) = g[S] /\ Sum(f, T) = h[T]
    BY SumIs
  <1> HIDE DEF g, h
  <1>4. g[S] = Step(f, g, S)
    BY <1>2 DEF Rec
  <1>5. g[T] = h[T]
    BY <1>2, RecUnique
  <1> QED BY <1>3, <1>4, <1>5 DEF Step

Summable(f, S) == IsFiniteSet(S) /\ \A x \in S : f[x] \in Nat

LEMMA SumEmpty ==
    ASSUME NEW f
    PROVE  Sum(f, {}) = 0
  BY SumUnfold, FS_EmptySet

LEMMA SumNat ==
    ASSUME NEW f, NEW S, Summable(f, S)
    PROVE  Sum(f, S) \in Nat
  <1> DEFINE B == {v \in SUBSET S : Sum(f, v) \notin Nat}
  <1>1. SUFFICES ASSUME B # {} PROVE FALSE
    OBVIOUS
  <1>2. PICK v \in B : \A t \in B : t \subseteq v => t = v
    <2>1. B \subseteq SUBSET S
      OBVIOUS
    <2> HIDE DEF B
    <2> QED BY <1>1, <2>1, Smallest DEF Summable
  <1>3. v \subseteq S /\ IsFiniteSet(v) /\ Sum(f, v) \notin Nat
    BY <1>2, FS_Subset DEF Summable
  <1>4. CASE v = {}
    BY <1>3, <1>4, SumEmpty
  <1>5. CASE v # {}
    <2>1. Some(v) \in v
      BY <1>5, SomeIn
    <2>2. v \ {Some(v)} \notin B
      BY <1>2, <2>1
    <2>3. Sum(f, v \ {Some(v)}) \in Nat /\ f[Some(v)] \in Nat
      BY <1>3, <2>1, <2>2 DEF Summable
    <2> QED BY <1>3, <1>5, <2>3, SumUnfold
  <1> QED BY <1>4, <1>5

LEMMA OverPart ==
    ASSUME NEW f, NEW S, Summable(f, S), NEW T, T \subseteq S
    PROVE  Summable(f, T)
  BY FS_Subset DEF Summable

\* Any element may be taken out first.
LEMMA SumWithout ==
    ASSUME NEW f, NEW S, Summable(f, S), NEW x \in S
    PROVE  Sum(f, S) = f[x] + Sum(f, S \ {x})
  <1> DEFINE Goal(v, y) == Sum(f, v) = f[y] + Sum(f, v \ {y})
             B == {v \in SUBSET S : \E y \in v : ~Goal(v, y)}
  <1>1. SUFFICES ASSUME B # {} PROVE FALSE
    OBVIOUS
  <1>2. PICK v \in B : \A t \in B : t \subseteq v => t = v
    <2>1. B \subseteq SUBSET S
      OBVIOUS
    <2> HIDE DEF B
    <2> QED BY <1>1, <2>1, Smallest DEF Summable
  <1>3. PICK y \in v : ~Goal(v, y)
    BY <1>2
  <1> DEFINE z == Some(v)
  <1>4. Summable(f, v) /\ v # {} /\ IsFiniteSet(v)
    BY <1>2, <1>3, OverPart DEF Summable
  <1>5. z \in v
    BY <1>4, SomeIn
  <1>6. Sum(f, v) = f[z] + Sum(f, v \ {z})
    BY <1>4, SumUnfold
  <1> HIDE DEF z
  <1>7. z # y
    BY <1>3, <1>6
  <1>8. Goal(v \ {z}, y) /\ Goal(v \ {y}, z)
    <2>1. v \ {z} \notin B /\ v \ {y} \notin B /\ v \ {z} \in SUBSET S /\ v \ {y} \in SUBSET S
      BY <1>2, <1>3, <1>5
    <2>2. y \in v \ {z} /\ z \in v \ {y}
      BY <1>3, <1>5, <1>7
    <2> QED BY <2>1, <2>2
  <1>9. (v \ {z}) \ {y} = (v \ {y}) \ {z}
    OBVIOUS
  <1> DEFINE u == (v \ {y}) \ {z}
  <1>10. Summable(f, u) /\ f[z] \in Nat /\ f[y] \in Nat
    BY <1>3, <1>4, <1>5, OverPart DEF Summable
  <1>11. Sum(f, u) \in Nat
    BY <1>10, SumNat
  <1>12. Sum(f, v \ {z}) = f[y] + Sum(f, u) /\ Sum(f, v \ {y}) = f[z] + Sum(f, u)
    BY <1>8, <1>9
  <1> HIDE DEF u
  <1> QED BY <1>3, <1>6, <1>10, <1>11, <1>12

LEMMA SumSame ==
    ASSUME NEW f, NEW g, NEW S, Summable(f, S), \A x \in S : g[x] = f[x]
    PROVE  Sum(g, S) = Sum(f, S)
  <1> DEFINE B == {v \in SUBSET S : Sum(g, v) # Sum(f, v)}
  <1>1. SUFFICES ASSUME B # {} PROVE FALSE
    OBVIOUS
  <1>2. PICK v \in B : \A t \in B : t \subseteq v => t = v
    <2>1. B \subseteq SUBSET S
      OBVIOUS
    <2> HIDE DEF B
    <2> QED BY <1>1, <2>1, Smallest DEF Summable
  <1>3. v \subseteq S /\ IsFiniteSet(v) /\ Sum(g, v) # Sum(f, v)
    BY <1>2, FS_Subset DEF Summable
  <1>4. CASE v = {}
    BY <1>3, <1>4, SumEmpty
  <1>5. CASE v # {}
    <2>1. Some(v) \in v
      BY <1>5, SomeIn
    <2>2. v \ {Some(v)} \notin B
      BY <1>2, <2>1
    <2>3. Sum(g, v \ {Some(v)}) = Sum(f, v \ {Some(v)}) /\ g[Some(v)] = f[Some(v)]
      BY <1>3, <2>1, <2>2
    <2> QED BY <1>3, <1>5, <2>3, SumUnfold
  <1> QED BY <1>4, <1>5

\* The sum over two disjoint sets.
LEMMA SumUnion ==
    ASSUME NEW f, NEW S, NEW T, Summable(f, S), Summable(f, T), S \cap T = {}
    PROVE  Sum(f, S \cup T) = Sum(f, S) + Sum(f, T)
  <1> DEFINE B == {v \in SUBSET S : Sum(f, v \cup T) # Sum(f, v) + Sum(f, T)}
  <1>1. SUFFICES ASSUME B # {} PROVE FALSE
    OBVIOUS
  <1>2. PICK v \in B : \A t \in B : t \subseteq v => t = v
    <2>1. B \subseteq SUBSET S
      OBVIOUS
    <2> HIDE DEF B
    <2> QED BY <1>1, <2>1, Smallest DEF Summable
  <1>3. v \subseteq S /\ Summable(f, v) /\ Sum(f, v \cup T) # Sum(f, v) + Sum(f, T)
    BY <1>2, OverPart
  <1>4. Sum(f, T) \in Nat
    BY SumNat
  <1>5. CASE v = {}
    <2>1. v \cup T = T
      BY <1>5
    <2> QED BY <1>3, <1>4, <1>5, <2>1, SumEmpty
  <1>6. CASE v # {}
    <2>1. PICK x : x \in v
      BY <1>6
    <2>2. v \ {x} \notin B
      BY <1>2, <2>1
    <2>3. Sum(f, (v \ {x}) \cup T) = Sum(f, v \ {x}) + Sum(f, T)
      BY <1>3, <2>2
    <2>4. (v \cup T) \ {x} = (v \ {x}) \cup T /\ x \in v \cup T
      BY <1>3, <2>1
    <2>5. Summable(f, v \cup T) /\ Summable(f, v \ {x})
      <3>1. IsFiniteSet(v \cup T)
        BY <1>3, FS_Union DEF Summable
      <3>2. Summable(f, v \cup T)
        BY <1>3, <3>1 DEF Summable
      <3> QED BY <1>3, <3>2, OverPart
    <2>6. Sum(f, v \cup T) = f[x] + Sum(f, (v \ {x}) \cup T)
      BY <2>4, <2>5, SumWithout
    <2>7. Sum(f, v) = f[x] + Sum(f, v \ {x})
      BY <1>3, <2>1, SumWithout
    <2>8. f[x] \in Nat /\ Sum(f, v \ {x}) \in Nat
      BY <1>3, <2>1, <2>5, SumNat DEF Summable
    <2> QED BY <1>3, <1>4, <2>3, <2>6, <2>7, <2>8
  <1> QED BY <1>5, <1>6

LEMMA SumPart ==
    ASSUME NEW f, NEW S, Summable(f, S), NEW T, T \subseteq S
    PROVE  Sum(f, T) <= Sum(f, S)
  <1>1. Summable(f, T) /\ Summable(f, S \ T) /\ T \cap (S \ T) = {} /\ T \cup (S \ T) = S
    BY OverPart
  <1>2. Sum(f, S) = Sum(f, T) + Sum(f, S \ T)
    BY <1>1, SumUnion
  <1>3. Sum(f, T) \in Nat /\ Sum(f, S \ T) \in Nat
    BY <1>1, SumNat
  <1> QED BY <1>2, <1>3

LEMMA SumMono ==
    ASSUME NEW f, NEW g, NEW S, Summable(f, S), Summable(g, S), \A x \in S : f[x] <= g[x]
    PROVE  Sum(f, S) <= Sum(g, S)
  <1> DEFINE B == {v \in SUBSET S : ~ (Sum(f, v) <= Sum(g, v))}
  <1>1. SUFFICES ASSUME B # {} PROVE FALSE
    OBVIOUS
  <1>2. PICK v \in B : \A t \in B : t \subseteq v => t = v
    <2>1. B \subseteq SUBSET S
      OBVIOUS
    <2> HIDE DEF B
    <2> QED BY <1>1, <2>1, Smallest DEF Summable
  <1>3. v \subseteq S /\ Summable(f, v) /\ Summable(g, v) /\ ~ (Sum(f, v) <= Sum(g, v))
    BY <1>2, OverPart
  <1>4. CASE v = {}
    <2>1. Sum(f, v) = 0 /\ Sum(g, v) = 0
      BY <1>4, SumEmpty
    <2> QED BY <1>3, <2>1
  <1>5. CASE v # {}
    <2>1. PICK x : x \in v
      BY <1>5
    <2>2. v \ {x} \notin B
      BY <1>2, <2>1
    <2>3. Sum(f, v \ {x}) <= Sum(g, v \ {x}) /\ f[x] <= g[x]
      BY <1>3, <2>1, <2>2
    <2>4. Sum(f, v) = f[x] + Sum(f, v \ {x}) /\ Sum(g, v) = g[x] + Sum(g, v \ {x})
      BY <1>3, <2>1, SumWithout
    <2>5. Summable(f, v \ {x}) /\ Summable(g, v \ {x})
      BY <1>3, OverPart
    <2>6. f[x] \in Nat /\ g[x] \in Nat /\ Sum(f, v \ {x}) \in Nat /\ Sum(g, v \ {x}) \in Nat
      BY <1>3, <2>1, <2>5, SumNat DEF Summable
    <2> QED BY <1>3, <2>3, <2>4, <2>6
  <1> QED BY <1>4, <1>5

Minimal(B, s) == \A t \in B : t \subseteq s => t = s

LEMMA SmallestOf ==
    ASSUME NEW S, IsFiniteSet(S), NEW B, B \subseteq SUBSET S, B # {}
    PROVE  \E s \in B : Minimal(B, s)
  BY Smallest DEF Minimal

\* A finite set of naturals has a least and a largest member.
LEMMA LeastIn ==
    ASSUME NEW G, G \subseteq Nat, IsFiniteSet(G), G # {}
    PROVE  \E x \in G : \A y \in G : x <= y
  <1> DEFINE B == {t \in SUBSET G : \E x \in G : t = {y \in G : y <= x}}
  <1> HIDE DEF B
  <1>1. B # {}
    BY DEF B
  <1>2. B \subseteq SUBSET G
    BY DEF B
  <1>3. PICK s \in B : Minimal(B, s)
    BY <1>1, <1>2, SmallestOf
  <1>4. s \in B /\ \A t \in B : t \subseteq s => t = s
    BY <1>3 DEF Minimal
  <1> USE DEF B
  <1>5. PICK x \in G : s = {y \in G : y <= x}
    BY <1>4
  <1>6. ASSUME NEW y \in G PROVE x <= y
    <2> HIDE DEF B
    <2>1. x \in Nat /\ y \in Nat
      OBVIOUS
    <2>2. SUFFICES ASSUME y < x PROVE FALSE
      BY <2>1
    <2> DEFINE Down == {z \in G : z <= y}
    <2> USE DEF B
    <2>3. Down \in B /\ Down \subseteq s
      <3>1. Down \in B
        OBVIOUS
      <3>2. \A z \in G : z <= y => z <= x
        BY <2>1, <2>2
      <3> QED BY <1>5, <3>1, <3>2
    <2>4. Down = s
      <3> HIDE DEF B, Down
      <3> QED BY <1>4, <2>3
    <2>5. x \in s /\ x \notin Down
      BY <1>5, <2>1, <2>2
    <2> QED BY <2>4, <2>5
  <1> QED BY <1>6

LEMMA LargestIn ==
    ASSUME NEW G, G \subseteq Nat, IsFiniteSet(G), G # {}
    PROVE  \E x \in G : \A y \in G : x >= y
  <1> DEFINE B == {t \in SUBSET G : \E x \in G : t = {y \in G : y >= x}}
  <1> HIDE DEF B
  <1>1. B # {}
    BY DEF B
  <1>2. B \subseteq SUBSET G
    BY DEF B
  <1>3. PICK s \in B : Minimal(B, s)
    BY <1>1, <1>2, SmallestOf
  <1>4. s \in B /\ \A t \in B : t \subseteq s => t = s
    BY <1>3 DEF Minimal
  <1> USE DEF B
  <1>5. PICK x \in G : s = {y \in G : y >= x}
    BY <1>4
  <1>6. ASSUME NEW y \in G PROVE x >= y
    <2> HIDE DEF B
    <2>1. x \in Nat /\ y \in Nat
      OBVIOUS
    <2>2. SUFFICES ASSUME y > x PROVE FALSE
      BY <2>1
    <2> DEFINE Up == {z \in G : z >= y}
    <2> USE DEF B
    <2>3. Up \in B /\ Up \subseteq s
      <3>1. Up \in B
        OBVIOUS
      <3>2. \A z \in G : z >= y => z >= x
        BY <2>1, <2>2
      <3> QED BY <1>5, <3>1, <3>2
    <2>4. Up = s
      <3> HIDE DEF B, Up
      <3> QED BY <1>4, <2>3
    <2>5. x \in s /\ x \notin Up
      BY <1>5, <2>1, <2>2
    <2> QED BY <2>4, <2>5
  <1> QED BY <1>6

LEMMA MinLeast ==
    ASSUME NEW G, G \subseteq Nat, IsFiniteSet(G), G # {}
    PROVE  Min(G) \in G /\ \A y \in G : Min(G) <= y
  BY LeastIn DEF Min

LEMMA MaxLargest ==
    ASSUME NEW G, G \subseteq Nat, IsFiniteSet(G), G # {}
    PROVE  Max(G) \in G /\ \A y \in G : Max(G) >= y
  BY LargestIn DEF Max

LEMMA MinWithZero ==
    ASSUME NEW x \in Nat
    PROVE  Min({x, 0}) = 0
  <1>1. \A y \in {x, 0} : 0 <= y
    OBVIOUS
  <1>2. \A t \in {x, 0} : (\A y \in {x, 0} : t <= y) => t = 0
    OBVIOUS
  <1>3. 0 \in {x, 0}
    OBVIOUS
  <1> QED BY <1>1, <1>2, <1>3, Zenon DEF Min

LEMMA MaxWithZero ==
    ASSUME NEW n \in Int, n <= 0
    PROVE  Max({0, n}) = 0
  <1>1. \A y \in {0, n} : 0 >= y
    OBVIOUS
  <1>2. \A t \in {0, n} : (\A y \in {0, n} : t >= y) => t = 0
    OBVIOUS
  <1>3. 0 \in {0, n}
    OBVIOUS
  <1> QED BY <1>1, <1>2, <1>3, Zenon DEF Max
-----------------------------------------------------------------------------
(* The volume between two heights *)

Volumes == [Heights -> Nat]
Span(lo, hi) == {k \in Heights : lo <= k /\ k <= hi}

LEMMA Sizes ==
    /\ MaxHeight \in Nat \ {0} /\ Multi \in Nat \ {0} /\ Round \in Nat \ {0}
    /\ Retries \in Nat \ {0} /\ Batch \in Nat \ {0}
    /\ MaxVol \in Nat /\ MainDelay \in Nat /\ AltDelay \in Nat /\ Late \in Nat /\ MaxFaults \in Nat
    /\ Round <= MaxHeight
  BY SizeAssumption

LEMMA HeightsAre ==
    /\ Heights \subseteq Nat \ {0} /\ IsFiniteSet(Heights)
    /\ \A k : k \in Heights <=> k \in Int /\ 1 <= k /\ k <= MaxHeight
  <1>1. 1 \in Int /\ MaxHeight \in Int
    BY Sizes
  <1>2. IsFiniteSet(1..MaxHeight)
    BY <1>1, FS_Interval
  <1> QED BY <1>1, <1>2 DEF Heights

LEMMA TotalIs ==
    ASSUME NEW V, NEW lo, NEW hi
    PROVE  Total(V, lo, hi) = Sum(V, Span(lo, hi))
  BY DEF Total, Sum, Span

LEMMA SpanSums ==
    ASSUME NEW V \in Volumes, NEW lo, NEW hi
    PROVE  Summable(V, Span(lo, hi))
  <1>1. Span(lo, hi) \subseteq Heights
    BY DEF Span
  <1>2. IsFiniteSet(Span(lo, hi))
    BY <1>1, HeightsAre, FS_Subset
  <1> QED BY <1>1, <1>2 DEF Summable, Volumes

LEMMA TotalNat ==
    ASSUME NEW V \in Volumes, NEW lo, NEW hi
    PROVE  Total(V, lo, hi) \in Nat
  BY TotalIs, SpanSums, SumNat

\* A wider span holds no less.
LEMMA TotalWider ==
    ASSUME NEW V \in Volumes, NEW lo \in Int, NEW hi \in Int, NEW lo2 \in Int, NEW hi2 \in Int,
           lo2 <= lo, hi <= hi2
    PROVE  Total(V, lo, hi) <= Total(V, lo2, hi2)
  <1>1. Span(lo, hi) \subseteq Span(lo2, hi2)
    BY HeightsAre DEF Span
  <1>2. Summable(V, Span(lo2, hi2))
    BY SpanSums
  <1>3. Sum(V, Span(lo, hi)) <= Sum(V, Span(lo2, hi2))
    BY <1>1, <1>2, SumPart
  <1> QED BY <1>3, TotalIs

\* What is counted up to hi is counted up to mid or above it.
LEMMA TotalJoin ==
    ASSUME NEW V \in Volumes, NEW lo \in Int, NEW mid \in Int, NEW hi \in Int
    PROVE  Total(V, lo, hi) <= Total(V, lo, mid) + Total(V, mid + 1, hi)
  <1> DEFINE S == Span(lo, mid)
             T == Span(mid + 1, hi)
             U == Span(lo, hi)
  <1>1. U \subseteq S \cup T /\ S \cap T = {}
    BY HeightsAre DEF Span
  <1>2. Summable(V, S) /\ Summable(V, T)
    BY SpanSums
  <1> HIDE DEF S, T, U
  <1>3. Summable(V, S \cup T)
    <2>1. IsFiniteSet(S \cup T)
      BY <1>2, FS_Union DEF Summable
    <2> QED BY <1>2, <2>1 DEF Summable
  <1>4. Sum(V, U) <= Sum(V, S \cup T)
    BY <1>1, <1>3, SumPart
  <1>5. Sum(V, S \cup T) = Sum(V, S) + Sum(V, T)
    BY <1>1, <1>2, SumUnion
  <1>6. Sum(V, U) <= Sum(V, S) + Sum(V, T)
    BY <1>4, <1>5
  <1> QED BY <1>6, TotalIs DEF S, T, U

\* More at each height is more in all.
LEMMA TotalGrows ==
    ASSUME NEW V \in Volumes, NEW W \in Volumes, \A k \in Heights : V[k] <= W[k],
           NEW lo, NEW hi
    PROVE  Total(V, lo, hi) <= Total(W, lo, hi)
  <1>1. Summable(V, Span(lo, hi)) /\ Summable(W, Span(lo, hi))
    BY SpanSums
  <1>2. \A k \in Span(lo, hi) : V[k] <= W[k]
    BY DEF Span
  <1>3. Sum(V, Span(lo, hi)) <= Sum(W, Span(lo, hi))
    BY <1>1, <1>2, SumMono
  <1> QED BY <1>3, TotalIs

LEMMA TotalSame ==
    ASSUME NEW V \in Volumes, NEW W, NEW lo, NEW hi,
           \A k \in Heights : lo <= k /\ k <= hi => W[k] = V[k]
    PROVE  Total(W, lo, hi) = Total(V, lo, hi)
  <1>1. Summable(V, Span(lo, hi))
    BY SpanSums
  <1>2. \A k \in Span(lo, hi) : W[k] = V[k]
    BY DEF Span
  <1>3. Sum(W, Span(lo, hi)) = Sum(V, Span(lo, hi))
    BY <1>1, <1>2, SumSame
  <1> QED BY <1>3, TotalIs
-----------------------------------------------------------------------------
(* Windows and needs *)

LEMMA DiffsAre ==
    /\ Min(Diffs) \in Nat /\ Max(Diffs) \in Nat
    /\ \A d \in Diffs : d \in Nat /\ Min(Diffs) <= d /\ d <= Max(Diffs)
  <1>1. Diffs \subseteq Nat /\ IsFiniteSet(Diffs) /\ Diffs # {}
    BY SizeAssumption
  <1>2. Min(Diffs) \in Diffs /\ \A d \in Diffs : Min(Diffs) <= d
    BY <1>1, MinLeast
  <1>3. Max(Diffs) \in Diffs /\ \A d \in Diffs : Max(Diffs) >= d
    BY <1>1, MaxLargest
  <1>4. Min(Diffs) \in Nat /\ Max(Diffs) \in Nat
    BY <1>1, <1>2, <1>3
  <1>5. ASSUME NEW d \in Diffs PROVE d \in Nat /\ Min(Diffs) <= d /\ d <= Max(Diffs)
    <2>1. d \in Nat
      BY <1>1
    <2> QED BY <1>2, <1>3, <1>4, <2>1
  <1> QED BY <1>4, <1>5

LEMMA TimesMono ==
    ASSUME NEW m \in Nat, NEW x \in Nat, NEW y \in Nat, x <= y
    PROVE  m * x <= m * y /\ m * x \in Nat /\ m * y \in Nat
  BY SMT

LEMMA NeedsAre ==
    /\ 2 * Multi * Min(Diffs) \in Nat /\ Multi * Max(Diffs) \in Nat
    /\ \A d \in Diffs : /\ Multi * d \in Nat /\ 2 * Multi * d \in Nat
                        /\ Multi * d <= Multi * Max(Diffs)
                        /\ 2 * Multi * Min(Diffs) <= 2 * Multi * d
  <1>1. Multi \in Nat /\ 2 * Multi \in Nat
    BY Sizes
  <1>2. Min(Diffs) \in Nat /\ Max(Diffs) \in Nat
    BY DiffsAre
  <1>3. Min(Diffs) <= Min(Diffs) /\ Max(Diffs) <= Max(Diffs)
    BY <1>2
  <1>4. (2 * Multi) * Min(Diffs) \in Nat /\ Multi * Max(Diffs) \in Nat
    BY <1>1, <1>2, <1>3, TimesMono
  <1>5. ASSUME NEW d \in Diffs
        PROVE  /\ Multi * d \in Nat /\ 2 * Multi * d \in Nat
               /\ Multi * d <= Multi * Max(Diffs)
               /\ 2 * Multi * Min(Diffs) <= 2 * Multi * d
    <2>1. d \in Nat /\ Min(Diffs) <= d /\ d <= Max(Diffs)
      BY DiffsAre
    <2>2. Multi * d \in Nat /\ Multi * d <= Multi * Max(Diffs)
      BY <1>1, <1>2, <2>1, TimesMono
    <2>3. (2 * Multi) * d \in Nat /\ (2 * Multi) * Min(Diffs) <= (2 * Multi) * d
      BY <1>1, <1>2, <2>1, TimesMono
    <2> QED BY <2>2, <2>3
  <1> QED BY <1>4, <1>5

\* Two of the cheapest windows below t, and little unseen above from: one of
\* the dearest windows is left below from.
LEMMA Reach ==
    ASSUME NEW V \in Volumes, NEW k \in Int, NEW from \in Int, NEW t \in Int,
           Total(V, k + 1, t) >= 2 * Multi * Min(Diffs), Total(V, from + 1, t) <= Late
    PROVE  Total(V, k + 1, from) >= Multi * Max(Diffs)
  <1>1. k + 1 \in Int
    OBVIOUS
  <1>2. Total(V, k + 1, t) <= Total(V, k + 1, from) + Total(V, from + 1, t)
    BY <1>1, TotalJoin
  <1>3. /\ Total(V, k + 1, t) \in Nat /\ Total(V, k + 1, from) \in Nat
        /\ Total(V, from + 1, t) \in Nat
    BY TotalNat
  <1>4. Late + Multi * Max(Diffs) <= 2 * Multi * Min(Diffs)
    BY SlackAssumption
  <1>5. 2 * Multi * Min(Diffs) \in Nat /\ Multi * Max(Diffs) \in Nat /\ Late \in Nat
    BY NeedsAre, Sizes
  <1> DEFINE a == 2 * Multi * Min(Diffs)
             b == Multi * Max(Diffs)
             x == Total(V, k + 1, t)
             y == Total(V, k + 1, from)
             z == Total(V, from + 1, t)
  <1>6. a \in Nat /\ b \in Nat /\ Late \in Nat /\ x \in Nat /\ y \in Nat /\ z \in Nat
    BY <1>3, <1>5
  <1>7. x >= a /\ z <= Late /\ x <= y + z /\ Late + b <= a
    BY <1>2, <1>4
  <1> HIDE DEF a, b, x, y, z
  <1>8. y >= b
    BY <1>6, <1>7
  <1> QED BY <1>8 DEF b, y
-----------------------------------------------------------------------------
(* What a step may change *)

LEMMA Remainder ==
    ASSUME NEW h \in Nat, NEW r \in Nat \ {0}
    PROVE  h % r \in Nat /\ h % r < r
  BY SMT

From(b, h) == IF b \in MainBlocks THEN h ELSE h - (h % Round)

LEMMA PayFromIs ==
    ASSUME NEW b
    PROVE  PayFrom(b) = From(b, blocks[b].h)
  BY DEF PayFrom, From

LEMMA FromIs ==
    ASSUME NEW b, NEW h \in Nat, Round <= h
    PROVE  From(b, h) \in Nat /\ 1 <= From(b, h) /\ From(b, h) <= h
  <1>1. Round \in Nat /\ Round # 0
    BY Sizes
  <1>2. h % Round \in Nat /\ h % Round < Round
    BY <1>1, Remainder
  <1> DEFINE m == h % Round
  <1>3. m \in Nat /\ m < Round
    BY <1>2
  <1>4. From(b, h) = h \/ From(b, h) = h - m
    BY DEF From
  <1> HIDE DEF m
  <1> QED BY <1>1, <1>3, <1>4

LEMMA BlockFields ==
    ASSUME TypeOK, NEW b \in Blocks
    PROVE  /\ blocks[b].st \in {"none", "found", "locked", "ready"}
           /\ blocks[b].h \in Nat /\ (blocks[b].h # 0 => blocks[b].h \in Heights)
  <1>1. blocks[b] \in [st : {"none", "found", "locked", "ready"}, h : Heights \cup {NoHeight}]
    BY DEF TypeOK
  <1> QED BY <1>1, HeightsAre DEF NoHeight

LEMMA StateIs ==
    ASSUME TypeOK
    PROVE  /\ tip \in Nat /\ 1 <= tip /\ tip <= MaxHeight /\ vol \in Volumes
           /\ gone \subseteq Heights /\ cl.todo \subseteq Heights /\ Marked \subseteq Heights
           /\ \A k \in Heights : diff[k] \in Diffs
  <1>1. vol \in Volumes
    <2>1. vol \in [Heights -> 0..MaxVol] /\ 0..MaxVol \subseteq Nat
      BY Sizes DEF TypeOK
    <2> QED BY <2>1 DEF Volumes
  <1>2. cl.todo \subseteq Heights
    BY DEF TypeOK
  <1> QED BY <1>1, <1>2, HeightsAre, Sizes DEF TypeOK, Marked

LEMMA NextIs ==
    ASSUME TypeOK'
    PROVE  tip' \in Nat /\ vol' \in Volumes
  <1>1. vol' \in [Heights -> 0..MaxVol] /\ 0..MaxVol \subseteq Nat
    BY Sizes DEF TypeOK
  <1>2. vol' \in Volumes
    BY <1>1 DEF Volumes
  <1> QED BY <1>2, HeightsAre DEF TypeOK

\* A block that waits: where it is, and where it is paid from.
LEMMA KeptIs ==
    ASSUME TypeOK, HeightsOK, NEW b \in Kept
    PROVE  /\ b \in Blocks /\ blocks[b].st \in {"found", "locked"}
           /\ blocks[b].h \in Heights /\ blocks[b].h <= tip + 1
           /\ PayFrom(b) \in Heights /\ PayFrom(b) <= blocks[b].h
           /\ diff[PayFrom(b)] \in Diffs
  <1>1. b \in Blocks /\ blocks[b].st \in {"found", "locked"}
    BY DEF Kept
  <1>2. blocks[b].h \in Nat /\ Round <= blocks[b].h /\ blocks[b].h <= tip + 1
    BY <1>1, BlockFields DEF HeightsOK
  <1>3. blocks[b].h \in Heights
    BY <1>1, <1>2, BlockFields, Sizes
  <1>4. PayFrom(b) \in Nat /\ 1 <= PayFrom(b) /\ PayFrom(b) <= blocks[b].h
    BY <1>2, FromIs, PayFromIs
  <1>5. PayFrom(b) \in Heights
    BY <1>3, <1>4, HeightsAre, Sizes
  <1> QED BY <1>1, <1>2, <1>3, <1>4, <1>5, StateIs

Grows == tip <= tip' /\ \A k \in Heights : vol[k] <= vol'[k]
StillKept(b) == b \in Kept /\ blocks'[b].h = blocks[b].h
NoneMarked == gone' \cup cl'.todo \subseteq gone \cup cl.todo

\* What was counted stays counted: neither the chain nor the volume shrinks.
LEMMA CountStays ==
    ASSUME TypeOK, TypeOK', Grows, Counted, NoneMarked
    PROVE  Counted'
  <1> SUFFICES ASSUME NEW k \in Marked' PROVE Total(vol', k + 1, tip') >= 2 * Multi * Min(Diffs)
    BY DEF Counted
  <1>1. k \in Marked
    BY DEF NoneMarked, Marked
  <1>2. /\ tip \in Int /\ tip' \in Int /\ tip <= tip' /\ vol \in Volumes /\ vol' \in Volumes
        /\ Marked \subseteq Heights
    BY StateIs, NextIs DEF Grows
  <1>3. k \in Int /\ k + 1 \in Int
    BY <1>1, <1>2, HeightsAre
  <1>4. Total(vol, k + 1, tip) <= Total(vol, k + 1, tip')
    BY <1>2, <1>3, TotalWider
  <1>5. Total(vol, k + 1, tip') <= Total(vol', k + 1, tip')
    BY <1>2, TotalGrows DEF Grows
  <1>6. Total(vol, k + 1, tip) >= 2 * Multi * Min(Diffs)
    BY <1>1 DEF Counted
  <1>7. /\ Total(vol, k + 1, tip) \in Nat /\ Total(vol, k + 1, tip') \in Nat
        /\ Total(vol', k + 1, tip') \in Nat /\ 2 * Multi * Min(Diffs) \in Nat
    BY <1>2, TotalNat, NeedsAre
  <1> QED BY <1>4, <1>5, <1>6, <1>7

LEMMA CoverStays ==
    ASSUME TypeOK, TypeOK', Grows, Covered, NoneMarked, NEW b \in Kept', StillKept(b),
           NEW k \in Marked'
    PROVE  Total(vol', k + 1, PayFrom(b)') >= Multi * Max(Diffs)
  <1>1. k \in Marked /\ b \in Kept
    BY DEF NoneMarked, Marked, StillKept
  <1>2. PayFrom(b)' = PayFrom(b)
    BY DEF StillKept, PayFrom
  <1>3. vol \in Volumes /\ vol' \in Volumes
    BY StateIs, NextIs
  <1>4. Total(vol, k + 1, PayFrom(b)) <= Total(vol', k + 1, PayFrom(b))
    BY <1>3, TotalGrows DEF Grows
  <1>5. Total(vol, k + 1, PayFrom(b)) >= Multi * Max(Diffs)
    BY <1>1 DEF Covered
  <1>6. /\ Total(vol, k + 1, PayFrom(b)) \in Nat /\ Total(vol', k + 1, PayFrom(b)) \in Nat
        /\ Multi * Max(Diffs) \in Nat
    BY <1>3, TotalNat, NeedsAre
  <1> QED BY <1>2, <1>4, <1>5, <1>6

LEMMA CoveredStays ==
    ASSUME TypeOK, TypeOK', Grows, Covered, NoneMarked, \A b \in Kept' : StillKept(b)
    PROVE  Covered'
  <1> SUFFICES ASSUME NEW b \in Kept', NEW k \in Marked'
               PROVE  Total(vol', k + 1, PayFrom(b)') >= Multi * Max(Diffs)
    BY DEF Covered
  <1>1. StillKept(b)
    OBVIOUS
  <1> QED BY <1>1, CoverStays

\* A block nobody knew of is covered by the count and the pace of the chain.
LEMMA CoverNewNext ==
    ASSUME TypeOK', HeightsOK', Counted', Timely', NEW b \in Kept', Overlooked(b)', NEW k \in Marked'
    PROVE  Total(vol', k + 1, PayFrom(b)') >= Multi * Max(Diffs)
  <1>1. Total(vol', PayFrom(b)' + 1, tip') <= Late
    BY DEF Timely, Unseen, Kept
  <1>2. b \in Blocks /\ blocks'[b].h \in Nat /\ Round <= blocks'[b].h
    <2>1. b \in Blocks /\ blocks'[b].st # "none"
      BY DEF Kept
    <2>2. blocks'[b].h \in Heights \cup {NoHeight}
      BY <2>1 DEF TypeOK
    <2> QED BY <2>1, <2>2, HeightsAre DEF HeightsOK, NoHeight
  <1>3. PayFrom(b)' = From(b, blocks'[b].h)
    BY DEF PayFrom, From
  <1>4. PayFrom(b)' \in Int
    BY <1>2, <1>3, FromIs
  <1>5. k \in Int
    <2>1. Marked' \subseteq Heights
      BY DEF TypeOK, Marked
    <2> QED BY <2>1, HeightsAre
  <1>6. Total(vol', k + 1, tip') >= 2 * Multi * Min(Diffs)
    BY DEF Counted
  <1> QED BY <1>1, <1>4, <1>5, <1>6, NextIs, Reach

\* The pace holds as long as no more blocks are overlooked.
LEMMA TimelyStays ==
    ASSUME TypeOK, HeightsOK, Timely, UNCHANGED <<tip, vol>>, \A b \in Kept' : StillKept(b),
           \A b \in Kept' : Overlooked(b)' => Overlooked(b)
    PROVE  Timely'
  <1> SUFFICES ASSUME NEW b \in Kept' PROVE Unseen(b)' <= Late
    BY DEF Timely, Kept
  <1>1. b \in Kept /\ blocks'[b].h = blocks[b].h
    BY DEF StillKept
  <1>2. PayFrom(b)' = PayFrom(b)
    BY <1>1 DEF PayFrom
  <1>3. Unseen(b) <= Late
    BY <1>1 DEF Timely, Kept
  <1>4. Unseen(b) = Total(vol, PayFrom(b) + 1, IF Overlooked(b) THEN tip ELSE blocks[b].h - 1)
    BY DEF Unseen
  <1>5. Unseen(b)' = Total(vol, PayFrom(b) + 1, IF Overlooked(b)' THEN tip ELSE blocks[b].h - 1)
    BY <1>1, <1>2 DEF Unseen
  <1>6. Overlooked(b)' => Overlooked(b)
    OBVIOUS
  <1>7. CASE Overlooked(b)' <=> Overlooked(b)
    BY <1>3, <1>4, <1>5, <1>7
  <1>8. CASE ~Overlooked(b)' /\ Overlooked(b)
    <2>1. /\ PayFrom(b) + 1 \in Int /\ tip \in Int /\ blocks[b].h - 1 \in Int
          /\ blocks[b].h - 1 <= tip /\ vol \in Volumes
      BY <1>1, KeptIs, StateIs, HeightsAre
    <2>2. Total(vol, PayFrom(b) + 1, blocks[b].h - 1) <= Total(vol, PayFrom(b) + 1, tip)
      BY <2>1, TotalWider
    <2>3. /\ Total(vol, PayFrom(b) + 1, blocks[b].h - 1) \in Nat
          /\ Total(vol, PayFrom(b) + 1, tip) \in Nat /\ Late \in Nat
      BY <2>1, TotalNat, Sizes
    <2> QED BY <1>3, <1>4, <1>5, <1>8, <2>2, <2>3
  <1> QED BY <1>6, <1>7, <1>8

\* A step that only finishes with blocks, or with a cleanup.
LEMMA QuietStep ==
    ASSUME IInv, TypeOK', UNCHANGED <<tip, vol>>, NoneMarked, \A b \in Kept' : StillKept(b),
           \A b \in Kept' : Overlooked(b)' => Overlooked(b),
           HeightsOK', CleanerOK'
    PROVE  IInv'
  <1>1. tip \in Int /\ vol \in Volumes
    BY StateIs DEF IInv
  <1>2. Grows
    BY <1>1 DEF Grows, Volumes
  <1>3. Counted' /\ Covered'
    BY <1>2, CountStays, CoveredStays DEF IInv
  <1>4. Timely'
    BY TimelyStays DEF IInv
  <1> QED BY <1>3, <1>4 DEF IInv
-----------------------------------------------------------------------------
(* One lemma per action *)

Records == [st : {"none", "found", "locked", "ready"}, h : Heights \cup {NoHeight}]
Cleaners == [st : {"idle", "ask", "top", "delete"}, oldest : Heights \cup {NoHeight},
             d : Diffs \cup {0}, tries : 0..Retries, todo : SUBSET Heights]

LEMMA IdleIs == Idle \in Cleaners
  <1>1. 0 \in 0..Retries
    BY Sizes
  <1> QED BY <1>1 DEF Idle, Cleaners, NoHeight

LEMMA InitHolds == Init => IInv
  <1> SUFFICES ASSUME Init PROVE IInv
    OBVIOUS
  <1>1. TypeOK
    <2>1. tip \in Heights
      BY Sizes, HeightsAre DEF Init
    <2>2. diff \in [Heights -> Diffs]
      BY DEF Init
    <2>3. vol \in [Heights -> 0..MaxVol]
      <3>1. MaxVol \in 0..MaxVol /\ 0 \in 0..MaxVol
        BY Sizes
      <3> QED BY <3>1 DEF Init
    <2>4. blocks \in [Blocks -> Records]
      BY DEF Init, Records, NoHeight
    <2>5. cl \in Cleaners
      BY IdleIs DEF Init
    <2>6. gone \subseteq Heights /\ faults \in 0..MaxFaults
      BY Sizes DEF Init
    <2> QED BY <2>1, <2>2, <2>3, <2>4, <2>5, <2>6 DEF TypeOK, Records, Cleaners
  <1>2. \A b \in Blocks : blocks[b].st = "none"
    BY DEF Init
  <1>3. Kept = {} /\ Marked = {}
    BY <1>2 DEF Kept, Init, Marked, Idle
  <1>4. HeightsOK
    BY <1>2, Sizes DEF HeightsOK, Init
  <1>5. CleanerOK
    BY DEF CleanerOK, Init, Idle
  <1>6. Timely
    BY <1>2 DEF Timely
  <1>7. Counted /\ Covered
    BY <1>3 DEF Counted, Covered
  <1> QED BY <1>1, <1>4, <1>5, <1>6, <1>7 DEF IInv

\* The chain grows or shares come in, at the pace that Timely keeps.
LEMMA GrowStep ==
    ASSUME IInv, TypeOK', Grows, Timely', UNCHANGED <<gone, blocks, cl>>
    PROVE  IInv'
  <1>1. TypeOK /\ tip \in Nat /\ tip' \in Nat /\ tip <= tip'
    BY StateIs, NextIs DEF IInv, Grows
  <1>2. NoneMarked /\ \A b \in Kept' : StillKept(b)
    BY DEF NoneMarked, StillKept, Kept
  <1>3. Counted' /\ Covered'
    BY <1>2, CountStays, CoveredStays DEF IInv
  <1>4. HeightsOK'
    <2>1. \A b \in Blocks : blocks[b].h \in Nat
      BY <1>1, BlockFields
    <2>2. Round <= tip'
      BY <1>1, Sizes DEF IInv, HeightsOK
    <2>3. \A b \in Blocks : blocks[b].st # "none" => Round <= blocks[b].h /\ blocks[b].h <= tip' + 1
      BY <1>1, <2>1 DEF IInv, HeightsOK
    <2> QED BY <2>2, <2>3 DEF HeightsOK
  <1>5. CleanerOK'
    <2>1. cl.oldest \in Nat
      BY <1>1, HeightsAre DEF TypeOK, NoHeight
    <2> QED BY <1>1, <2>1 DEF IInv, CleanerOK
  <1> QED BY <1>3, <1>4, <1>5 DEF IInv

LEMMA AddShareKeeps ==
    ASSUME IInv, NEW n \in Heights, AddShare(n)
    PROVE  IInv'
  <1>1. vol \in [Heights -> 0..MaxVol] /\ vol' = [vol EXCEPT ![n] = vol[n] + 1] /\ vol[n] < MaxVol
    BY DEF IInv, TypeOK, AddShare
  <1>2. vol[n] + 1 \in 0..MaxVol /\ \A k \in Heights : vol[k] \in Nat
    BY <1>1, Sizes
  <1>3. vol' \in [Heights -> 0..MaxVol]
    BY <1>1, <1>2
  <1>4. UNCHANGED <<tip, diff, gone, blocks, cl, faults>> /\ Timely'
    BY DEF AddShare
  <1>5. TypeOK'
    BY <1>3, <1>4 DEF IInv, TypeOK
  <1>6. \A k \in Heights : vol[k] <= vol'[k]
    BY <1>1, <1>2
  <1>7. tip <= tip'
    BY <1>4, StateIs DEF IInv
  <1>8. Grows
    BY <1>6, <1>7 DEF Grows
  <1> QED BY <1>4, <1>5, <1>8, GrowStep

LEMMA NewBlockKeeps ==
    ASSUME IInv, NewBlock
    PROVE  IInv'
  <1>1. tip \in Nat /\ 1 <= tip /\ tip < MaxHeight /\ tip' = tip + 1 /\ vol \in Volumes
    BY StateIs DEF IInv, NewBlock
  <1>2. tip' \in Heights /\ tip <= tip'
    BY <1>1, HeightsAre, Sizes
  <1>3. UNCHANGED <<diff, vol, gone, blocks, cl, faults>> /\ Timely'
    BY DEF NewBlock
  <1>4. TypeOK'
    BY <1>2, <1>3 DEF IInv, TypeOK
  <1>5. Grows
    BY <1>1, <1>2, <1>3 DEF Grows, Volumes
  <1> QED BY <1>3, <1>4, <1>5, GrowStep

\* A block that is found is paid from what the count already covers.
LEMMA FindStep ==
    ASSUME IInv, TypeOK', tip' \in {tip, tip + 1}, Timely', UNCHANGED <<diff, vol, gone, cl, faults>>,
           NEW b \in Blocks, blocks' = [blocks EXCEPT ![b] = [st |-> "found", h |-> tip + 1]]
    PROVE  IInv'
  <1>1. TypeOK /\ tip \in Nat /\ tip' \in Nat /\ tip <= tip' /\ vol \in Volumes
    BY StateIs DEF IInv
  <1>2. blocks \in [Blocks -> Records]
    BY <1>1 DEF TypeOK, Records
  <1>3. Grows /\ NoneMarked
    BY <1>1 DEF Grows, NoneMarked, Volumes
  <1>4. Counted'
    BY <1>1, <1>3, CountStays DEF IInv
  <1>5. HeightsOK'
    <2>1. Round <= tip /\ Round \in Nat
      BY Sizes DEF IInv, HeightsOK
    <2>2. ASSUME NEW c \in Blocks, blocks'[c].st # "none"
          PROVE  Round <= blocks'[c].h /\ blocks'[c].h <= tip' + 1
      <3>1. CASE c = b
        <4>1. blocks'[c].h = tip + 1
          BY <1>2, <3>1
        <4> QED BY <1>1, <2>1, <4>1
      <3>2. CASE c # b
        <4>1. blocks'[c] = blocks[c]
          BY <1>2, <3>2
        <4>2. blocks[c].h \in Nat /\ Round <= blocks[c].h /\ blocks[c].h <= tip + 1
          BY <1>1, <2>2, <4>1, BlockFields DEF IInv, HeightsOK
        <4> QED BY <1>1, <4>1, <4>2
      <3> QED BY <3>1, <3>2
    <2>3. Round <= tip'
      BY <1>1, <2>1
    <2> QED BY <2>2, <2>3 DEF HeightsOK
  <1>6. CleanerOK'
    <2>1. cl.oldest \in Nat
      BY <1>1, HeightsAre DEF TypeOK, NoHeight
    <2> QED BY <1>1, <2>1 DEF IInv, CleanerOK
  <1>7. Covered'
    <2> SUFFICES ASSUME NEW c \in Kept', NEW k \in Marked'
                 PROVE  Total(vol', k + 1, PayFrom(c)') >= Multi * Max(Diffs)
      BY DEF Covered
    <2>1. CASE c = b
      <3>1. Overlooked(c)'
        BY <1>2, <2>1 DEF Overlooked
      <3> QED BY <1>4, <1>5, <3>1, CoverNewNext
    <2>2. CASE c # b
      <3>1. blocks'[c] = blocks[c] /\ c \in Blocks
        BY <1>2, <2>2 DEF Kept
      <3>2. StillKept(c)
        BY <3>1 DEF StillKept, Kept
      <3> QED BY <1>1, <1>3, <3>2, CoverStays DEF IInv
    <2> QED BY <2>1, <2>2
  <1> QED BY <1>4, <1>5, <1>6, <1>7 DEF IInv

LEMMA FoundRecord ==
    ASSUME TypeOK, tip < MaxHeight, NEW b \in Blocks,
           blocks' = [blocks EXCEPT ![b] = [st |-> "found", h |-> tip + 1]]
    PROVE  tip + 1 \in Heights /\ blocks' \in [Blocks -> Records]
  <1>1. tip \in Nat /\ 1 <= tip
    BY StateIs
  <1>2. tip + 1 \in Heights
    BY <1>1, HeightsAre, Sizes
  <1>3. [st |-> "found", h |-> tip + 1] \in Records
    BY <1>2 DEF Records
  <1> QED BY <1>2, <1>3 DEF TypeOK, Records

LEMMA FindMainKeeps ==
    ASSUME IInv, NEW b \in Blocks, FindMain(b)
    PROVE  IInv'
  <1>1. /\ tip' = tip + 1 /\ tip < MaxHeight /\ Timely' /\ UNCHANGED <<diff, vol, gone, cl, faults>>
        /\ blocks' = [blocks EXCEPT ![b] = [st |-> "found", h |-> tip + 1]]
    BY DEF FindMain
  <1>2. TypeOK'
    BY <1>1, FoundRecord DEF IInv, TypeOK, Records
  <1> QED BY <1>1, <1>2, FindStep

LEMMA FindAltKeeps ==
    ASSUME IInv, NEW b \in Blocks, FindAlt(b)
    PROVE  IInv'
  <1>1. /\ tip' = tip /\ tip < MaxHeight /\ Timely' /\ UNCHANGED <<diff, vol, gone, cl, faults>>
        /\ blocks' = [blocks EXCEPT ![b] = [st |-> "found", h |-> tip + 1]]
    BY DEF FindAlt
  <1>2. TypeOK'
    BY <1>1, FoundRecord DEF IInv, TypeOK, Records
  <1> QED BY <1>1, <1>2, FindStep

\* Only the states of blocks change, towards done.
LEMMA BlocksStep ==
    ASSUME IInv, UNCHANGED <<tip, diff, vol, gone, cl, faults>>, blocks' \in [Blocks -> Records],
           \A b \in Blocks : /\ blocks'[b].h = blocks[b].h
                             /\ blocks'[b].st # "none" => blocks[b].st # "none"
                             /\ b \in Kept' => b \in Kept
                             /\ blocks'[b].st = "found" => blocks[b].st = "found"
                             /\ blocks'[b].st = "locked" => blocks[b].st \in {"found", "locked"}
    PROVE  IInv'
  <1>1. TypeOK'
    BY DEF IInv, TypeOK, Records
  <1>2. NoneMarked
    BY DEF NoneMarked
  <1>3. ASSUME NEW b \in Kept' PROVE StillKept(b) /\ (Overlooked(b)' => Overlooked(b))
    <2>1. b \in Blocks
      BY DEF Kept
    <2>2. StillKept(b)
      BY <2>1 DEF StillKept
    <2>3. Overlooked(b)' => Overlooked(b)
      BY <2>1 DEF Overlooked
    <2> QED BY <2>2, <2>3
  <1>4. HeightsOK'
    BY DEF IInv, HeightsOK
  <1>5. CleanerOK'
    BY DEF IInv, CleanerOK
  <1> QED BY <1>1, <1>2, <1>3, <1>4, <1>5, QuietStep

LEMMA RecordKeeps ==
    ASSUME IInv, NEW b \in Blocks, Record(b)
    PROVE  IInv'
  <1>1. blocks \in [Blocks -> Records] /\ blocks[b].st = "found"
    BY DEF IInv, TypeOK, Records, Record
  <1>2. UNCHANGED <<tip, diff, vol, gone, cl, faults>>
    BY DEF Record
  <1>3. blocks' = [blocks EXCEPT ![b] = [blocks[b] EXCEPT !.st = "locked"]]
    BY DEF Record
  <1> DEFINE R == [blocks[b] EXCEPT !.st = "locked"]
  <1>4. R \in Records /\ R.st = "locked" /\ R.h = blocks[b].h
    BY <1>1 DEF Records
  <1> HIDE DEF R
  <1>5. blocks' \in [Blocks -> Records]
    BY <1>1, <1>3, <1>4 DEF R
  <1>6. ASSUME NEW c \in Blocks
        PROVE  IF c = b THEN blocks'[c] = R ELSE blocks'[c] = blocks[c]
    BY <1>1, <1>3 DEF R
  <1>7. ASSUME NEW c \in Blocks
        PROVE  /\ blocks'[c].h = blocks[c].h
               /\ blocks'[c].st # "none" => blocks[c].st # "none"
               /\ c \in Kept' => c \in Kept
               /\ blocks'[c].st = "found" => blocks[c].st = "found"
               /\ blocks'[c].st = "locked" => blocks[c].st \in {"found", "locked"}
    BY <1>1, <1>4, <1>6 DEF Kept
  <1> QED BY <1>2, <1>5, <1>7, BlocksStep

LEMMA PreCalcKeeps ==
    ASSUME IInv, NEW b \in Blocks, PreCalc(b)
    PROVE  IInv'
  <1>1. blocks \in [Blocks -> Records] /\ blocks[b].st = "locked"
    BY DEF IInv, TypeOK, Records, PreCalc, Locked
  <1>2. UNCHANGED <<tip, diff, vol, gone, cl, faults>>
    BY DEF PreCalc
  <1> DEFINE R(c) == [blocks[c] EXCEPT !.st = "ready"]
  <1>3. blocks' = [c \in Blocks |-> IF c \in SameAnchor(b) THEN R(c) ELSE blocks[c]]
    BY DEF PreCalc
  <1>4. ASSUME NEW c \in Blocks PROVE R(c) \in Records /\ R(c).st = "ready" /\ R(c).h = blocks[c].h
    BY <1>1 DEF Records
  <1>5. ASSUME NEW c \in SameAnchor(b) PROVE blocks[c].st = "locked"
    BY <1>1 DEF SameAnchor, Locked
  <1> HIDE DEF R
  <1>6. blocks' \in [Blocks -> Records]
    BY <1>1, <1>3, <1>4
  <1>7. ASSUME NEW c \in Blocks
        PROVE  /\ blocks'[c].h = blocks[c].h
               /\ blocks'[c].st # "none" => blocks[c].st # "none"
               /\ c \in Kept' => c \in Kept
               /\ blocks'[c].st = "found" => blocks[c].st = "found"
               /\ blocks'[c].st = "locked" => blocks[c].st \in {"found", "locked"}
    BY <1>3, <1>4, <1>5 DEF Kept
  <1> QED BY <1>2, <1>6, <1>7, BlocksStep

\* The cleaner moves and marks nothing that was not marked.
LEMMA CleanerStep ==
    ASSUME IInv, UNCHANGED <<tip, diff, vol, blocks>>, gone' \subseteq Heights, cl' \in Cleaners,
           faults' \in 0..MaxFaults, NoneMarked, CleanerOK',
           \A b \in Locked : Overlooked(b)' => Overlooked(b)
    PROVE  IInv'
  <1>1. TypeOK'
    BY DEF IInv, TypeOK, Cleaners
  <1>2. ASSUME NEW b \in Kept' PROVE StillKept(b) /\ (Overlooked(b)' => Overlooked(b))
    <2>1. b \in Kept /\ b \in Blocks
      BY DEF Kept
    <2>2. StillKept(b)
      BY <2>1 DEF StillKept
    <2>3. Overlooked(b)' => Overlooked(b)
      <3>1. CASE b \in Locked
        BY <3>1
      <3>2. CASE b \notin Locked
        BY <2>1, <3>2 DEF Overlooked, Locked
      <3> QED BY <3>1, <3>2
    <2> QED BY <2>2, <2>3
  <1>3. HeightsOK'
    BY DEF IInv, HeightsOK
  <1> QED BY <1>1, <1>2, <1>3, QuietStep

LEMMA NowIs ==
    ASSUME TypeOK
    PROVE  cl \in Cleaners /\ faults \in 0..MaxFaults /\ gone \subseteq Heights
  BY DEF TypeOK, Cleaners

\* A cleanup that ends leaves nothing behind.
LEMMA StopStep ==
    ASSUME IInv, UNCHANGED <<tip, diff, vol, gone, blocks>>, cl' = Idle, faults' \in 0..MaxFaults
    PROVE  IInv'
  <1>1. gone' \subseteq Heights /\ cl' \in Cleaners /\ NoneMarked
    BY NowIs, IdleIs DEF IInv, NoneMarked, Idle
  <1>2. CleanerOK'
    BY DEF CleanerOK, Idle
  <1>3. \A b \in Locked : ~ Overlooked(b)'
    BY DEF Locked, Overlooked, Idle
  <1> QED BY <1>1, <1>2, <1>3, CleanerStep

LEMMA RetryStep ==
    ASSUME IInv, UNCHANGED <<tip, diff, vol, gone, blocks>>, cl.st = "ask", Retry,
           faults' \in 0..MaxFaults
    PROVE  IInv'
  <1>1. cl \in Cleaners /\ cl.tries \in Nat
    BY NowIs, Sizes DEF IInv, Cleaners
  <1>2. CASE cl.tries + 1 >= Retries
    BY <1>2, StopStep DEF Retry, Abort
  <1>3. CASE ~ (cl.tries + 1 >= Retries)
    <2> DEFINE n == cl.tries + 1
    <2>1. n \in 0..Retries
      BY <1>1, <1>3, Sizes
    <2>2. cl' = [cl EXCEPT !.tries = n]
      BY <1>3 DEF Retry
    <2> HIDE DEF n
    <2>3. cl' \in Cleaners /\ cl'.st = cl.st /\ cl'.oldest = cl.oldest /\ cl'.todo = cl.todo
      BY <1>1, <2>1, <2>2 DEF Cleaners
    <2>4. gone' \subseteq Heights /\ NoneMarked
      BY <2>3, NowIs DEF IInv, NoneMarked
    <2>5. CleanerOK'
      BY <2>3 DEF IInv, CleanerOK
    <2>6. \A b \in Locked : Overlooked(b)' => Overlooked(b)
      BY <2>3 DEF Overlooked
    <2> QED BY <2>3, <2>4, <2>5, <2>6, CleanerStep
  <1> QED BY <1>2, <1>3

LEMMA OldestIs ==
    ASSUME IInv, Oldest # NoHeight \/ Locked # {}
    PROVE  Oldest \in Heights /\ \A b \in Locked : Oldest <= blocks[b].h
  <1>1. Locked # {}
    BY DEF Oldest
  <1> DEFINE H == {blocks[b].h : b \in Locked}
  <1>2. ASSUME NEW b \in Locked PROVE blocks[b].h \in Heights
    <2>1. b \in Kept
      BY DEF Locked, Kept
    <2> QED BY <2>1, KeptIs DEF IInv
  <1>3. H \subseteq Heights /\ H # {}
    BY <1>1, <1>2
  <1>4. Oldest = Min(H)
    BY <1>1 DEF Oldest
  <1>5. \A b \in Locked : blocks[b].h \in H
    OBVIOUS
  <1> HIDE DEF H
  <1>6. H \subseteq Nat /\ IsFiniteSet(H)
    BY <1>3, HeightsAre, FS_Subset
  <1>7. Min(H) \in H /\ \A y \in H : Min(H) <= y
    BY <1>3, <1>6, MinLeast
  <1> QED BY <1>3, <1>4, <1>5, <1>7

LEMMA StartCleanKeeps ==
    ASSUME IInv, StartClean
    PROVE  IInv'
  <1>1. UNCHANGED <<tip, diff, vol, gone, blocks, faults>>
    BY DEF StartClean
  <1> DEFINE S == IF Oldest = NoHeight THEN "top" ELSE "ask"
  <1>2. cl' = [Idle EXCEPT !.st = S, !.oldest = Oldest]
    BY DEF StartClean
  <1>3. S \in {"ask", "top"} /\ (S = "ask" <=> Oldest # NoHeight)
    OBVIOUS
  <1> HIDE DEF S
  <1>4. cl' = [st |-> S, oldest |-> Oldest, d |-> 0, tries |-> 0, todo |-> {}]
    BY <1>2 DEF Idle
  <1>5. Oldest \in Heights \cup {NoHeight}
    BY OldestIs
  <1>6. 0 \in 0..Retries
    BY Sizes
  <1>7. cl' \in Cleaners
    BY <1>3, <1>4, <1>5, <1>6 DEF Cleaners
  <1>8. cl'.st = S /\ cl'.oldest = Oldest /\ cl'.todo = {}
    BY <1>4
  <1>9. gone' \subseteq Heights /\ faults' \in 0..MaxFaults /\ NoneMarked
    BY <1>1, <1>8, NowIs DEF IInv, NoneMarked
  <1>10. CleanerOK'
    BY <1>3, <1>8 DEF CleanerOK
  <1>11. ASSUME NEW b \in Locked PROVE ~ Overlooked(b)'
    <2>1. Oldest \in Heights /\ Oldest <= blocks[b].h
      BY OldestIs
    <2>2. Oldest \in Nat /\ Oldest # NoHeight /\ blocks[b].h \in Nat
      BY <2>1, HeightsAre, BlockFields DEF IInv, Locked, NoHeight
    <2>3. blocks'[b].st = "locked"
      BY <1>1 DEF Locked
    <2> QED BY <1>1, <1>8, <2>1, <2>2, <2>3 DEF Overlooked
  <1> QED BY <1>1, <1>7, <1>9, <1>10, <1>11, CleanerStep

LEMMA HeaderByIDKeeps ==
    ASSUME IInv, HeaderByID
    PROVE  IInv'
  <1>1. UNCHANGED <<tip, diff, vol, gone, blocks, faults>> /\ cl.st = "ask" /\ cl.oldest <= tip
    BY DEF HeaderByID
  <1>2. cl \in Cleaners /\ cl.oldest # NoHeight
    BY <1>1, NowIs DEF IInv, CleanerOK
  <1> DEFINE D == diff[cl.oldest]
  <1>3. D \in Diffs
    <2>1. cl.oldest \in Heights
      BY <1>2 DEF Cleaners
    <2> QED BY <2>1, StateIs DEF IInv
  <1>4. cl' = [cl EXCEPT !.st = "top", !.d = D]
    BY DEF HeaderByID
  <1> HIDE DEF D
  <1>5. cl = [st |-> cl.st, oldest |-> cl.oldest, d |-> cl.d, tries |-> cl.tries, todo |-> cl.todo]
    BY <1>2, Zenon DEF Cleaners
  <1>6. cl' = [st |-> "top", oldest |-> cl.oldest, d |-> D, tries |-> cl.tries, todo |-> cl.todo]
    BY <1>2, <1>4 DEF Cleaners
  <1>7. cl' \in Cleaners
    BY <1>2, <1>3, <1>6 DEF Cleaners
  <1>8. cl'.st = "top" /\ cl'.oldest = cl.oldest /\ cl'.d = D /\ cl'.todo = cl.todo
    BY <1>6
  <1>9. gone' \subseteq Heights /\ faults' \in 0..MaxFaults /\ NoneMarked
    BY <1>1, <1>8, NowIs DEF IInv, NoneMarked
  <1>10. CleanerOK'
    BY <1>1, <1>3, <1>8 DEF IInv, CleanerOK
  <1>11. \A b \in Locked : Overlooked(b)' => Overlooked(b)
    BY <1>1, <1>8 DEF Overlooked
  <1> QED BY <1>1, <1>7, <1>9, <1>10, <1>11, CleanerStep

LEMMA DeleteBatchKeeps ==
    ASSUME IInv, DeleteBatch
    PROVE  IInv'
  <1>1. /\ UNCHANGED <<tip, diff, vol, blocks, faults>> /\ cl.st = "delete"
        /\ gone' = gone \cup Lowest
    BY DEF DeleteBatch
  <1>2. Lowest \subseteq cl.todo
    BY DEF Lowest
  <1>3. cl \in Cleaners /\ cl.todo \subseteq Heights /\ gone \subseteq Heights
    BY NowIs, StateIs DEF IInv
  <1>4. gone' \subseteq Heights /\ faults' \in 0..MaxFaults
    BY <1>1, <1>2, <1>3, NowIs DEF IInv
  <1>5. CASE cl.todo = Lowest
    <2>1. cl' = Idle
      BY <1>5 DEF DeleteBatch
    <2>2. cl' \in Cleaners /\ NoneMarked
      BY <1>1, <1>2, <2>1, IdleIs DEF NoneMarked, Idle
    <2>3. CleanerOK'
      BY <2>1 DEF CleanerOK, Idle
    <2>4. \A b \in Locked : ~ Overlooked(b)'
      BY <1>1, <2>1 DEF Locked, Overlooked, Idle
    <2> QED BY <1>1, <1>4, <2>2, <2>3, <2>4, CleanerStep
  <1>6. CASE cl.todo # Lowest
    <2> DEFINE L == cl.todo \ Lowest
    <2>1. cl' = [cl EXCEPT !.todo = L]
      BY <1>6 DEF DeleteBatch
    <2>2. L \subseteq cl.todo
      OBVIOUS
    <2> HIDE DEF L
    <2>3. cl' \in Cleaners /\ cl'.st = "delete" /\ cl'.todo = L
      BY <1>1, <1>3, <2>1, <2>2 DEF Cleaners
    <2>4. NoneMarked
      BY <1>1, <1>2, <2>2, <2>3 DEF NoneMarked
    <2>5. CleanerOK'
      BY <2>3 DEF CleanerOK
    <2>6. \A b \in Locked : ~ Overlooked(b)'
      BY <1>1, <2>3 DEF Locked, Overlooked
    <2> QED BY <1>1, <1>4, <2>3, <2>4, <2>5, <2>6, CleanerStep
  <1> QED BY <1>5, <1>6

LEMMA StoredIs ==
    ASSUME TypeOK
    PROVE  Stored \in Volumes /\ \A k \in Heights : Stored[k] <= vol[k] /\ (k \notin gone => Stored[k] = vol[k])
  <1>1. \A k \in Heights : vol[k] \in Nat
    BY StateIs DEF Volumes
  <1> QED BY <1>1 DEF Stored, Volumes

\* scanShares: above every height it picks lie two windows, below where it starts.
LEMMA DoomedIs ==
    ASSUME IInv, cl.st = "top", NEW k \in Doomed(CleanTop, CleanNeed)
    PROVE  /\ CleanTop \in Nat /\ CleanTop <= tip
           /\ k \in Heights /\ Total(vol, k + 1, CleanTop - 1) >= 2 * Multi * Min(Diffs)
  <1>1. /\ cl \in Cleaners /\ tip \in Heights /\ tip \in Nat /\ vol \in Volumes
        /\ \A h \in Heights : diff[h] \in Diffs
    BY NowIs, StateIs DEF IInv, TypeOK
  <1>2. CleanTop \in Nat /\ CleanTop <= tip
    <2>1. cl.oldest \in Heights \cup {NoHeight}
      BY <1>1 DEF Cleaners
    <2> QED BY <1>1, <2>1, HeightsAre DEF CleanTop, IInv, CleanerOK, NoHeight
  <1>3. PICK d \in Diffs : CleanNeed = 2 * Multi * d
    BY <1>1 DEF CleanNeed, IInv, CleanerOK
  <1>4. 2 * Multi * Min(Diffs) <= CleanNeed /\ CleanNeed \in Nat /\ 2 * Multi * Min(Diffs) \in Nat
    BY <1>3, NeedsAre
  <1>5. k \in Heights /\ Total(Stored, k + 1, CleanTop - 1) >= CleanNeed
    BY DEF Doomed
  <1>6. Stored \in Volumes /\ \A h \in Heights : Stored[h] <= vol[h]
    BY StoredIs DEF IInv
  <1>7. Total(Stored, k + 1, CleanTop - 1) <= Total(vol, k + 1, CleanTop - 1)
    BY <1>1, <1>6, TotalGrows
  <1>8. Total(Stored, k + 1, CleanTop - 1) \in Nat /\ Total(vol, k + 1, CleanTop - 1) \in Nat
    BY <1>1, <1>6, TotalNat
  <1> QED BY <1>2, <1>4, <1>5, <1>7, <1>8

LEMMA DoomedIsCounted ==
    ASSUME IInv, cl.st = "top", NEW k \in Doomed(CleanTop, CleanNeed)
    PROVE  Total(vol, k + 1, tip) >= 2 * Multi * Min(Diffs)
  <1> DEFINE top == CleanTop
  <1>1. top \in Nat /\ top <= tip /\ k \in Heights /\ Total(vol, k + 1, top - 1) >= 2 * Multi * Min(Diffs)
    BY DoomedIs
  <1>2. tip \in Nat /\ vol \in Volumes /\ k \in Int
    BY <1>1, StateIs, HeightsAre DEF IInv
  <1> HIDE DEF top
  <1>3. Total(vol, k + 1, top - 1) <= Total(vol, k + 1, tip)
    <2>1. k + 1 \in Int /\ top - 1 \in Int /\ tip \in Int /\ k + 1 <= k + 1 /\ top - 1 <= tip
      BY <1>1, <1>2
    <2> QED BY <1>2, <2>1, TotalWider
  <1>4. /\ Total(vol, k + 1, top - 1) \in Nat /\ Total(vol, k + 1, tip) \in Nat
        /\ 2 * Multi * Min(Diffs) \in Nat
    BY <1>2, TotalNat, NeedsAre
  <1> QED BY <1>1, <1>3, <1>4

\* Whether the cleanup knew of a block or not, it leaves the block its window.
LEMMA DoomedIsCovered ==
    ASSUME IInv, cl.st = "top", NEW b \in Kept, NEW k \in Doomed(CleanTop, CleanNeed)
    PROVE  Total(vol, k + 1, PayFrom(b)) >= Multi * Max(Diffs)
  <1> DEFINE top == CleanTop
  <1>1. top \in Nat /\ top <= tip /\ k \in Heights /\ Total(vol, k + 1, top - 1) >= 2 * Multi * Min(Diffs)
    BY DoomedIs
  <1>2. tip \in Nat /\ vol \in Volumes /\ k \in Int /\ PayFrom(b) \in Int /\ blocks[b].h \in Nat
    BY <1>1, StateIs, HeightsAre, KeptIs DEF IInv
  <1>3. Unseen(b) <= Late
    BY DEF IInv, Timely, Kept
  <1>4. CASE Overlooked(b)
    <2>1. Total(vol, PayFrom(b) + 1, tip) <= Late
      BY <1>3, <1>4 DEF Unseen
    <2>2. Total(vol, k + 1, tip) >= 2 * Multi * Min(Diffs)
      BY DoomedIsCounted
    <2>3. tip \in Int
      BY <1>2
    <2> QED BY <1>2, <2>1, <2>2, <2>3, Reach
  <1>5. CASE ~ Overlooked(b)
    <2>1. Total(vol, PayFrom(b) + 1, blocks[b].h - 1) <= Late
      BY <1>3, <1>5 DEF Unseen
    <2>2. top <= blocks[b].h
      <3>1. cl.oldest # NoHeight /\ ~ (cl.oldest > blocks[b].h)
        BY <1>5 DEF Overlooked, Kept
      <3>2. cl.oldest \in Nat /\ top = cl.oldest
        BY <3>1, NowIs, HeightsAre DEF IInv, Cleaners, CleanTop, NoHeight
      <3> QED BY <1>2, <3>1, <3>2
    <2> HIDE DEF top
    <2>3. k + 1 \in Int /\ top - 1 \in Int /\ blocks[b].h - 1 \in Int /\ top - 1 <= blocks[b].h - 1
          /\ k + 1 <= k + 1
      BY <1>1, <1>2, <2>2
    <2>4. Total(vol, k + 1, top - 1) <= Total(vol, k + 1, blocks[b].h - 1)
      BY <1>2, <2>3, TotalWider
    <2>5. /\ Total(vol, k + 1, top - 1) \in Nat /\ Total(vol, k + 1, blocks[b].h - 1) \in Nat
          /\ 2 * Multi * Min(Diffs) \in Nat
      BY <1>2, TotalNat, NeedsAre
    <2>6. Total(vol, k + 1, blocks[b].h - 1) >= 2 * Multi * Min(Diffs)
      BY <1>1, <2>4, <2>5
    <2> QED BY <1>2, <2>1, <2>3, <2>6, Reach
  <1> QED BY <1>4, <1>5

LEMMA LastHeaderKeeps ==
    ASSUME IInv, LastHeader
    PROVE  IInv'
  <1>1. UNCHANGED <<tip, diff, vol, gone, blocks, faults>> /\ cl.st = "top"
    BY DEF LastHeader
  <1> DEFINE D == Doomed(CleanTop, CleanNeed)
             L == IF BlockCleaner THEN D ELSE {}
  <1>2. cl' = IF L = {} THEN Idle ELSE [Idle EXCEPT !.st = "delete", !.todo = L]
    BY DEF LastHeader
  <1>3. L \subseteq D
    OBVIOUS
  <1>4. D \subseteq Heights
    BY DEF Doomed
  <1>5. ASSUME NEW k \in D
        PROVE  /\ Total(vol, k + 1, tip) >= 2 * Multi * Min(Diffs)
               /\ \A b \in Kept : Total(vol, k + 1, PayFrom(b)) >= Multi * Max(Diffs)
    BY <1>1, DoomedIsCounted, DoomedIsCovered
  <1> HIDE DEF D, L
  <1>6. CASE L = {}
    <2>1. cl' = Idle /\ faults' \in 0..MaxFaults
      BY <1>1, <1>2, <1>6, NowIs DEF IInv
    <2> QED BY <1>1, <2>1, StopStep
  <1>7. CASE L # {}
    <2>1. cl' = [st |-> "delete", oldest |-> NoHeight, d |-> 0, tries |-> 0, todo |-> L]
      BY <1>2, <1>7 DEF Idle
    <2>2. cl' \in Cleaners
      <3>1. 0 \in 0..Retries
        BY Sizes
      <3> QED BY <1>3, <1>4, <2>1, <3>1 DEF Cleaners
    <2>3. TypeOK'
      BY <1>1, <2>2, NowIs DEF IInv, TypeOK, Cleaners
    <2>4. CleanerOK'
      BY <2>1 DEF CleanerOK
    <2>5. HeightsOK'
      BY <1>1 DEF IInv, HeightsOK
    <2>6. Marked' = gone \cup L /\ Kept' = Kept
      BY <1>1, <2>1 DEF Marked, Kept
    <2>7. \A b : PayFrom(b)' = PayFrom(b)
      BY <1>1 DEF PayFrom
    <2>8. gone \subseteq Marked
      BY DEF Marked
    <2>9. Counted'
      <3> SUFFICES ASSUME NEW k \in Marked' PROVE Total(vol, k + 1, tip) >= 2 * Multi * Min(Diffs)
        BY <1>1 DEF Counted
      <3>1. k \in Marked \/ k \in D
        BY <1>3, <2>6, <2>8
      <3> QED BY <1>5, <3>1 DEF IInv, Counted
    <2>10. Covered'
      <3> SUFFICES ASSUME NEW b \in Kept', NEW k \in Marked'
                   PROVE  Total(vol, k + 1, PayFrom(b)) >= Multi * Max(Diffs)
        BY <1>1, <2>7 DEF Covered
      <3>1. b \in Kept /\ (k \in Marked \/ k \in D)
        BY <1>3, <2>6, <2>8
      <3> QED BY <1>5, <3>1 DEF IInv, Covered
    <2>11. Timely'
      <3>1. \A b \in Kept' : StillKept(b)
        BY <1>1, <2>6 DEF StillKept
      <3>2. \A b \in Kept' : Overlooked(b)' => Overlooked(b)
        BY <1>1, <2>1 DEF Overlooked
      <3> QED BY <1>1, <3>1, <3>2, TimelyStays DEF IInv
    <2> QED BY <2>3, <2>4, <2>5, <2>9, <2>10, <2>11 DEF IInv
  <1> QED BY <1>6, <1>7
-----------------------------------------------------------------------------
(* The specification *)

LEMMA OutcomeKeeps ==
    ASSUME IInv, HeaderNotThere \/ HeaderByIDFails \/ LastHeaderFails \/ LongRunnerCrash
    PROVE  IInv'
  <1>1. UNCHANGED <<tip, diff, vol, gone, blocks>>
    BY DEF HeaderNotThere, HeaderByIDFails, LastHeaderFails, LongRunnerCrash
  <1>2. faults \in 0..MaxFaults /\ (faults < MaxFaults => faults + 1 \in 0..MaxFaults)
    BY NowIs, Sizes DEF IInv
  <1>3. CASE HeaderNotThere
    BY <1>1, <1>2, <1>3, RetryStep DEF HeaderNotThere
  <1>4. CASE HeaderByIDFails
    BY <1>1, <1>2, <1>4, RetryStep DEF HeaderByIDFails
  <1>5. CASE LastHeaderFails
    BY <1>1, <1>2, <1>5, StopStep DEF LastHeaderFails, Abort
  <1>6. CASE LongRunnerCrash
    BY <1>1, <1>2, <1>6, StopStep DEF LongRunnerCrash
  <1> QED BY <1>3, <1>4, <1>5, <1>6

LEMMA UnchangedKeeps ==
    ASSUME IInv, UNCHANGED vars
    PROVE  IInv'
  <1>1. UNCHANGED <<tip, diff, vol, gone, cl, faults>> /\ blocks' = blocks
    BY DEF vars
  <1>2. blocks' \in [Blocks -> Records]
    BY <1>1 DEF IInv, TypeOK, Records
  <1>3. Kept' = Kept
    BY <1>1 DEF Kept
  <1> QED BY <1>1, <1>2, <1>3, BlocksStep

LEMMA StepHolds == IInv /\ [Next]_vars => IInv'
  <1> SUFFICES ASSUME IInv, [Next]_vars PROVE IInv'
    OBVIOUS
  <1>1. CASE \E k \in Heights : AddShare(k)
    BY <1>1, AddShareKeeps
  <1>2. CASE NewBlock
    BY <1>2, NewBlockKeeps
  <1>3. CASE \E b \in Blocks : FindMain(b) \/ FindAlt(b) \/ Record(b) \/ PreCalc(b)
    <2>1. PICK b \in Blocks : FindMain(b) \/ FindAlt(b) \/ Record(b) \/ PreCalc(b)
      BY <1>3
    <2> QED BY <2>1, FindMainKeeps, FindAltKeeps, RecordKeeps, PreCalcKeeps
  <1>4. CASE StartClean
    BY <1>4, StartCleanKeeps
  <1>5. CASE HeaderByID
    BY <1>5, HeaderByIDKeeps
  <1>6. CASE LastHeader
    BY <1>6, LastHeaderKeeps
  <1>7. CASE DeleteBatch
    BY <1>7, DeleteBatchKeeps
  <1>8. CASE HeaderNotThere \/ HeaderByIDFails \/ LastHeaderFails \/ LongRunnerCrash
    BY <1>8, OutcomeKeeps
  <1>9. CASE CleanRefused \/ UNCHANGED vars
    <2>1. UNCHANGED vars
      BY <1>9 DEF CleanRefused
    <2> QED BY <2>1, UnchangedKeeps
  <1> QED
    BY <1>1, <1>2, <1>3, <1>4, <1>5, <1>6, <1>7, <1>8, <1>9 DEF Next, Cleaning

\* Whatever is mined, found, recorded, paid and cleaned, in any order and with
\* any failure of cleanShareDB: what will be deleted was counted out of reach.
THEOREM InvariantHolds == Spec => []IInv
  BY InitHolds, StepHolds, PTL DEF Spec

\* The chain, the blocks and the locals of the cleaner keep their types.
THEOREM TypeCorrect == Spec => []TypeOK
  <1>1. IInv => TypeOK
    BY DEF IInv
  <1> QED BY <1>1, InvariantHolds, PTL

\* Both counts of one height agree, or both have the need counted above it.
LEMMA WindowSame ==
    ASSUME IInv, NEW b \in Locked, NEW k \in Heights, k <= PayFrom(b)
    PROVE  Min({Stored[k], Max({0, PayNeed(b) - Total(Stored, k + 1, PayFrom(b))})})
             = Min({vol[k], Max({0, PayNeed(b) - Total(vol, k + 1, PayFrom(b))})})
  <1> DEFINE from == PayFrom(b)
             need == PayNeed(b)
             G == {j \in gone : k <= j /\ j <= from}
  <1>1. b \in Kept
    BY DEF Locked, Kept
  <1>2. from \in Heights /\ diff[from] \in Diffs
    BY <1>1, KeptIs DEF IInv
  <1>3. need \in Nat /\ need <= Multi * Max(Diffs) /\ Multi * Max(Diffs) \in Nat
    BY <1>2, NeedsAre DEF PayNeed
  <1>4. /\ Stored \in Volumes /\ vol \in Volumes /\ gone \subseteq Heights
        /\ \A h \in Heights : Stored[h] <= vol[h] /\ (h \notin gone => Stored[h] = vol[h])
    BY StoredIs, StateIs DEF IInv
  <1>5. k \in Int /\ from \in Int /\ G \subseteq Heights
    BY <1>2, <1>4, HeightsAre
  <1>6. CASE G = {}
    <2>1. \A h \in Heights : k + 1 <= h /\ h <= from => Stored[h] = vol[h]
      <3> SUFFICES ASSUME NEW h \in Heights, k + 1 <= h, h <= from PROVE h \notin gone
        BY <1>4
      <3>1. h \in Int /\ k <= h
        BY <1>5, HeightsAre
      <3> QED BY <1>6, <3>1
    <2>2. Stored[k] = vol[k]
      <3>1. k \notin gone
        BY <1>5, <1>6
      <3> QED BY <1>4, <3>1
    <2> HIDE DEF from, need, G
    <2>3. Total(Stored, k + 1, from) = Total(vol, k + 1, from)
      BY <1>4, <2>1, TotalSame
    <2> QED BY <2>2, <2>3 DEF from, need
  <1>7. CASE G # {}
    <2>1. G \subseteq Nat /\ IsFiniteSet(G)
      BY <1>5, HeightsAre, FS_Subset
    <2>2. PICK j \in G : \A h \in G : j >= h
      <3> HIDE DEF G
      <3> QED BY <1>7, <2>1, LargestIn
    <2>3. j \in gone /\ j \in Int /\ k <= j /\ j <= from
      BY <2>1, <2>2
    <2>4. \A h \in Heights : j + 1 <= h /\ h <= from => Stored[h] = vol[h]
      <3> SUFFICES ASSUME NEW h \in Heights, j + 1 <= h, h <= from PROVE h \notin gone
        BY <1>4
      <3>1. h \in Int /\ j < h /\ k <= h
        BY <1>5, <2>3, HeightsAre
      <3> QED BY <2>2, <2>3, <3>1
    <2>5. Total(vol, j + 1, from) >= Multi * Max(Diffs)
      BY <1>1, <2>3 DEF IInv, Covered, Marked
    <2> HIDE DEF from, need, G
    <2>6. Total(Stored, j + 1, from) = Total(vol, j + 1, from)
      BY <1>4, <2>4, TotalSame
    <2>7. /\ Total(Stored, j + 1, from) <= Total(Stored, k + 1, from)
          /\ Total(vol, j + 1, from) <= Total(vol, k + 1, from)
      <3>1. j + 1 \in Int /\ k + 1 \in Int /\ k + 1 <= j + 1 /\ from <= from
        BY <1>5, <2>3
      <3> QED BY <1>4, <1>5, <3>1, TotalWider
    <2>8. /\ Total(Stored, j + 1, from) \in Nat /\ Total(Stored, k + 1, from) \in Nat
          /\ Total(vol, j + 1, from) \in Nat /\ Total(vol, k + 1, from) \in Nat
      BY <1>4, TotalNat
    <2>9. /\ need - Total(Stored, k + 1, from) \in Int /\ need - Total(Stored, k + 1, from) <= 0
          /\ need - Total(vol, k + 1, from) \in Int /\ need - Total(vol, k + 1, from) <= 0
      BY <1>3, <2>5, <2>6, <2>7, <2>8
    <2>10. /\ Max({0, need - Total(Stored, k + 1, from)}) = 0
           /\ Max({0, need - Total(vol, k + 1, from)}) = 0
      BY <2>9, MaxWithZero
    <2>11. Stored[k] \in Nat /\ vol[k] \in Nat
      BY <1>4 DEF Volumes
    <2>12. Min({Stored[k], 0}) = 0 /\ Min({vol[k], 0}) = 0
      BY <2>11, MinWithZero
    <2> QED BY <2>10, <2>12 DEF from, need
  <1> QED BY <1>6, <1>7

\* A recorded block finds the window of collectPplnsSharePayments whole,
\* whatever cleanShareDB deleted, decided before it knew of the block or left
\* half done.
THEOREM WindowIsWholeHolds == Spec => []WindowIsWhole
  <1>1. IInv => WindowIsWhole
    <2> SUFFICES ASSUME IInv, NEW b \in Locked
                 PROVE  Window(Stored, PayFrom(b), PayNeed(b)) = Window(vol, PayFrom(b), PayNeed(b))
      BY DEF WindowIsWhole
    <2> DEFINE from == PayFrom(b)
               need == PayNeed(b)
               W(V, k) == IF k > from THEN 0 ELSE Min({V[k], Max({0, need - Total(V, k + 1, from)})})
    <2>1. b \in Kept
      BY DEF Locked, Kept
    <2>2. from \in Int
      BY <2>1, KeptIs, HeightsAre DEF IInv
    <2>3. ASSUME NEW k \in Heights PROVE W(Stored, k) = W(vol, k)
      <3>1. k \in Int
        BY HeightsAre
      <3>2. CASE k > from
        BY <3>2
      <3>3. CASE ~ (k > from)
        <4>1. k <= PayFrom(b)
          BY <2>2, <3>1, <3>3
        <4> QED BY <3>3, <4>1, WindowSame
      <3> QED BY <3>2, <3>3
    <2>4. \A V : Window(V, from, need) = [k \in Heights |-> W(V, k)]
      BY DEF Window
    <2> HIDE DEF W, from, need
    <2>5. Window(Stored, from, need) = Window(vol, from, need)
      BY <2>3, <2>4
    <2> QED BY <2>5 DEF from, need
  <1> QED BY <1>1, InvariantHolds, PTL
=============================================================================
