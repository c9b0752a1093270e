------------------------- MODULE PendingBlocksProofs -------------------------
(***************************************************************************)
(* Theorems about PendingBlocks, for any blocks, keys and limits: the types *)
(* of its state, RecordedOnce, OnlyOrphansFinalized, and that it implements *)
(* BlockDelivery.                                                           *)
(*                                                                          *)
(* One inductive invariant carries them.  A running sweep is a part of the  *)
(* job store without repetition (Loading leaves the jobs in the store, and  *)
(* only the primary removes any); a resolved job's block is in the tables;  *)
(* every slot between the one a block asked for and the one it has is       *)
(* taken, which is what makes probing end at the block's own record; and a  *)
(* block whose orphan grace is over is out of every reorganisation's reach. *)
(***************************************************************************)
EXTENDS PendingBlocks, TLAPS, SequenceTheorems, FiniteSetTheorems, WellFoundedInduction

SweepInStore ==
    /\ Range(work) \subseteq Range(jobs) /\ IsInjective(work)
    /\ resolved => work # <<>> /\ Recorded(Head(work))

\* Probing from the asked key passes taken slots only.
ProbedFrom ==
    /\ \A s \in Slots : altblockDB[s].hash = NoBlock => altblockDB[s] = Empty
    /\ \A t \in Slots : altblockDB[t].hash # NoBlock =>
         LET b == altblockDB[t].hash
         IN /\ b \in AltBlocks /\ Id[b] <= t
            /\ \A s \in Slots : Id[b] <= s /\ s < t => altblockDB[s].hash \notin {b, NoBlock}

GraceIsLong ==
    /\ \A b \in settled : Siblings(b) \subseteq settled
    /\ \A b \in Blocks : orphanSince[b] = "old" => b \in settled

IInv == TypeOK /\ SweepInStore /\ ProbedFrom /\ RecordedOnce /\ GraceIsLong /\ OnlyOrphansFinalized

-----------------------------------------------------------------------------
(* Sequences *)

\* Taking a job out of a schedule without repetition takes out that job and no
\* other.
LEMMA RemoveAtIs ==
  ASSUME NEW S, NEW s \in Seq(S), IsInjective(s), NEW i \in 1..Len(s)
  PROVE  /\ RemoveAt(s, i) \in Seq(S) /\ Len(RemoveAt(s, i)) = Len(s) - 1
         /\ IsInjective(RemoveAt(s, i))
         /\ Range(RemoveAt(s, i)) = Range(s) \ {s[i]}
<1> DEFINE l == SubSeq(s, 1, i - 1)
           r == SubSeq(s, i + 1, Len(s))
           t == RemoveAt(s, i)
<1>1. Len(s) \in Nat /\ DOMAIN s = 1..Len(s)
  BY LenProperties
<1>2. \A k \in 1..Len(s) : s[k] \in S
  BY ElementOfSeq
<1>3. l \in Seq(S) /\ Len(l) = i - 1 /\ \A k \in 1..(i - 1) : l[k] = s[k]
  <2>1. \A k \in 1..(i - 1) : s[k] \in S
    BY <1>1, <1>2
  <2>2. /\ SubSeq(s, 1, i - 1) \in Seq(S)
        /\ Len(SubSeq(s, 1, i - 1)) = IF 1 <= i - 1 THEN i - 1 - 1 + 1 ELSE 0
        /\ \A k \in 1..(i - 1 - 1 + 1) : SubSeq(s, 1, i - 1)[k] = s[1 + k - 1]
    BY <2>1, <1>1, SubSeqProperties
  <2> QED  BY <2>2, <1>1
<1>4. r \in Seq(S) /\ Len(r) = Len(s) - i /\ \A k \in 1..(Len(s) - i) : r[k] = s[i + k]
  <2>1. \A k \in (i + 1)..Len(s) : s[k] \in S
    BY <1>1, <1>2
  <2>2. /\ SubSeq(s, i + 1, Len(s)) \in Seq(S)
        /\ Len(SubSeq(s, i + 1, Len(s))) = IF i + 1 <= Len(s) THEN Len(s) - (i + 1) + 1 ELSE 0
        /\ \A k \in 1..(Len(s) - (i + 1) + 1) : SubSeq(s, i + 1, Len(s))[k] = s[i + 1 + k - 1]
    BY <2>1, <1>1, SubSeqProperties
  <2> HIDE DEF r
  <2>3. r \in Seq(S) /\ Len(r) = (IF i + 1 <= Len(s) THEN Len(s) - (i + 1) + 1 ELSE 0)
    BY <2>2 DEF r
  <2> DEFINE n == Len(s)
  <2>4. n \in Nat /\ i \in 1..n
    BY <1>1
  <2> HIDE DEF n
  <2>5. (IF i + 1 <= n THEN n - (i + 1) + 1 ELSE 0) = n - i
    BY <2>4
  <2>6. Len(r) = Len(s) - i
    BY <2>3, <2>5 DEF n
  <2>7. ASSUME NEW k \in 1..(Len(s) - i)
        PROVE  r[k] = s[i + k]
    <3>1. k \in 1..(n - (i + 1) + 1) /\ i + 1 + k - 1 = i + k
      BY <2>4 DEF n
    <3> QED  BY <2>2, <3>1 DEF r, n
  <2> QED  BY <2>3, <2>6, <2>7
<1> HIDE DEF l, r
<1>5. t = l \o r
  BY DEF t, RemoveAt, l, r
<1>6. t \in Seq(S) /\ Len(t) = Len(s) - 1 /\ DOMAIN t = 1..(Len(s) - 1)
  <2>1. l \o r \in Seq(S) /\ Len(l \o r) = Len(l) + Len(r)
    BY <1>3, <1>4, ConcatProperties
  <2>2. i - 1 + (Len(s) - i) = Len(s) - 1
    BY <1>1
  <2>3. t \in Seq(S) /\ Len(t) = Len(s) - 1
    BY <2>1, <2>2, <1>3, <1>4, <1>5
  <2> QED  BY <2>3, LenProperties
<1>7. \A k \in 1..(Len(s) - 1) : t[k] = IF k < i THEN s[k] ELSE s[k + 1]
  <2>1. \A k \in 1..(Len(l) + Len(r)) : (l \o r)[k] = IF k <= Len(l) THEN l[k] ELSE r[k - Len(l)]
    BY <1>3, <1>4, ConcatProperties
  <2>2. ASSUME NEW k \in 1..(Len(s) - 1), k < i
        PROVE  t[k] = s[k]
    <3>1. k \in 1..(Len(l) + Len(r)) /\ k <= Len(l) /\ k \in 1..(i - 1)
      BY <2>2, <1>1, <1>3, <1>4
    <3> QED  BY <3>1, <2>1, <1>3, <1>5
  <2>3. ASSUME NEW k \in 1..(Len(s) - 1), ~(k < i)
        PROVE  t[k] = s[k + 1]
    <3>1. /\ k \in 1..(Len(l) + Len(r)) /\ ~(k <= Len(l))
          /\ k - Len(l) \in 1..(Len(s) - i) /\ i + (k - Len(l)) = k + 1
      BY <2>3, <1>1, <1>3, <1>4
    <3> QED  BY <3>1, <2>1, <1>4, <1>5
  <2> QED  BY <2>2, <2>3
<1> HIDE DEF t
<1>8. IsInjective(t)
  <2> SUFFICES ASSUME NEW j \in 1..(Len(s) - 1), NEW k \in 1..(Len(s) - 1), j < k, t[j] = t[k]
               PROVE  FALSE
    BY <1>1, <1>6 DEF IsInjective
  <2>1. \A g, h \in 1..Len(s) : s[g] = s[h] => g = h
    BY <1>1 DEF IsInjective
  <2>2. CASE k < i
    BY <2>1, <2>2, <1>1, <1>7
  <2>3. CASE j < i /\ ~(k < i)
    BY <2>1, <2>3, <1>1, <1>7
  <2>4. CASE ~(j < i)
    BY <2>1, <2>4, <1>1, <1>7
  <2> QED  BY <2>2, <2>3, <2>4
<1>9. Range(t) = Range(s) \ {s[i]}
  <2>1. Range(t) \subseteq Range(s) \ {s[i]}
    <3>1. ASSUME NEW k \in 1..(Len(s) - 1)
          PROVE  \E j \in 1..Len(s) : j # i /\ t[k] = s[j]
      <4>1. CASE k < i
        BY <4>1, <1>1, <1>7
      <4>2. CASE ~(k < i)
        <5>1. k + 1 \in 1..Len(s) /\ k + 1 # i
          BY <4>2, <1>1
        <5> QED  BY <5>1, <4>2, <1>7
      <4> QED  BY <4>1, <4>2
    <3>2. \A j \in 1..Len(s) : j # i => s[j] \in Range(s) /\ s[j] # s[i]
      BY <1>1 DEF Range, IsInjective
    <3>3. \A k \in 1..(Len(s) - 1) : t[k] \in Range(s) \ {s[i]}
      BY <3>1, <3>2
    <3> QED  BY <3>3, <1>6 DEF Range
  <2>2. ASSUME NEW x \in Range(s), x # s[i]
        PROVE  x \in Range(t)
    <3>1. PICK k \in 1..Len(s) : x = s[k]
      BY <1>1 DEF Range
    <3>2. k # i
      BY <3>1, <2>2
    <3>3. k < i => k \in 1..(Len(s) - 1) /\ t[k] = x
      BY <1>1, <1>7, <3>1
    <3>4. k > i => k - 1 \in 1..(Len(s) - 1) /\ t[k - 1] = x
      BY <1>1, <1>7, <3>1
    <3>5. k < i \/ k > i
      BY <3>2, <1>1
    <3> QED  BY <3>3, <3>4, <3>5, <1>6 DEF Range
  <2> QED  BY <2>1, <2>2
<1> QED  BY <1>6, <1>8, <1>9 DEF t

\* Putting a job that is not scheduled into a schedule adds it and nothing else.
LEMMA InsertAtIs ==
  ASSUME NEW S, NEW s \in Seq(S), IsInjective(s), NEW i \in 1..(Len(s) + 1),
         NEW e \in S, e \notin Range(s)
  PROVE  /\ InsertAt(s, i, e) \in Seq(S) /\ Len(InsertAt(s, i, e)) = Len(s) + 1
         /\ IsInjective(InsertAt(s, i, e))
         /\ Range(InsertAt(s, i, e)) = Range(s) \cup {e}
<1> DEFINE l == SubSeq(s, 1, i - 1)
           r == SubSeq(s, i, Len(s))
           t == InsertAt(s, i, e)
<1>1. Len(s) \in Nat /\ DOMAIN s = 1..Len(s)
  BY LenProperties
<1>2. \A k \in 1..Len(s) : s[k] \in S
  BY ElementOfSeq
<1>3. l \in Seq(S) /\ Len(l) = i - 1 /\ \A k \in 1..(i - 1) : l[k] = s[k]
  <2>1. \A k \in 1..(i - 1) : s[k] \in S
    BY <1>1, <1>2
  <2>2. /\ SubSeq(s, 1, i - 1) \in Seq(S)
        /\ Len(SubSeq(s, 1, i - 1)) = IF 1 <= i - 1 THEN i - 1 - 1 + 1 ELSE 0
        /\ \A k \in 1..(i - 1 - 1 + 1) : SubSeq(s, 1, i - 1)[k] = s[1 + k - 1]
    BY <2>1, <1>1, SubSeqProperties
  <2> QED  BY <2>2, <1>1
<1>4. r \in Seq(S) /\ Len(r) = Len(s) + 1 - i /\ \A k \in 1..(Len(s) + 1 - i) : r[k] = s[i + k - 1]
  <2>1. \A k \in i..Len(s) : s[k] \in S
    BY <1>1, <1>2
  <2>2. /\ SubSeq(s, i, Len(s)) \in Seq(S)
        /\ Len(SubSeq(s, i, Len(s))) = IF i <= Len(s) THEN Len(s) - i + 1 ELSE 0
        /\ \A k \in 1..(Len(s) - i + 1) : SubSeq(s, i, Len(s))[k] = s[i + k - 1]
    BY <2>1, <1>1, SubSeqProperties
  <2> QED  BY <2>2, <1>1
<1> HIDE DEF l, r
<1>5. t = l \o <<e>> \o r
  BY DEF t, InsertAt, l, r
<1> DEFINE m == l \o <<e>>
<1>6. <<e>> \in Seq(S) /\ Len(<<e>>) = 1 /\ <<e>>[1] = e
  OBVIOUS
<1>7. m \in Seq(S) /\ Len(m) = i /\ \A k \in 1..i : m[k] = IF k < i THEN s[k] ELSE e
  <2>1. /\ l \o <<e>> \in Seq(S) /\ Len(l \o <<e>>) = Len(l) + Len(<<e>>)
        /\ \A k \in 1..(Len(l) + Len(<<e>>)) :
             (l \o <<e>>)[k] = IF k <= Len(l) THEN l[k] ELSE <<e>>[k - Len(l)]
    BY <1>3, <1>6, ConcatProperties
  <2> QED  BY <2>1, <1>1, <1>3, <1>6
<1> HIDE DEF m
<1>8. t = m \o r
  BY <1>5 DEF m
<1>9. t \in Seq(S) /\ Len(t) = Len(s) + 1 /\ DOMAIN t = 1..(Len(s) + 1)
  BY <1>1, <1>4, <1>7, <1>8, ConcatProperties, LenProperties
<1>10. \A k \in 1..(Len(s) + 1) :
          t[k] = IF k < i THEN s[k] ELSE IF k = i THEN e ELSE s[k - 1]
  <2>1. \A k \in 1..(Len(m) + Len(r)) : (m \o r)[k] = IF k <= Len(m) THEN m[k] ELSE r[k - Len(m)]
    BY <1>4, <1>7, ConcatProperties
  <2> QED  BY <2>1, <1>1, <1>4, <1>7, <1>8
<1> HIDE DEF t
<1>11. \A k \in 1..Len(s) : s[k] # e
  BY <1>1 DEF Range
<1>12. IsInjective(t)
  <2> SUFFICES ASSUME NEW j \in 1..(Len(s) + 1), NEW k \in 1..(Len(s) + 1), j < k, t[j] = t[k]
               PROVE  FALSE
    BY <1>1, <1>9 DEF IsInjective
  <2>1. \A g, h \in 1..Len(s) : s[g] = s[h] => g = h
    BY <1>1 DEF IsInjective
  <2>2. CASE j = i
    BY <2>2, <1>1, <1>10, <1>11
  <2>3. CASE k = i
    BY <2>3, <1>1, <1>10, <1>11
  <2>4. CASE j < i /\ k < i
    BY <2>4, <2>1, <1>1, <1>10
  <2>5. CASE j < i /\ k > i
    BY <2>5, <2>1, <1>1, <1>10
  <2>6. CASE j > i /\ k > i
    BY <2>6, <2>1, <1>1, <1>10
  <2> QED  BY <2>2, <2>3, <2>4, <2>5, <2>6, <1>1
<1>13. Range(t) = Range(s) \cup {e}
  <2>1. Range(t) \subseteq Range(s) \cup {e}
    BY <1>1, <1>9, <1>10 DEF Range
  <2>2. e \in Range(t)
    BY <1>1, <1>9, <1>10 DEF Range
  <2>3. ASSUME NEW x \in Range(s)
        PROVE  x \in Range(t)
    <3>1. PICK k \in 1..Len(s) : x = s[k]
      BY <1>1 DEF Range
    <3>2. k < i => k \in 1..(Len(s) + 1) /\ t[k] = x
      BY <1>1, <1>10, <3>1
    <3>3. k >= i => k + 1 \in 1..(Len(s) + 1) /\ t[k + 1] = x
      BY <1>1, <1>10, <3>1
    <3> QED  BY <3>2, <3>3, <1>1, <1>9 DEF Range
  <2> QED  BY <2>1, <2>2, <2>3
<1> QED  BY <1>9, <1>12, <1>13 DEF t

\* The part of a schedule that a sweep loads.
LEMMA PrefixIs ==
  ASSUME NEW S, NEW s \in Seq(S), IsInjective(s), NEW n \in 0..Len(s)
  PROVE  /\ SubSeq(s, 1, n) \in Seq(S) /\ IsInjective(SubSeq(s, 1, n))
         /\ Range(SubSeq(s, 1, n)) \subseteq Range(s)
<1> DEFINE t == SubSeq(s, 1, n)
<1>1. Len(s) \in Nat /\ DOMAIN s = 1..Len(s) /\ \A k \in 1..Len(s) : s[k] \in S
  BY LenProperties, ElementOfSeq
<1>2. \A k \in 1..n : s[k] \in S
  BY <1>1
<1>3. /\ SubSeq(s, 1, n) \in Seq(S)
      /\ Len(SubSeq(s, 1, n)) = IF 1 <= n THEN n - 1 + 1 ELSE 0
      /\ \A k \in 1..(n - 1 + 1) : SubSeq(s, 1, n)[k] = s[1 + k - 1]
  BY <1>2, <1>1, SubSeqProperties
<1>4. t \in Seq(S) /\ Len(t) = n /\ DOMAIN t = 1..n /\ \A k \in 1..n : t[k] = s[k]
  BY <1>1, <1>3, LenProperties
<1> HIDE DEF t
<1>5. IsInjective(t) /\ Range(t) \subseteq Range(s)
  BY <1>1, <1>4 DEF IsInjective, Range
<1> QED  BY <1>4, <1>5 DEF t

\* The rest of a sweep without its first job.
LEMMA TailIs ==
  ASSUME NEW S, NEW s \in Seq(S), IsInjective(s), s # <<>>
  PROVE  /\ Head(s) \in S /\ Head(s) \in Range(s)
         /\ Tail(s) \in Seq(S) /\ IsInjective(Tail(s))
         /\ Range(Tail(s)) \subseteq Range(s) \ {Head(s)}
<1>1. Len(s) \in Nat /\ DOMAIN s = 1..Len(s) /\ Len(s) # 0
  BY LenProperties, EmptySeq
<1>2. /\ Head(s) \in S /\ Tail(s) \in Seq(S) /\ Len(Tail(s)) = Len(s) - 1
      /\ \A k \in 1..Len(Tail(s)) : Tail(s)[k] = s[k + 1]
  BY HeadTailProperties
<1>3. DOMAIN Tail(s) = 1..(Len(s) - 1) /\ Head(s) = s[1]
  BY <1>2, LenProperties
<1>4. IsInjective(Tail(s))
  BY <1>1, <1>2, <1>3 DEF IsInjective
<1>5. Range(Tail(s)) \subseteq Range(s) \ {Head(s)}
  BY <1>1, <1>2, <1>3 DEF IsInjective, Range
<1>6. Head(s) \in Range(s)
  BY <1>1, <1>3 DEF Range
<1> QED  BY <1>2, <1>4, <1>5, <1>6

-----------------------------------------------------------------------------
(* The job store *)

Store == jobs \in Seq(Blocks) /\ IsInjective(jobs) /\ due \in 0..Len(jobs)

LEMMA PositionIs ==
  ASSUME jobs \in Seq(Blocks), NEW b, Pending(b)
  PROVE  Position(b) \in 1..Len(jobs) /\ jobs[Position(b)] = b
<1>1. \E i \in 1..Len(jobs) : jobs[i] = b
  BY LenProperties DEF Pending, Range
<1> QED  BY <1>1 DEF Position

\* storage.remove takes out the one job of its key, due or not.
LEMMA WithoutIs ==
  ASSUME Store, NEW b \in Blocks
  PROVE  /\ Without(b) \in Seq(Blocks) /\ IsInjective(Without(b))
         /\ Range(Without(b)) = Range(jobs) \ {b}
         /\ Len(Without(b)) \in Nat /\ DueWithout(b) \in 0..Len(Without(b))
<1>1. Len(jobs) \in Nat /\ jobs \in Seq(Blocks) /\ IsInjective(jobs) /\ due \in 0..Len(jobs)
  BY LenProperties DEF Store
<1>2. CASE Pending(b)
  <2> DEFINE i == Position(b)
  <2>1. i \in 1..Len(jobs) /\ jobs[i] = b
    BY <1>1, <1>2, PositionIs
  <2> HIDE DEF i
  <2>2. Without(b) = RemoveAt(jobs, i)
    BY <1>2 DEF Without, i
  <2>3. /\ RemoveAt(jobs, i) \in Seq(Blocks) /\ Len(RemoveAt(jobs, i)) = Len(jobs) - 1
        /\ IsInjective(RemoveAt(jobs, i)) /\ Range(RemoveAt(jobs, i)) = Range(jobs) \ {jobs[i]}
    BY <1>1, <2>1, RemoveAtIs
  <2>4. DueWithout(b) = IF i <= due THEN due - 1 ELSE due
    BY <1>2 DEF DueWithout, i
  <2> DEFINE n == Len(jobs)
  <2>5. n \in Nat /\ i \in 1..n /\ due \in 0..n /\ Len(Without(b)) = n - 1
    BY <1>1, <2>1, <2>2, <2>3
  <2> HIDE DEF n
  <2>6. n - 1 \in Nat /\ (IF i <= due THEN due - 1 ELSE due) \in 0..(n - 1)
    BY <2>5
  <2> QED  BY <2>1, <2>2, <2>3, <2>4, <2>5, <2>6
<1>3. CASE ~Pending(b)
  BY <1>1, <1>3 DEF Without, DueWithout, Pending
<1> QED  BY <1>2, <1>3

\* A job put into the rest of the schedule is in the store once.
LEMMA PutBackIs ==
  ASSUME Store, NEW b \in Blocks, NEW i \in 1..(Len(Without(b)) + 1)
  PROVE  /\ InsertAt(Without(b), i, b) \in Seq(Blocks)
         /\ Len(InsertAt(Without(b), i, b)) = Len(Without(b)) + 1
         /\ IsInjective(InsertAt(Without(b), i, b))
         /\ Range(InsertAt(Without(b), i, b)) = Range(jobs) \cup {b}
<1> DEFINE w == Without(b)
<1>1. w \in Seq(Blocks) /\ IsInjective(w) /\ Range(w) = Range(jobs) \ {b}
  BY WithoutIs
<1>2. i \in 1..(Len(w) + 1)
  OBVIOUS
<1> HIDE DEF w
<1>3. b \notin Range(w)
  BY <1>1
<1>4. /\ InsertAt(w, i, b) \in Seq(Blocks) /\ Len(InsertAt(w, i, b)) = Len(w) + 1
      /\ IsInjective(InsertAt(w, i, b)) /\ Range(InsertAt(w, i, b)) = Range(w) \cup {b}
  BY <1>1, <1>2, <1>3, InsertAtIs
<1>5. Range(w) \cup {b} = Range(jobs) \cup {b}
  BY <1>1
<1> QED  BY <1>4, <1>5 DEF w

LEMMA EnqueueKeepsStore ==
  ASSUME Store, NEW b \in Blocks, EnqueueJob(b)
  PROVE  Store' /\ Range(jobs') = Range(jobs) \cup {b}
<1> DEFINE d == DueWithout(b)
           n == Len(Without(b))
<1>1. n \in Nat /\ d \in 0..n
  BY WithoutIs
<1>2. jobs' = InsertAt(Without(b), d + 1, b) /\ due' = d + 1
  BY DEF EnqueueJob
<1> HIDE DEF d
<1>3. d + 1 \in 1..(n + 1)
  BY <1>1
<1>4. /\ jobs' \in Seq(Blocks) /\ Len(jobs') = n + 1 /\ IsInjective(jobs')
      /\ Range(jobs') = Range(jobs) \cup {b}
  BY <1>2, <1>3, PutBackIs
<1> HIDE DEF n
<1>5. d + 1 \in 0..(n + 1)
  BY <1>1
<1> QED  BY <1>2, <1>4, <1>5 DEF Store

LEMMA SaveRetryKeepsStore ==
  ASSUME Store, NEW b \in Blocks, NEW longest, SaveRetry(b, longest)
  PROVE  Store' /\ Range(jobs') = Range(jobs) \cup {b}
<1> DEFINE d == DueWithout(b)
           n == Len(Without(b))
<1>1. n \in Nat /\ d \in 0..n
  BY WithoutIs
<1>2. PICK i \in (d + 1)..(n + 1) : jobs' = InsertAt(Without(b), i, b)
  BY DEF SaveRetry
<1>3. due' = d
  BY DEF SaveRetry
<1> HIDE DEF d
<1>4. i \in 1..(n + 1)
  BY <1>1, <1>2
<1>5. /\ jobs' \in Seq(Blocks) /\ Len(jobs') = n + 1 /\ IsInjective(jobs')
      /\ Range(jobs') = Range(jobs) \cup {b}
  BY <1>2, <1>4, PutBackIs
<1> HIDE DEF n
<1>6. d \in 0..(n + 1)
  BY <1>1
<1> QED  BY <1>3, <1>5, <1>6 DEF Store

LEMMA RemoveKeepsStore ==
  ASSUME Store, NEW b \in Blocks, RemoveJob(b)
  PROVE  Store' /\ Range(jobs') = Range(jobs) \ {b}
<1>1. jobs' = Without(b) /\ due' = DueWithout(b)
  BY DEF RemoveJob
<1> QED  BY <1>1, WithoutIs DEF Store

\* Loading reorders the jobs: none is lost and none is doubled.
LEMMA OrderIs ==
  ASSUME Store, NEW order \in Orders
  PROVE  /\ order \in Seq(Blocks) /\ Len(order) = Len(jobs) /\ IsInjective(order)
         /\ Range(order) = Range(jobs)
<1> DEFINE n == Len(jobs)
<1>1. n \in Nat /\ DOMAIN jobs = 1..n /\ \A i \in 1..n : jobs[i] \in Blocks
  BY LenProperties, ElementOfSeq DEF Store
<1>2. PICK p \in Bijection(1..n, 1..n) : order = [i \in 1..n |-> jobs[p[i]]]
  BY DEF Orders
<1> HIDE DEF n
<1>3. /\ p \in [1..n -> 1..n] /\ (\A i, k \in 1..n : p[i] = p[k] => i = k)
      /\ \A k \in 1..n : \E i \in 1..n : p[i] = k
  BY <1>2 DEF Bijection, Injection, Surjection, IsInjective
<1>4. DOMAIN order = 1..n /\ \A i \in 1..n : order[i] = jobs[p[i]] /\ order[i] \in Blocks
  BY <1>1, <1>2, <1>3
<1>5. order \in Seq(Blocks) /\ Len(order) = n
  <2>1. order \in [1..n -> Blocks]
    BY <1>2, <1>4
  <2> QED  BY <1>1, <2>1
<1>6. IsInjective(order)
  <2>1. \A i, k \in 1..n : jobs[i] = jobs[k] => i = k
    BY <1>1 DEF IsInjective, Store
  <2>2. \A i \in 1..n : p[i] \in 1..n
    BY <1>3
  <2>3. ASSUME NEW i \in 1..n, NEW k \in 1..n, order[i] = order[k]
        PROVE  i = k
    <3>1. jobs[p[i]] = jobs[p[k]]
      BY <1>4, <2>3, Zenon
    <3>2. p[i] = p[k]
      BY <2>1, <2>2, <3>1, Zenon
    <3> QED  BY <1>3, <3>2, Zenon
  <2> QED  BY <1>4, <2>3, Zenon DEF IsInjective
<1>7. Range(order) = Range(jobs)
  <2>1. \A i \in 1..n : order[i] \in Range(jobs)
    <3> TAKE i \in 1..n
    <3>1. order[i] = jobs[p[i]] /\ p[i] \in 1..n
      BY <1>3, <1>4
    <3> QED  BY <1>1, <3>1, Zenon DEF Range
  <2>2. \A k \in 1..n : jobs[k] \in Range(order)
    <3> TAKE k \in 1..n
    <3>1. PICK i \in 1..n : p[i] = k
      BY <1>3
    <3> QED  BY <3>1, <1>4, Zenon DEF Range
  <2>3. Range(order) \subseteq Range(jobs)
    BY <1>4, <2>1 DEF Range
  <2>4. Range(jobs) \subseteq Range(order)
    BY <1>1, <2>2, Zenon DEF Range
  <2> QED  BY <2>3, <2>4
<1> QED  BY <1>5, <1>6, <1>7 DEF n

LEMMA LoadedIs ==
  ASSUME Store
  PROVE  Loaded \in 0..Len(jobs)
<1> DEFINE n == Len(jobs)
<1>1. n \in Nat /\ due \in 0..n
  BY LenProperties DEF Store
<1> HIDE DEF n
<1>2. IsFiniteSet(1..due) /\ Cardinality(1..due) = due
  <2>1. 1 \in Int /\ due \in Int
    BY <1>1
  <2>2. IsFiniteSet(1..due) /\ Cardinality(1..due) = IF 1 > due THEN 0 ELSE due - 1 + 1
    BY <2>1, FS_Interval
  <2>3. (IF 1 > due THEN 0 ELSE due - 1 + 1) = due
    BY <1>1
  <2> QED  BY <2>2, <2>3
<1>3. Throttled \subseteq 1..due
  BY DEF Throttled
<1>4. IsFiniteSet(Throttled) /\ Cardinality(Throttled) \in Nat /\ Cardinality(Throttled) <= due
  <2>1. IsFiniteSet(Throttled) /\ Cardinality(Throttled) <= Cardinality(1..due)
    BY <1>2, <1>3, FS_Subset
  <2>2. Cardinality(Throttled) \in Nat
    BY <2>1, FS_CardinalityType
  <2> QED  BY <1>2, <2>1, <2>2
<1>5. due - Cardinality(Throttled) \in 0..n
  BY <1>1, <1>4
<1> QED  BY <1>5 DEF Loaded, n

-----------------------------------------------------------------------------
(* The block tables *)

LEMMA SlotsAre ==
  /\ Slots \subseteq Nat
  /\ \A b \in Blocks : Id[b] \in Slots /\ Id[b] \in Nat /\ b # NoBlock
<1>1. \A b \in Blocks : Id[b] \in Nat /\ b # NoBlock
  BY PendingBlocksAssumption
<1>2. IsFiniteSet(AltBlocks) /\ Cardinality(AltBlocks) \in Nat
  <2>1. AltBlocks \subseteq Blocks /\ IsFiniteSet(Blocks)
    BY PendingBlocksAssumption DEF Blocks
  <2>2. IsFiniteSet(AltBlocks)
    BY <2>1, FS_Subset
  <2> QED  BY <2>2, FS_CardinalityType
<1>3. \A b \in AltBlocks, n \in 1..Cardinality(AltBlocks) : Id[b] + n \in Nat
  BY <1>1, <1>2 DEF Blocks
<1> QED  BY <1>1, <1>3 DEF Slots

LEMMA SiblingsAre ==
  ASSUME NEW o \in Blocks, NEW b \in Blocks
  PROVE  Siblings(o) = Siblings(b) <=> o = b \/ (o \in MainBlocks /\ b \in MainBlocks /\ Id[o] = Id[b])
<1>1. o \in Siblings(o) /\ b \in Siblings(b)
  BY DEF Siblings
<1>2. Siblings(o) = Siblings(b) => o = b \/ (o \in MainBlocks /\ b \in MainBlocks /\ Id[o] = Id[b])
  BY <1>1 DEF Siblings
<1>3. o \in MainBlocks /\ b \in MainBlocks /\ Id[o] = Id[b] => Siblings(o) = Siblings(b)
  BY DEF Siblings
<1> QED  BY <1>2, <1>3

Tables == blockDB \in [Slots -> Records] /\ altblockDB \in [Slots -> Records]

LEMMA RecordsAre ==
  /\ Empty \in Records /\ Empty.hash = NoBlock
  /\ \A b \in Blocks, valid \in BOOLEAN :
       LET r == [hash |-> b, valid |-> valid]
       IN r \in Records /\ r.hash = b /\ r.valid = valid /\ r # Empty
<1>1. \A b \in Blocks, valid \in BOOLEAN :
        LET r == [hash |-> b, valid |-> valid]
        IN r \in Records /\ r.hash = b /\ r.valid = valid
  BY DEF Records
<1>2. Empty \in Records /\ Empty.hash = NoBlock
  BY DEF Records, Empty
<1> QED  BY <1>1, <1>2, SlotsAre

\* A main block's key is taken afterwards, whoever has it, and no other key moves.
LEMMA MainRecorded ==
  ASSUME Tables, NEW b \in MainBlocks, NEW valid \in BOOLEAN, SaveResolvedBlock(b, valid)
  PROVE  /\ Tables' /\ UNCHANGED altblockDB
         /\ \A s \in Slots : blockDB'[s] \in {blockDB[s], [hash |-> b, valid |-> valid]}
         /\ \A o \in Blocks : Recorded(o)' <=> Recorded(o) \/ Siblings(o) = Siblings(b)
<1> DEFINE r == [hash |-> b, valid |-> valid]
<1>1. b \in Blocks /\ Id[b] \in Slots
  BY SlotsAre DEF Blocks
<1>2. r \in Records /\ r # Empty
  BY <1>1, RecordsAre
<1>3. UNCHANGED altblockDB /\ blockDB' = IF Keeps(blockDB[Id[b]], b) THEN blockDB ELSE [blockDB EXCEPT ![Id[b]] = r]
  BY DEF SaveResolvedBlock
<1> HIDE DEF r
<1>4. Tables' /\ \A s \in Slots : blockDB'[s] \in {blockDB[s], r}
  BY <1>1, <1>2, <1>3 DEF Tables
<1>5. blockDB'[Id[b]] # Empty /\ \A s \in Slots : s # Id[b] => blockDB'[s] = blockDB[s]
  BY <1>1, <1>2, <1>3 DEF Tables, Keeps
<1>6. ASSUME NEW o \in Blocks
      PROVE  Recorded(o)' <=> Recorded(o) \/ Siblings(o) = Siblings(b)
  <2>1. CASE o \in MainBlocks
    <3>1. Siblings(o) = Siblings(b) <=> Id[o] = Id[b]
      BY <1>1, <2>1, SiblingsAre
    <3>2. Id[o] \in Slots
      BY SlotsAre
    <3>3. Recorded(o) <=> blockDB[Id[o]] # Empty
      BY <2>1 DEF Recorded
    <3>4. Recorded(o)' <=> blockDB'[Id[o]] # Empty
      BY <2>1 DEF Recorded
    <3>5. CASE Id[o] = Id[b]
      BY <3>1, <3>4, <3>5, <1>5
    <3>6. CASE Id[o] # Id[b]
      BY <3>1, <3>2, <3>3, <3>4, <3>6, <1>5
    <3> QED  BY <3>5, <3>6
  <2>2. CASE o \notin MainBlocks
    <3>1. Siblings(o) # Siblings(b)
      BY <1>1, <2>2, SiblingsAre
    <3>2. Recorded(o)' <=> Recorded(o)
      BY <1>3, <2>2 DEF Recorded
    <3> QED  BY <3>1, <3>2
  <2> QED  BY <2>1, <2>2
<1> QED  BY <1>3, <1>4, <1>6 DEF r

\* An alt block has one slot afterwards, its own of before or a free one, and
\* nobody else's slot moves.
LEMMA AltRecorded ==
  ASSUME Tables, ProbedFrom, RecordedOnce,
         NEW b \in AltBlocks, NEW valid \in BOOLEAN, SaveResolvedAltBlock(b, valid)
  PROVE  /\ Tables' /\ UNCHANGED blockDB /\ ProbedFrom' /\ RecordedOnce'
         /\ \A s \in Slots : altblockDB'[s] \in {altblockDB[s], [hash |-> b, valid |-> valid]}
         /\ \A o \in Blocks : Recorded(o)' <=> Recorded(o) \/ Siblings(o) = Siblings(b)
<1> DEFINE r == [hash |-> b, valid |-> valid]
<1>1. b \in Blocks /\ Id[b] \in Slots /\ Id[b] \in Nat /\ b # NoBlock /\ b \notin MainBlocks
  BY SlotsAre, PendingBlocksAssumption DEF Blocks
<1>2. r \in Records /\ r.hash = b /\ r # Empty
  BY <1>1, RecordsAre
<1>3. PICK p \in Slots :
        Probe(b, p) /\ altblockDB' = IF altblockDB[p] # Empty THEN altblockDB
                                     ELSE [altblockDB EXCEPT ![p] = r]
  BY DEF SaveResolvedAltBlock
<1>4. UNCHANGED blockDB
  BY DEF SaveResolvedAltBlock
<1> HIDE DEF r
<1>5. /\ Id[b] <= p /\ altblockDB[p].hash \in {b, NoBlock} /\ p \in Nat
      /\ \A t \in Slots : Id[b] <= t /\ t < p => altblockDB[t].hash \notin {b, NoBlock}
  BY <1>1, <1>3, SlotsAre DEF Probe
<1>6. /\ \A s \in Slots : altblockDB[s].hash = NoBlock => altblockDB[s] = Empty
      /\ \A s \in Slots : altblockDB[s] = Empty => altblockDB[s].hash = NoBlock
  BY RecordsAre DEF ProbedFrom
<1>7. \A o \in Blocks : o \notin MainBlocks =>
        /\ Recorded(o) <=> \E s \in Slots : altblockDB[s].hash = o
        /\ Recorded(o)' <=> \E s \in Slots : altblockDB'[s].hash = o
  BY DEF Recorded
<1>8. \A o \in Blocks : o \in MainBlocks => (Recorded(o)' <=> Recorded(o)) /\ Siblings(o) # Siblings(b)
  BY <1>1, <1>4, SiblingsAre DEF Recorded
<1>9. \A o \in Blocks : o \notin MainBlocks => (Siblings(o) = Siblings(b) <=> o = b)
  BY <1>1, SiblingsAre
<1>10. CASE altblockDB[p] # Empty
  <2>1. altblockDB' = altblockDB /\ altblockDB[p].hash = b
    BY <1>3, <1>5, <1>6, <1>10
  <2>2. Tables' /\ ProbedFrom' /\ RecordedOnce'
    BY <1>4, <2>1 DEF Tables, ProbedFrom, RecordedOnce
  <2>3. \A s \in Slots : altblockDB'[s] \in {altblockDB[s], r}
    BY <2>1
  <2>4. Recorded(b)
    BY <1>1, <1>7, <2>1
  <2>5. \A o \in Blocks : o \notin MainBlocks => (Recorded(o)' <=> Recorded(o) \/ Siblings(o) = Siblings(b))
    BY <1>7, <1>9, <2>1, <2>4
  <2> QED  BY <1>4, <1>8, <2>2, <2>3, <2>5 DEF r
<1>11. CASE altblockDB[p] = Empty
  <2>1. altblockDB' = [altblockDB EXCEPT ![p] = r] /\ altblockDB \in [Slots -> Records]
    BY <1>3, <1>11 DEF Tables
  <2>2. Tables' /\ (\A s \in Slots : altblockDB'[s] = IF s = p THEN r ELSE altblockDB[s])
    BY <1>2, <1>4, <2>1 DEF Tables
  <2>3. \A s \in Slots : altblockDB'[s].hash = IF s = p THEN b ELSE altblockDB[s].hash
    BY <1>2, <2>2
  <2>4. altblockDB[p].hash = NoBlock
    BY <1>6, <1>11
  \* The invariant at work: behind the first free slot there is no record of b.
  <2>5. \A s \in Slots : altblockDB[s].hash # b
    <3> SUFFICES ASSUME NEW s \in Slots, altblockDB[s].hash = b
                 PROVE  FALSE
      OBVIOUS
    <3>1. Id[b] <= s /\ \A t \in Slots : Id[b] <= t /\ t < s => altblockDB[t].hash \notin {b, NoBlock}
      BY <1>1 DEF ProbedFrom
    <3>2. s \in Nat
      BY SlotsAre
    <3>3. ~(s < p)
      BY <3>1, <1>5
    <3>4. ~(p < s)
      BY <3>1, <1>5, <2>4
    <3>5. s = p
      BY <3>2, <3>3, <3>4, <1>5
    <3> QED  BY <3>5, <2>4, <1>1
  <2>6. ProbedFrom'
    <3>1. ASSUME NEW s \in Slots, altblockDB'[s].hash = NoBlock
          PROVE  altblockDB'[s] = Empty
      BY <3>1, <1>1, <1>6, <2>2, <2>3
    <3>2. ASSUME NEW t \in Slots, altblockDB'[t].hash # NoBlock
          PROVE  LET o == altblockDB'[t].hash
                 IN /\ o \in AltBlocks /\ Id[o] <= t
                    /\ \A s \in Slots : Id[o] <= s /\ s < t => altblockDB'[s].hash \notin {o, NoBlock}
      <4>1. CASE t = p
        <5>1. altblockDB'[t].hash = b
          BY <4>1, <2>3
        <5>2. \A s \in Slots : Id[b] <= s /\ s < p => altblockDB'[s].hash \notin {b, NoBlock}
          BY <1>5, <2>3
        <5> QED  BY <5>1, <5>2, <4>1, <1>5
      <4>2. CASE t # p
        <5> DEFINE o == altblockDB[t].hash
        <5>1. altblockDB'[t].hash = o /\ o # NoBlock
          BY <4>2, <3>2, <2>3
        <5>2. /\ o \in AltBlocks /\ Id[o] <= t
              /\ \A s \in Slots : Id[o] <= s /\ s < t => altblockDB[s].hash \notin {o, NoBlock}
          BY <5>1 DEF ProbedFrom
        <5>3. o # b
          BY <2>5
        <5> HIDE DEF o
        <5>4. \A s \in Slots : Id[o] <= s /\ s < t => altblockDB'[s].hash \notin {o, NoBlock}
          BY <5>2, <5>3, <2>3, <1>1
        <5> QED  BY <5>1, <5>2, <5>4
      <4> QED  BY <4>1, <4>2
    <3> QED  BY <3>1, <3>2 DEF ProbedFrom
  <2>7. RecordedOnce'
    <3> SUFFICES ASSUME NEW s \in Slots, NEW t \in Slots, altblockDB'[s] # Empty,
                        altblockDB'[s].hash = altblockDB'[t].hash
                 PROVE  s = t
      BY DEF RecordedOnce
    <3>1. CASE s = p \/ t = p
      BY <3>1, <2>3, <2>5
    <3>2. CASE s # p /\ t # p
      BY <3>2, <2>2 DEF RecordedOnce
    <3> QED  BY <3>1, <3>2
  <2>8. \A s \in Slots : altblockDB'[s] \in {altblockDB[s], r}
    BY <2>2
  <2>9. ASSUME NEW o \in Blocks, o \notin MainBlocks
        PROVE  Recorded(o)' <=> Recorded(o) \/ o = b
    <3>1. Recorded(b)'
      BY <1>1, <1>7, <2>3
    <3>2. o # b => \A s \in Slots : altblockDB'[s].hash = o <=> altblockDB[s].hash = o
      BY <2>3, <2>4, SlotsAre
    <3> QED  BY <2>9, <1>7, <3>1, <3>2
  <2> QED  BY <1>4, <1>8, <1>9, <2>2, <2>6, <2>7, <2>8, <2>9 DEF r
<1> QED  BY <1>10, <1>11

\* saveResolvedBlock and saveResolvedAltBlock together.
LEMMA SaveResolvedIs ==
  ASSUME Tables, ProbedFrom, RecordedOnce,
         NEW b \in Blocks, NEW valid \in BOOLEAN, SaveResolved(b, valid)
  PROVE  /\ Tables' /\ ProbedFrom' /\ RecordedOnce'
         /\ \A s \in Slots : /\ blockDB'[s] \in {blockDB[s], [hash |-> b, valid |-> valid]}
                             /\ altblockDB'[s] \in {altblockDB[s], [hash |-> b, valid |-> valid]}
         /\ \A o \in Blocks : Recorded(o)' <=> Recorded(o) \/ Siblings(o) = Siblings(b)
<1>1. CASE b \in MainBlocks
  <2>1. SaveResolvedBlock(b, valid)
    BY <1>1 DEF SaveResolved
  <2>2. /\ Tables' /\ UNCHANGED altblockDB
        /\ \A s \in Slots : blockDB'[s] \in {blockDB[s], [hash |-> b, valid |-> valid]}
        /\ \A o \in Blocks : Recorded(o)' <=> Recorded(o) \/ Siblings(o) = Siblings(b)
    BY <1>1, <2>1, MainRecorded
  <2>3. ProbedFrom' /\ RecordedOnce'
    BY <2>2 DEF ProbedFrom, RecordedOnce
  <2> QED  BY <2>2, <2>3
<1>2. CASE b \notin MainBlocks
  <2>1. b \in AltBlocks /\ SaveResolvedAltBlock(b, valid)
    BY <1>2 DEF SaveResolved, Blocks
  <2>2. /\ Tables' /\ UNCHANGED blockDB /\ ProbedFrom' /\ RecordedOnce'
        /\ \A s \in Slots : altblockDB'[s] \in {altblockDB[s], [hash |-> b, valid |-> valid]}
        /\ \A o \in Blocks : Recorded(o)' <=> Recorded(o) \/ Siblings(o) = Siblings(b)
    BY <2>1, AltRecorded
  <2> QED  BY <2>2
<1> QED  BY <1>1, <1>2

-----------------------------------------------------------------------------
(* The inductive invariant *)

\* A step that leaves the tables and the chain alone.
LEMMA TablesKept ==
  ASSUME IInv, UNCHANGED <<tables, chain>>
  PROVE  /\ ProbedFrom' /\ RecordedOnce' /\ OnlyOrphansFinalized'
         /\ \A b \in Blocks : Recorded(b)' <=> Recorded(b)
<1>1. UNCHANGED <<blockDB, altblockDB, canon, settled>>
  BY DEF tables, chain
<1> QED  BY <1>1 DEF IInv, ProbedFrom, RecordedOnce, OnlyOrphansFinalized, Recorded

LEMMA GraceKept ==
  ASSUME IInv, UNCHANGED settled,
         \A b \in Blocks : orphanSince'[b] \in {orphanSince[b], "no", "recent"}
  PROVE  GraceIsLong'
<1>1. \A b \in settled' : Siblings(b)' \subseteq settled'
  BY DEF IInv, GraceIsLong, Siblings
<1>2. \A b \in Blocks : orphanSince'[b] = "old" => b \in settled'
  BY DEF IInv, GraceIsLong
<1> QED  BY <1>1, <1>2 DEF GraceIsLong

\* A step that goes on with the same sweep and takes no job out of the store.
LEMMA SweepKept ==
  ASSUME IInv, UNCHANGED <<work, resolved>>, Range(jobs) \subseteq Range(jobs'),
         \A b \in Blocks : Recorded(b) => Recorded(b)'
  PROVE  SweepInStore'
<1>1. work \in Seq(Blocks) /\ SweepInStore
  BY DEF IInv, TypeOK
<1>2. resolved => Head(work) \in Blocks
  BY <1>1, HeadTailProperties DEF SweepInStore
<1>3. Range(work) \subseteq Range(jobs')
  BY <1>1 DEF SweepInStore
<1>4. ASSUME resolved' PROVE work' # <<>> /\ Recorded(Head(work))'
  <2>1. work # <<>> /\ Recorded(Head(work)) /\ Head(work) \in Blocks
    BY <1>1, <1>2, <1>4 DEF SweepInStore
  <2>2. PICK h \in Blocks : h = Head(work)
    BY <2>1
  <2>3. Recorded(h)' /\ Head(work)' = h
    BY <2>1, <2>2
  <2> QED  BY <2>1, <2>3 DEF Recorded
<1> QED  BY <1>1, <1>3, <1>4 DEF SweepInStore

\* A sweep that goes on with the next job, whose predecessor may be removed.
LEMMA NextJobKept ==
  ASSUME IInv, work # <<>>, NextJob, Range(jobs) \ {Head(work)} \subseteq Range(jobs')
  PROVE  SweepInStore' /\ work' \in Seq(Blocks)
<1>1. work \in Seq(Blocks) /\ IsInjective(work) /\ Range(work) \subseteq Range(jobs)
  BY DEF IInv, TypeOK, SweepInStore
<1>2. /\ Tail(work) \in Seq(Blocks) /\ IsInjective(Tail(work))
      /\ Range(Tail(work)) \subseteq Range(work) \ {Head(work)}
  BY <1>1, TailIs
<1>3. work' = Tail(work) /\ resolved' = FALSE
  BY DEF NextJob
<1>4. Range(work') \subseteq Range(jobs')
  BY <1>1, <1>2, <1>3
<1> QED  BY <1>2, <1>3, <1>4 DEF SweepInStore

LEMMA InitIs == Init => IInv
<1> SUFFICES ASSUME Init PROVE IInv
  OBVIOUS
<1> USE DEF Init
<1>1. TypeOK
  <2>1. <<>> \in Seq(Blocks) /\ IsInjective(<<>>) /\ Len(<<>>) = 0
    BY EmptySeq DEF IsInjective
  <2>2. blockDB \in [Slots -> Records] /\ altblockDB \in [Slots -> Records]
    BY RecordsAre
  <2>3. canon \in [Blocks -> BOOLEAN] /\ faults \in 0..MaxFaults
    BY PendingBoundsAssumption
  <2>4. jobs \in Seq(Blocks) /\ IsInjective(jobs) /\ due \in 0..Len(jobs) /\ work \in Seq(Blocks)
    BY <2>1
  <2>5. /\ leaf \in [Blocks -> {"none", "sending", "done"}]
        /\ orphanSince \in [Blocks -> {"no", "recent", "old"}]
    OBVIOUS
  <2> QED  BY <2>2, <2>3, <2>4, <2>5 DEF TypeOK
<1>2. SweepInStore
  BY DEF SweepInStore, Range, IsInjective
<1>3. ProbedFrom /\ RecordedOnce
  BY RecordsAre DEF ProbedFrom, RecordedOnce
<1>4. GraceIsLong
  BY DEF GraceIsLong
<1>5. OnlyOrphansFinalized
  <2>1. Range(blockDB) \cup Range(altblockDB) \subseteq {Empty}
    BY DEF Range
  <2>2. \A b \in Blocks : [hash |-> b, valid |-> FALSE] # Empty
    BY RecordsAre
  <2> QED  BY <2>1, <2>2 DEF OnlyOrphansFinalized
<1> QED  BY <1>1, <1>2, <1>3, <1>4, <1>5 DEF IInv

\* The job store of a step is the one its type invariant is about.
LEMMA StoreIs == TypeOK => Store /\ Tables /\ Range(jobs) \subseteq Blocks
<1> SUFFICES ASSUME TypeOK PROVE Store /\ Tables /\ Range(jobs) \subseteq Blocks
  OBVIOUS
<1>1. Store /\ Tables
  BY DEF TypeOK, Store, Tables
<1>2. Range(jobs) \in SUBSET Blocks
  BY <1>1, RangeOfSeq DEF Store
<1> QED  BY <1>1, <1>2

LEMMA FindKeeps ==
  ASSUME IInv, NEW b \in Blocks, Find(b)
  PROVE  IInv'
<1>1. UNCHANGED <<jobs, due, gate, work, resolved, orphanSince, maybeBad, bad, up, closed, rejecting,
                  blockDB, altblockDB, canon, settled, faults, dropped>>
  BY DEF Find, store, memory, control, tables, chain
<1>2. TypeOK'
  BY <1>1 DEF Find, IInv, TypeOK
<1>3. ProbedFrom' /\ RecordedOnce' /\ OnlyOrphansFinalized' /\ \A o \in Blocks : Recorded(o)' <=> Recorded(o)
  BY <1>1, TablesKept DEF tables, chain
<1>4. SweepInStore'
  BY <1>1, <1>3, SweepKept
<1>5. GraceIsLong'
  BY <1>1, GraceKept
<1> QED  BY <1>2, <1>3, <1>4, <1>5 DEF IInv

LEMMA ReceiveKeeps ==
  ASSUME IInv, NEW b \in Blocks, Receive(b)
  PROVE  IInv'
<1>1. UNCHANGED <<gate, work, resolved, orphanSince, maybeBad, bad, up, closed, rejecting,
                  blockDB, altblockDB, canon, settled, dropped>>
  BY DEF Receive, memory, control, tables, chain
<1>2. Store' /\ Range(jobs') = Range(jobs) \cup {b}
  BY StoreIs, EnqueueKeepsStore DEF Receive, IInv
<1>3. leaf' \in [Blocks -> {"none", "sending", "done"}] /\ faults' \in 0..MaxFaults
  BY PendingBoundsAssumption DEF Receive, Fault, NoFault, IInv, TypeOK
<1>4. TypeOK'
  BY <1>1, <1>2, <1>3 DEF IInv, TypeOK, Store
<1>5. ProbedFrom' /\ RecordedOnce' /\ OnlyOrphansFinalized' /\ \A o \in Blocks : Recorded(o)' <=> Recorded(o)
  BY <1>1, TablesKept DEF tables, chain
<1>6. SweepInStore'
  BY <1>1, <1>2, <1>5, SweepKept
<1>7. GraceIsLong'
  BY <1>1, GraceKept
<1> QED  BY <1>4, <1>5, <1>6, <1>7 DEF IInv

LEMMA SweepKeeps ==
  ASSUME IInv, Sweep
  PROVE  IInv'
<1>1. UNCHANGED <<leaf, resolved, orphanSince, up, closed, blockDB, altblockDB, canon, settled, dropped>>
  BY DEF Sweep, tables, chain
<1>2. work = <<>> /\ ~resolved
  BY DEF Sweep, IInv, SweepInStore
<1>3. maybeBad' \subseteq AltBlocks /\ bad' \subseteq AltBlocks
  BY DEF Sweep, Forget, IInv, TypeOK
<1>4. /\ gate' \in BOOLEAN /\ rejecting' \in BOOLEAN /\ faults' \in 0..MaxFaults
      /\ Store' /\ work' \in Seq(Blocks) /\ IsInjective(work')
      /\ Range(work') \subseteq Range(jobs')
  <2>1. CASE UNCHANGED <<work, store>>
    <3>1. UNCHANGED <<work, jobs, due>>
      BY <2>1 DEF store
    <3>2. gate' \in BOOLEAN /\ rejecting' \in BOOLEAN /\ faults' \in 0..MaxFaults
      <4>1. CASE Fault /\ rejecting' = TRUE /\ UNCHANGED gate
        BY <4>1, PendingBoundsAssumption DEF Fault, IInv, TypeOK
      <4>2. CASE NoFault /\ gate' = (jobs # <<>>) /\ UNCHANGED rejecting
        BY <4>2 DEF NoFault, IInv, TypeOK
      <4>3. CASE NoFault /\ UNCHANGED <<gate, rejecting>>
        BY <4>3 DEF NoFault, IInv, TypeOK
      <4> QED  BY <4>1, <4>2, <4>3 DEF Sweep
    <3>3. Store /\ Store'
      BY <3>1, StoreIs DEF IInv, Store
    <3> QED  BY <3>1, <3>2, <3>3 DEF IInv, TypeOK, SweepInStore
  <2>2. CASE /\ NoFault /\ due > 0
             /\ \E order \in Orders : work' = SubSeq(order, 1, Loaded) /\ jobs' = LoadedStay(order)
             /\ due' = Loaded + Len(jobs') - Len(jobs)
             /\ UNCHANGED <<gate, rejecting>>
    <3>1. PICK order \in Orders : work' = SubSeq(order, 1, Loaded) /\ jobs' = order
      BY <2>2 DEF LoadedStay
    <3>2. Store
      BY StoreIs DEF IInv
    <3>3. order \in Seq(Blocks) /\ Len(order) = Len(jobs) /\ IsInjective(order)
      BY <3>2, OrderIs
    <3> DEFINE n == Len(jobs)
               k == Loaded
    <3>4. n \in Nat /\ k \in 0..n
      BY <3>2, LoadedIs, LenProperties DEF Store
    <3>5. due' = k + n - n
      BY <2>2, <3>1, <3>3
    <3>6. /\ SubSeq(order, 1, k) \in Seq(Blocks) /\ IsInjective(SubSeq(order, 1, k))
          /\ Range(SubSeq(order, 1, k)) \subseteq Range(order)
      BY <3>3, <3>4, PrefixIs
    <3>7. gate' \in BOOLEAN /\ rejecting' \in BOOLEAN /\ faults' \in 0..MaxFaults
      BY <2>2 DEF NoFault, IInv, TypeOK
    <3> HIDE DEF k
    <3>8. Len(order) = n
      BY <3>3
    <3> HIDE DEF n
    <3>9. due' \in 0..n
      BY <3>4, <3>5
    <3>10. Store'
      BY <3>1, <3>3, <3>8, <3>9 DEF Store
    <3> QED  BY <3>1, <3>6, <3>7, <3>10 DEF k
  <2> QED  BY <2>1, <2>2 DEF Sweep
<1>5. TypeOK'
  BY <1>1, <1>3, <1>4 DEF IInv, TypeOK, Store
<1>6. ProbedFrom' /\ RecordedOnce' /\ OnlyOrphansFinalized'
  BY <1>1, TablesKept DEF tables, chain
<1>7. SweepInStore'
  BY <1>1, <1>2, <1>4 DEF SweepInStore
<1>8. GraceIsLong'
  BY <1>1, GraceKept
<1> QED  BY <1>5, <1>6, <1>7, <1>8 DEF IInv

\* The first job of a sweep is a stored one.
LEMMA AskedIs ==
  ASSUME IInv, NEW b \in Blocks, Asked(b)
  PROVE  work # <<>> /\ Head(work) = b /\ ~resolved /\ b \in Range(jobs)
<1>1. work # <<>> /\ Head(work) = b /\ ~resolved
  BY DEF Asked
<1>2. work \in Seq(Blocks) /\ IsInjective(work) /\ Range(work) \subseteq Range(jobs)
  BY DEF IInv, TypeOK, SweepInStore
<1>3. Head(work) \in Range(work)
  BY <1>1, <1>2, TailIs
<1> QED  BY <1>1, <1>2, <1>3

\* Recording an answer: a tombstone is written for a settled orphan only.
LEMMA RecordingKeeps ==
  ASSUME IInv, NEW b \in Blocks, NEW valid \in BOOLEAN, SaveResolved(b, valid),
         valid \/ (~canon[b] /\ b \in settled), UNCHANGED chain
  PROVE  /\ Tables' /\ ProbedFrom' /\ RecordedOnce' /\ OnlyOrphansFinalized'
         /\ \A o \in Blocks : Recorded(o)' <=> Recorded(o) \/ Siblings(o) = Siblings(b)
<1>1. Tables /\ ProbedFrom /\ RecordedOnce
  BY StoreIs DEF IInv
<1>2. /\ Tables' /\ ProbedFrom' /\ RecordedOnce'
      /\ \A s \in Slots : /\ blockDB'[s] \in {blockDB[s], [hash |-> b, valid |-> valid]}
                          /\ altblockDB'[s] \in {altblockDB[s], [hash |-> b, valid |-> valid]}
      /\ \A o \in Blocks : Recorded(o)' <=> Recorded(o) \/ Siblings(o) = Siblings(b)
  BY <1>1, SaveResolvedIs
<1>3. OnlyOrphansFinalized'
  <2> SUFFICES ASSUME NEW o \in Blocks,
                      [hash |-> o, valid |-> FALSE] \in Range(blockDB') \cup Range(altblockDB')
               PROVE  ~canon'[o] /\ o \in settled'
    BY DEF OnlyOrphansFinalized
  <2> DEFINE r == [hash |-> o, valid |-> FALSE]
  <2>1. PICK s \in Slots : blockDB'[s] = r \/ altblockDB'[s] = r
    BY <1>2 DEF Range, Tables
  <2>2. CASE r = [hash |-> b, valid |-> valid]
    <3>1. r.hash = b /\ r.valid = valid
      BY <2>2
    <3>2. o = b /\ valid = FALSE
      BY <3>1
    <3> QED  BY <3>2 DEF chain
  <2>3. CASE blockDB[s] = r \/ altblockDB[s] = r
    <3>1. r \in Range(blockDB) \cup Range(altblockDB)
      BY <1>1, <2>3 DEF Range, Tables
    <3> QED  BY <3>1 DEF IInv, OnlyOrphansFinalized, chain
  <2> HIDE DEF r
  <2> QED  BY <1>2, <2>1, <2>2, <2>3
<1> QED  BY <1>2, <1>3

LEMMA AnswerOrphanKeeps ==
  ASSUME IInv, NEW b \in Blocks, AnswerOrphan(b)
  PROVE  IInv'
<1>1. UNCHANGED <<leaf, gate, maybeBad, bad, up, closed, rejecting, canon, settled, faults, dropped>>
  BY DEF AnswerOrphan, control, chain
<1>2. Asked(b) /\ ~canon[b]
  BY DEF AnswerOrphan
<1>3. work # <<>> /\ Head(work) = b /\ b \in Range(jobs)
  BY <1>2, AskedIs
<1>4. CASE /\ GraceOver(b) /\ SaveResolved(b, FALSE) /\ resolved' = TRUE
           /\ UNCHANGED <<store, work, orphanSince>>
  <2>1. b \in settled
    BY <1>4 DEF GraceOver, IInv, GraceIsLong
  <2>2. UNCHANGED <<jobs, due, work, orphanSince>>
    BY <1>4 DEF store
  <2>3. FALSE \in BOOLEAN /\ UNCHANGED chain
    BY <1>1 DEF chain
  <2>4. /\ Tables' /\ ProbedFrom' /\ RecordedOnce' /\ OnlyOrphansFinalized'
        /\ \A o \in Blocks : Recorded(o)' <=> Recorded(o) \/ Siblings(o) = Siblings(b)
    BY <1>2, <1>4, <2>1, <2>3, RecordingKeeps
  <2>5. TypeOK'
    BY <1>1, <1>4, <2>2, <2>4 DEF IInv, TypeOK, Tables
  <2>6. SweepInStore'
    <3>1. Recorded(b)'
      BY <2>4
    <3>2. work' = work /\ Head(work)' = b
      BY <1>3, <2>2
    <3>3. Recorded(Head(work))'
      BY <3>1, <3>2 DEF Recorded
    <3> QED  BY <1>3, <2>2, <3>2, <3>3 DEF SweepInStore, IInv
  <2>7. GraceIsLong'
    BY <1>1, <2>2, GraceKept
  <2> QED  BY <2>4, <2>5, <2>6, <2>7 DEF IInv
<1>5. CASE /\ ~GraceOver(b) /\ SaveRetry(b, FALSE) /\ NextJob
           /\ orphanSince' = [orphanSince EXCEPT ![b] = IF @ = "no" THEN "recent" ELSE @]
           /\ UNCHANGED tables
  <2>1. Store' /\ Range(jobs') = Range(jobs) \cup {b}
    BY <1>5, StoreIs, SaveRetryKeepsStore DEF IInv
  <2>2. SweepInStore' /\ work' \in Seq(Blocks)
    BY <1>3, <1>5, <2>1, NextJobKept
  <2>3. /\ orphanSince' \in [Blocks -> {"no", "recent", "old"}]
        /\ \A o \in Blocks : orphanSince'[o] \in {orphanSince[o], "no", "recent"}
    BY <1>5 DEF IInv, TypeOK
  <2>4. resolved' = FALSE /\ UNCHANGED <<blockDB, altblockDB>>
    BY <1>5 DEF NextJob, tables
  <2>5. TypeOK'
    BY <1>1, <2>1, <2>2, <2>3, <2>4 DEF IInv, TypeOK, Store
  <2>6. ProbedFrom' /\ RecordedOnce' /\ OnlyOrphansFinalized'
    BY <1>1, <2>4, TablesKept DEF tables, chain
  <2>7. GraceIsLong'
    BY <1>1, <2>3, GraceKept
  <2> QED  BY <2>2, <2>5, <2>6, <2>7 DEF IInv
<1> QED  BY <1>4, <1>5 DEF AnswerOrphan

LEMMA AnswerRewardKeeps ==
  ASSUME IInv, NEW b \in Blocks, AnswerReward(b)
  PROVE  IInv'
<1>1. UNCHANGED <<leaf, jobs, due, gate, work, orphanSince, up, closed, rejecting, canon, settled, faults, dropped>>
  BY DEF AnswerReward, store, control, chain
<1>2. Asked(b) /\ SaveResolved(b, TRUE) /\ resolved' = TRUE
  BY DEF AnswerReward
<1>3. work # <<>> /\ Head(work) = b
  BY <1>2, AskedIs
<1>4. TRUE \in BOOLEAN /\ UNCHANGED chain
  BY <1>1 DEF chain
<1>5. /\ Tables' /\ ProbedFrom' /\ RecordedOnce' /\ OnlyOrphansFinalized'
      /\ \A o \in Blocks : Recorded(o)' <=> Recorded(o) \/ Siblings(o) = Siblings(b)
  BY <1>2, <1>4, RecordingKeeps
<1>6. maybeBad' \subseteq AltBlocks /\ bad' \subseteq AltBlocks
  BY DEF AnswerReward, IInv, TypeOK
<1>7. TypeOK'
  BY <1>1, <1>2, <1>5, <1>6 DEF IInv, TypeOK, Tables
<1>8. SweepInStore'
  <2>1. Recorded(b)'
    BY <1>5
  <2>2. work' = work /\ Head(work)' = b
    BY <1>1, <1>3
  <2>3. Recorded(Head(work))'
    BY <2>1, <2>2 DEF Recorded
  <2> QED  BY <1>1, <1>3, <2>2, <2>3 DEF SweepInStore, IInv
<1>9. GraceIsLong'
  BY <1>1, GraceKept
<1> QED  BY <1>5, <1>7, <1>8, <1>9 DEF IInv

LEMMA AnswerShallowKeeps ==
  ASSUME IInv, NEW b \in Blocks, AnswerShallow(b)
  PROVE  IInv'
<1>1. UNCHANGED <<leaf, gate, orphanSince, maybeBad, bad, up, closed, rejecting, blockDB, altblockDB,
                  canon, settled, faults, dropped>>
  BY DEF AnswerShallow, control, tables, chain
<1>2. Asked(b) /\ SaveRetry(b, b \in Old) /\ NextJob
  BY DEF AnswerShallow
<1>3. work # <<>> /\ Head(work) = b
  BY <1>2, AskedIs
<1>4. Store' /\ Range(jobs') = Range(jobs) \cup {b}
  BY <1>2, StoreIs, SaveRetryKeepsStore DEF IInv
<1>5. SweepInStore' /\ work' \in Seq(Blocks)
  BY <1>2, <1>3, <1>4, NextJobKept
<1>6. resolved' = FALSE
  BY <1>2 DEF NextJob
<1>7. TypeOK'
  BY <1>1, <1>4, <1>5, <1>6 DEF IInv, TypeOK, Store
<1>8. ProbedFrom' /\ RecordedOnce' /\ OnlyOrphansFinalized'
  BY <1>1, TablesKept DEF tables, chain
<1>9. GraceIsLong'
  BY <1>1, GraceKept
<1> QED  BY <1>5, <1>7, <1>8, <1>9 DEF IInv

LEMMA AnswerNothingKeeps ==
  ASSUME IInv, NEW b \in Blocks, AnswerNothing(b)
  PROVE  IInv'
<1>1. UNCHANGED <<leaf, gate, bad, up, closed, rejecting, blockDB, altblockDB, canon, settled>>
  BY DEF AnswerNothing, control, tables, chain
<1>2. Asked(b) /\ NextJob
  BY DEF AnswerNothing
<1>3. work # <<>> /\ Head(work) = b
  BY <1>2, AskedIs
<1>4. faults' \in 0..MaxFaults
  BY PendingBoundsAssumption DEF AnswerNothing, Fault, NoFault, IInv, TypeOK
<1>5. /\ Store' /\ Range(jobs) \ {b} \subseteq Range(jobs')
      /\ dropped' \subseteq Blocks /\ maybeBad' \subseteq AltBlocks
      /\ orphanSince' \in [Blocks -> {"no", "recent", "old"}]
      /\ \A o \in Blocks : orphanSince'[o] \in {orphanSince[o], "no", "recent"}
  <2>1. CASE /\ b \in bad /\ RemoveJob(b)
             /\ dropped' = dropped \cup {b}
             /\ orphanSince' = [orphanSince EXCEPT ![b] = "no"]
             /\ UNCHANGED maybeBad
    <3>1. Store' /\ Range(jobs') = Range(jobs) \ {b}
      BY <2>1, StoreIs, RemoveKeepsStore DEF IInv
    <3> QED  BY <2>1, <3>1 DEF IInv, TypeOK
  <2>2. CASE /\ b \notin bad /\ SaveRetry(b, b \in Old)
             /\ maybeBad' = maybeBad \cup ({b} \cap AltBlocks)
             /\ UNCHANGED <<dropped, orphanSince>>
    <3>1. Store' /\ Range(jobs') = Range(jobs) \cup {b}
      BY <2>2, StoreIs, SaveRetryKeepsStore DEF IInv
    <3> QED  BY <2>2, <3>1 DEF IInv, TypeOK
  <2> QED  BY <2>1, <2>2 DEF AnswerNothing
<1>6. SweepInStore' /\ work' \in Seq(Blocks)
  BY <1>2, <1>3, <1>5, NextJobKept
<1>7. resolved' = FALSE
  BY <1>2 DEF NextJob
<1>8. TypeOK'
  BY <1>1, <1>4, <1>5, <1>6, <1>7 DEF IInv, TypeOK, Store
<1>9. ProbedFrom' /\ RecordedOnce' /\ OnlyOrphansFinalized'
  BY <1>1, TablesKept DEF tables, chain
<1>10. GraceIsLong'
  BY <1>1, <1>5, GraceKept
<1> QED  BY <1>6, <1>8, <1>9, <1>10 DEF IInv

LEMMA SaveDropKeeps ==
  ASSUME IInv, SaveDrop
  PROVE  IInv' /\ Recorded(Head(work)) /\ Range(jobs') = Range(jobs) \ {Head(work)}
<1>1. UNCHANGED <<leaf, gate, maybeBad, bad, up, closed, rejecting, blockDB, altblockDB,
                  canon, settled, faults, dropped>>
  BY DEF SaveDrop, control, tables, chain
<1>2. resolved /\ RemoveJob(Head(work)) /\ NextJob /\ orphanSince' = [orphanSince EXCEPT ![Head(work)] = "no"]
  BY DEF SaveDrop
<1>3. work # <<>> /\ Recorded(Head(work)) /\ Head(work) \in Blocks
  <2>1. work # <<>> /\ Recorded(Head(work)) /\ work \in Seq(Blocks)
    BY <1>2 DEF IInv, SweepInStore, TypeOK
  <2> QED  BY <2>1, HeadTailProperties
<1>4. Store' /\ Range(jobs') = Range(jobs) \ {Head(work)}
  BY <1>2, <1>3, StoreIs, RemoveKeepsStore DEF IInv
<1>5. SweepInStore' /\ work' \in Seq(Blocks)
  BY <1>2, <1>3, <1>4, NextJobKept
<1>6. /\ orphanSince' \in [Blocks -> {"no", "recent", "old"}]
      /\ \A o \in Blocks : orphanSince'[o] \in {orphanSince[o], "no", "recent"}
  BY <1>2, <1>3 DEF IInv, TypeOK
<1>7. resolved' = FALSE
  BY <1>2 DEF NextJob
<1>8. TypeOK'
  BY <1>1, <1>4, <1>5, <1>6, <1>7 DEF IInv, TypeOK, Store
<1>9. ProbedFrom' /\ RecordedOnce' /\ OnlyOrphansFinalized'
  BY <1>1, TablesKept DEF tables, chain
<1>10. GraceIsLong'
  BY <1>1, <1>6, GraceKept
<1> QED  BY <1>3, <1>4, <1>5, <1>8, <1>9, <1>10 DEF IInv

\* What every step that touches neither the store, the tables nor the chain
\* leaves to show.
LEMMA ControlKeeps ==
  ASSUME IInv, UNCHANGED <<store, tables, chain, leaf, dropped>>,
         up' \in BOOLEAN, closed' \in BOOLEAN, rejecting' \in BOOLEAN, faults' \in 0..MaxFaults,
         Forgotten \/ (UNCHANGED <<work, resolved, orphanSince, maybeBad, bad>> /\ gate' \in BOOLEAN)
  PROVE  IInv'
<1>1. UNCHANGED <<jobs, due, leaf, dropped, blockDB, altblockDB, canon, settled>>
  BY DEF store, tables, chain
<1>2. ProbedFrom' /\ RecordedOnce' /\ OnlyOrphansFinalized' /\ \A o \in Blocks : Recorded(o)' <=> Recorded(o)
  BY TablesKept
<1>3. CASE Forgotten
  <2>1. work' = <<>> /\ resolved' = FALSE /\ orphanSince' = [b \in Blocks |-> "no"]
    BY <1>3 DEF Forgotten
  <2>2. TypeOK'
    <3>1. work' \in Seq(Blocks) /\ orphanSince' \in [Blocks -> {"no", "recent", "old"}]
      BY <2>1, EmptySeq
    <3> QED  BY <1>1, <1>3, <3>1 DEF Forgotten, IInv, TypeOK
  <2>3. SweepInStore'
    BY <2>1 DEF SweepInStore, Range, IsInjective
  <2>4. GraceIsLong'
    BY <1>1, <2>1, GraceKept
  <2> QED  BY <1>2, <2>2, <2>3, <2>4 DEF IInv
<1>4. CASE UNCHANGED <<work, resolved, orphanSince, maybeBad, bad>> /\ gate' \in BOOLEAN
  <2>1. TypeOK'
    BY <1>1, <1>4 DEF IInv, TypeOK
  <2>2. SweepInStore'
    BY <1>1, <1>2, <1>4, SweepKept
  <2>3. GraceIsLong'
    BY <1>1, <1>4, GraceKept
  <2> QED  BY <1>2, <2>1, <2>2, <2>3 DEF IInv
<1> QED  BY <1>3, <1>4

LEMMA ProcessKeeps ==
  ASSUME IInv, Crash \/ RejectWrites \/ Stop \/ Closed \/ Start
  PROVE  IInv' /\ UNCHANGED <<store, tables, chain, leaf, dropped>>
<1>1. /\ up \in BOOLEAN /\ closed \in BOOLEAN /\ rejecting \in BOOLEAN /\ gate \in BOOLEAN
      /\ faults \in 0..MaxFaults
  BY DEF IInv, TypeOK
<1>2. Fault \/ NoFault \/ UNCHANGED faults => faults' \in 0..MaxFaults
  BY <1>1, PendingBoundsAssumption DEF Fault, NoFault
<1>3. UNCHANGED <<store, tables, chain, leaf, dropped>>
  BY DEF Crash, RejectWrites, Stop, Closed, Start
<1>4. Forgotten \/ (UNCHANGED <<work, resolved, orphanSince, maybeBad, bad>> /\ gate' \in BOOLEAN)
  BY <1>1 DEF Crash, RejectWrites, Stop, Closed, Start, memory
<1>5. up' \in BOOLEAN /\ closed' \in BOOLEAN /\ rejecting' \in BOOLEAN /\ faults' \in 0..MaxFaults
  BY <1>1, <1>2 DEF Crash, RejectWrites, Stop, Closed, Start
<1> QED  BY <1>3, <1>4, <1>5, ControlKeeps

LEMMA OpenGateKeeps ==
  ASSUME IInv, OpenGate
  PROVE  IInv'
<1>1. UNCHANGED <<store, tables, chain, leaf, dropped>>
  BY DEF OpenGate
<1>2. UNCHANGED <<work, resolved, orphanSince, maybeBad, bad>> /\ gate' \in BOOLEAN
  BY DEF OpenGate
<1>3. up' \in BOOLEAN /\ closed' \in BOOLEAN /\ rejecting' \in BOOLEAN /\ faults' \in 0..MaxFaults
  BY DEF OpenGate, control, IInv, TypeOK
<1> QED  BY <1>1, <1>2, <1>3, ControlKeeps

LEMMA BecomeDueKeeps ==
  ASSUME IInv, BecomeDue
  PROVE  IInv'
<1>1. UNCHANGED <<leaf, jobs, gate, work, resolved, orphanSince, maybeBad, bad, up, closed, rejecting,
                  blockDB, altblockDB, canon, settled, faults, dropped>>
  BY DEF BecomeDue, memory, control, tables, chain
<1>2. due' \in 0..Len(jobs)
  <2>1. Len(jobs) \in Nat /\ due \in 0..Len(jobs)
    BY LenProperties DEF IInv, TypeOK
  <2> QED  BY <2>1 DEF BecomeDue
<1>3. TypeOK'
  BY <1>1, <1>2 DEF IInv, TypeOK
<1>4. ProbedFrom' /\ RecordedOnce' /\ OnlyOrphansFinalized' /\ \A o \in Blocks : Recorded(o)' <=> Recorded(o)
  BY <1>1, TablesKept DEF tables, chain
<1>5. SweepInStore'
  BY <1>1, <1>4, SweepKept
<1>6. GraceIsLong'
  BY <1>1, GraceKept
<1> QED  BY <1>3, <1>4, <1>5, <1>6 DEF IInv

LEMMA GracePassesKeeps ==
  ASSUME IInv, NEW b \in Blocks, GracePasses(b)
  PROVE  IInv'
<1>1. UNCHANGED <<leaf, jobs, due, gate, work, resolved, maybeBad, bad, up, closed, rejecting,
                  blockDB, altblockDB, canon, settled, faults, dropped>>
  BY DEF GracePasses, store, control, tables, chain
<1>2. b \in settled /\ orphanSince' = [orphanSince EXCEPT ![b] = "old"]
  BY DEF GracePasses
<1>3. TypeOK'
  BY <1>1, <1>2 DEF IInv, TypeOK
<1>4. ProbedFrom' /\ RecordedOnce' /\ OnlyOrphansFinalized' /\ \A o \in Blocks : Recorded(o)' <=> Recorded(o)
  BY <1>1, TablesKept DEF tables, chain
<1>5. SweepInStore'
  BY <1>1, <1>4, SweepKept
<1>6. GraceIsLong'
  BY <1>1, <1>2 DEF IInv, TypeOK, GraceIsLong, Siblings
<1> QED  BY <1>3, <1>4, <1>5, <1>6 DEF IInv

\* A reorganisation moves no block that is settled: the rivals of a height are
\* settled together.
LEMMA ReorganiseKeeps ==
  ASSUME IInv, NEW b \in Blocks, Reorganise(b)
  PROVE  IInv'
<1>1. UNCHANGED <<leaf, jobs, due, gate, work, resolved, orphanSince, maybeBad, bad, up, closed,
                  rejecting, blockDB, altblockDB, settled, faults, dropped>>
  BY DEF Reorganise, store, memory, control, tables
<1>2. /\ b \notin settled
      /\ canon' = [o \in Blocks |-> IF o = b THEN ~canon[b] ELSE canon[o] /\ o \notin Siblings(b)]
  BY DEF Reorganise
<1>3. canon \in [Blocks -> BOOLEAN] /\ settled \subseteq Blocks
  BY DEF IInv, TypeOK
<1>4. canon' \in [Blocks -> BOOLEAN]
  BY <1>2, <1>3
<1>5. TypeOK'
  BY <1>1, <1>4 DEF IInv, TypeOK
<1>6. ProbedFrom' /\ RecordedOnce' /\ \A o \in Blocks : Recorded(o)' <=> Recorded(o)
  BY <1>1 DEF IInv, ProbedFrom, RecordedOnce, Recorded
<1>7. SweepInStore'
  BY <1>1, <1>6, SweepKept
<1>8. GraceIsLong'
  BY <1>1, GraceKept
<1>9. ASSUME NEW o \in settled
      PROVE  ~canon[o] => ~canon'[o]
  <2>1. o \in Blocks /\ o # b
    BY <1>2, <1>3
  <2> QED  BY <2>1, <1>2, <1>3
<1>10. OnlyOrphansFinalized'
  BY <1>1, <1>9 DEF IInv, OnlyOrphansFinalized
<1> QED  BY <1>5, <1>6, <1>7, <1>8, <1>10 DEF IInv

LEMMA SettleKeeps ==
  ASSUME IInv, NEW b \in Blocks, Settle(b)
  PROVE  IInv'
<1>1. UNCHANGED <<leaf, jobs, due, gate, work, resolved, orphanSince, maybeBad, bad, up, closed,
                  rejecting, blockDB, altblockDB, canon, faults, dropped>>
  BY DEF Settle, store, memory, control, tables
<1>2. settled' = settled \cup Siblings(b)
  BY DEF Settle
<1>3. Siblings(b) \subseteq Blocks
  BY DEF Siblings, Blocks
<1>4. TypeOK'
  BY <1>1, <1>2, <1>3 DEF IInv, TypeOK
<1>5. ProbedFrom' /\ RecordedOnce' /\ OnlyOrphansFinalized' /\ \A o \in Blocks : Recorded(o)' <=> Recorded(o)
  BY <1>1, <1>2 DEF IInv, ProbedFrom, RecordedOnce, OnlyOrphansFinalized, Recorded
<1>6. SweepInStore'
  BY <1>1, <1>5, SweepKept
<1>7. GraceIsLong'
  <2>1. \A o \in Siblings(b) : Siblings(o) \subseteq Siblings(b)
    BY DEF Siblings
  <2>2. \A o \in settled' : Siblings(o) \subseteq settled'
    BY <1>2, <2>1 DEF IInv, GraceIsLong
  <2> QED  BY <1>1, <1>2, <2>2 DEF IInv, GraceIsLong, Siblings
<1> QED  BY <1>4, <1>5, <1>6, <1>7 DEF IInv

\* The block manager invalidates the record of a settled orphan.
LEMMA InvalidateKeeps ==
  ASSUME IInv, NEW s \in Slots, Invalidate(s)
  PROVE  IInv' /\ \A o \in Blocks : Recorded(o)' <=> Recorded(o)
<1>1. UNCHANGED <<leaf, jobs, due, gate, work, resolved, orphanSince, maybeBad, bad, up, closed,
                  rejecting, altblockDB, canon, settled, faults, dropped>>
  BY DEF Invalidate, store, memory, control, chain
<1> DEFINE h == blockDB[s].hash
           r == [hash |-> h, valid |-> FALSE]
<1>2. blockDB \in [Slots -> Records] /\ settled \subseteq Blocks
  BY DEF IInv, TypeOK
<1>3. h \in settled /\ ~canon[h] /\ blockDB' = [blockDB EXCEPT ![s].valid = FALSE]
  BY DEF Invalidate
<1>4. h \in Blocks
  BY <1>2, <1>3
<1>5. [blockDB[s] EXCEPT !.valid = FALSE] = r
  <2>1. \A e \in Records, v \in BOOLEAN : [e EXCEPT !.valid = v] = [hash |-> e.hash, valid |-> v]
    BY DEF Records
  <2>2. blockDB[s] \in Records /\ FALSE \in BOOLEAN
    BY <1>2
  <2> QED  BY <2>1, <2>2, Zenon
<1>6. blockDB' = [blockDB EXCEPT ![s] = r]
  <2>1. blockDB' = [blockDB EXCEPT ![s] = [blockDB[s] EXCEPT !.valid = FALSE]]
    BY <1>3
  <2> QED  BY <1>5, <2>1, Zenon
<1>7. FALSE \in BOOLEAN
  OBVIOUS
<1>8. r \in Records /\ r # Empty /\ r.hash = h
  BY <1>4, <1>7, RecordsAre
<1>9. blockDB[s] # Empty
  BY <1>4, RecordsAre, SlotsAre
<1> HIDE DEF h
<1>10. \A o \in Blocks : [hash |-> o, valid |-> FALSE] = r => o = h
  <2> TAKE o \in Blocks
  <2>1. [hash |-> o, valid |-> FALSE].hash = o
    OBVIOUS
  <2> QED  BY <2>1, <1>8
<1> HIDE DEF r
<1>11. blockDB' \in [Slots -> Records] /\ \A t \in Slots : blockDB'[t] = IF t = s THEN r ELSE blockDB[t]
  BY <1>2, <1>6, <1>8
<1>12. TypeOK'
  BY <1>1, <1>11 DEF IInv, TypeOK
<1>13. ProbedFrom' /\ RecordedOnce'
  BY <1>1 DEF IInv, ProbedFrom, RecordedOnce
<1>14. \A t \in Slots : blockDB'[t] # Empty <=> blockDB[t] # Empty
  BY <1>8, <1>9, <1>11
<1>15. \A o \in Blocks : Recorded(o)' <=> Recorded(o)
  <2> TAKE o \in Blocks
  <2>1. Id[o] \in Slots
    BY SlotsAre
  <2>2. CASE o \in MainBlocks
    BY <1>14, <2>1, <2>2 DEF Recorded
  <2>3. CASE o \notin MainBlocks
    BY <1>1, <2>3 DEF Recorded
  <2> QED  BY <2>2, <2>3
<1>16. SweepInStore'
  BY <1>1, <1>15, SweepKept
<1>17. GraceIsLong'
  BY <1>1, GraceKept
<1>18. OnlyOrphansFinalized'
  <2> SUFFICES ASSUME NEW o \in Blocks,
                      [hash |-> o, valid |-> FALSE] \in Range(blockDB') \cup Range(altblockDB')
               PROVE  ~canon'[o] /\ o \in settled'
    BY DEF OnlyOrphansFinalized
  <2> DEFINE q == [hash |-> o, valid |-> FALSE]
  <2>1. q = r \/ q \in Range(blockDB) \cup Range(altblockDB)
    BY <1>1, <1>2, <1>11 DEF Range
  <2>2. CASE q = r
    BY <1>1, <1>3, <1>10, <2>2 DEF h
  <2>3. CASE q \in Range(blockDB) \cup Range(altblockDB)
    BY <1>1, <2>3 DEF IInv, OnlyOrphansFinalized
  <2> QED  BY <2>1, <2>2, <2>3
<1> QED  BY <1>12, <1>13, <1>15, <1>16, <1>17, <1>18 DEF IInv

LEMMA StutterKeeps ==
  ASSUME IInv, UNCHANGED vars
  PROVE  IInv'
<1>1. UNCHANGED <<leaf, jobs, due, gate, work, resolved, orphanSince, maybeBad, bad, up, closed, rejecting,
                  blockDB, altblockDB, canon, settled, faults, dropped>>
  BY DEF vars, store, memory, control, tables, chain
<1> QED  BY <1>1 DEF IInv, TypeOK, SweepInStore, ProbedFrom, RecordedOnce, GraceIsLong,
             OnlyOrphansFinalized, Recorded, Siblings

LEMMA NextKeeps ==
  ASSUME IInv, [Next]_vars
  PROVE  IInv'
<1>1. CASE UNCHANGED vars
  BY <1>1, StutterKeeps
<1>2. ASSUME NEW b \in Blocks, Find(b) \/ Receive(b) PROVE IInv'
  BY <1>2, FindKeeps, ReceiveKeeps
<1>3. ASSUME NEW b \in Blocks, Answer(b) PROVE IInv'
  BY <1>3, AnswerOrphanKeeps, AnswerRewardKeeps, AnswerShallowKeeps, AnswerNothingKeeps DEF Answer
<1>4. ASSUME NEW b \in Blocks, Reorganise(b) \/ Settle(b) \/ GracePasses(b) PROVE IInv'
  BY <1>4, ReorganiseKeeps, SettleKeeps, GracePassesKeeps
<1>5. CASE Sweep \/ SaveDrop
  BY <1>5, SweepKeeps, SaveDropKeeps
<1>6. CASE Crash \/ RejectWrites \/ Stop \/ Closed \/ Start
  BY <1>6, ProcessKeeps
<1>7. CASE BecomeDue \/ OpenGate
  BY <1>7, BecomeDueKeeps, OpenGateKeeps
<1>8. ASSUME NEW s \in Slots, Invalidate(s) PROVE IInv'
  BY <1>8, InvalidateKeeps
<1> QED  BY <1>1, <1>2, <1>3, <1>4, <1>5, <1>6, <1>7, <1>8 DEF Next, Receiver, Time

\* Every state of every behaviour satisfies the inductive invariant.
THEOREM InvariantHolds == Spec => []IInv
<1>1. Init => IInv
  BY InitIs
<1>2. IInv /\ [Next]_vars => IInv'
  BY NextKeeps
<1> QED  BY <1>1, <1>2, PTL DEF Spec

\* The uplink, the job store, the primary's memory and the tables keep their
\* types in every behaviour; a key is stored once, whatever is resent.
THEOREM TypeCorrect == Spec => []TypeOK
<1>1. IInv => TypeOK
  BY DEF IInv
<1> QED  BY <1>1, InvariantHolds, PTL

\* saveResolvedAltBlock records a hash in one slot only, for any number of
\* blocks that ask for one slot, resent frames and restarts.
THEOREM RecordedOnceHolds == Spec => []RecordedOnce
<1>1. IInv => RecordedOnce
  BY DEF IInv
<1> QED  BY <1>1, InvariantHolds, PTL

\* handleOrphanHeader records a tombstone for settled orphans only, for any
\* blocks, keys and reorganisations.
THEOREM OnlyOrphansFinalizedHolds == Spec => []OnlyOrphansFinalized
<1>1. IInv => OnlyOrphansFinalized
  BY DEF IInv
<1> QED  BY <1>1, InvariantHolds, PTL

-----------------------------------------------------------------------------
(* PendingBlocks implements BlockDelivery *)

Placed == [b \in Blocks |-> Place(b)]
Told == {b \in Blocks : leaf[b] = "done"}

\* A step that moves no block and tells nobody anything.
LEMMA SamePlaces ==
  ASSUME UNCHANGED leaf, \A b \in Blocks : Place(b)' = Place(b)
  PROVE  UNCHANGED Delivery!vars
<1>1. Placed' = Placed /\ Told' = Told
  BY DEF Placed, Told
<1> QED  BY <1>1 DEF Delivery!vars, Placed, Told

LEMMA PlaceIs ==
  ASSUME NEW b \in Blocks,
         Recorded(b)' <=> Recorded(b), Pending(b)' <=> Pending(b), b \in dropped' <=> b \in dropped
  PROVE  Place(b)' = Place(b)
BY DEF Place

\* The step of a frame's first or repeated delivery.
LEMMA ReceiveDelivers ==
  ASSUME IInv, NEW b \in Blocks, Receive(b)
  PROVE  Delivery!Keep(b)
<1>1. UNCHANGED <<tables, chain, dropped>>
  BY DEF Receive
<1>2. Range(jobs') = Range(jobs) \cup {b}
  BY StoreIs, EnqueueKeepsStore DEF Receive, IInv
<1>3. \A o \in Blocks : Recorded(o)' <=> Recorded(o)
  BY <1>1, TablesKept
<1>4. \A o \in Blocks : o # b => Place(o)' = Place(o)
  BY <1>1, <1>2, <1>3, PlaceIs DEF Pending
<1>5. Place(b)' = IF Place(b) = "table" THEN Place(b) ELSE "queue"
  BY <1>2, <1>3 DEF Place, Pending
<1>6. Placed' = [Placed EXCEPT ![b] = IF @ = "table" THEN @ ELSE "queue"]
  BY <1>4, <1>5 DEF Placed
<1>7. Told' = Told \/ Told' = Told \cup {b}
  BY DEF Receive, Told, IInv, TypeOK
<1> QED  BY <1>6, <1>7 DEF Delivery!Keep, Placed, Told

\* The step that records a block, unless its key is in the tables already.
LEMMA RecordingDelivers ==
  ASSUME IInv, NEW b \in Blocks, Pending(b), UNCHANGED <<leaf, jobs, dropped>>,
         \A o \in Blocks : Recorded(o)' <=> Recorded(o) \/ Siblings(o) = Siblings(b)
  PROVE  Delivery!Record(b) \/ UNCHANGED Delivery!vars
<1>1. \A o \in Blocks : Place(o)' = IF Siblings(o) = Siblings(b) THEN "table" ELSE Place(o)
  BY DEF Place, Pending
<1>2. CASE Recorded(b)
  <2>1. \A o \in Blocks : Siblings(o) = Siblings(b) => Recorded(o)
    <3> TAKE o \in Blocks
    <3>1. CASE o = b
      BY <3>1, <1>2
    <3>2. CASE o # b /\ Siblings(o) = Siblings(b)
      <4>1. o \in MainBlocks /\ b \in MainBlocks /\ Id[o] = Id[b]
        BY <3>2, SiblingsAre
      <4> QED  BY <1>2, <4>1 DEF Recorded
    <3> QED  BY <3>1, <3>2
  <2>2. \A o \in Blocks : Place(o)' = Place(o)
    BY <1>1, <2>1 DEF Place
  <2> QED  BY <2>2, SamePlaces
<1>3. CASE ~Recorded(b)
  <2>1. Place(b) = "queue"
    BY <1>3 DEF Place
  <2>2. Placed' = [o \in Blocks |-> IF Siblings(o) = Siblings(b) THEN "table" ELSE Place(o)]
    BY <1>1 DEF Placed
  <2>3. Siblings(b)' = Siblings(b)
    BY DEF Siblings
  <2> QED  BY <2>1, <2>2 DEF Delivery!Record, Placed
<1> QED  BY <1>2, <1>3

LEMMA AnswerDelivers ==
  ASSUME IInv, NEW b \in Blocks, Answer(b)
  PROVE  Delivery!Record(b) \/ Delivery!Drop(b) \/ UNCHANGED Delivery!vars
<1>1. Asked(b)
  BY DEF Answer, AnswerOrphan, AnswerReward, AnswerShallow, AnswerNothing
<1>2. Pending(b) /\ Head(work) = b
  BY <1>1, AskedIs DEF Pending
<1>3. UNCHANGED leaf
  BY DEF Answer, AnswerOrphan, AnswerReward, AnswerShallow, AnswerNothing
<1>4. ASSUME NEW longest, SaveRetry(b, longest), UNCHANGED <<tables, chain, dropped>>
      PROVE  UNCHANGED Delivery!vars
  <2>1. Range(jobs') = Range(jobs) \cup {b}
    BY <1>4, StoreIs, SaveRetryKeepsStore DEF IInv
  <2>2. \A o \in Blocks : Recorded(o)' <=> Recorded(o)
    BY <1>4, TablesKept
  <2>3. \A o \in Blocks : Pending(o)' <=> Pending(o)
    BY <1>2, <2>1 DEF Pending
  <2>4. \A o \in Blocks : Place(o)' = Place(o)
    BY <1>4, <2>2, <2>3, PlaceIs
  <2> QED  BY <1>3, <2>4, SamePlaces
<1>5. ASSUME NEW valid \in BOOLEAN, SaveResolved(b, valid), valid \/ (~canon[b] /\ b \in settled),
             UNCHANGED <<chain, store, dropped>>
      PROVE  Delivery!Record(b) \/ UNCHANGED Delivery!vars
  <2>1. \A o \in Blocks : Recorded(o)' <=> Recorded(o) \/ Siblings(o) = Siblings(b)
    BY <1>5, RecordingKeeps
  <2>2. UNCHANGED <<leaf, jobs, dropped>>
    BY <1>3, <1>5 DEF store
  <2> QED  BY <1>2, <2>1, <2>2, RecordingDelivers
<1>6. CASE AnswerOrphan(b)
  <2>1. CASE GraceOver(b) /\ SaveResolved(b, FALSE) /\ UNCHANGED store
    <3>1. ~canon[b] /\ b \in settled /\ FALSE \in BOOLEAN /\ UNCHANGED <<chain, dropped>>
      BY <1>6, <2>1 DEF AnswerOrphan, GraceOver, IInv, GraceIsLong
    <3> QED  BY <1>5, <2>1, <3>1
  <2>2. CASE SaveRetry(b, FALSE) /\ UNCHANGED tables
    <3>1. UNCHANGED <<tables, chain, dropped>>
      BY <1>6, <2>2 DEF AnswerOrphan
    <3> QED  BY <1>4, <2>2, <3>1
  <2> QED  BY <1>6, <2>1, <2>2 DEF AnswerOrphan
<1>7. CASE AnswerReward(b)
  <2>1. SaveResolved(b, TRUE) /\ TRUE \in BOOLEAN /\ UNCHANGED <<chain, store, dropped>>
    BY <1>7 DEF AnswerReward
  <2> QED  BY <1>5, <2>1
<1>8. CASE AnswerShallow(b)
  <2>1. SaveRetry(b, b \in Old) /\ UNCHANGED <<tables, chain, dropped>>
    BY <1>8 DEF AnswerShallow
  <2> QED  BY <1>4, <2>1
<1>9. CASE AnswerNothing(b)
  <2>1. UNCHANGED <<tables, chain>>
    BY <1>9 DEF AnswerNothing
  <2>2. CASE SaveRetry(b, b \in Old) /\ UNCHANGED dropped
    BY <1>4, <2>1, <2>2
  <2>3. CASE RemoveJob(b) /\ dropped' = dropped \cup {b}
    <3>1. Range(jobs') = Range(jobs) \ {b}
      BY <2>3, StoreIs, RemoveKeepsStore DEF IInv
    <3>2. \A o \in Blocks : Recorded(o)' <=> Recorded(o)
      BY <2>1, TablesKept
    <3>3. \A o \in Blocks : o # b => Place(o)' = Place(o)
      BY <2>3, <3>1, <3>2, PlaceIs DEF Pending
    <3>4. CASE Recorded(b)
      <4>1. Place(b)' = Place(b)
        BY <3>2, <3>4 DEF Place
      <4> QED  BY <1>3, <3>3, <4>1, SamePlaces
    <3>5. CASE ~Recorded(b)
      <4>1. Place(b) = "queue" /\ Place(b)' = "dropped"
        BY <1>2, <2>3, <3>1, <3>2, <3>5 DEF Place, Pending
      <4>2. Placed' = [Placed EXCEPT ![b] = "dropped"] /\ Told' = Told
        BY <1>3, <3>3, <4>1 DEF Placed, Told
      <4> QED  BY <4>1, <4>2 DEF Delivery!Drop, Placed, Told
    <3> QED  BY <3>4, <3>5
  <2> QED  BY <1>9, <2>2, <2>3 DEF AnswerNothing
<1> QED  BY <1>6, <1>7, <1>8, <1>9 DEF Answer

\* Every other step leaves each block where it is.
LEMMA OthersDeliverNothing ==
  ASSUME IInv,
         \/ Sweep \/ SaveDrop \/ Crash \/ RejectWrites \/ Stop \/ Closed \/ Start \/ BecomeDue \/ OpenGate
         \/ \E b \in Blocks : Find(b) \/ Reorganise(b) \/ Settle(b) \/ GracePasses(b)
         \/ \E s \in Slots : Invalidate(s)
         \/ UNCHANGED vars
  PROVE  UNCHANGED Delivery!vars
<1> DEFINE Stays == /\ Told' = Told /\ UNCHANGED dropped
                    /\ \A o \in Blocks : (Recorded(o)' <=> Recorded(o)) /\ (Recorded(o) \/ (Pending(o)' <=> Pending(o)))
<1>1. ASSUME Stays PROVE UNCHANGED Delivery!vars
  <2>1. \A o \in Blocks : Place(o)' = Place(o)
    BY <1>1 DEF Place
  <2>2. Placed' = Placed /\ Told' = Told
    BY <1>1, <2>1 DEF Placed
  <2> QED  BY <2>2 DEF Delivery!vars, Placed, Told
<1>2. ASSUME UNCHANGED leaf PROVE Told' = Told
  BY <1>2 DEF Told
<1>3. ASSUME UNCHANGED tables PROVE \A o \in Blocks : Recorded(o)' <=> Recorded(o)
  BY <1>3 DEF tables, Recorded
<1>4. ASSUME Range(jobs') = Range(jobs) PROVE \A o \in Blocks : Pending(o)' <=> Pending(o)
  BY <1>4 DEF Pending
<1>5. CASE Sweep
  <2>1. UNCHANGED <<leaf, tables, dropped>>
    BY <1>5 DEF Sweep
  <2>2. Range(jobs') = Range(jobs)
    <3>1. Store
      BY StoreIs DEF IInv
    <3>2. CASE UNCHANGED store
      BY <3>2 DEF store
    <3>3. CASE \E order \in Orders : jobs' = LoadedStay(order)
      BY <3>1, <3>3, OrderIs DEF LoadedStay
    <3> QED  BY <1>5, <3>2, <3>3 DEF Sweep
  <2> QED  BY <1>1, <1>2, <1>3, <1>4, <2>1, <2>2
<1>6. CASE SaveDrop
  <2>1. UNCHANGED <<leaf, tables, dropped>>
    BY <1>6 DEF SaveDrop
  <2>2. Recorded(Head(work)) /\ Range(jobs') = Range(jobs) \ {Head(work)}
    BY <1>6, SaveDropKeeps
  <2>3. \A o \in Blocks : Recorded(o) \/ (Pending(o)' <=> Pending(o))
    BY <2>2 DEF Pending
  <2> QED  BY <1>1, <1>2, <1>3, <2>1, <2>3
<1>7. CASE Crash \/ RejectWrites \/ Stop \/ Closed \/ Start
  <2>1. UNCHANGED <<leaf, tables, dropped, jobs>>
    BY <1>7, ProcessKeeps DEF store
  <2> QED  BY <1>1, <1>2, <1>3, <1>4, <2>1
<1>8. CASE BecomeDue \/ OpenGate \/ \E b \in Blocks : Reorganise(b) \/ Settle(b) \/ GracePasses(b)
  <2>1. UNCHANGED <<leaf, tables, dropped, jobs>>
    BY <1>8 DEF BecomeDue, OpenGate, Reorganise, Settle, GracePasses, store
  <2> QED  BY <1>1, <1>2, <1>3, <1>4, <2>1
<1>9. CASE \E b \in Blocks : Find(b)
  <2>1. UNCHANGED <<tables, dropped, jobs>>
    BY <1>9 DEF Find, store
  <2>2. Told' = Told
    BY <1>9 DEF Find, Told, IInv, TypeOK
  <2> QED  BY <1>1, <1>3, <1>4, <2>1, <2>2
<1>10. CASE \E s \in Slots : Invalidate(s)
  <2>1. UNCHANGED <<leaf, dropped, jobs>>
    BY <1>10 DEF Invalidate, store
  <2>2. \A o \in Blocks : Recorded(o)' <=> Recorded(o)
    BY <1>10, InvalidateKeeps
  <2> QED  BY <1>1, <1>2, <1>4, <2>1, <2>2
<1>11. CASE UNCHANGED vars
  <2>1. UNCHANGED <<leaf, tables, dropped, jobs>>
    BY <1>11 DEF vars, store
  <2> QED  BY <1>1, <1>2, <1>3, <1>4, <2>1
<1> QED  BY <1>5, <1>6, <1>7, <1>8, <1>9, <1>10, <1>11

\* Job store, sweeps, resent frames and crashes together implement the safe
\* keeping of BlockDelivery: no acknowledged block is lost on the way to the
\* tables, whatever the blocks, their keys and the faults.
THEOREM Implementation == Spec => ImplementsDelivery
<1>1. Init => Delivery!Init
  <2> SUFFICES ASSUME Init PROVE Delivery!Init
    OBVIOUS
  <2>1. \A b \in Blocks : ~Recorded(b)
    BY RecordsAre, SlotsAre DEF Init, Recorded
  <2>2. \A b \in Blocks : Place(b) = "nowhere"
    BY <2>1 DEF Place, Pending, Range, Init
  <2>3. Placed = [b \in Blocks |-> "nowhere"] /\ Told = {}
    BY <2>2 DEF Placed, Told, Init
  <2> QED  BY <2>3 DEF Delivery!Init, Placed, Told
<1>2. IInv /\ [Next]_vars => [Delivery!Next]_(Delivery!vars)
  <2> SUFFICES ASSUME IInv, [Next]_vars PROVE Delivery!Next \/ UNCHANGED Delivery!vars
    OBVIOUS
  <2>1. ASSUME NEW b \in Blocks, Receive(b) PROVE Delivery!Next
    BY <2>1, ReceiveDelivers DEF Delivery!Next
  <2>2. ASSUME NEW b \in Blocks, Answer(b) PROVE Delivery!Next \/ UNCHANGED Delivery!vars
    BY <2>2, AnswerDelivers DEF Delivery!Next
  <2>3. CASE \/ Sweep \/ SaveDrop \/ Crash \/ RejectWrites \/ Stop \/ Closed \/ Start \/ BecomeDue \/ OpenGate
             \/ \E b \in Blocks : Find(b) \/ Reorganise(b) \/ Settle(b) \/ GracePasses(b)
             \/ \E s \in Slots : Invalidate(s)
             \/ UNCHANGED vars
    BY <2>3, OthersDeliverNothing
  <2> QED  BY <2>1, <2>2, <2>3 DEF Next, Receiver, Time
<1> QED  BY <1>1, <1>2, InvariantHolds, PTL DEF Spec, ImplementsDelivery, Delivery!Spec

-----------------------------------------------------------------------------
(* Probing ends *)

LEMMA LeastIs ==
  ASSUME NEW A \in SUBSET Nat, A # {}
  PROVE  \E m \in A : \A x \in A : m <= x
<1>1. IsWellFoundedOn(OpToRel(<, Nat), Nat)
  BY NatLessThanWellFounded
<1>2. PICK m \in A : \A x \in A : ~(<<x, m>> \in OpToRel(<, Nat))
  BY <1>1, WFMin
<1>3. \A x \in A : ~(x < m)
  BY <1>2 DEF OpToRel
<1> QED  BY <1>3

\* Of the slots from the asked key on, one more than there are alt blocks, one is
\* free or the block's own.
LEMMA AFreeSlot ==
  ASSUME IInv, NEW b \in AltBlocks
  PROVE  \E s \in Slots : Id[b] <= s /\ altblockDB[s].hash \in {b, NoBlock}
<1> SUFFICES ASSUME \A s \in Slots : Id[b] <= s => altblockDB[s].hash \notin {b, NoBlock}
             PROVE  FALSE
  OBVIOUS
<1> DEFINE c == Cardinality(AltBlocks)
           k == Id[b]
           S == k..(k + c)
           f == [s \in S |-> altblockDB[s].hash]
<1>1. IsFiniteSet(AltBlocks) /\ c \in Nat
  <2>1. AltBlocks \subseteq Blocks /\ IsFiniteSet(Blocks)
    BY PendingBlocksAssumption DEF Blocks
  <2>2. IsFiniteSet(AltBlocks)
    BY <2>1, FS_Subset
  <2> QED  BY <2>2, FS_CardinalityType
<1>2. b \in Blocks /\ k \in Nat /\ k \in Slots
  BY SlotsAre DEF Blocks
<1>3. \A n \in 1..c : k + n \in Slots
  BY DEF Slots
<1> HIDE DEF c, k
<1>4. S \subseteq Slots
  <2> SUFFICES ASSUME NEW s \in S PROVE s \in Slots
    OBVIOUS
  <2>1. s = k \/ s - k \in 1..c
    BY <1>1, <1>2
  <2>2. s = k + (s - k)
    BY <1>1, <1>2
  <2> QED  BY <1>2, <1>3, <2>1, <2>2
<1>5. \A s \in S : altblockDB[s].hash \in AltBlocks
  <2>1. \A s \in S : s \in Slots /\ k <= s
    BY <1>1, <1>2, <1>4
  <2> QED  BY <2>1 DEF IInv, ProbedFrom, k
<1>6. IsFiniteSet(S) /\ Cardinality(S) = c + 1
  <2> DEFINE e == k + c
  <2>1. k \in Int /\ e \in Int /\ (IF k > e THEN 0 ELSE e - k + 1) = c + 1
    BY <1>1, <1>2
  <2>2. S = k..e
    OBVIOUS
  <2> HIDE DEF e, S
  <2>3. IsFiniteSet(k..e) /\ Cardinality(k..e) = IF k > e THEN 0 ELSE e - k + 1
    BY <2>1, FS_Interval
  <2> QED  BY <2>1, <2>2, <2>3
<1> HIDE DEF S
<1>7. f \in [S -> AltBlocks]
  BY <1>5
<1>8. Cardinality(AltBlocks) < Cardinality(S)
  BY <1>1, <1>6 DEF c
<1> HIDE DEF f
<1>9. PICK x, y \in S : x # y /\ f[x] = f[y]
  BY <1>1, <1>6, <1>7, <1>8, FS_PigeonHole
<1>10. altblockDB[x].hash = altblockDB[y].hash
  BY <1>9 DEF f
<1>11. altblockDB[x] # Empty
  BY <1>5, RecordsAre, SlotsAre DEF Blocks
<1> QED  BY <1>4, <1>9, <1>10, <1>11 DEF IInv, RecordedOnce

\* saveResolvedAltBlock's loop over the keys ends: at the first free slot or at
\* the block's own, and Slots holds it, for any number of alt blocks that ask
\* for any keys.
ProbingEndsAt == \A b \in AltBlocks : \E s \in Slots : Probe(b, s)

THEOREM ProbingEnds == Spec => []ProbingEndsAt
<1>1. ASSUME IInv, NEW b \in AltBlocks
      PROVE  \E s \in Slots : Probe(b, s)
  <2> DEFINE A == {s \in Slots : Id[b] <= s /\ altblockDB[s].hash \in {b, NoBlock}}
  <2>1. A \subseteq Nat /\ A # {}
    <3>1. \E s \in Slots : Id[b] <= s /\ altblockDB[s].hash \in {b, NoBlock}
      BY <1>1, AFreeSlot
    <3> QED  BY <3>1, SlotsAre
  <2>2. PICK m \in A : \A x \in A : m <= x
    BY <2>1, LeastIs
  <2>3. \A t \in Slots : Id[b] <= t /\ t < m => altblockDB[t].hash \notin {b, NoBlock}
    <3> SUFFICES ASSUME NEW t \in Slots, Id[b] <= t, t < m, altblockDB[t].hash \in {b, NoBlock}
                 PROVE  FALSE
      OBVIOUS
    <3>1. m <= t /\ t \in Nat /\ m \in Nat
      BY <2>1, <2>2
    <3> QED  BY <3>1
  <2>4. Id[b] \in Nat /\ m \in Nat /\ Id[b] <= m
    BY <2>1, SlotsAre DEF Blocks
  <2>5. Probe(b, m)
    BY <2>3, <2>4 DEF Probe
  <2> QED  BY <2>2, <2>5
<1>2. IInv => ProbingEndsAt
  BY <1>1 DEF ProbingEndsAt
<1> QED  BY <1>2, InvariantHolds, PTL
=============================================================================
