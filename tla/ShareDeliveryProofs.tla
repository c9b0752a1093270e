------------------------ MODULE ShareDeliveryProofs ------------------------
(***************************************************************************)
(* Theorems about ShareDelivery for any number of rigs, payees and fronts, *)
(* any limits and bounds, and any set of faults.                           *)
(*                                                                         *)
(* What a step does to the accumulators and to the set of frames is first  *)
(* put in one form (Moves), and so is what it does to the frames on their  *)
(* way; each part of the invariant then follows from that form alone.      *)
(***************************************************************************)
EXTENDS ShareDelivery, FiniteSetTheorems, TLAPS

Places == {"ipc", "queued", "sent", "failed", "accepted", "refused", "done", "dead"}
Entry == [height : Nat, old : BOOLEAN, shares : SUBSET Nat]
Frame == [shares : SUBSET Nat, height : Nat, name : Names, payee : Payees]

\* The accumulators and the frames.
LeafOK ==
    /\ DOMAIN acc \subseteq Names
    /\ \A n \in DOMAIN acc : /\ acc[n] \in Entry
                             /\ acc[n].shares \subseteq Shares
    /\ \A f \in Frames : f \in Frame /\ f.shares \subseteq Shares /\ frames[f] \in Places
    /\ credited \in Seq(Nat)
    /\ finalizer \in BOOLEAN
    /\ faults \in 0..MaxFaults

FrontRecs == [up : BOOLEAN, rejecting : BOOLEAN, ipc : Seq(Frames), notice : BOOLEAN]
PrimaryRecs == [queue : Seq(Frames), timer : BOOLEAN, draining : BOOLEAN,
                rejecting : BOOLEAN, phase : {"run", "closing", "drain"}]
Requests == [f : Frames, r : Fronts, open : BOOLEAN]

\* The wire and the receiver.
WayOK ==
    /\ requests \subseteq Requests
    /\ front \in [Fronts -> FrontRecs]
    /\ primary \in PrimaryRecs
    /\ rows \in [DOMAIN rows -> {1}]
    /\ DOMAIN rows \subseteq Frames
    /\ DOMAIN counted = DOMAIN rows

\* named is the number of names with an accumulator of their own.
NamesCounted ==
    /\ IsFiniteSet(DOMAIN acc)
    /\ named = Cardinality(DOMAIN acc \ {Other})
    /\ DOMAIN acc # {} => finalizer

\* A share is in one accumulator, or in one frame of each payee, or gone.
OneHolder == \A m, n \in DOMAIN acc : \A s \in acc[m].shares \cap acc[n].shares : m = n
HeldOrMade == \A n \in DOMAIN acc, f \in Frames : acc[n].shares \cap f.shares = {}
OneFrame == \A f, g \in Frames : \A s \in f.shares \cap g.shares : f.payee = g.payee => f = g
EveryPayee == \A f \in Frames, p \in Payees : \E g \in Frames : g.payee = p /\ g.shares = f.shares
Placed ==
    \A s \in Shares : \/ s \in gone
                      \/ \E n \in DOMAIN acc : s \in acc[n].shares
                      \/ \A p \in Payees : \E f \in Frames : f.payee = p /\ s \in f.shares

\* An accumulator has the height of its first share.
FirstAt(s, held, h) == s \in held /\ h = credited[s] /\ \A t \in held : s <= t
HeldAtFirst == \A n \in DOMAIN acc : \E s \in Shares : FirstAt(s, acc[n].shares, acc[n].height)

Conserved ==
    /\ LeafOK /\ NamesCounted
    /\ OneHolder /\ HeldOrMade /\ OneFrame /\ EveryPayee /\ Placed
    /\ HeldAtFirst /\ BookedAtFirst

\* Nothing is lost between the answer and the table.
Safe == DOMAIN rows \cup InReceiver \cup dropped
AnsweredIsSafe == \A f \in Frames : frames[f] \in {"accepted", "done"} => f \in Safe
DrainedIsEmpty == primary.phase = "drain" => \A r \in Fronts : front[r].ipc = <<>>

Arrives == WayOK /\ AnsweredIsSafe /\ DrainedIsEmpty

IInv == Conserved /\ Arrives
-----------------------------------------------------------------------------
(* The accumulators *)

\* Frames made of the accumulators ns.
Flushed(ns) == UNION {StoreShareDiv(acc[n], n) : n \in ns}

\* What a step does to accumulators and frames: those in `stay' are kept,
\* those in `out' are flushed, and what the others held is gone; a share that
\* is new joins one of them.
Moves(stay, out) ==
    /\ stay \subseteq DOMAIN acc /\ out \subseteq DOMAIN acc \ stay
    /\ \A n \in out : acc[n].shares # {}
    /\ Frames' = Frames \cup Flushed(out)
    /\ \A n \in DOMAIN acc \ (stay \cup out) : acc[n].shares \subseteq gone'
    /\ gone \subseteq gone'
    /\ stay \subseteq DOMAIN acc'
    /\ \A n \in stay : acc[n].shares \subseteq acc'[n].shares /\ acc'[n].height = acc[n].height
    /\ \A n \in DOMAIN acc' \ stay : \E s \in Shares' \ Shares :
          acc'[n].shares = {s} /\ acc'[n].height = credited'[s]
    /\ \A n \in DOMAIN acc' : \A s \in acc'[n].shares :
          s \in Shares' \ Shares \/ (n \in stay /\ s \in acc[n].shares)
    /\ \A s \in Shares' \ Shares :
          \E n \in DOMAIN acc' : /\ s \in acc'[n].shares
                                 /\ \A m \in DOMAIN acc' : s \in acc'[m].shares => m = n
    /\ Shares \subseteq Shares'
    /\ \A s \in Shares : credited'[s] = credited[s]
    /\ \A s \in Shares' \ Shares : \A t \in Shares : t <= s
    /\ Shares \subseteq Nat /\ Shares' \subseteq Nat

\* The types and the count of names after a step.
Sound ==
    /\ DOMAIN acc' \subseteq Names
    /\ \A n \in DOMAIN acc' : acc'[n] \in Entry
    /\ \A f \in Frames' : frames'[f] \in Places
    /\ credited' \in Seq(Nat)
    /\ finalizer' \in BOOLEAN
    /\ faults' \in 0..MaxFaults
    /\ NamesCounted'

\* A step that leaves the accumulators alone and makes no frame.
Passes ==
    /\ UNCHANGED leaf
    /\ Frames' = Frames
    /\ \A f \in Frames' : frames'[f] \in Places
    /\ faults' \in 0..MaxFaults

LEMMA FramesOfFlush ==
    ASSUME NEW ns
    PROVE  \A f : f \in Flushed(ns) <=>
                  \E n \in ns : /\ f \in [shares : {acc[n].shares}, height : {acc[n].height},
                                          name : {n}, payee : Payees]
BY DEF Flushed, StoreShareDiv

\* A flushed accumulator gives each payee one frame with its shares.
LEMMA FrameOf ==
    ASSUME NEW ns
    PROVE  /\ \A f \in Flushed(ns) : \E n \in ns : /\ f.shares = acc[n].shares
                                                   /\ f.height = acc[n].height
                                                   /\ f.name = n /\ f.payee \in Payees
           /\ \A n \in ns, p \in Payees : \E f \in Flushed(ns) :
                 f.shares = acc[n].shares /\ f.payee = p
           /\ \A f, g \in Flushed(ns) :
                 f.shares = g.shares /\ f.height = g.height /\ f.name = g.name
                 /\ f.payee = g.payee => f = g
<1>1. \A f \in Flushed(ns) : \E n \in ns :
         f \in [shares : {acc[n].shares}, height : {acc[n].height}, name : {n}, payee : Payees]
  BY FramesOfFlush
<1>2. \A f \in Flushed(ns) : \E n \in ns : /\ f.shares = acc[n].shares
                                           /\ f.height = acc[n].height
                                           /\ f.name = n /\ f.payee \in Payees
  BY <1>1
<1>3. ASSUME NEW n \in ns, NEW p \in Payees
      PROVE  \E f \in Flushed(ns) : f.shares = acc[n].shares /\ f.payee = p
  <2> DEFINE g == [shares |-> acc[n].shares, height |-> acc[n].height, name |-> n, payee |-> p]
  <2>1. g \in [shares : {acc[n].shares}, height : {acc[n].height}, name : {n}, payee : Payees]
    OBVIOUS
  <2>2. g \in Flushed(ns)
    BY <2>1, FramesOfFlush
  <2> QED
    BY <2>2
<1>4. ASSUME NEW f \in Flushed(ns), NEW g \in Flushed(ns),
             f.shares = g.shares, f.height = g.height, f.name = g.name, f.payee = g.payee
      PROVE  f = g
  <2>1. PICK m \in ns : f \in [shares : {acc[m].shares}, height : {acc[m].height},
                               name : {m}, payee : Payees]
    BY <1>1
  <2>2. PICK n \in ns : g \in [shares : {acc[n].shares}, height : {acc[n].height},
                               name : {n}, payee : Payees]
    BY <1>1
  <2> QED
    BY <2>1, <2>2, <1>4
<1> QED
  BY <1>2, <1>3, <1>4

\* What a step that moves shares keeps.
LEMMA MovesConserve ==
    ASSUME Conserved, NEW stay, NEW out, Moves(stay, out), Sound
    PROVE  Conserved'
<1> DEFINE Fl == Flushed(out)
<1>a. /\ stay \subseteq DOMAIN acc /\ out \subseteq DOMAIN acc \ stay
      /\ \A n \in out : acc[n].shares # {}
      /\ Frames' = Frames \cup Fl
      /\ \A n \in DOMAIN acc \ (stay \cup out) : acc[n].shares \subseteq gone'
      /\ gone \subseteq gone'
  BY DEF Moves
<1>b. /\ stay \subseteq DOMAIN acc'
      /\ \A n \in stay : acc[n].shares \subseteq acc'[n].shares /\ acc'[n].height = acc[n].height
      /\ \A n \in DOMAIN acc' \ stay : \E s \in Shares' \ Shares :
            acc'[n].shares = {s} /\ acc'[n].height = credited'[s]
      /\ \A n \in DOMAIN acc' : \A s \in acc'[n].shares :
            s \in Shares' \ Shares \/ (n \in stay /\ s \in acc[n].shares)
  BY DEF Moves
<1>c. /\ \A s \in Shares' \ Shares :
            \E n \in DOMAIN acc' : /\ s \in acc'[n].shares
                                   /\ \A m \in DOMAIN acc' : s \in acc'[m].shares => m = n
      /\ Shares \subseteq Shares'
      /\ \A s \in Shares : credited'[s] = credited[s]
      /\ \A s \in Shares' \ Shares : \A t \in Shares : t <= s
      /\ Shares \subseteq Nat /\ Shares' \subseteq Nat
  BY DEF Moves
<1>d. /\ \A f \in Fl : \E n \in out : /\ f.shares = acc[n].shares
                                      /\ f.height = acc[n].height
                                      /\ f.name = n /\ f.payee \in Payees
      /\ \A n \in out, p \in Payees : \E f \in Fl : f.shares = acc[n].shares /\ f.payee = p
      /\ \A f, g \in Fl :
            f.shares = g.shares /\ f.height = g.height /\ f.name = g.name
            /\ f.payee = g.payee => f = g
  BY FrameOf
<1>e. \A f \in Fl : \E n \in out : f \in [shares : {acc[n].shares}, height : {acc[n].height},
                                          name : {n}, payee : Payees]
  BY FramesOfFlush
<1> HIDE DEF Fl
<1>f. /\ DOMAIN acc \subseteq Names
      /\ \A n \in DOMAIN acc : /\ acc[n] \in Entry
                               /\ acc[n].shares \subseteq Shares
      /\ \A f \in Frames : f \in Frame /\ f.shares \subseteq Shares
  BY DEF Conserved, LeafOK
<1>g. OneHolder /\ HeldOrMade /\ OneFrame /\ EveryPayee /\ Placed /\ HeldAtFirst /\ BookedAtFirst
  BY DEF Conserved
<1>1. ASSUME NEW n \in DOMAIN acc'
      PROVE  acc'[n].shares \subseteq Shares'
  <2>1. ASSUME NEW s \in acc'[n].shares PROVE s \in Shares'
    <3>1. s \in Shares' \/ (n \in DOMAIN acc /\ s \in acc[n].shares)
      BY <1>a, <1>b
    <3> QED
      BY <3>1, <1>c, <1>f
  <2> QED
    BY <2>1
<1>2. ASSUME NEW f \in Frames'
      PROVE  f \in Frame /\ f.shares \subseteq Shares'
  <2>1. CASE f \in Frames
    BY <2>1, <1>c, <1>f
  <2>2. CASE f \in Fl
    <3>1. PICK n \in out : f \in [shares : {acc[n].shares}, height : {acc[n].height},
                                  name : {n}, payee : Payees]
      BY <2>2, <1>e
    <3>2. n \in DOMAIN acc /\ n \in Names /\ acc[n] \in Entry /\ acc[n].shares \subseteq Shares
      BY <1>a, <1>f
    <3>3. acc[n].shares \in SUBSET Nat /\ acc[n].height \in Nat
      BY <3>2 DEF Entry
    <3> QED
      BY <3>1, <3>2, <3>3, <1>c DEF Frame
  <2> QED
    BY <1>a, <2>1, <2>2
<1>3. LeafOK'
  BY <1>1, <1>2 DEF LeafOK, Sound
<1>4. OneHolder'
  <2>1. ASSUME NEW m \in DOMAIN acc', NEW n \in DOMAIN acc', NEW s,
               s \in acc'[m].shares, s \in acc'[n].shares
        PROVE  m = n
    <3>1. CASE s \in Shares' \ Shares
      BY <2>1, <3>1, <1>c
    <3>2. CASE s \notin Shares' \ Shares
      <4>1. m \in stay /\ s \in acc[m].shares /\ n \in stay /\ s \in acc[n].shares
        BY <2>1, <3>2, <1>b
      <4> QED
        BY <4>1, <1>a, <1>g DEF OneHolder
    <3> QED
      BY <3>1, <3>2
  <2> QED
    BY <2>1 DEF OneHolder
<1>5. HeldOrMade'
  <2>1. ASSUME NEW n \in DOMAIN acc', NEW f \in Frames', NEW s,
               s \in acc'[n].shares, s \in f.shares
        PROVE  FALSE
    <3>0. s \in Shares
      <4>1. CASE f \in Frames
        BY <2>1, <4>1, <1>f
      <4>2. CASE f \in Fl
        <5>1. PICK k \in out : f.shares = acc[k].shares
          BY <4>2, <1>d
        <5> QED
          BY <2>1, <5>1, <1>a, <1>f
      <4> QED
        BY <1>a, <4>1, <4>2
    <3>1. n \in stay /\ s \in acc[n].shares
      BY <2>1, <3>0, <1>b
    <3>2. CASE f \in Frames
      BY <2>1, <3>1, <3>2, <1>a, <1>g DEF HeldOrMade
    <3>3. CASE f \in Fl
      <4>1. PICK k \in out : f.shares = acc[k].shares
        BY <3>3, <1>d
      <4> QED
        BY <2>1, <3>1, <4>1, <1>a, <1>g DEF OneHolder
    <3> QED
      BY <1>a, <3>2, <3>3
  <2> QED
    BY <2>1 DEF HeldOrMade
<1>6. OneFrame'
  <2>1. ASSUME NEW f \in Fl, NEW g \in Frames, NEW s, s \in f.shares, s \in g.shares
        PROVE  FALSE
    <3>1. PICK k \in out : f.shares = acc[k].shares
      BY <1>d
    <3> QED
      BY <2>1, <3>1, <1>a, <1>g DEF HeldOrMade
  <2>2. ASSUME NEW f \in Fl, NEW g \in Fl, NEW s, s \in f.shares, s \in g.shares, f.payee = g.payee
        PROVE  f = g
    <3>1. PICK k \in out : f.shares = acc[k].shares /\ f.height = acc[k].height /\ f.name = k
      BY <1>d
    <3>2. PICK j \in out : g.shares = acc[j].shares /\ g.height = acc[j].height /\ g.name = j
      BY <1>d
    <3>3. k = j
      BY <2>2, <3>1, <3>2, <1>a, <1>g DEF OneHolder
    <3> QED
      BY <2>2, <3>1, <3>2, <3>3, <1>d
  <2>3. ASSUME NEW f \in Frames', NEW g \in Frames', NEW s, s \in f.shares, s \in g.shares,
               f.payee = g.payee
        PROVE  f = g
    <3>1. f \in Frames \cup Fl /\ g \in Frames \cup Fl
      BY <1>a
    <3>2. CASE f \in Frames /\ g \in Frames
      BY <2>3, <3>2, <1>g DEF OneFrame
    <3>3. CASE f \in Fl \/ g \in Fl
      BY <2>1, <2>2, <2>3, <3>1, <3>3
    <3> QED
      BY <3>1, <3>2, <3>3
  <2> QED
    BY <2>3 DEF OneFrame
<1>7. EveryPayee'
  <2>1. ASSUME NEW f \in Frames', NEW p \in Payees
        PROVE  \E g \in Frames' : g.payee = p /\ g.shares = f.shares
    <3>1. CASE f \in Frames
      BY <3>1, <1>a, <1>g DEF EveryPayee
    <3>2. CASE f \in Fl
      <4>1. PICK k \in out : f.shares = acc[k].shares
        BY <3>2, <1>d
      <4> QED
        BY <4>1, <1>a, <1>d
    <3> QED
      BY <1>a, <3>1, <3>2
  <2> QED
    BY <2>1 DEF EveryPayee
<1>8. Placed'
  <2>1. ASSUME NEW s \in Shares'
        PROVE  \/ s \in gone'
               \/ \E n \in DOMAIN acc' : s \in acc'[n].shares
               \/ \A p \in Payees : \E f \in Frames' : f.payee = p /\ s \in f.shares
    <3>1. CASE s \notin Shares
      BY <3>1, <1>c
    <3>2. CASE s \in gone
      BY <3>2, <1>a
    <3>3. CASE \A p \in Payees : \E f \in Frames : f.payee = p /\ s \in f.shares
      BY <3>3, <1>a
    <3>4. CASE \E n \in DOMAIN acc : s \in acc[n].shares
      <4>1. PICK n \in DOMAIN acc : s \in acc[n].shares
        BY <3>4
      <4>2. CASE n \in stay
        BY <4>1, <4>2, <1>b
      <4>3. CASE n \in out
        <5>1. ASSUME NEW p \in Payees
              PROVE  \E f \in Frames' : f.payee = p /\ s \in f.shares
          <6>1. PICK f \in Fl : f.shares = acc[n].shares /\ f.payee = p
            BY <4>3, <1>d
          <6> QED
            BY <4>1, <6>1, <1>a
        <5> QED
          BY <5>1
      <4>4. CASE n \notin stay \cup out
        BY <4>1, <4>4, <1>a
      <4> QED
        BY <4>2, <4>3, <4>4
    <3> QED
      BY <3>1, <3>2, <3>3, <3>4, <1>g DEF Placed
  <2> QED
    BY <2>1 DEF Placed
<1>9. HeldAtFirst'
  <2>1. ASSUME NEW n \in DOMAIN acc'
        PROVE  \E s \in Shares' : /\ s \in acc'[n].shares
                                  /\ acc'[n].height = credited'[s]
                                  /\ \A t \in acc'[n].shares : s <= t
    <3>1. CASE n \in stay
      <4>1. PICK s \in Shares : FirstAt(s, acc[n].shares, acc[n].height)
        BY <3>1, <1>a, <1>g DEF HeldAtFirst
      <4>2. /\ s \in acc[n].shares /\ acc[n].height = credited[s]
            /\ \A t \in acc[n].shares : s <= t
        BY <4>1 DEF FirstAt
      <4>3. s \in acc'[n].shares /\ acc'[n].height = credited'[s]
        BY <3>1, <4>2, <1>b, <1>c
      <4>4. ASSUME NEW t \in acc'[n].shares PROVE s <= t
        BY <3>1, <4>2, <1>b, <1>c
      <4> QED
        BY <4>3, <4>4, <1>c
    <3>2. CASE n \notin stay
      <4>1. PICK s \in Shares' \ Shares : acc'[n].shares = {s} /\ acc'[n].height = credited'[s]
        BY <3>2, <1>b
      <4>2. s <= s
        BY <1>c
      <4> QED
        BY <4>1, <4>2
    <3> QED
      BY <3>1, <3>2
  <2> QED
    BY <2>1 DEF HeldAtFirst, FirstAt
<1>10. BookedAtFirst'
  <2>1. ASSUME NEW f \in Frames'
        PROVE  \E s \in f.shares : f.height = credited'[s] /\ \A t \in f.shares : s <= t
    <3>1. CASE f \in Frames
      <4>1. PICK s \in f.shares : f.height = credited[s] /\ \A t \in f.shares : s <= t
        BY <3>1, <1>g DEF BookedAtFirst
      <4>2. credited'[s] = credited[s]
        BY <3>1, <4>1, <1>c, <1>f
      <4> QED
        BY <4>1, <4>2
    <3>2. CASE f \in Fl
      <4>1. PICK k \in out : f.shares = acc[k].shares /\ f.height = acc[k].height
        BY <3>2, <1>d
      <4>2. PICK s \in Shares : FirstAt(s, acc[k].shares, acc[k].height)
        BY <4>1, <1>a, <1>g DEF HeldAtFirst
      <4>3. /\ s \in f.shares /\ f.height = credited[s] /\ credited'[s] = credited[s]
            /\ \A t \in f.shares : s <= t
        BY <4>1, <4>2, <1>c DEF FirstAt
      <4> QED
        BY <4>3
    <3> QED
      BY <1>a, <3>1, <3>2
  <2> QED
    BY <2>1 DEF BookedAtFirst
<1> QED
  BY <1>3, <1>4, <1>5, <1>6, <1>7, <1>8, <1>9, <1>10 DEF Conserved, Sound

-----------------------------------------------------------------------------
(* What each action does to the accumulators *)

LEMMA NothingFlushed == Flushed({}) = {}
BY DEF Flushed

\* Names are counted as before when no accumulator comes or goes.
LEMMA PassesConserve ==
    ASSUME Conserved, Passes
    PROVE  Conserved'
<1>1. /\ acc' = acc /\ named' = named /\ finalizer' = finalizer
      /\ credited' = credited /\ gone' = gone /\ Frames' = Frames /\ Shares' = Shares
  BY DEF Passes, leaf, Shares
<1>2. LeafOK'
  BY <1>1 DEF Conserved, LeafOK, Passes
<1>3. NamesCounted' /\ HeldAtFirst' /\ BookedAtFirst'
  BY <1>1 DEF Conserved, NamesCounted, HeldAtFirst, FirstAt, BookedAtFirst
<1>4. OneHolder' /\ HeldOrMade' /\ OneFrame' /\ EveryPayee' /\ Placed'
  BY <1>1 DEF Conserved, OneHolder, HeldOrMade, OneFrame, EveryPayee, Placed
<1> QED
  BY <1>2, <1>3, <1>4 DEF Conserved

\* The frames added by Add.
LEMMA Added ==
    ASSUME LeafOK, NEW fs, frames' = Add(fs)
    PROVE  /\ Frames' = Frames \cup fs
           /\ \A f \in Frames' : frames'[f] \in Places
           /\ \A f \in Frames : frames'[f] = frames[f]
           /\ \A f \in Frames' \ Frames : frames'[f] = "ipc"
BY DEF Add, Frames, LeafOK, Places

LEMMA SharesAreNat ==
    ASSUME LeafOK
    PROVE  Shares \subseteq Nat
BY DEF LeafOK, Shares

LEMMA RecordShareConserves ==
    ASSUME ShareDeliveryAssumption, Conserved, NEW rig \in Rigs, NEW h \in 1..MaxHeight, RecordShare(rig, h)
    PROVE  Conserved'
<1> DEFINE s == Len(credited) + 1
           name == AccName(rig)
           entries == AddShareWorker(name, h)
           w == entries[name]
           joins == ~w.old /\ Cardinality(w.shares) < AccLimit
           next == IF joins THEN [w EXCEPT !.shares = @ \cup {s}] ELSE NextAccumulator(w, s, h)
           flush == ~joins /\ w.shares # {}
           fs == IF joins \/ w.shares = {} THEN {} ELSE StoreShareDiv(w, name)
           stay == IF joins THEN DOMAIN acc ELSE DOMAIN acc \ {name}
           out == IF flush THEN {name} ELSE {}
<1>0. /\ LeafOK /\ NamesCounted
  BY DEF Conserved
<1>1. /\ credited' = Append(credited, h)
      /\ acc' = [entries EXCEPT ![name] = next]
      /\ named' = IF name \in DOMAIN acc \/ name = Other THEN named ELSE named + 1
      /\ frames' = Add(fs)
      /\ finalizer' = TRUE /\ gone' = gone /\ faults' = faults
  BY DEF RecordShare, receiver
<1>2. name \in Names
  BY DEF AccName, Names
<1>3. /\ h \in Nat /\ credited \in Seq(Nat) /\ Shares = 1..Len(credited)
      /\ s \in Nat /\ s \notin Shares
      /\ Shares' = Shares \cup {s}
      /\ credited' \in Seq(Nat) /\ credited'[s] = h
      /\ \A t \in Shares : credited'[t] = credited[t]
  <2>1. h \in Nat /\ credited \in Seq(Nat) /\ Len(credited) \in Nat
    BY <1>0 DEF LeafOK
  <2>2. Shares = 1..Len(credited) /\ s \in Nat /\ s \notin Shares
    BY <2>1 DEF Shares
  <2>3. /\ credited' \in Seq(Nat) /\ Len(credited') = s /\ credited'[s] = h
        /\ \A t \in 1..Len(credited) : credited'[t] = credited[t]
    BY <2>1, <1>1
  <2>4. Shares' = 1..s /\ 1..s = (1..Len(credited)) \cup {s}
    <3>1. Shares' = 1..Len(credited')
      BY <2>3 DEF Shares
    <3>2. \A i \in Int : i \in 1..(Len(credited) + 1) <=> i \in 1..Len(credited) \/ i = Len(credited) + 1
      BY <2>1
    <3> QED
      BY <3>1, <3>2, <2>1, <2>3
  <2> QED
    BY <2>1, <2>2, <2>3, <2>4
<1>4. /\ DOMAIN entries = DOMAIN acc \cup {name}
      /\ \A n \in DOMAIN acc : entries[n] = acc[n]
      /\ name \notin DOMAIN acc => w = [height |-> h, old |-> FALSE, shares |-> {}]
  BY DEF AddShareWorker
<1>5. w \in Entry /\ w.shares \subseteq Shares
  <2>1. CASE name \in DOMAIN acc
    BY <2>1, <1>0, <1>4 DEF LeafOK
  <2>2. CASE name \notin DOMAIN acc
    <3>1. w = [height |-> h, old |-> FALSE, shares |-> {}]
      BY <2>2, <1>4
    <3> QED
      BY <3>1, <1>3 DEF Entry
  <2> QED
    BY <2>1, <2>2
<1>6. /\ next \in Entry
      /\ joins => next.height = w.height /\ next.shares = w.shares \cup {s}
      /\ ~joins => next.height = h /\ next.shares = {s}
  <2> HIDE DEF w, s
  <2> QED
    BY <1>3, <1>5 DEF Entry, NextAccumulator
<1> HIDE DEF entries, joins, next, w, s, name
<1>7. /\ DOMAIN acc' = DOMAIN acc \cup {name}
      /\ acc'[name] = next
      /\ \A n \in DOMAIN acc \ {name} : acc'[n] = acc[n]
  BY <1>1, <1>4
<1>8. /\ Frames' = Frames \cup fs
      /\ \A f \in Frames' : frames'[f] \in Places
  <2> HIDE DEF fs
  <2> QED
    BY <1>0, <1>1, Added
<1>9. flush => name \in DOMAIN acc /\ acc[name] = w
  <2>1. w.shares # {} => name \in DOMAIN acc
    BY <1>4
  <2> QED
    BY <2>1, <1>4 DEF w
<1>10. fs = Flushed(out)
  BY <1>9 DEF Flushed
<1>11. NamesCounted'
  <2>1. /\ IsFiniteSet(DOMAIN acc) /\ named = Cardinality(DOMAIN acc \ {Other})
    BY <1>0 DEF NamesCounted
  <2>2. IsFiniteSet(DOMAIN acc \ {Other})
    BY <2>1, FS_Difference
  <2>3. IsFiniteSet(DOMAIN acc')
    BY <2>1, <1>7, FS_AddElement
  <2>4. CASE name \in DOMAIN acc \/ name = Other
    <3>1. DOMAIN acc' \ {Other} = DOMAIN acc \ {Other}
      BY <2>4, <1>7
    <3> QED
      BY <2>1, <2>3, <2>4, <3>1, <1>1 DEF NamesCounted
  <2>5. CASE ~(name \in DOMAIN acc \/ name = Other)
    <3>1. DOMAIN acc' \ {Other} = (DOMAIN acc \ {Other}) \cup {name}
      BY <2>5, <1>7
    <3>2. Cardinality(DOMAIN acc' \ {Other}) = Cardinality(DOMAIN acc \ {Other}) + 1
      BY <2>2, <2>5, <3>1, FS_AddElement
    <3> QED
      BY <2>1, <2>3, <2>5, <3>2, <1>1 DEF NamesCounted
  <2> QED
    BY <2>4, <2>5
<1>12. Sound
  <2>1. DOMAIN acc' \subseteq Names /\ \A n \in DOMAIN acc' : acc'[n] \in Entry
    BY <1>0, <1>2, <1>6, <1>7 DEF LeafOK
  <2> QED
    BY <2>1, <1>0, <1>1, <1>3, <1>8, <1>11 DEF Sound, LeafOK
<1>13. /\ joins => w.shares \subseteq next.shares
       /\ name \in DOMAIN acc => acc[name] = w
       /\ name \notin DOMAIN acc => w.shares = {} /\ w.height = h
  BY <1>4, <1>6 DEF w
<1>14. Moves(stay, out)
  <2>1. /\ stay \subseteq DOMAIN acc
        /\ out \subseteq DOMAIN acc \ stay
        /\ \A n \in out : acc[n].shares # {}
    BY <1>9
  <2>2. \A n \in DOMAIN acc \ (stay \cup out) : acc[n].shares \subseteq gone'
    <3>1. ASSUME NEW n \in DOMAIN acc, n \notin stay, n \notin out
          PROVE  acc[n].shares = {}
      <4>1. n = name /\ ~joins /\ ~flush
        BY <3>1
      <4> QED
        BY <4>1, <1>13
    <3> QED
      BY <3>1
  <2>3. /\ stay \subseteq DOMAIN acc'
        /\ \A n \in stay :
              acc[n].shares \subseteq acc'[n].shares /\ acc'[n].height = acc[n].height
    <3>1. name \in stay /\ name \in DOMAIN acc => joins
      OBVIOUS
    <3> QED
      BY <3>1, <1>6, <1>7, <1>13
  <2>4. \A n \in DOMAIN acc' \ stay : \E t \in Shares' \ Shares :
           acc'[n].shares = {t} /\ acc'[n].height = credited'[t]
    <3>1. ASSUME NEW n \in DOMAIN acc', n \notin stay
          PROVE  acc'[n].shares = {s} /\ acc'[n].height = h
      <4>1. n = name
        BY <3>1, <1>7
      <4>2. ~joins \/ name \notin DOMAIN acc
        BY <3>1, <4>1
      <4> QED
        BY <4>1, <4>2, <1>6, <1>7, <1>13
    <3>2. s \in Shares' \ Shares /\ credited'[s] = h
      BY <1>3
    <3> QED
      BY <3>1, <3>2
  <2>5. \A n \in DOMAIN acc' : \A t \in acc'[n].shares :
           t \in Shares' \ Shares \/ (n \in stay /\ t \in acc[n].shares)
    <3>1. ASSUME NEW n \in DOMAIN acc', NEW t \in acc'[n].shares, t # s
          PROVE  n \in stay /\ t \in acc[n].shares
      <4>1. CASE n = name
        <5>1. joins /\ t \in w.shares
          BY <3>1, <4>1, <1>6, <1>7
        <5> QED
          BY <4>1, <5>1, <1>13
      <4>2. CASE n # name
        BY <3>1, <4>2, <1>7
      <4> QED
        BY <4>1, <4>2
    <3> QED
      BY <3>1, <1>3
  <2>6. \A t \in Shares' \ Shares :
           \E n \in DOMAIN acc' : /\ t \in acc'[n].shares
                                  /\ \A m \in DOMAIN acc' : t \in acc'[m].shares => m = n
    <3>1. s \in next.shares
      BY <1>6
    <3>2. \A n \in DOMAIN acc' \ {name} : s \notin acc'[n].shares
      BY <1>0, <1>3, <1>7 DEF LeafOK
    <3>3. name \in DOMAIN acc' /\ s \in acc'[name].shares
      BY <3>1, <1>7
    <3>4. \A m \in DOMAIN acc' : s \in acc'[m].shares => m = name
      BY <3>2
    <3>5. \A t \in Shares' \ Shares : t = s
      BY <1>3
    <3> QED
      BY <3>3, <3>4, <3>5
  <2>7. /\ Shares \subseteq Shares'
        /\ \A t \in Shares : credited'[t] = credited[t]
        /\ \A t \in Shares' \ Shares : \A u \in Shares : u <= t
        /\ Shares \subseteq Nat /\ Shares' \subseteq Nat
        /\ gone \subseteq gone'
        /\ Frames' = Frames \cup Flushed(out)
    <3>1. \A t \in Shares' \ Shares : t = s
      BY <1>3
    <3>2. \A u \in Shares : u \in Nat /\ u <= s
      BY <1>3 DEF s
    <3> QED
      BY <3>1, <3>2, <1>1, <1>3, <1>8, <1>10
  <2> QED
    BY <2>1, <2>2, <2>3, <2>4, <2>5, <2>6, <2>7 DEF Moves
<1> QED
  BY <1>12, <1>14, MovesConserve

LEMMA FinalizeConserves ==
    ASSUME Conserved, Finalize
    PROVE  Conserved'
<1> DEFINE old == {n \in DOMAIN acc : acc[n].old}
           out == {n \in old : acc[n].shares # {}}
           stay == DOMAIN acc \ old
<1>1. /\ acc' = [n \in stay |-> acc[n]]
      /\ named' = named - Cardinality(old \ {Other})
      /\ frames' = Add(Flushed(out))
      /\ finalizer' = (DOMAIN acc # old)
      /\ credited' = credited /\ gone' = gone /\ faults' = faults
  BY DEF Finalize, receiver, Flushed
<1>2. LeafOK /\ NamesCounted /\ Shares' = Shares
  BY <1>1 DEF Conserved, Shares
<1>3. /\ Frames' = Frames \cup Flushed(out)
      /\ \A f \in Frames' : frames'[f] \in Places
  BY <1>1, <1>2, Added
<1>4. old \subseteq DOMAIN acc
  OBVIOUS
<1> HIDE DEF old
<1>5. NamesCounted'
  <2>1. /\ IsFiniteSet(DOMAIN acc) /\ named = Cardinality(DOMAIN acc \ {Other})
    BY <1>2 DEF NamesCounted
  <2>2. IsFiniteSet(DOMAIN acc \ {Other})
    BY <2>1, FS_Difference
  <2>3. IsFiniteSet(DOMAIN acc')
    BY <2>1, <1>1, FS_Difference
  <2>4. DOMAIN acc' \ {Other} = (DOMAIN acc \ {Other}) \ (old \ {Other})
    BY <1>1
  <2>5. (DOMAIN acc \ {Other}) \cap (old \ {Other}) = old \ {Other}
    BY <1>4
  <2>6. Cardinality(DOMAIN acc' \ {Other}) = named - Cardinality(old \ {Other})
    <3> DEFINE A == DOMAIN acc \ {Other}
               B == old \ {Other}
    <3>1. Cardinality(A \ B) = Cardinality(A) - Cardinality(A \cap B)
      <4> HIDE DEF A, B
      <4> QED
        BY <2>2, FS_Difference DEF A
    <3> QED
      BY <2>1, <2>4, <2>5, <3>1
  <2>7. DOMAIN acc' # {} => finalizer'
    BY <1>1, <1>4
  <2> QED
    BY <2>3, <2>6, <2>7, <1>1 DEF NamesCounted
<1>6. Sound
  BY <1>1, <1>2, <1>3, <1>5 DEF Sound, LeafOK
<1>7. Moves(stay, out)
  <2>1. /\ stay \subseteq DOMAIN acc /\ out \subseteq DOMAIN acc \ stay
        /\ \A n \in out : acc[n].shares # {}
        /\ \A n \in DOMAIN acc \ (stay \cup out) : acc[n].shares \subseteq gone'
    <3>1. \A n \in DOMAIN acc \ (stay \cup out) : acc[n].shares = {}
      OBVIOUS
    <3> QED
      BY <3>1, <1>4
  <2> QED
    BY <2>1, <1>1, <1>2, <1>3, SharesAreNat DEF Moves
<1> QED
  BY <1>6, <1>7, MovesConserve

\* What a step that changes no count of names keeps.
LEMMA SameNames ==
    ASSUME NamesCounted, DOMAIN acc' = DOMAIN acc, named' = named, finalizer' = finalizer
    PROVE  NamesCounted'
BY DEF NamesCounted

LEMMA AccAgesConserves ==
    ASSUME Conserved, NEW name \in Names, AccAges(name)
    PROVE  Conserved'
<1>1. /\ name \in DOMAIN acc
      /\ acc' = [acc EXCEPT ![name].old = TRUE]
      /\ named' = named /\ finalizer' = finalizer
      /\ credited' = credited /\ frames' = frames /\ gone' = gone /\ faults' = faults
  BY DEF AccAges
<1>2. LeafOK /\ NamesCounted /\ Shares' = Shares /\ Frames' = Frames
  BY <1>1 DEF Conserved, Shares, Frames
<1>3. /\ DOMAIN acc' = DOMAIN acc
      /\ \A n \in DOMAIN acc : /\ acc'[n] \in Entry /\ acc'[n].shares = acc[n].shares
                               /\ acc'[n].height = acc[n].height
  BY <1>1, <1>2 DEF LeafOK, Entry
<1>4. Sound
  BY <1>1, <1>2, <1>3, SameNames DEF Sound, LeafOK
<1>5. Moves(DOMAIN acc, {})
  BY <1>1, <1>2, <1>3, NothingFlushed, SharesAreNat DEF Moves
<1> QED
  BY <1>4, <1>5, MovesConserve

\* The pool process that dies takes its accumulators with it.
LEMMA CrashConserves ==
    ASSUME Conserved, ShareDeliveryAssumption, PoolWorkerCrash \/ PoolCrash
    PROVE  Conserved'
<1>1. /\ acc' = <<>> /\ named' = 0 /\ finalizer' = FALSE
      /\ gone \subseteq gone' /\ \A n \in DOMAIN acc : acc[n].shares \subseteq gone'
      /\ credited' = credited
      /\ faults' = faults + 1 /\ faults < MaxFaults
  BY DEF PoolWorkerCrash, PoolCrash, Fault
<1>2. LeafOK /\ NamesCounted /\ Shares' = Shares
  BY <1>1 DEF Conserved, Shares
<1>3. Frames' = Frames /\ \A f \in Frames' : frames'[f] \in Places
  BY <1>2 DEF PoolWorkerCrash, PoolCrash, Frames, LeafOK, Places
<1>4. DOMAIN acc' = {}
  BY <1>1
<1>5. NamesCounted'
  <2>1. DOMAIN acc' \ {Other} = {}
    BY <1>4
  <2> QED
    BY <2>1, <1>1, <1>4, FS_EmptySet DEF NamesCounted
<1>6. faults' \in 0..MaxFaults
  BY <1>1, <1>2 DEF LeafOK, ShareDeliveryAssumption
<1>7. Sound
  BY <1>1, <1>2, <1>3, <1>4, <1>5, <1>6 DEF Sound, LeafOK
<1>8. Moves({}, {})
  BY <1>1, <1>2, <1>3, <1>4, NothingFlushed, SharesAreNat DEF Moves
<1> QED
  BY <1>7, <1>8, MovesConserve

-----------------------------------------------------------------------------
(* The way to the table *)

LEMMA AppendedSet ==
    ASSUME NEW S, NEW q \in Seq(S), NEW x \in S
    PROVE  Append(q, x) \in Seq(S) /\ ToSet(Append(q, x)) = ToSet(q) \cup {x}
<1>1. Append(q, x) \in Seq(S) /\ Len(Append(q, x)) = Len(q) + 1 /\ Len(q) \in Nat
  OBVIOUS
<1>2. \A i \in 1..Len(q) : Append(q, x)[i] = q[i]
  OBVIOUS
<1>3. Append(q, x)[Len(q) + 1] = x
  OBVIOUS
<1>4. DOMAIN q = 1..Len(q) /\ DOMAIN Append(q, x) = 1..(Len(q) + 1)
  BY <1>1
<1>5. \A y : y \in ToSet(Append(q, x)) <=> y \in ToSet(q) \cup {x}
  <2>1. ASSUME NEW y, y \in ToSet(Append(q, x)) PROVE y \in ToSet(q) \cup {x}
    <3>1. PICK i \in 1..(Len(q) + 1) : y = Append(q, x)[i]
      BY <2>1, <1>4 DEF ToSet
    <3>2. i = Len(q) + 1 \/ i \in 1..Len(q)
      BY <1>1
    <3> QED
      BY <3>1, <3>2, <1>2, <1>3, <1>4 DEF ToSet
  <2>2. ASSUME NEW y, y \in ToSet(q) PROVE y \in ToSet(Append(q, x))
    <3>1. PICK i \in 1..Len(q) : y = q[i]
      BY <2>2, <1>4 DEF ToSet
    <3>2. i \in 1..(Len(q) + 1)
      BY <1>1
    <3> QED
      BY <3>1, <3>2, <1>2, <1>4 DEF ToSet
  <2>3. x \in ToSet(Append(q, x))
    <3>1. Len(q) + 1 \in 1..(Len(q) + 1)
      BY <1>1
    <3> QED
      BY <3>1, <1>3, <1>4 DEF ToSet
  <2> QED
    BY <2>1, <2>2, <2>3
<1> QED
  BY <1>1, <1>5

LEMMA HeadAndTail ==
    ASSUME NEW S, NEW q \in Seq(S), q # <<>>
    PROVE  /\ Head(q) \in S /\ Tail(q) \in Seq(S)
           /\ ToSet(q) = ToSet(Tail(q)) \cup {Head(q)}
<1>1. /\ Head(q) = q[1] /\ Head(q) \in S /\ Tail(q) \in Seq(S)
      /\ Len(q) \in Nat \ {0} /\ Len(Tail(q)) = Len(q) - 1
      /\ \A i \in 1..(Len(q) - 1) : Tail(q)[i] = q[i + 1]
  OBVIOUS
<1>2. DOMAIN q = 1..Len(q) /\ DOMAIN Tail(q) = 1..(Len(q) - 1)
  BY <1>1
<1>3. ASSUME NEW y, y \in ToSet(q) PROVE y \in ToSet(Tail(q)) \cup {Head(q)}
  <2>1. PICK i \in 1..Len(q) : y = q[i]
    BY <1>2, <1>3 DEF ToSet
  <2>2. i = 1 \/ (i - 1 \in 1..(Len(q) - 1) /\ q[(i - 1) + 1] = q[i])
    BY <1>1
  <2>3. ASSUME i # 1 PROVE y \in ToSet(Tail(q))
    <3>1. i - 1 \in 1..(Len(q) - 1) /\ Tail(q)[i - 1] = y
      BY <1>1, <2>1, <2>2, <2>3
    <3> QED
      BY <3>1, <1>2 DEF ToSet
  <2> QED
    BY <1>1, <2>1, <2>3
<1>4. ASSUME NEW y, y \in ToSet(Tail(q)) PROVE y \in ToSet(q)
  <2>1. PICK i \in 1..(Len(q) - 1) : y = Tail(q)[i]
    BY <1>2, <1>4 DEF ToSet
  <2>2. i + 1 \in 1..Len(q) /\ y = q[i + 1]
    BY <1>1, <2>1
  <2> QED
    BY <2>2, <1>2 DEF ToSet
<1>5. Head(q) \in ToSet(q)
  <2>1. 1 \in 1..Len(q)
    BY <1>1
  <2> QED
    BY <2>1, <1>1, <1>2 DEF ToSet
<1> QED
  BY <1>1, <1>3, <1>4, <1>5

\* A batch and the rest are the whole queue.
LEMMA BatchAndRest ==
    ASSUME ShareDeliveryAssumption, NEW S, NEW q \in Seq(S)
    PROVE  /\ Batch(q) \in Seq(S) /\ Rest(q) \in Seq(S)
           /\ ToSet(q) = ToSet(Batch(q)) \cup ToSet(Rest(q))
<1> DEFINE k == IF Len(q) < BatchSize THEN Len(q) ELSE BatchSize
<1>0. Len(q) \in Nat /\ BatchSize \in Nat \ {0} /\ k \in Nat /\ k <= Len(q)
      /\ (k = Len(q) \/ k = BatchSize) /\ k <= BatchSize
  BY DEF ShareDeliveryAssumption
<1>1. Batch(q) = SubSeq(q, 1, k) /\ Rest(q) = SubSeq(q, BatchSize + 1, Len(q))
  BY DEF Batch, Rest
<1> HIDE DEF k
<1>2. /\ Batch(q) \in Seq(S) /\ Len(Batch(q)) = k
      /\ \A i \in 1..k : Batch(q)[i] = q[i]
  BY <1>0, <1>1
<1>3. CASE k = Len(q)
  <2>1. Batch(q) = q
    BY <1>2, <1>3
  <2>2. Rest(q) = <<>>
    <3>1. BatchSize + 1 > Len(q)
      BY <1>0, <1>3
    <3> QED
      BY <3>1, <1>0, <1>1
  <2>3. ToSet(<<>>) = {}
    BY DEF ToSet
  <2> QED
    BY <2>1, <2>2, <2>3
<1>4. CASE k # Len(q)
  <2>0. k = BatchSize /\ BatchSize < Len(q)
    BY <1>0, <1>4
  <2>1. /\ Rest(q) \in Seq(S) /\ Len(Rest(q)) = Len(q) - BatchSize
        /\ \A i \in 1..(Len(q) - BatchSize) : Rest(q)[i] = q[BatchSize + i]
    <3>1. /\ BatchSize + 1 \in 1..Len(q) /\ Len(q) \in 1..Len(q)
          /\ BatchSize + 1 \in Nat
      BY <1>0, <2>0
    <3>2. SubSeq(q, BatchSize + 1, Len(q)) =
             [i \in 1..(1 + Len(q) - (BatchSize + 1)) |-> q[i + (BatchSize + 1) - 1]]
      BY <3>1, <1>0
    <3>3. 1 + Len(q) - (BatchSize + 1) = Len(q) - BatchSize
      BY <1>0
    <3>4. \A i \in 1..(Len(q) - BatchSize) : i + (BatchSize + 1) - 1 = BatchSize + i
      BY <1>0
    <3>5. \A i \in 1..(Len(q) - BatchSize) : BatchSize + i \in 1..Len(q) /\ q[BatchSize + i] \in S
      BY <1>0
    <3>6. Len(q) - BatchSize \in Nat
      BY <1>0, <2>0
    <3> DEFINE d == Len(q) - BatchSize
               h == [i \in 1..d |-> q[BatchSize + i]]
    <3>7. Rest(q) = h
      BY <1>1, <3>2, <3>3, <3>4
    <3>8. d \in Nat /\ \A i \in 1..d : q[BatchSize + i] \in S
      BY <3>5, <3>6
    <3> HIDE DEF d
    <3>9. h \in Seq(S) /\ Len(h) = d
      BY <3>8
    <3>10. \A i \in 1..d : h[i] = q[BatchSize + i]
      OBVIOUS
    <3> QED
      BY <3>7, <3>9, <3>10 DEF d
  <2>2. /\ DOMAIN q = 1..Len(q) /\ DOMAIN Batch(q) = 1..k
        /\ DOMAIN Rest(q) = 1..(Len(q) - BatchSize)
    BY <1>2, <2>1
  <2>3. ASSUME NEW y, y \in ToSet(q) PROVE y \in ToSet(Batch(q)) \cup ToSet(Rest(q))
    <3>1. PICK i \in 1..Len(q) : y = q[i]
      BY <2>2, <2>3 DEF ToSet
    <3>2. CASE i <= k
      <4>1. i \in 1..k /\ Batch(q)[i] = y
        BY <1>0, <1>2, <3>1, <3>2
      <4> QED
        BY <4>1, <2>2 DEF ToSet
    <3>3. CASE i > k
      <4>1. i - BatchSize \in 1..(Len(q) - BatchSize) /\ BatchSize + (i - BatchSize) = i
        BY <1>0, <2>0, <3>3
      <4>2. Rest(q)[i - BatchSize] = y
        BY <2>1, <3>1, <4>1
      <4> QED
        BY <4>1, <4>2, <2>2 DEF ToSet
    <3> QED
      BY <1>0, <3>2, <3>3
  <2>4. ASSUME NEW y, y \in ToSet(Batch(q)) PROVE y \in ToSet(q)
    <3>1. PICK i \in 1..k : y = Batch(q)[i]
      BY <2>2, <2>4 DEF ToSet
    <3>2. i \in 1..Len(q) /\ y = q[i]
      BY <1>0, <1>2, <3>1
    <3> QED
      BY <3>2, <2>2 DEF ToSet
  <2>5. ASSUME NEW y, y \in ToSet(Rest(q)) PROVE y \in ToSet(q)
    <3>1. PICK i \in 1..(Len(q) - BatchSize) : y = Rest(q)[i]
      BY <2>2, <2>5 DEF ToSet
    <3>2. BatchSize + i \in 1..Len(q) /\ y = q[BatchSize + i]
      BY <1>0, <2>0, <2>1, <3>1
    <3> QED
      BY <3>2, <2>2 DEF ToSet
  <2> QED
    BY <1>2, <2>1, <2>3, <2>4, <2>5
<1> QED
  BY <1>3, <1>4

LEMMA InReceiverMembers ==
    \A f : f \in InReceiver <=> \/ f \in ToSet(primary.queue)
                                \/ \E r \in Fronts : f \in ToSet(front[r].ipc)
BY DEF InReceiver

\* Elements of a sequence of frames are frames.
LEMMA FramesOf ==
    ASSUME NEW S, NEW q \in Seq(S)
    PROVE  ToSet(q) \subseteq S
BY DEF ToSet

\* A step that leaves the receiver alone keeps what it holds.
LEMMA ReceiverSame ==
    ASSUME UNCHANGED receiver
    PROVE  Safe' = Safe
BY DEF receiver, Safe, InReceiver

\* An answer that is new, or what was safe, needs a look; the rest follows.
LEMMA AnswersKept ==
    ASSUME AnsweredIsSafe, Safe \subseteq Safe',
           \A f \in Frames' : frames'[f] \in {"accepted", "done"} =>
               f \in Safe' \/ (f \in Frames /\ frames[f] \in {"accepted", "done"})
    PROVE  AnsweredIsSafe'
BY DEF AnsweredIsSafe

\* A step outside the receiver: it may answer, drop or send requests.
LEMMA OutsideArrives ==
    ASSUME Arrives, UNCHANGED receiver, Frames \subseteq Frames',
           requests' \subseteq [f : Frames, r : Fronts, open : BOOLEAN],
           \A f \in Frames' : frames'[f] \in {"accepted", "done"} =>
               f \in Frames /\ frames[f] \in {"accepted", "done"}
    PROVE  Arrives'
<1>1. /\ front' = front /\ primary' = primary /\ rows' = rows /\ counted' = counted
      /\ dropped' = dropped
  BY DEF receiver
<1>2. Seq(Frames) \subseteq Seq(Frames')
  OBVIOUS
<1>3. requests' \subseteq Requests'
  <2>1. ASSUME NEW q \in requests' PROVE q \in [f : Frames', r : Fronts, open : BOOLEAN]
    <3>1. q \in [f : Frames, r : Fronts, open : BOOLEAN]
      OBVIOUS
    <3> QED
      BY <3>1
  <2> QED
    BY <2>1 DEF Requests
<1>4. front' \in [Fronts -> FrontRecs']
  <2>1. FrontRecs \subseteq FrontRecs'
    BY <1>2 DEF FrontRecs
  <2> QED
    BY <1>1, <2>1 DEF Arrives, WayOK
<1>5. primary' \in PrimaryRecs'
  <2>1. PrimaryRecs \subseteq PrimaryRecs'
    BY <1>2 DEF PrimaryRecs
  <2> QED
    BY <1>1, <2>1 DEF Arrives, WayOK
<1>6. WayOK'
  BY <1>1, <1>3, <1>4, <1>5 DEF Arrives, WayOK
<1>7. AnsweredIsSafe'
  BY ReceiverSame, AnswersKept DEF Arrives
<1>8. DrainedIsEmpty'
  BY <1>1 DEF Arrives, DrainedIsEmpty
<1> QED
  BY <1>6, <1>7, <1>8 DEF Arrives

LEMMA OrphanedOK ==
    ASSUME WayOK, NEW fs
    PROVE  Orphaned(fs) \subseteq [f : Frames, r : Fronts, open : BOOLEAN]
<1>1. ASSUME NEW q \in requests
      PROVE  [q EXCEPT !.open = @ /\ q.f \notin fs] \in [f : Frames, r : Fronts, open : BOOLEAN]
  <2>1. q \in [f : Frames, r : Fronts, open : BOOLEAN]
    BY DEF WayOK, Requests
  <2>2. ASSUME NEW b \in BOOLEAN PROVE [q EXCEPT !.open = b] \in [f : Frames, r : Fronts, open : BOOLEAN]
    BY <2>1
  <2>3. (q.open /\ q.f \notin fs) \in BOOLEAN
    OBVIOUS
  <2> QED
    BY <2>2, <2>3
<1> QED
  BY <1>1 DEF Orphaned

LEMMA FaultCounted ==
    ASSUME LeafOK, ShareDeliveryAssumption, NEW kind, Fault(kind)
    PROVE  faults' \in 0..MaxFaults
BY DEF LeafOK, Fault, ShareDeliveryAssumption

\* A change of one frame's place.
LEMMA PlaceSet ==
    ASSUME LeafOK, NEW f \in Frames, NEW up \in Places, frames' = [frames EXCEPT ![f] = up]
    PROVE  /\ Frames' = Frames
           /\ \A g \in Frames' : frames'[g] \in Places
           /\ frames'[f] = up
           /\ \A g \in Frames \ {f} : frames'[g] = frames[g]
BY DEF LeafOK, Frames

\* The uplink: no answer comes from nowhere.
LEMMA UplinkKeeps ==
    ASSUME IInv, ShareDeliveryAssumption, NEW f \in Frames,
           \/ MasterQueues(f) \/ Answered(f) \/ PostTimesOut(f)
           \/ \E r \in Fronts : StartPost(f, r) \/ Retry(f, r)
    PROVE  IInv'
<1>0. LeafOK /\ WayOK /\ Arrives /\ Conserved
  BY DEF IInv, Conserved, Arrives
<1>1. PICK up \in Places : /\ frames' = [frames EXCEPT ![f] = up]
                           /\ up \in {"accepted", "done"} => frames[f] \in {"accepted", "done"}
  BY DEF MasterQueues, Answered, PostTimesOut, StartPost, Retry, Post, SetUp, Places
<1>2. UNCHANGED leaf /\ UNCHANGED receiver
  BY DEF MasterQueues, Answered, PostTimesOut, StartPost, Retry, Post
<1>3. faults' \in 0..MaxFaults
  <2>1. CASE PostTimesOut(f)
    BY <2>1, <1>0, FaultCounted DEF PostTimesOut
  <2>2. CASE ~PostTimesOut(f)
    BY <2>2, <1>0 DEF LeafOK, MasterQueues, Answered, StartPost, Retry, Post
  <2> QED
    BY <2>1, <2>2
<1>4. requests' \subseteq [f : Frames, r : Fronts, open : BOOLEAN]
  <2>1. CASE MasterQueues(f) \/ Answered(f)
    BY <2>1, <1>0 DEF MasterQueues, Answered, WayOK, Requests
  <2>2. CASE PostTimesOut(f)
    BY <2>2, <1>0, OrphanedOK DEF PostTimesOut
  <2>3. ASSUME NEW r \in Fronts, StartPost(f, r) \/ Retry(f, r)
        PROVE  requests' \subseteq [f : Frames, r : Fronts, open : BOOLEAN]
    <3>1. requests' = requests \cup {[f |-> f, r |-> r, open |-> TRUE]}
      BY <2>3 DEF StartPost, Retry, Post
    <3>2. [f |-> f, r |-> r, open |-> TRUE] \in [f : Frames, r : Fronts, open : BOOLEAN]
      OBVIOUS
    <3> QED
      BY <3>1, <3>2, <1>0 DEF WayOK, Requests
  <2> QED
    BY <2>1, <2>2, <2>3
<1>5. /\ Frames' = Frames
      /\ \A g \in Frames' : frames'[g] \in Places
      /\ frames'[f] = up
      /\ \A g \in Frames \ {f} : frames'[g] = frames[g]
  BY <1>0, <1>1, PlaceSet
<1>6. Conserved'
  BY <1>0, <1>2, <1>3, <1>5, PassesConserve DEF Passes
<1>7. Arrives'
  BY <1>0, <1>1, <1>2, <1>4, <1>5, OutsideArrives
<1> QED
  BY <1>6, <1>7 DEF IInv

LEMMA PostFailsKeeps ==
    ASSUME IInv, ShareDeliveryAssumption, NEW q \in requests, PostFails(q)
    PROVE  IInv'
<1>0. LeafOK /\ WayOK /\ Arrives /\ Conserved
  BY DEF IInv, Conserved, Arrives
<1>1. q \in [f : Frames, r : Fronts, open : BOOLEAN]
  BY <1>0 DEF WayOK, Requests
<1> DEFINE up == IF q.open THEN "failed" ELSE frames[q.f]
<1>2. /\ frames' = [frames EXCEPT ![q.f] = up]
      /\ requests' = requests \ {q} /\ UNCHANGED leaf /\ UNCHANGED receiver
  BY DEF PostFails
<1>3. q.f \in Frames /\ up \in Places
  BY <1>0, <1>1 DEF LeafOK, Places
<1>4. up \in {"accepted", "done"} => frames[q.f] \in {"accepted", "done"}
  OBVIOUS
<1> HIDE DEF up
<1>5. /\ Frames' = Frames
      /\ \A g \in Frames' : frames'[g] \in Places
      /\ frames'[q.f] = up
      /\ \A g \in Frames \ {q.f} : frames'[g] = frames[g]
  BY <1>0, <1>2, <1>3, PlaceSet
<1>6. faults' \in 0..MaxFaults
  BY <1>0, FaultCounted DEF PostFails
<1>7. Conserved'
  BY <1>0, <1>2, <1>5, <1>6, PassesConserve DEF Passes
<1>8. requests' \subseteq [f : Frames, r : Fronts, open : BOOLEAN]
  BY <1>0, <1>2 DEF WayOK, Requests
<1>9. Arrives'
  BY <1>0, <1>2, <1>4, <1>5, <1>8, OutsideArrives
<1> QED
  BY <1>7, <1>9 DEF IInv

\* The pool's side of the accumulators leaves the wire and the receiver alone.
LEMMA LeafArrives ==
    ASSUME IInv, \/ \E rig \in Rigs, h \in 1..MaxHeight : RecordShare(rig, h)
                 \/ Finalize \/ PoolWorkerCrash \/ PoolCrash
                 \/ \E n \in Names : AccAges(n)
    PROVE  Arrives'
<1>0. LeafOK /\ WayOK /\ Arrives
  BY DEF IInv, Conserved, Arrives
<1>1. UNCHANGED receiver
  BY DEF RecordShare, Finalize, PoolWorkerCrash, PoolCrash, AccAges
<1>2. requests' \subseteq [f : Frames, r : Fronts, open : BOOLEAN]
  <2>1. CASE PoolCrash
    BY <2>1, <1>0, OrphanedOK DEF PoolCrash
  <2>2. CASE ~PoolCrash
    <3>1. requests' = requests
      BY <2>2 DEF RecordShare, Finalize, PoolWorkerCrash, AccAges
    <3> QED
      BY <3>1, <1>0 DEF WayOK, Requests
  <2> QED
    BY <2>1, <2>2
<1>3. /\ Frames \subseteq Frames'
      /\ \A f \in Frames' : frames'[f] \in {"accepted", "done"} =>
            f \in Frames /\ frames[f] \in {"accepted", "done"}
  <2>1. ASSUME NEW rig \in Rigs, NEW h \in 1..MaxHeight, RecordShare(rig, h) PROVE \E fs : frames' = Add(fs)
    BY <2>1 DEF RecordShare
  <2>2. CASE Finalize
    <3>1. \E fs : frames' = Add(fs)
      BY <2>2 DEF Finalize
    <3> QED
      BY <3>1, <1>0, Added
  <2>3. CASE PoolCrash
    BY <2>3 DEF PoolCrash, Frames
  <2>4. CASE PoolWorkerCrash \/ \E n \in Names : AccAges(n)
    BY <2>4 DEF PoolWorkerCrash, AccAges, Frames
  <2>5. CASE \E rig \in Rigs, h \in 1..MaxHeight : RecordShare(rig, h)
    <3>1. PICK fs : frames' = Add(fs)
      BY <2>1, <2>5
    <3> QED
      BY <3>1, <1>0, Added
  <2> QED
    BY <2>2, <2>3, <2>4, <2>5
<1> QED
  BY <1>0, <1>1, <1>2, <1>3, OutsideArrives

\* Broken connections: requests end, and frames fail.
LEMMA BreakKeeps ==
    ASSUME LeafOK, WayOK, NEW rs, Break(rs)
    PROVE  /\ Frames' = Frames
           /\ requests' \subseteq Requests
           /\ \A f \in Frames' : frames'[f] \in Places
           /\ \A f \in Frames' : frames'[f] \in {"accepted", "done"} => frames'[f] = frames[f]
<1>1. requests' \subseteq requests
  BY DEF Break
<1>2. Frames' = Frames
  BY DEF Break, Frames
<1>3. \A f \in Frames : frames'[f] = "failed" \/ frames'[f] = frames[f]
  BY DEF Break
<1> QED
  BY <1>1, <1>2, <1>3 DEF LeafOK, WayOK, Places

\* A step of the receiver, given what it does to its own state.
LEMMA ReceiverKeeps ==
    ASSUME IInv, UNCHANGED leaf, Frames' = Frames,
           faults' \in 0..MaxFaults,
           \A f \in Frames' : frames'[f] \in Places,
           requests' \subseteq Requests,
           front' \in [Fronts -> FrontRecs],
           primary' \in PrimaryRecs,
           rows' \in [DOMAIN rows' -> {1}],
           DOMAIN rows' \subseteq Frames,
           DOMAIN counted' = DOMAIN rows',
           Safe \subseteq Safe',
           \A f \in Frames' : frames'[f] \in {"accepted", "done"} =>
               f \in Safe' \/ frames'[f] = frames[f],
           DrainedIsEmpty'
    PROVE  IInv'
<1>1. Conserved'
  BY PassesConserve DEF IInv, Passes
<1>2. /\ Requests' = Requests /\ FrontRecs' = FrontRecs /\ PrimaryRecs' = PrimaryRecs
  BY DEF Requests, FrontRecs, PrimaryRecs
<1>3. WayOK'
  BY <1>2 DEF WayOK
<1>4. AnsweredIsSafe'
  BY AnswersKept DEF IInv, Arrives
<1> QED
  BY <1>1, <1>3, <1>4 DEF IInv, Arrives

LEMMA FrontHandlesKeeps ==
    ASSUME IInv, NEW q \in requests, FrontHandles(q)
    PROVE  IInv'
<1>0. LeafOK /\ WayOK /\ DrainedIsEmpty
  BY DEF IInv, Conserved, Arrives
<1>1. q \in [f : Frames, r : Fronts, open : BOOLEAN]
  BY <1>0 DEF WayOK, Requests
<1> DEFINE refused == front[q.r].rejecting
           up == IF ~q.open THEN frames[q.f] ELSE IF refused THEN "refused" ELSE "accepted"
<1>2. /\ frames' = [frames EXCEPT ![q.f] = up]
      /\ requests' = requests \ {q}
      /\ front' = IF refused THEN front ELSE [front EXCEPT ![q.r].ipc = Append(@, q.f)]
      /\ primary.phase # "drain"
      /\ UNCHANGED leaf /\ UNCHANGED <<primary, rows, counted, dropped, faults>>
  BY DEF FrontHandles
<1>3. q.f \in Frames /\ q.r \in Fronts /\ up \in Places
  BY <1>0, <1>1 DEF LeafOK, Places
<1>4. up \in {"accepted", "done"} => ~refused \/ up = frames[q.f]
  OBVIOUS
<1> HIDE DEF up
<1>5. /\ Frames' = Frames
      /\ \A g \in Frames' : frames'[g] \in Places
      /\ frames'[q.f] = up
      /\ \A g \in Frames \ {q.f} : frames'[g] = frames[g]
  BY <1>0, <1>2, <1>3, PlaceSet
<1>6. front[q.r] \in FrontRecs /\ front[q.r].ipc \in Seq(Frames)
  BY <1>0, <1>3 DEF WayOK, FrontRecs
<1>7. /\ Append(front[q.r].ipc, q.f) \in Seq(Frames)
      /\ ToSet(Append(front[q.r].ipc, q.f)) = ToSet(front[q.r].ipc) \cup {q.f}
  BY <1>3, <1>6, AppendedSet
<1>8. /\ front' \in [Fronts -> FrontRecs]
      /\ \A r \in Fronts : ToSet(front[r].ipc) \subseteq ToSet(front'[r].ipc)
      /\ ~refused => q.f \in ToSet(front'[q.r].ipc)
  <2>1. CASE refused
    BY <2>1, <1>0, <1>2 DEF WayOK
  <2>2. CASE ~refused
    <3> DEFINE x == [front[q.r] EXCEPT !.ipc = Append(front[q.r].ipc, q.f)]
    <3>1. x \in FrontRecs /\ x.ipc = Append(front[q.r].ipc, q.f)
      BY <1>6, <1>7 DEF FrontRecs
    <3>2. front' = [front EXCEPT ![q.r] = x]
      BY <2>2, <1>2
    <3> HIDE DEF x
    <3>3. /\ front' \in [Fronts -> FrontRecs] /\ front'[q.r] = x
          /\ \A r \in Fronts \ {q.r} : front'[r] = front[r]
      BY <3>1, <3>2, <1>0, <1>3 DEF WayOK
    <3> QED
      BY <3>1, <3>3, <1>7
  <2> QED
    BY <2>1, <2>2
<1>9. Safe \subseteq Safe' /\ (~refused => q.f \in Safe')
  <2>1. \A f : f \in InReceiver' <=> \/ f \in ToSet(primary'.queue)
                                     \/ \E r \in Fronts : f \in ToSet(front'[r].ipc)
    BY DEF InReceiver
  <2>2. InReceiver \subseteq InReceiver' /\ (~refused => q.f \in InReceiver')
    BY <2>1, <1>2, <1>3, <1>8, InReceiverMembers
  <2> QED
    BY <2>2, <1>2 DEF Safe
<1>10. DrainedIsEmpty'
  BY <1>2 DEF DrainedIsEmpty
<1>11. /\ requests' \subseteq Requests /\ primary' \in PrimaryRecs
       /\ rows' \in [DOMAIN rows' -> {1}] /\ DOMAIN rows' \subseteq Frames
       /\ DOMAIN counted' = DOMAIN rows'
       /\ faults' \in 0..MaxFaults
  BY <1>0, <1>2 DEF WayOK, LeafOK
<1>12. \A f \in Frames' : frames'[f] \in {"accepted", "done"} =>
               f \in Safe' \/ frames'[f] = frames[f]
  BY <1>4, <1>5, <1>9
<1> QED
  BY <1>2, <1>5, <1>8, <1>9, <1>10, <1>11, <1>12, ReceiverKeeps

LEMMA PrimaryReceivesKeeps ==
    ASSUME IInv, NEW r \in Fronts, PrimaryReceives(r)
    PROVE  IInv'
<1>0. LeafOK /\ WayOK /\ DrainedIsEmpty
  BY DEF IInv, Conserved, Arrives
<1> DEFINE f == Head(front[r].ipc)
           x == [front[r] EXCEPT !.ipc = Tail(front[r].ipc)]
<1>1. /\ front[r].ipc # <<>>
      /\ front' = [front EXCEPT ![r] = x]
      /\ UNCHANGED leaf /\ UNCHANGED <<frames, requests, rows, counted, faults>>
      /\ \/ dropped' = dropped \cup {f} /\ primary' = primary
         \/ /\ primary' = [primary EXCEPT !.queue = Append(@, f), !.timer = TRUE]
            /\ dropped' = dropped
  BY DEF PrimaryReceives
<1>2. front[r] \in FrontRecs /\ front[r].ipc \in Seq(Frames)
  BY <1>0 DEF WayOK, FrontRecs
<1>3. /\ f \in Frames /\ Tail(front[r].ipc) \in Seq(Frames)
      /\ ToSet(front[r].ipc) = ToSet(Tail(front[r].ipc)) \cup {f}
  BY <1>1, <1>2, HeadAndTail
<1>4. x \in FrontRecs /\ x.ipc = Tail(front[r].ipc)
  BY <1>2, <1>3 DEF FrontRecs
<1> HIDE DEF x, f
<1>5. /\ front' \in [Fronts -> FrontRecs] /\ front'[r] = x
      /\ \A k \in Fronts \ {r} : front'[k] = front[k]
  BY <1>0, <1>1, <1>4 DEF WayOK
<1>6. /\ primary' \in PrimaryRecs /\ primary'.phase = primary.phase
      /\ ToSet(primary.queue) \subseteq ToSet(primary'.queue)
      /\ f \in ToSet(primary'.queue) \cup dropped'
      /\ dropped \subseteq dropped'
  <2>1. primary.queue \in Seq(Frames) /\ primary \in PrimaryRecs
    BY <1>0 DEF WayOK, PrimaryRecs
  <2>2. /\ Append(primary.queue, f) \in Seq(Frames)
        /\ ToSet(Append(primary.queue, f)) = ToSet(primary.queue) \cup {f}
    BY <2>1, <1>3, AppendedSet
  <2>3. CASE dropped' = dropped \cup {f} /\ primary' = primary
    BY <2>1, <2>3
  <2>4. CASE /\ primary' = [primary EXCEPT !.queue = Append(@, f), !.timer = TRUE]
             /\ dropped' = dropped
    <3>1. /\ primary' \in PrimaryRecs /\ primary'.phase = primary.phase
          /\ primary'.queue = Append(primary.queue, f)
      BY <2>1, <2>2, <2>4 DEF PrimaryRecs
    <3> QED
      BY <3>1, <2>2, <2>4
  <2> QED
    BY <1>1, <2>3, <2>4
<1>7. Safe \subseteq Safe'
  <2>1. \A g : g \in InReceiver' <=> \/ g \in ToSet(primary'.queue)
                                     \/ \E k \in Fronts : g \in ToSet(front'[k].ipc)
    BY DEF InReceiver
  <2>2. ASSUME NEW g, NEW k \in Fronts, g \in ToSet(front[k].ipc)
        PROVE  g \in ToSet(primary'.queue) \cup dropped' \/ g \in ToSet(front'[k].ipc)
    BY <2>2, <1>3, <1>4, <1>5, <1>6
  <2>3. InReceiver \subseteq InReceiver' \cup dropped'
    BY <2>1, <2>2, <1>6, InReceiverMembers
  <2> QED
    BY <2>3, <1>1, <1>6 DEF Safe
<1>8. DrainedIsEmpty'
  BY <1>0, <1>1, <1>6 DEF DrainedIsEmpty
<1>9. /\ requests' \subseteq Requests
      /\ rows' \in [DOMAIN rows' -> {1}] /\ DOMAIN rows' \subseteq Frames
      /\ DOMAIN counted' = DOMAIN rows'
      /\ faults' \in 0..MaxFaults
      /\ Frames' = Frames /\ frames' = frames
      /\ \A g \in Frames' : frames'[g] \in Places
  BY <1>0, <1>1 DEF WayOK, LeafOK, Frames
<1> QED
  BY <1>1, <1>5, <1>6, <1>7, <1>8, <1>9, ReceiverKeeps

LEMMA FlushKeeps ==
    ASSUME IInv, ShareDeliveryAssumption, Drain, Flush
    PROVE  IInv'
<1>0. LeafOK /\ WayOK /\ DrainedIsEmpty
  BY DEF IInv, Conserved, Arrives
<1> DEFINE b == Batch(primary.queue)
           rest == Rest(primary.queue)
<1>1. /\ rows' = [f \in DOMAIN rows \cup ToSet(b) |-> 1]
      /\ primary' = [primary EXCEPT !.queue = rest, !.draining = rest # <<>>,
                                    !.timer = @ /\ primary.draining]
      /\ UNCHANGED leaf /\ UNCHANGED <<frames, requests, front, dropped, faults>>
  BY DEF Flush, StoreShares, PutShare
<1>2. DOMAIN counted' = DOMAIN counted \cup ToSet(b)
  BY DEF Flush, StoreShares
<1>3. primary \in PrimaryRecs /\ primary.queue \in Seq(Frames)
  BY <1>0 DEF WayOK, PrimaryRecs
<1>4. /\ b \in Seq(Frames) /\ rest \in Seq(Frames)
      /\ ToSet(primary.queue) = ToSet(b) \cup ToSet(rest)
  BY <1>3, BatchAndRest
<1> HIDE DEF b, rest
<1>5. /\ primary' \in PrimaryRecs /\ primary'.queue = rest /\ primary'.phase = primary.phase
  BY <1>1, <1>3, <1>4 DEF PrimaryRecs
<1>6. /\ DOMAIN rows' = DOMAIN rows \cup ToSet(b)
      /\ rows' \in [DOMAIN rows' -> {1}] /\ DOMAIN counted' = DOMAIN rows'
      /\ DOMAIN rows' \subseteq Frames
  <2>1. ToSet(b) \subseteq Frames
    BY <1>4, FramesOf
  <2> QED
    BY <2>1, <1>0, <1>1, <1>2 DEF WayOK
<1>7. Safe \subseteq Safe'
  <2>1. \A f : f \in InReceiver' <=> \/ f \in ToSet(primary'.queue)
                                     \/ \E r \in Fronts : f \in ToSet(front'[r].ipc)
    BY DEF InReceiver
  <2>2. InReceiver \subseteq InReceiver' \cup DOMAIN rows'
    BY <2>1, <1>1, <1>4, <1>5, <1>6, InReceiverMembers
  <2> QED
    BY <2>2, <1>1, <1>6 DEF Safe
<1>8. DrainedIsEmpty'
  BY <1>0, <1>1, <1>5 DEF DrainedIsEmpty
<1>9. /\ requests' \subseteq Requests /\ front' \in [Fronts -> FrontRecs]
      /\ faults' \in 0..MaxFaults
      /\ Frames' = Frames /\ frames' = frames
      /\ \A f \in Frames' : frames'[f] \in Places
  BY <1>0, <1>1 DEF WayOK, LeafOK, Frames
<1> QED
  BY <1>1, <1>5, <1>6, <1>7, <1>8, <1>9, ReceiverKeeps

\* Steps that only turn switches of the receiver.
LEMMA SwitchKeeps ==
    ASSUME IInv, ShareDeliveryAssumption,
           \/ FlushFails \/ TimerIdles \/ ReceiverStops
           \/ \E r \in Fronts : FrontRejects(r)
    PROVE  IInv'
<1>0. LeafOK /\ WayOK /\ DrainedIsEmpty
  BY DEF IInv, Conserved, Arrives
<1>1. /\ UNCHANGED leaf /\ UNCHANGED <<frames, requests, rows, counted, dropped>>
  BY DEF FlushFails, TimerIdles, ReceiverStops, FrontRejects
<1>2. faults' \in 0..MaxFaults
  <2>1. CASE FlushFails \/ ReceiverStops
    BY <2>1, <1>0, FaultCounted DEF FlushFails, ReceiverStops
  <2>2. CASE TimerIdles \/ \E r \in Fronts : FrontRejects(r)
    BY <2>2, <1>0 DEF LeafOK, TimerIdles, FrontRejects
  <2> QED
    BY <2>1, <2>2
<1>3. /\ primary' \in PrimaryRecs /\ primary'.queue = primary.queue
      /\ primary'.phase = "drain" => primary.phase = "drain"
  <2>1. primary \in PrimaryRecs
    BY <1>0 DEF WayOK
  <2>2. CASE FlushFails
    BY <2>1, <2>2 DEF FlushFails, PrimaryRecs
  <2>3. CASE TimerIdles
    BY <2>1, <2>3 DEF TimerIdles, PrimaryRecs
  <2>4. CASE ReceiverStops
    BY <2>1, <2>4 DEF ReceiverStops, PrimaryRecs
  <2>5. CASE \E r \in Fronts : FrontRejects(r)
    BY <2>1, <2>5 DEF FrontRejects
  <2> QED
    BY <2>2, <2>3, <2>4, <2>5
<1>4. /\ front' \in [Fronts -> FrontRecs]
      /\ \A r \in Fronts : front'[r].ipc = front[r].ipc
  <2>1. front \in [Fronts -> FrontRecs]
    BY <1>0 DEF WayOK
  <2>2. CASE FlushFails
    BY <2>1, <2>2 DEF FlushFails, FrontRecs
  <2>3. CASE TimerIdles \/ ReceiverStops
    BY <2>1, <2>3 DEF TimerIdles, ReceiverStops
  <2>4. CASE \E r \in Fronts : FrontRejects(r)
    <3>1. PICK r \in Fronts :
             front' = [front EXCEPT ![r].notice = FALSE, ![r].rejecting = TRUE]
      BY <2>4 DEF FrontRejects
    <3> QED
      BY <2>1, <3>1 DEF FrontRecs
  <2> QED
    BY <2>2, <2>3, <2>4
<1>5. Safe \subseteq Safe'
  <2>1. \A f : f \in InReceiver' <=> \/ f \in ToSet(primary'.queue)
                                     \/ \E r \in Fronts : f \in ToSet(front'[r].ipc)
    BY DEF InReceiver
  <2>2. InReceiver \subseteq InReceiver'
    BY <2>1, <1>3, <1>4, InReceiverMembers
  <2> QED
    BY <2>2, <1>1 DEF Safe
<1>6. DrainedIsEmpty'
  BY <1>0, <1>3, <1>4 DEF DrainedIsEmpty
<1>7. /\ requests' \subseteq Requests
      /\ rows' \in [DOMAIN rows' -> {1}] /\ DOMAIN rows' \subseteq Frames
      /\ DOMAIN counted' = DOMAIN rows'
      /\ Frames' = Frames /\ frames' = frames
      /\ \A f \in Frames' : frames'[f] \in Places
  BY <1>0, <1>1 DEF WayOK, LeafOK, Frames
<1> QED
  BY <1>1, <1>2, <1>3, <1>4, <1>5, <1>6, <1>7, ReceiverKeeps

\* Steps in which connections break; an orderly end writes or has emptied
\* everything it answered for.
LEMMA BreakingKeeps ==
    ASSUME IInv, ShareDeliveryAssumption,
           \/ ReceiverCrash \/ FrontsDisconnect \/ ReceiverStarts
           \/ \E r \in Fronts : FrontCrash(r)
    PROVE  IInv'
<1>0. LeafOK /\ WayOK /\ DrainedIsEmpty
  BY DEF IInv, Conserved, Arrives
<1>1. UNCHANGED leaf /\ UNCHANGED <<rows, counted>> /\ \E rs : Break(rs)
  BY DEF ReceiverCrash, FrontsDisconnect, ReceiverStarts, FrontCrash
<1>2. /\ Frames' = Frames
      /\ requests' \subseteq Requests
      /\ \A f \in Frames' : frames'[f] \in Places
      /\ \A f \in Frames' : frames'[f] \in {"accepted", "done"} => frames'[f] = frames[f]
  BY <1>0, <1>1, BreakKeeps
<1>3. faults' \in 0..MaxFaults
  <2>1. CASE ReceiverCrash \/ \E r \in Fronts : FrontCrash(r)
    BY <2>1, <1>0, FaultCounted DEF ReceiverCrash, FrontCrash
  <2>2. CASE FrontsDisconnect \/ ReceiverStarts
    BY <2>2, <1>0 DEF LeafOK, FrontsDisconnect, ReceiverStarts
  <2> QED
    BY <2>1, <2>2
<1>4. /\ primary \in PrimaryRecs /\ front \in [Fronts -> FrontRecs]
      /\ <<>> \in Seq(Frames)
  BY <1>0 DEF WayOK
<1>5. IdlePrimary \in PrimaryRecs /\ IdlePrimary.phase = "run"
  BY <1>4 DEF IdlePrimary, PrimaryRecs
<1>6. [r \in Fronts |-> IdleFront] \in [Fronts -> FrontRecs]
  BY <1>4 DEF IdleFront, FrontRecs
<1>7. \A f : f \in InReceiver' <=> \/ f \in ToSet(primary'.queue)
                                   \/ \E r \in Fronts : f \in ToSet(front'[r].ipc)
  BY DEF InReceiver
<1>8. /\ primary' \in PrimaryRecs /\ front' \in [Fronts -> FrontRecs]
      /\ Safe \subseteq Safe' /\ DrainedIsEmpty'
  <2>1. CASE ReceiverCrash
    <3>1. primary' = IdlePrimary /\ front' = [r \in Fronts |-> IdleFront]
          /\ dropped' = dropped \cup InReceiver
      BY <2>1 DEF ReceiverCrash
    <3> QED
      BY <3>1, <1>1, <1>5, <1>6 DEF Safe, DrainedIsEmpty
  <2>2. CASE ReceiverStarts
    <3>1. /\ primary' = IdlePrimary /\ front' = [r \in Fronts |-> IdleFront]
          /\ dropped' = dropped \cup ToSet(primary.queue)
          /\ primary.phase = "drain"
      BY <2>2 DEF ReceiverStarts
    <3>2. \A r \in Fronts : ToSet(front[r].ipc) = {}
      BY <3>1, <1>0 DEF DrainedIsEmpty, ToSet
    <3>3. InReceiver \subseteq dropped'
      BY <3>1, <3>2, InReceiverMembers
    <3> QED
      BY <3>1, <3>3, <1>1, <1>5, <1>6 DEF Safe, DrainedIsEmpty
  <2>3. CASE FrontsDisconnect
    <3>1. /\ primary' = [primary EXCEPT !.phase = "drain"] /\ front' = front
          /\ dropped' = dropped /\ \A r \in Fronts : front[r].ipc = <<>>
      BY <2>3 DEF FrontsDisconnect
    <3>2. primary' \in PrimaryRecs /\ primary'.queue = primary.queue
      BY <3>1, <1>4 DEF PrimaryRecs
    <3>3. InReceiver \subseteq InReceiver'
      BY <3>1, <3>2, <1>7, InReceiverMembers
    <3> QED
      BY <3>1, <3>2, <3>3, <1>1, <1>4 DEF Safe, DrainedIsEmpty
  <2>4. ASSUME NEW r \in Fronts, FrontCrash(r)
        PROVE  /\ primary' \in PrimaryRecs /\ front' \in [Fronts -> FrontRecs]
               /\ Safe \subseteq Safe' /\ DrainedIsEmpty'
    <3> DEFINE forked == primary.phase = "run"
               x == [up |-> forked, rejecting |-> FALSE, ipc |-> <<>>,
                     notice |-> forked /\ primary.rejecting]
    <3>1. /\ primary' = primary /\ dropped' = dropped \cup ToSet(front[r].ipc)
          /\ front' = [front EXCEPT ![r] = x]
      BY <2>4 DEF FrontCrash
    <3>2. x \in FrontRecs /\ x.ipc = <<>>
      <4>1. forked \in BOOLEAN /\ (forked /\ primary.rejecting) \in BOOLEAN
        OBVIOUS
      <4> HIDE DEF forked
      <4> QED
        BY <4>1, <1>4 DEF FrontRecs
    <3> HIDE DEF x
    <3>3. /\ front' \in [Fronts -> FrontRecs] /\ front'[r] = x
          /\ \A k \in Fronts \ {r} : front'[k] = front[k]
      BY <3>1, <3>2, <1>4
    <3>4. InReceiver \subseteq InReceiver' \cup ToSet(front[r].ipc)
      BY <3>1, <3>3, <1>7, InReceiverMembers
    <3>5. Safe \subseteq Safe'
      BY <3>1, <3>4, <1>1 DEF Safe
    <3>6. DrainedIsEmpty'
      BY <3>1, <3>2, <3>3, <1>0 DEF DrainedIsEmpty
    <3> QED
      BY <3>1, <3>3, <3>5, <3>6, <1>4
  <2> QED
    BY <2>1, <2>2, <2>3, <2>4
<1>9. /\ rows' \in [DOMAIN rows' -> {1}] /\ DOMAIN rows' \subseteq Frames
      /\ DOMAIN counted' = DOMAIN rows'
  BY <1>0, <1>1 DEF WayOK
<1> QED
  BY <1>1, <1>2, <1>3, <1>8, <1>9, ReceiverKeeps

-----------------------------------------------------------------------------
(* The theorems *)

LEMMA InitInv ==
    ASSUME ShareDeliveryAssumption, Init
    PROVE  IInv
<1>1. DOMAIN acc = {} /\ Frames = {} /\ Shares = {} /\ DOMAIN rows = {} /\ DOMAIN counted = {}
  BY DEF Init, Frames, Shares
<1>2. LeafOK
  <2>1. credited \in Seq(Nat) /\ finalizer \in BOOLEAN
    <3>1. credited = <<>>
      BY DEF Init
    <3>2. finalizer \in BOOLEAN
      BY Zenon DEF Init
    <3> QED
      BY <3>1, <3>2
  <2>2. faults \in 0..MaxFaults
    BY DEF Init, ShareDeliveryAssumption
  <2> QED
    BY <2>1, <2>2, <1>1 DEF LeafOK
<1>3. NamesCounted
  <2>1. DOMAIN acc \ {Other} = {}
    BY <1>1
  <2> QED
    BY <2>1, <1>1, FS_EmptySet DEF Init, NamesCounted
<1>4. /\ OneHolder /\ HeldOrMade /\ OneFrame /\ EveryPayee /\ Placed
      /\ HeldAtFirst /\ BookedAtFirst
  BY <1>1 DEF OneHolder, HeldOrMade, OneFrame, EveryPayee, Placed, HeldAtFirst, BookedAtFirst
<1>5. WayOK
  <2>1. front \in [Fronts -> FrontRecs] /\ primary \in PrimaryRecs
    BY DEF Init, IdleFront, IdlePrimary, FrontRecs, PrimaryRecs
  <2>2. rows \in [DOMAIN rows -> {1}]
    BY DEF Init
  <2> QED
    BY <2>1, <2>2, <1>1 DEF Init, WayOK
<1>6. AnsweredIsSafe /\ DrainedIsEmpty
  BY <1>1 DEF Init, AnsweredIsSafe, DrainedIsEmpty, IdlePrimary
<1> QED
  BY <1>2, <1>3, <1>4, <1>5, <1>6 DEF IInv, Conserved, Arrives

LEMMA StutterInv ==
    ASSUME IInv, UNCHANGED vars
    PROVE  IInv'
<1>1. UNCHANGED leaf /\ UNCHANGED receiver /\ frames' = frames /\ requests' = requests
      /\ faults' = faults /\ Frames' = Frames
  BY DEF vars, leaf, receiver, Frames
<1>2. Conserved'
  BY <1>1, PassesConserve DEF Passes, IInv, Conserved, LeafOK
<1>3. Arrives'
  BY <1>1, OutsideArrives DEF IInv, Arrives, WayOK, Requests
<1> QED
  BY <1>2, <1>3 DEF IInv

LEMMA NextInv ==
    ASSUME ShareDeliveryAssumption, IInv, Next
    PROVE  IInv'
<1>0. Conserved
  BY DEF IInv
<1>1. CASE \/ \E rig \in Rigs, h \in 1..MaxHeight : RecordShare(rig, h)
           \/ Finalize \/ PoolWorkerCrash \/ PoolCrash
           \/ \E n \in Names : AccAges(n)
  <2>1. Conserved'
    BY <1>0, <1>1, RecordShareConserves, FinalizeConserves, CrashConserves, AccAgesConserves
  <2>2. Arrives'
    BY <1>1, LeafArrives
  <2> QED
    BY <2>1, <2>2 DEF IInv
<1>2. CASE \E f \in Frames : \/ MasterQueues(f) \/ Answered(f) \/ PostTimesOut(f)
                             \/ \E r \in Fronts : StartPost(f, r) \/ Retry(f, r)
  BY <1>2, UplinkKeeps
<1>3. CASE \E q \in requests : FrontHandles(q) \/ PostFails(q)
  BY <1>3, FrontHandlesKeeps, PostFailsKeeps
<1>4. CASE \E r \in Fronts : PrimaryReceives(r)
  BY <1>4, PrimaryReceivesKeeps
<1>5. CASE Drain
  <2>1. Flush \/ FlushFails
    BY <1>5 DEF Drain
  <2> QED
    BY <1>5, <2>1, FlushKeeps, SwitchKeeps
<1>6. CASE TimerIdles \/ ReceiverStops \/ \E r \in Fronts : FrontRejects(r)
  BY <1>6, SwitchKeeps
<1>7. CASE \/ ReceiverCrash \/ FrontsDisconnect \/ ReceiverStarts
           \/ \E r \in Fronts : FrontCrash(r)
  BY <1>7, BreakingKeeps
<1> QED
  BY <1>1, <1>2, <1>3, <1>4, <1>5, <1>6, <1>7 DEF Next, Progress

LEMMA Invariance == Spec => []IInv
<1>1. Init => IInv
  BY InitInv, ShareDeliveryAssumption
<1>2. IInv /\ [Next]_vars => IInv'
  BY NextInv, StutterInv, ShareDeliveryAssumption
<1> QED
  BY <1>1, <1>2, PTL DEF Spec

\* Every state is of the form the code keeps it in: frames and requests refer
\* to what exists, and the two tables of the store hold the same frames.
THEOREM TypeCorrect == Spec => []TypeOK
<1>1. IInv => TypeOK
  <2> SUFFICES ASSUME IInv PROVE TypeOK
    OBVIOUS
  <2>1. LeafOK /\ WayOK /\ NamesCounted
    BY DEF IInv, Conserved, Arrives
  <2>2. named \in Nat
    <3>1. IsFiniteSet(DOMAIN acc \ {Other})
      BY <2>1, FS_Difference DEF NamesCounted
    <3> QED
      BY <2>1, <3>1, FS_CardinalityType DEF NamesCounted
  <2>3. primary.queue \in Seq(Frames)
    BY <2>1 DEF WayOK, PrimaryRecs
  <2>4. \A q \in requests : q.f \in Frames /\ q.r \in Fronts
    BY <2>1 DEF WayOK, Requests
  <2> QED
    BY <2>1, <2>2, <2>3, <2>4 DEF TypeOK, LeafOK, WayOK, Entry
<1> QED
  BY <1>1, Invariance, PTL

\* A set with exactly one element has cardinality one.
LEMMA ExactlyOne ==
    ASSUME NEW S, NEW x \in S, \A y \in S : y = x
    PROVE  Cardinality(S) = 1
<1>1. S = {x}
  OBVIOUS
<1> QED
  BY <1>1, FS_Singleton

\* No share is lost or credited twice on its way from recordShareData through
\* the accumulators of addShareWorker, their flush by age, by size and by the
\* finalizer, and the frames of storeShareDiv, whatever process dies.
THEOREM CreditIsConservedHolds == Spec => []CreditIsConserved
<1>1. IInv => CreditIsConserved
  <2> SUFFICES ASSUME IInv PROVE CreditIsConserved
    OBVIOUS
  <2>0. /\ NamesCounted /\ OneHolder /\ HeldOrMade /\ OneFrame /\ EveryPayee /\ Placed
    BY DEF IInv, Conserved
  <2>1. ASSUME NEW s \in Shares
        PROVE  LET held == Cardinality({n \in DOMAIN acc : s \in acc[n].shares})
                   made == {f \in Frames : s \in f.shares}
               IN \/ held = 1 /\ made = {}
                  \/ held = 0 /\ \A p \in Payees : Cardinality({f \in made : f.payee = p}) = 1
                  \/ held = 0 /\ made = {} /\ s \in gone
    <3> DEFINE holders == {n \in DOMAIN acc : s \in acc[n].shares}
               made == {f \in Frames : s \in f.shares}
    <3>1. CASE holders # {}
      <4>1. PICK n \in holders : TRUE
        BY <3>1
      <4>2. \A m \in holders : m = n
        BY <4>1, <2>0 DEF OneHolder
      <4>3. made = {}
        BY <4>1, <2>0 DEF HeldOrMade
      <4>4. Cardinality(holders) = 1
        <5> HIDE DEF holders
        <5> QED
          BY <4>1, <4>2, ExactlyOne
      <4> QED
        BY <4>3, <4>4
    <3>2. CASE holders = {}
      <4>1. Cardinality(holders) = 0
        BY <3>2, FS_EmptySet
      <4>2. ASSUME \A p \in Payees : \E f \in Frames : f.payee = p /\ s \in f.shares,
                   NEW p \in Payees
            PROVE  Cardinality({f \in made : f.payee = p}) = 1
        <5>1. PICK f \in Frames : f.payee = p /\ s \in f.shares
          BY <4>2
        <5>2. \A g \in {h \in made : h.payee = p} : g = f
          BY <5>1, <2>0 DEF OneFrame
        <5>3. f \in {h \in made : h.payee = p}
          BY <5>1
        <5> QED
          BY <5>2, <5>3, ExactlyOne
      <4>3. CASE \A p \in Payees : \E f \in Frames : f.payee = p /\ s \in f.shares
        BY <4>1, <4>2, <4>3
      <4>4. CASE s \in gone /\ made = {}
        BY <4>1, <4>4
      <4>5. CASE made # {}
        <5>1. \A p \in Payees : \E f \in Frames : f.payee = p /\ s \in f.shares
          BY <4>5, <2>0 DEF EveryPayee
        <5> QED
          BY <4>3, <5>1
      <4> QED
        BY <3>2, <4>3, <4>4, <4>5, <2>0 DEF Placed
    <3> QED
      BY <3>1, <3>2
  <2> QED
    BY <2>0, <2>1 DEF CreditIsConserved, NamesCounted
<1> QED
  BY <1>1, Invariance, PTL

\* A frame that was answered with 200 is in the table or on its way there,
\* unless it was lost with the receiver's process or the front that took it, or
\* discarded in reject mode: failed writes, batches and an orderly stop lose
\* nothing.
THEOREM AckedIsKeptHolds == Spec => []AckedIsKept
<1>1. IInv => AckedIsKept
  BY DEF IInv, Arrives, AnsweredIsSafe, Safe, AckedIsKept
<1> QED
  BY <1>1, Invariance, PTL

\* A frame posted again after a timeout or a lost answer pays nobody twice.
THEOREM PaidOnceHolds == Spec => []PaidOnce
<1>1. IInv => PaidOnce
  <2> SUFFICES ASSUME IInv PROVE PaidOnce
    OBVIOUS
  <2>1. OneFrame /\ WayOK
    BY DEF IInv, Conserved, Arrives
  <2>2. DOMAIN rows \subseteq Frames /\ \A f \in DOMAIN rows : rows[f] = 1
    BY <2>1 DEF WayOK
  <2> QED
    BY <2>1, <2>2 DEF PaidOnce, OneFrame
<1> QED
  BY <1>1, Invariance, PTL

\* A frame of storeShareDiv carries the height of the share its accumulator was
\* opened with, through joins, flushes and the names that are used again.
THEOREM BookedAtFirstHolds == Spec => []BookedAtFirst
<1>1. IInv => BookedAtFirst
  BY DEF IInv, Conserved
<1> QED
  BY <1>1, Invariance, PTL
=============================================================================
