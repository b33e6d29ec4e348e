---------------------------- MODULE Core_proofs ----------------------------
(***************************************************************************)
(* Four parts of the V3 core, for every size of their rings and batches.   *)
(* RewindBuffer: rewind_peek shows the timeline, and, as long as no        *)
(* unflushed block is overwritten, the delta lane holds it.  FaceIslands:  *)
(* what a split face owns, and its rewind window.  FaceSleep: what giving  *)
(* memory back by pages spares, and how little it frees.  EngineBridge:    *)
(* each write once and in its world, what a crash can take, and the        *)
(* transitions that no face ever makes.                                    *)
(*                                                                         *)
(* The inductive invariant of RewindBuffer says of the count blocks before *)
(* head that their slots hold the timeline (Kept).  WindowCoversDepth then *)
(* makes the next block to flush one of them.                              *)
(***************************************************************************)
EXTENDS RewindBuffer, FaceIslands, FaceSleep, EngineBridge, ModArith, SequenceTheorems,
        FiniteSetTheorems

\* The positions still in the ring hold what was pushed at them.
Kept == \A p \in (head - count) .. (head - 1) : slots[SlotAt(p)] = timeline[p + 1]

Inv == TypeOK /\ Kept /\ WindowCoversDepth /\ FlushedIsTimeline

LEMMA Sizes == Max \in Nat \ {0} /\ Gate \in Nat \ {0} /\ Nexus \in Nat \ {0}
  BY RewindAssumption

LEMMA SlotRange ==
  ASSUME NEW p \in Int
  PROVE  SlotAt(p) \in Slots
  BY Division, Sizes DEF SlotAt, Slots

LEMMA SlotDistinct ==
  ASSUME NEW p \in Int, NEW q \in Int, p < q, q - p < Max
  PROVE  SlotAt(p) # SlotAt(q)
<1>1. p # q /\ p - q < Max  BY Sizes
<1>. QED  BY <1>1, RemainderDistinct, Sizes DEF SlotAt

LEMMA SlotNext ==
  ASSUME NEW p \in Int
  PROVE  (SlotAt(p) + 1) % Max = SlotAt(p + 1)
<1>1. ((p % Max) + 1) % Max = (p + 1) % Max
  <2>1. 1 \in Int  OBVIOUS
  <2>. QED  BY <2>1, Sizes, RemainderAdd, Zenon
<1>. QED  BY <1>1 DEF SlotAt

LEMMA DepthIs ==
  ASSUME TypeOK
  PROVE  Depth = head - confirmed /\ Depth \in 0 .. head
  BY DEF TypeOK, Depth

-----------------------------------------------------------------------------
LEMMA InitInv == Init => Inv
<1> SUFFICES ASSUME Init  PROVE Inv
  OBVIOUS
<1> USE Sizes
<1>1. \A c \in Checkpoints : c * Nexus \in Slots
  <2> SUFFICES ASSUME NEW c \in Checkpoints  PROVE c * Nexus \in Slots
    OBVIOUS
  <2> DEFINE d == Max \div Nexus
  <2>1. d \in Int /\ Max = Nexus * d + (Max % Nexus)  BY Division
  <2>2. Max = Nexus * d  BY <2>1, RewindAssumption
  <2>3. c \in 0 .. (d - 1)  BY DEF Checkpoints
  <2> HIDE DEF d
  <2>4. c \in Nat /\ c + 1 <= d  BY <2>1, <2>3
  <2>5. Nexus * (c + 1) <= Nexus * d  BY <2>1, <2>4, SMT
  <2>6. Nexus * (c + 1) = Nexus * c + Nexus /\ c * Nexus = Nexus * c  BY <2>4, SMT
  <2>7. Nexus * c \in Nat  BY <2>4, SMT
  <2>. QED  BY <2>2, <2>5, <2>6, <2>7 DEF Slots
<1>2. TypeOK
  <2>1. checkpoints \in [Checkpoints -> Slots]  BY <1>1, Zenon DEF Init
  <2>2. 0 \in Slots  BY DEF Slots
  <2>3. slots \in [Slots -> Nat]  BY DEF Init
  <2>. QED  BY <2>1, <2>2, <2>3 DEF Init, TypeOK
<1>3. 0 % Max = 0  BY RemainderSmall
<1>4. Kept  BY DEF Init, Kept
<1>5. WindowCoversDepth  BY <1>3 DEF Init, WindowCoversDepth, Depth, SlotAt
<1>6. FlushedIsTimeline  BY DEF Init, FlushedIsTimeline
<1>. QED  BY <1>2, <1>4, <1>5, <1>6 DEF Inv

-----------------------------------------------------------------------------
\* A push adds the position h to the window before head and may drop the oldest.
LEMMA WindowGrows ==
  ASSUME NEW h \in Nat, NEW c \in 0 .. Max, NEW d \in 0 .. Max, d <= c + 1,
         NEW p \in ((h + 1) - d) .. ((h + 1) - 1), p # h
  PROVE  p < h /\ h - p < Max /\ p \in (h - c) .. (h - 1)
  BY Sizes

LEMMA PushInv == ASSUME Inv, Push  PROVE Inv'
<1> USE Sizes
<1> USE DEF Inv
<1>1. /\ head \in Nat /\ count \in 0 .. Max /\ count <= head /\ confirmed \in 0 .. head
      /\ writes \in Nat /\ tail \in Slots /\ overrun \in BOOLEAN
      /\ slots \in [Slots -> Nat] /\ timeline \in Seq(Nat) /\ Len(timeline) = head
  BY DEF TypeOK
<1>0. head \in Nat /\ count \in 0 .. Max  BY <1>1
<1>2. SlotAt(head) \in Slots  BY <1>1, SlotRange
<1>3. /\ count' \in 0 .. Max /\ count' <= count + 1 /\ tail' \in Slots
  <2>1. (tail + 1) % Max \in Slots  BY <1>1, Division DEF Slots
  <2>. QED  BY <2>1, <1>1 DEF Push, Evict
<1>4. checkpoints' \in [Checkpoints -> Slots]
  BY <1>2 DEF Push, SaveCheckpoint, TypeOK
<1>5. /\ timeline' \in Seq(Nat) /\ Len(timeline') = head + 1
      /\ timeline'[head + 1] = writes + 1
      /\ \A i \in 1 .. head : timeline'[i] = timeline[i]
  BY <1>1 DEF Push
<1>6. TypeOK'
  <2>1. slots' \in [Slots -> Nat]  BY <1>1, <1>2 DEF Push
  <2>2. epoch' \in Nat  BY DEF TypeOK, Push
  <2>3. overrun' \in BOOLEAN  BY <1>1 DEF Push
  <2>4. lane' \in Seq(Nat) /\ Len(lane') = confirmed'  BY DEF TypeOK, Push
  <2>. QED  BY <1>1, <1>3, <1>4, <1>5, <2>1, <2>2, <2>3, <2>4 DEF TypeOK, Push
<1>7. Kept'
  <2> SUFFICES ASSUME NEW p \in (head' - count') .. (head' - 1)
               PROVE  slots'[SlotAt(p)] = timeline'[p + 1]
    BY DEF Kept, SlotAt
  <2>0. p \in ((head + 1) - count') .. ((head + 1) - 1)
    <3>1. head' = head + 1  BY DEF Push
    <3>2. (head' - count') .. (head' - 1) = ((head + 1) - count') .. ((head + 1) - 1)
      BY <3>1, Zenon
    <3>. QED  BY <3>2, Zenon
  <2>1. p \in Int /\ head' = head + 1  BY <1>1, <1>3 DEF Push
  <2>2. CASE p = head  BY <2>2, <1>1, <1>2, <1>5 DEF Push
  <2>3. CASE p # head
    <3>1. p < head /\ head - p < Max /\ p \in (head - count) .. (head - 1)
      BY <1>0, <1>3, <2>0, <2>1, <2>3, WindowGrows
    <3>2. SlotAt(p) # SlotAt(head)  BY <3>1, <2>1, <1>1, SlotDistinct
    <3>3. SlotAt(p) \in Slots  BY <2>1, SlotRange
    <3>4. slots'[SlotAt(p)] = slots[SlotAt(p)]  BY <3>2, <3>3, <1>1 DEF Push
    <3>5. p + 1 \in 1 .. head  BY <3>1, <2>1, <1>1
    <3>6. slots[SlotAt(p)] = timeline[p + 1]  BY <3>1 DEF Kept
    <3>. QED  BY <3>4, <3>5, <3>6, <1>5
  <2>. QED  BY <2>2, <2>3
<1>8. WindowCoversDepth'
  <2> SUFFICES ASSUME ~overrun'
               PROVE  Depth' <= count' /\ tail' = SlotAt(head' - count')
    BY DEF WindowCoversDepth, SlotAt
  <2>1. ~overrun /\ Depth < Max
    <3>1. ~overrun /\ ~(Depth >= Max)  BY Zenon DEF Push
    <3>. QED  BY <3>1, DepthIs, <1>1
  <2>2. Depth <= count /\ tail = SlotAt(head - count)  BY <2>1 DEF WindowCoversDepth
  <2>3. Depth = head - confirmed /\ Depth' = head + 1 - confirmed
    BY <1>1, DepthIs DEF Depth, Push
  <2>4. CASE count < Max
    <3>1. count' = count + 1 /\ tail' = tail /\ head' = head + 1
      BY <2>4 DEF Push, Evict
    <3>2. head' - count' = head - count  BY <3>1, <1>1
    <3>. QED  BY <3>1, <3>2, <2>2, <2>3, <1>1
  <2>5. CASE count = Max
    <3>1. count' = count /\ tail' = (tail + 1) % Max /\ head' = head + 1
      BY <2>5 DEF Push, Evict
    <3>2. head' - count' = (head - count) + 1 /\ head - count \in Int  BY <3>1, <1>1
    <3>3. tail' = SlotAt(head' - count')  BY <3>1, <3>2, <2>2, SlotNext
    <3>. QED  BY <3>1, <3>3, <2>1, <2>3, <2>5, <1>1
  <2>. QED  BY <2>4, <2>5, <1>1
<1>9. FlushedIsTimeline'
  <2> SUFFICES ASSUME ~overrun', NEW i \in 1 .. confirmed'
               PROVE  lane'[i] \in {timeline'[i], Lost}
    BY DEF FlushedIsTimeline, Lost
  <2>1. ~overrun /\ confirmed' = confirmed /\ lane' = lane  BY <1>1, DepthIs DEF Push
  <2>2. i \in 1 .. confirmed /\ i \in 1 .. head  BY <2>1, <1>1
  <2>. QED  BY <2>1, <2>2, <1>5 DEF FlushedIsTimeline
<1>. QED  BY <1>6, <1>7, <1>8, <1>9

-----------------------------------------------------------------------------
LEMMA FlushInv ==
  ASSUME Inv, NEW stored \in SUBSET (1 .. Gate), FlushGate(stored)
  PROVE  Inv'
<1> USE Sizes
<1> USE DEF Inv
<1> DEFINE new == [i \in 1 .. Gate |->
                     IF i \in stored THEN slots[SlotAt(confirmed + i - 1)] ELSE Lost]
<1>1. /\ head \in Nat /\ count \in 0 .. Max /\ count <= head /\ confirmed \in 0 .. head
      /\ slots \in [Slots -> Nat] /\ lane \in Seq(Nat) /\ Len(lane) = confirmed
  BY DEF TypeOK
<1>2. confirmed' = confirmed + Gate /\ confirmed' <= head /\ lane' = lane \o new
  BY <1>1, DepthIs DEF FlushGate
<1>3. new \in Seq(Nat) /\ Len(new) = Gate
  <2>1. \A i \in 1 .. Gate : new[i] \in Nat
    <3> SUFFICES ASSUME NEW i \in 1 .. Gate  PROVE new[i] \in Nat
      OBVIOUS
    <3>1. SlotAt(confirmed + i - 1) \in Slots  BY <1>1, SlotRange
    <3>. QED  BY <3>1, <1>1 DEF Lost
  <2>2. new \in [1 .. Gate -> Nat]  BY <2>1
  <2> HIDE DEF new
  <2>. QED  BY <2>2
<1>4. \A i \in 1 .. Gate : new[i] = IF i \in stored THEN slots[SlotAt(confirmed + i - 1)]
                                                    ELSE Lost
  OBVIOUS
<1> HIDE DEF new
<1>5. /\ lane' \in Seq(Nat) /\ Len(lane') = confirmed'
      /\ \A i \in 1 .. confirmed : lane'[i] = lane[i]
      /\ \A i \in 1 .. Gate : lane'[confirmed + i] = new[i]
  <2>0. lane \in Seq(Nat) /\ Len(lane) = confirmed  BY <1>1
  <2>1. lane \o new \in Seq(Nat) /\ Len(lane \o new) = confirmed + Gate
    BY <2>0, <1>3
  <2>2. \A i \in 1 .. confirmed : (lane \o new)[i] = lane[i]  BY <1>1, <1>3
  <2>3. \A i \in 1 .. Gate : (lane \o new)[confirmed + i] = new[i]
    <3> SUFFICES ASSUME NEW i \in 1 .. Gate
                 PROVE  (lane \o new)[confirmed + i] = new[i]
      OBVIOUS
    <3>1. /\ confirmed + i \in 1 .. (Len(lane) + Len(new)) /\ confirmed + i > Len(lane)
          /\ (confirmed + i) - Len(lane) = i
      BY <1>1, <1>3
    <3>. QED  BY <3>1, <2>0, <1>3
  <2>. QED  BY <2>1, <2>2, <2>3, <1>2
<1>6. TypeOK'  BY <1>1, <1>2, <1>5 DEF TypeOK, FlushGate
<1>7. Kept'  BY DEF Kept, FlushGate, SlotAt
<1>8. WindowCoversDepth'
  BY <1>1, <1>2, <1>6, DepthIs DEF WindowCoversDepth, FlushGate, SlotAt, Depth
<1>9. FlushedIsTimeline'
  <2> SUFFICES ASSUME ~overrun', NEW i \in 1 .. confirmed'
               PROVE  lane'[i] \in {timeline'[i], Lost}
    BY DEF FlushedIsTimeline, Lost
  <2>1. ~overrun /\ timeline' = timeline  BY DEF FlushGate
  <2>2. CASE i <= confirmed
    <3>1. i \in 1 .. confirmed  BY <2>2, <1>1, <1>2
    <3>. QED  BY <3>1, <2>1, <1>5 DEF FlushedIsTimeline
  <2>3. CASE i > confirmed
    <3> DEFINE j == i - confirmed
    <3>1. j \in 1 .. Gate /\ confirmed + j = i  BY <2>3, <1>1, <1>2
    <3>2. lane'[i] = new[j]  BY <3>1, <1>5
    <3>3. confirmed + j - 1 = i - 1 /\ i - 1 \in (head - count) .. (head - 1)
      <4>1. Depth <= count /\ Depth = head - confirmed
        BY <2>1, DepthIs DEF WindowCoversDepth
      <4>. QED  BY <4>1, <3>1, <1>1, <1>2
    <3>4. slots[SlotAt(i - 1)] = timeline[i]
      <4>1. (i - 1) + 1 = i  BY <3>1, <1>1
      <4>. QED  BY <4>1, <3>3 DEF Kept
    <3>. QED  BY <3>1, <3>2, <3>3, <3>4, <2>1, <1>4
  <2>4. i \in Int /\ confirmed \in Int  BY <1>1, <1>2
  <2>. QED  BY <2>2, <2>3, <2>4
<1>. QED  BY <1>6, <1>7, <1>8, <1>9

-----------------------------------------------------------------------------
\* rewind, and rewind_to_checkpoint, which calls it.
LEMMA RollBackInv ==
  ASSUME Inv, NEW n \in Nat, RollBack(n)
  PROVE  Inv'
<1> USE DEF Inv
<1> DEFINE steps == Lesser(n, Depth)
<1>1. /\ head \in Nat /\ count \in 0 .. Max /\ count <= head /\ confirmed \in 0 .. head
      /\ timeline \in Seq(Nat) /\ Len(timeline) = head
  BY DEF TypeOK
<1>2. steps \in 0 .. (head - confirmed) /\ Depth = head - confirmed
  BY <1>1, DepthIs DEF Lesser
<1>3. /\ head' = head - steps /\ count' = IF count > steps THEN count - steps ELSE 0
      /\ timeline' = SubSeq(timeline, 1, head - steps)
  BY DEF RollBack
<1> HIDE DEF steps
<1>4. /\ timeline' \in Seq(Nat) /\ Len(timeline') = head'
      /\ \A i \in 1 .. head' : timeline'[i] = timeline[i]
  <2> DEFINE last == head - steps
  <2>1. last \in 0 .. Len(timeline)  BY <1>1, <1>2
  <2> HIDE DEF last
  <2>2. /\ SubSeq(timeline, 1, last) \in Seq(Nat) /\ Len(SubSeq(timeline, 1, last)) = last
        /\ \A i \in 1 .. last : SubSeq(timeline, 1, last)[i] = timeline[i]
    BY <2>1, <1>1
  <2>. QED  BY <2>2, <1>3 DEF last
<1>5. head' \in Nat /\ count' \in 0 .. Max /\ count' <= head' /\ confirmed \in 0 .. head'
  <2>1. head \in Nat /\ confirmed \in Nat /\ count \in 0 .. Max /\ count <= head
    BY <1>1
  <2>2. head' = head - steps /\ steps \in Nat /\ steps <= head - confirmed
    BY <1>2, <1>3, <2>1
  <2>3. CASE count > steps  BY <2>1, <2>2, <2>3, <1>3, Sizes
  <2>4. CASE ~(count > steps)  BY <2>1, <2>2, <2>4, <1>3, Sizes
  <2>. QED  BY <2>3, <2>4
<1>6. TypeOK'  BY <1>4, <1>5 DEF TypeOK, RollBack
<1>7. Kept'
  <2> SUFFICES ASSUME NEW p \in (head' - count') .. (head' - 1)
               PROVE  slots'[SlotAt(p)] = timeline'[p + 1]
    BY DEF Kept, SlotAt
  <2>1. p + 1 \in 1 .. head' /\ p \in (head - count) .. (head - 1)
    BY <1>1, <1>2, <1>3, <1>5
  <2>2. slots[SlotAt(p)] = timeline[p + 1]  BY <2>1 DEF Kept
  <2>. QED  BY <2>1, <2>2, <1>4 DEF RollBack
<1>8. WindowCoversDepth'
  <2> SUFFICES ASSUME ~overrun'
               PROVE  Depth' <= count' /\ tail' = SlotAt(head' - count')
    BY DEF WindowCoversDepth, SlotAt
  <2>1. Depth <= count /\ tail = SlotAt(head - count)
    BY DEF WindowCoversDepth, RollBack
  <2>2. count' = count - steps  BY <2>1, <1>1, <1>2, <1>3
  <2>3. head' - count' = head - count  BY <2>2, <1>1, <1>2, <1>3
  <2>4. Depth' = head' - confirmed  BY <1>5 DEF Depth, RollBack
  <2>. QED  BY <2>1, <2>2, <2>3, <2>4, <1>1, <1>2, <1>3 DEF RollBack
<1>9. FlushedIsTimeline'
  <2> SUFFICES ASSUME ~overrun', NEW i \in 1 .. confirmed'
               PROVE  lane'[i] \in {timeline'[i], Lost}
    BY DEF FlushedIsTimeline, Lost
  <2>1. i \in 1 .. confirmed /\ i \in 1 .. head'  BY <1>1, <1>5 DEF RollBack
  <2>. QED  BY <2>1, <1>4 DEF FlushedIsTimeline, RollBack
<1>. QED  BY <1>6, <1>7, <1>8, <1>9

LEMMA NextInv == Inv /\ [Next]_vars => Inv'
<1> SUFFICES ASSUME Inv, [Next]_vars  PROVE Inv'
  OBVIOUS
<1>1. CASE Push  BY <1>1, PushInv
<1>2. CASE \E stored \in SUBSET (1 .. Gate) : FlushGate(stored)  BY <1>2, FlushInv
<1>3. CASE \E n \in 1 .. MaxPush : Rewind(n)
  <2>1. PICK n \in 1 .. MaxPush : Rewind(n)  BY <1>3
  <2>2. n \in Nat /\ RollBack(n)  BY <2>1 DEF Rewind
  <2>. QED  BY <2>2, RollBackInv
<1>4. CASE \E target \in Slots : RewindToCheckpoint(target)
  <2>1. PICK target \in Slots : RewindToCheckpoint(target)  BY <1>4
  <2>2. PICK c \in Candidates(target) :
          /\ checkpoints[c] + 1 < head
          /\ RollBack(head - (checkpoints[c] + 1))
    BY <2>1 DEF RewindToCheckpoint
  <2>3. checkpoints[c] \in Slots /\ head \in Nat  BY <2>2 DEF Candidates, Inv, TypeOK
  <2>4. head - (checkpoints[c] + 1) \in Nat
    BY <2>2, <2>3, Sizes DEF Slots
  <2>. QED  BY <2>2, <2>4, RollBackInv
<1>5. CASE UNCHANGED vars
  BY <1>5 DEF vars, ring, Inv, TypeOK, Kept, WindowCoversDepth, FlushedIsTimeline,
              Depth, SlotAt
<1>. QED  BY <1>1, <1>2, <1>3, <1>4, <1>5 DEF Next

LEMMA Invariance == Spec => []Inv
<1>. QED  BY InitInv, NextInv, PTL DEF Spec

\* The buffer's state keeps its type: confirmed never overtakes head, rewind never
\* takes head below it, and one append has been made for every block confirmed.
THEOREM TypeCorrect == Spec => []TypeOK
<1>1. Inv => TypeOK  BY DEF Inv
<1>. QED  BY <1>1, Invariance, PTL

\* rewind_peek shows the timeline after any order of pushes, flushes and rewinds,
\* even when the ring has overwritten blocks that were not flushed.
THEOREM PeekShowsTimeline == Spec => []PeekIsTimeline
<1>1. Inv => PeekIsTimeline
  <2> SUFFICES ASSUME Inv, NEW offset \in 0 .. (count - 1)
               PROVE  Peek(offset) = timeline[head - offset]
    BY DEF PeekIsTimeline
  <2>1. head \in Nat /\ count \in Nat  BY DEF Inv, TypeOK
  <2>2. /\ head - 1 - offset \in (head - count) .. (head - 1)
        /\ (head - 1 - offset) + 1 = head - offset
    BY <2>1
  <2>. QED  BY <2>2 DEF Inv, Kept, Peek
<1>. QED  BY <1>1, Invariance, PTL

\* The delta lane holds the timeline as long as no unflushed block was overwritten:
\* what was flushed is never rolled back, skipped or written twice.
THEOREM LaneHoldsTimeline == Spec => []FlushedIsTimeline
<1>1. Inv => FlushedIsTimeline  BY DEF Inv
<1>. QED  BY <1>1, Invariance, PTL

\* rewind_depth never promises more than the ring holds, under the same condition.
THEOREM DepthIsCovered == Spec => []WindowCoversDepth
<1>1. Inv => WindowCoversDepth  BY DEF Inv
<1>. QED  BY <1>1, Invariance, PTL

-----------------------------------------------------------------------------
(* The islands of split faces (FaceIslands).  A split face and its context    *)
(* name each other until a merge reclaims the face as somebody's child.       *)

Rewinds == [parent : Nodes \cup {Nobody}, head : Nat,
            slots : [0 .. (LocalSize - 1) -> Blocks \cup {Nobody}]]

IslandsTypeOK ==
  /\ face \in [Nodes -> [hydra_id : Contexts \cup {Nobody}, children : SUBSET Nodes]]
  /\ active \subseteq Contexts /\ reclaimed \subseteq active
  /\ ctx \in [Contexts -> Rewinds]
  /\ pushed \in [Contexts -> Seq(Blocks)] /\ top \in [Contexts -> Nat]

Owner ==
  /\ \A n \in Nodes : n \notin face[n].children
  /\ \A n \in Nodes : IsSplit(n) =>
       /\ face[n].hydra_id \in active \ reclaimed
       /\ ctx[face[n].hydra_id].parent = n
  /\ \A c \in active \ reclaimed :
       /\ ctx[c].parent \in Nodes /\ IsSplit(ctx[c].parent)
       /\ face[ctx[c].parent].hydra_id = c

\* A local rewind whose highest head was high.
WindowOf(local, blocks, high) ==
  /\ local.head = Len(blocks) /\ local.head <= high
  /\ \A i \in 0 .. (local.head - 1) :
       i >= high - LocalSize => local.slots[i % LocalSize] = blocks[i + 1]

Windows == \A c \in Contexts : WindowOf(ctx[c], pushed[c], top[c])

IslandsInv == IslandsTypeOK /\ Owner /\ Windows

LEMMA FreshWindow ==
  /\ Unused \in Rewinds
  /\ \A n \in Nodes : [Unused EXCEPT !.parent = n] \in Rewinds
  /\ \A n \in Nodes : WindowOf([Unused EXCEPT !.parent = n], << >>, 0)
  /\ WindowOf(Unused, << >>, 0)
<1>1. Unused \in Rewinds /\ Unused.head = 0
  BY DEF Unused, Rewinds
<1>2. ASSUME NEW n \in Nodes
      PROVE  [Unused EXCEPT !.parent = n] \in Rewinds /\ [Unused EXCEPT !.parent = n].head = 0
  BY DEF Unused, Rewinds
<1>3. Len(<< >>) = 0  BY EmptySeq
<1>4. ASSUME NEW local, local.head = 0  PROVE WindowOf(local, << >>, 0)
  <2>1. 0 .. (local.head - 1) = {}  BY <1>4
  <2>. QED  BY <1>3, <1>4, <2>1 DEF WindowOf
<1>. QED  BY <1>1, <1>2, <1>4

LEMMA IslandsInitially ==
  IslandsInit => IslandsInv
<1> SUFFICES ASSUME IslandsInit  PROVE IslandsInv
  OBVIOUS
<1>1. << >> \in Seq(Blocks)  BY EmptySeq
<1>2. IslandsTypeOK  BY <1>1, FreshWindow DEF IslandsInit, IslandsTypeOK
<1>3. Owner  BY DEF IslandsInit, Owner, IsSplit
<1>4. Windows  BY FreshWindow DEF IslandsInit, Windows
<1>. QED  BY <1>2, <1>3, <1>4 DEF IslandsInit, IslandsInv

LEMMA SplitKeeps ==
  ASSUME IslandsInv, NEW n \in Nodes, NEW children \in SUBSET Nodes, NEW c \in Contexts,
         children # {}, Split(n, children, c)
  PROVE  IslandsInv'
<1> USE DEF IslandsInv, IslandsTypeOK
<1>1. /\ ~IsSplit(n) /\ c \notin active /\ n \notin children
      /\ \A m \in children : ~IsSplit(m)
      /\ active' = active \cup {c} /\ reclaimed' = reclaimed \ {c}
      /\ ctx' = [ctx EXCEPT ![c] = [Unused EXCEPT !.parent = n]]
      /\ pushed' = [pushed EXCEPT ![c] = << >>] /\ top' = [top EXCEPT ![c] = 0]
      /\ face' = [m \in Nodes |->
           IF m = n THEN [hydra_id |-> c, children |-> children]
           ELSE IF m \in children THEN [hydra_id |-> c, children |-> {}] ELSE face[m]]
  BY DEF Split, Free, Plain
<1>2. IslandsTypeOK'
  <2>1. << >> \in Seq(Blocks)  BY EmptySeq
  <2>. QED  BY <1>1, <2>1, FreshWindow
<1>3. [Unused EXCEPT !.parent = n].parent = n  BY DEF Unused
<1>4. Owner'
  <2>1. /\ face'[n].children = children /\ face'[n].hydra_id = c /\ ctx'[c].parent = n
        /\ \A m \in children : face'[m].children = {}
        /\ \A m \in Nodes \ (children \cup {n}) : face'[m] = face[m]
        /\ \A d \in Contexts \ {c} : ctx'[d] = ctx[d]
    BY <1>1, <1>3
  <2>2. \A m \in Nodes : IsSplit(m)' =>
          \/ m = n
          \/ m # n /\ m \notin children /\ face'[m] = face[m] /\ IsSplit(m)
    BY <2>1 DEF IsSplit
  <2>3. \A m \in Nodes : m \notin face'[m].children
    BY <1>1, <2>1 DEF Owner
  <2>4. \A m \in Nodes : IsSplit(m)' =>
          face'[m].hydra_id \in active' \ reclaimed' /\ ctx'[face'[m].hydra_id].parent = m
    BY <1>1, <2>1, <2>2 DEF Owner
  <2>5. ASSUME NEW d \in active' \ reclaimed'
        PROVE  /\ ctx'[d].parent \in Nodes /\ face'[ctx'[d].parent].children # {}
               /\ face'[ctx'[d].parent].hydra_id = d
    <3>1. CASE d = c
      BY <2>1, <3>1
    <3>2. CASE d # c
      <4>1. d \in active \ reclaimed /\ ctx'[d] = ctx[d]  BY <1>1, <2>1, <3>2
      <4>2. /\ ctx[d].parent \in Nodes /\ IsSplit(ctx[d].parent)
            /\ face[ctx[d].parent].hydra_id = d
        BY <4>1 DEF Owner
      <4>3. ctx[d].parent # n /\ ctx[d].parent \notin children  BY <1>1, <4>2
      <4>4. face'[ctx[d].parent] = face[ctx[d].parent]  BY <2>1, <4>2, <4>3
      <4>. QED  BY <4>1, <4>2, <4>4 DEF IsSplit
    <3>. QED  BY <3>1, <3>2
  <2>. QED  BY <2>3, <2>4, <2>5 DEF Owner, IsSplit
<1>5. Windows'
  BY <1>1, FreshWindow DEF Windows
<1>. QED  BY <1>1, <1>2, <1>4, <1>5

LEMMA MergeKeeps ==
  ASSUME IslandsInv, NEW n \in Nodes, Merge(n)
  PROVE  IslandsInv'
<1> USE DEF IslandsInv, IslandsTypeOK
<1> DEFINE c == face[n].hydra_id
           kids == face[n].children
           lost == {face[m].hydra_id : m \in {k \in kids : IsSplit(k)}}
<1>1. /\ IsSplit(n)
      /\ face' = [m \in Nodes |->
           IF m \in kids THEN [hydra_id |-> 0, children |-> {}]
           ELSE IF m = n THEN [hydra_id |-> Nobody, children |-> {}] ELSE face[m]]
      /\ active' = active \ {c}
      /\ ctx' = [ctx EXCEPT ![c] = Unused]
      /\ pushed' = [pushed EXCEPT ![c] = << >>] /\ top' = [top EXCEPT ![c] = 0]
      /\ reclaimed' = (reclaimed \ {c}) \cup lost
  BY DEF Merge, Retired
<1>2. /\ c \in active /\ c \notin reclaimed /\ c \in Contexts
      /\ kids \subseteq Nodes /\ n \notin kids
  BY <1>1 DEF Owner
<1>3. ASSUME NEW m \in Nodes, IsSplit(m), m # n  PROVE face[m].hydra_id # c
  BY <1>1, <1>3 DEF Owner
<1>4. lost \subseteq active \ {c}
  BY <1>2, <1>3 DEF Owner
<1>5. IslandsTypeOK'
  <2>1. 0 \in Contexts  BY IslandAssumption DEF Contexts
  <2>2. << >> \in Seq(Blocks)  BY EmptySeq
  <2>3. face' \in [Nodes -> [hydra_id : Contexts \cup {Nobody}, children : SUBSET Nodes]]
    BY <1>1, <2>1
  <2>4. /\ ctx' \in [Contexts -> Rewinds]
        /\ pushed' \in [Contexts -> Seq(Blocks)] /\ top' \in [Contexts -> Nat]
    BY <1>1, <1>2, <2>2, FreshWindow
  <2>. QED  BY <1>1, <1>4, <2>3, <2>4
<1> HIDE DEF c, kids, lost
<1>6. Owner'
  <2>1. /\ \A m \in kids : face'[m].children = {}
        /\ face'[n].children = {}
        /\ \A m \in Nodes \ (kids \cup {n}) : face'[m] = face[m]
        /\ \A d \in Contexts \ {c} : ctx'[d] = ctx[d]
    BY <1>1, <1>2
  <2>2. \A m \in Nodes : IsSplit(m)' =>
          m # n /\ m \notin kids /\ face'[m] = face[m] /\ IsSplit(m)
    BY <2>1 DEF IsSplit
  <2>3. \A m \in Nodes : m \notin face'[m].children
    BY <1>2, <2>1 DEF Owner
  <2>4. ASSUME NEW m \in Nodes, IsSplit(m)'
        PROVE  face'[m].hydra_id \in active' \ reclaimed' /\ ctx'[face'[m].hydra_id].parent = m
    <3>1. m # n /\ m \notin kids /\ face'[m] = face[m] /\ IsSplit(m)  BY <2>2, <2>4
    <3>2. /\ face[m].hydra_id \in active \ reclaimed /\ ctx[face[m].hydra_id].parent = m
          /\ face[m].hydra_id # c
      BY <1>3, <3>1 DEF Owner
    <3>3. face[m].hydra_id \notin lost
      <4>1. \A k \in kids : IsSplit(k) => ctx[face[k].hydra_id].parent = k
        BY <1>2 DEF Owner
      <4>. QED  BY <3>1, <3>2, <4>1 DEF lost
    <3>. QED  BY <1>1, <2>1, <3>1, <3>2, <3>3
  <2>5. ASSUME NEW d \in active' \ reclaimed'
        PROVE  /\ ctx'[d].parent \in Nodes /\ face'[ctx'[d].parent].children # {}
               /\ face'[ctx'[d].parent].hydra_id = d
    <3>1. d \in active \ reclaimed /\ d # c /\ d \notin lost /\ ctx'[d] = ctx[d]
      BY <1>1, <2>1
    <3>2. /\ ctx[d].parent \in Nodes /\ IsSplit(ctx[d].parent)
          /\ face[ctx[d].parent].hydra_id = d
      BY <3>1 DEF Owner
    <3>3. ctx[d].parent # n /\ ctx[d].parent \notin kids
      BY <3>1, <3>2 DEF c, lost
    <3>4. face'[ctx[d].parent] = face[ctx[d].parent]  BY <2>1, <3>2, <3>3
    <3>. QED  BY <3>1, <3>2, <3>4 DEF IsSplit
  <2>. QED  BY <2>3, <2>4, <2>5 DEF Owner, IsSplit
<1>7. Windows'
  BY <1>1, <1>2, FreshWindow DEF Windows
<1>. QED  BY <1>1, <1>5, <1>6, <1>7

\* A push overwrites the oldest slot, which the window of the new head leaves out.
LEMMA WindowPushed ==
  ASSUME NEW local \in Rewinds, NEW blocks \in Seq(Blocks), NEW high \in Nat, NEW block \in Blocks,
         WindowOf(local, blocks, high)
  PROVE  WindowOf([local EXCEPT !.slots[local.head % LocalSize] = block, !.head = local.head + 1],
                  Append(blocks, block), IF high > local.head THEN high ELSE local.head + 1)
<1> DEFINE h == local.head
           h1 == h + 1
           new == [local EXCEPT !.slots[h % LocalSize] = block, !.head = h1]
           tops == IF high > h THEN high ELSE h1
<1>0. LocalSize \in Nat \ {0} /\ h \in Nat /\ h = Len(blocks) /\ h <= high
  BY IslandAssumption DEF Rewinds, WindowOf
<1>1. tops \in Nat /\ h1 <= tops /\ high <= tops /\ h1 \in Nat  BY <1>0
<1>2. /\ Len(Append(blocks, block)) = h1 /\ Append(blocks, block)[h1] = block
      /\ \A i \in 1 .. h : Append(blocks, block)[i] = blocks[i]
  BY <1>0, AppendProperties
<1>3. /\ new.head = h1
      /\ new.slots = [local.slots EXCEPT ![h % LocalSize] = block]
  BY DEF Rewinds
<1>4. \A x \in Int : (x % LocalSize) \in 0 .. (LocalSize - 1)  BY <1>0, Division
<1>5. local.slots \in [0 .. (LocalSize - 1) -> Blocks \cup {Nobody}]  BY DEF Rewinds
<1>6. \A i \in 0 .. (h - 1) : i >= high - LocalSize => local.slots[i % LocalSize] = blocks[i + 1]
  BY DEF WindowOf
<1> HIDE DEF new, tops, h
<1>7. ASSUME NEW i \in 0 .. (h1 - 1), i >= tops - LocalSize
      PROVE  new.slots[i % LocalSize] = Append(blocks, block)[i + 1]
  <2>1. CASE i = h
    <3>1. h \in Int  BY <1>0
    <3>2. new.slots[h % LocalSize] = block  BY <1>3, <1>4, <1>5, <3>1
    <3>. QED  BY <1>2, <2>1, <3>2
  <2>2. CASE i # h
    <3>1. /\ i \in 0 .. (h - 1) /\ i \in Int /\ h \in Int /\ i + 1 \in 1 .. h
          /\ i >= high - LocalSize /\ i - h < LocalSize /\ h - i < LocalSize
      BY <1>0, <1>1, <1>7, <2>2, IslandAssumption
    <3>2. i % LocalSize # h % LocalSize  BY <1>0, <2>2, <3>1, RemainderDistinct
    <3>3. new.slots[i % LocalSize] = local.slots[i % LocalSize]
      BY <1>3, <1>4, <1>5, <3>1, <3>2
    <3>. QED  BY <1>2, <1>6, <3>1, <3>3
  <2>. QED  BY <2>1, <2>2
<1>. QED  BY <1>1, <1>2, <1>3, <1>7 DEF WindowOf, new, tops, h

\* A rewind leaves the window of the highest head where it was.
LEMMA WindowRewound ==
  ASSUME NEW local \in Rewinds, NEW blocks \in Seq(Blocks), NEW high \in Nat, NEW steps \in Nat,
         WindowOf(local, blocks, high)
  PROVE  /\ [local EXCEPT !.head = @ - (IF steps < local.head THEN steps ELSE local.head)] \in Rewinds
         /\ SubSeq(blocks, 1, IF steps < Len(blocks) THEN Len(blocks) - steps ELSE 0) \in Seq(Blocks)
         /\ WindowOf([local EXCEPT !.head = @ - (IF steps < local.head THEN steps ELSE local.head)],
              SubSeq(blocks, 1, IF steps < Len(blocks) THEN Len(blocks) - steps ELSE 0), high)
<1> DEFINE h == local.head
           left == IF steps < h THEN h - steps ELSE 0
           new == [local EXCEPT !.head = @ - (IF steps < h THEN steps ELSE h)]
           kept == SubSeq(blocks, 1, IF steps < Len(blocks) THEN Len(blocks) - steps ELSE 0)
<1>0. h \in Nat /\ h = Len(blocks) /\ h <= high
  BY DEF Rewinds, WindowOf
<1>1. left \in 0 .. h /\ h - (IF steps < h THEN steps ELSE h) = left  BY <1>0
<1>2. /\ new.head = left /\ new.slots = local.slots /\ new \in Rewinds
  BY <1>1 DEF Rewinds
<1>3. kept = SubSeq(blocks, 1, left)  BY <1>0
<1>4. \A i \in 1 .. h : blocks[i] \in Blocks  BY <1>0, ElementOfSeq
<1> HIDE DEF new, kept, left, h
<1>5. /\ kept \in Seq(Blocks) /\ Len(kept) = left
      /\ \A i \in 1 .. left : kept[i] = blocks[i]
  <2>1. 1 \in 1 .. left + 1 /\ left \in Nat /\ \A i \in 1 .. left : blocks[i] \in Blocks
    BY <1>0, <1>1, <1>4
  <2>2. /\ SubSeq(blocks, 1, left) \in Seq(Blocks)
        /\ Len(SubSeq(blocks, 1, left)) = IF 1 <= left THEN left - 1 + 1 ELSE 0
        /\ \A i \in 1 .. left - 1 + 1 : SubSeq(blocks, 1, left)[i] = blocks[1 + i - 1]
    BY <2>1, SubSeqProperties
  <2>3. left - 1 + 1 = left /\ \A i \in 1 .. left : 1 + i - 1 = i  BY <2>1
  <2>. QED  BY <1>3, <2>1, <2>2, <2>3
<1>6. ASSUME NEW i \in 0 .. (left - 1), i >= high - LocalSize
      PROVE  new.slots[i % LocalSize] = kept[i + 1]
  <2>1. i \in 0 .. (h - 1) /\ i + 1 \in 1 .. left  BY <1>0, <1>1
  <2>2. local.slots[i % LocalSize] = blocks[i + 1]  BY <1>6, <2>1 DEF WindowOf, h
  <2>. QED  BY <1>2, <1>5, <2>1, <2>2
<1>7. left <= high  BY <1>0, <1>1
<1>8. WindowOf(new, kept, high)
  BY <1>2, <1>5, <1>6, <1>7 DEF WindowOf
<1>. QED  BY <1>2, <1>5, <1>8 DEF new, kept, h

LEMMA LocalKeeps ==
  ASSUME IslandsInv, NEW c \in Contexts,
         PushLocal(c) \/ \E n \in 1 .. MaxBlocks : RewindLocal(c, n)
  PROVE  IslandsInv'
<1> USE DEF IslandsInv, IslandsTypeOK
<1>1. UNCHANGED << active, face, reclaimed >>
  BY DEF PushLocal, RewindLocal
<1>2. ctx[c] \in Rewinds /\ pushed[c] \in Seq(Blocks) /\ top[c] \in Nat
  OBVIOUS
<1>3. WindowOf(ctx[c], pushed[c], top[c])  BY DEF Windows
<1>4. PICK local \in Rewinds, blocks \in Seq(Blocks), high \in Nat :
        /\ ctx' = [ctx EXCEPT ![c] = local] /\ local.parent = ctx[c].parent
        /\ pushed' = [pushed EXCEPT ![c] = blocks] /\ top' = [top EXCEPT ![c] = high]
        /\ WindowOf(local, blocks, high)
  <2>1. CASE PushLocal(c)
    <3>1. PICK block \in Blocks :
            /\ ctx' = [ctx EXCEPT ![c] = [@ EXCEPT !.slots[ctx[c].head % LocalSize] = block,
                                                   !.head = ctx[c].head + 1]]
            /\ pushed' = [pushed EXCEPT ![c] = Append(@, block)]
      BY <2>1 DEF PushLocal
    <3> DEFINE local == [ctx[c] EXCEPT !.slots[ctx[c].head % LocalSize] = block,
                                       !.head = ctx[c].head + 1]
               blocks == Append(pushed[c], block)
               high == IF top[c] > ctx[c].head THEN top[c] ELSE ctx[c].head + 1
    <3>2. ctx' = [ctx EXCEPT ![c] = local] /\ pushed' = [pushed EXCEPT ![c] = blocks]
      BY <3>1
    <3>3. top' = [top EXCEPT ![c] = high]  BY <2>1 DEF PushLocal
    <3>4. ctx[c].head \in Nat /\ high \in Nat  BY <1>2 DEF Rewinds
    <3>5. local \in Rewinds /\ local.parent = ctx[c].parent
      <4>1. ctx[c].slots \in [0 .. (LocalSize - 1) -> Blocks \cup {Nobody}]
        BY <1>2 DEF Rewinds
      <4>2. [ctx[c].slots EXCEPT ![ctx[c].head % LocalSize] = block]
              \in [0 .. (LocalSize - 1) -> Blocks \cup {Nobody}]
        BY <4>1
      <4>3. ctx[c].head + 1 \in Nat  BY <3>4
      <4>. QED  BY <1>2, <4>2, <4>3 DEF Rewinds
    <3>6. blocks \in Seq(Blocks)  BY <1>2, AppendProperties
    <3>7. WindowOf(local, blocks, high)  BY <1>2, <1>3, WindowPushed
    <3> HIDE DEF local, blocks, high
    <3>. QED  BY <3>2, <3>3, <3>4, <3>5, <3>6, <3>7
  <2>2. ASSUME NEW n \in 1 .. MaxBlocks, RewindLocal(c, n)
        PROVE  \E local \in Rewinds, blocks \in Seq(Blocks), high \in Nat :
                 /\ ctx' = [ctx EXCEPT ![c] = local] /\ local.parent = ctx[c].parent
                 /\ pushed' = [pushed EXCEPT ![c] = blocks] /\ top' = [top EXCEPT ![c] = high]
                 /\ WindowOf(local, blocks, high)
    <3> DEFINE local == [ctx[c] EXCEPT !.head = @ - (IF n < ctx[c].head THEN n ELSE ctx[c].head)]
               blocks == SubSeq(pushed[c], 1, IF n < Len(pushed[c]) THEN Len(pushed[c]) - n ELSE 0)
    <3>0. n \in Nat  BY IslandAssumption
    <3>a. ctx' = [ctx EXCEPT ![c].head = @ - RewoundBy(c, n)]
      BY <2>2 DEF RewindLocal
    <3>b. ctx' = [ctx EXCEPT ![c] = local]  BY <3>a DEF RewoundBy
    <3>c. pushed' = [pushed EXCEPT ![c] = blocks]  BY <2>2 DEF RewindLocal
    <3>1. ctx' = [ctx EXCEPT ![c] = local] /\ pushed' = [pushed EXCEPT ![c] = blocks]
      BY <3>b, <3>c
    <3>2. top' = [top EXCEPT ![c] = top[c]]  BY <2>2 DEF RewindLocal
    <3>3. local \in Rewinds /\ blocks \in Seq(Blocks) /\ WindowOf(local, blocks, top[c])
      BY <1>2, <1>3, <3>0, WindowRewound
    <3>4. local.parent = ctx[c].parent  BY <1>2 DEF Rewinds
    <3> HIDE DEF local, blocks
    <3>. QED  BY <1>2, <3>1, <3>2, <3>3, <3>4
  <2>. QED  BY <2>1, <2>2
<1>5. IslandsTypeOK'  BY <1>1, <1>4
<1>6. \A d \in Contexts : ctx'[d].parent = ctx[d].parent  BY <1>4
<1>7. Owner'
  <2>1. active \subseteq Contexts /\ \A n \in Nodes : IsSplit(n)' = IsSplit(n)
    BY <1>1 DEF IsSplit
  <2>2. \A n \in Nodes : IsSplit(n)' =>
          face'[n].hydra_id \in active' \ reclaimed' /\ ctx'[face'[n].hydra_id].parent = n
    BY <1>1, <1>6, <2>1 DEF Owner
  <2>3. \A d \in active' \ reclaimed' :
          /\ ctx'[d].parent \in Nodes /\ face'[ctx'[d].parent].children # {}
          /\ face'[ctx'[d].parent].hydra_id = d
    BY <1>1, <1>6 DEF Owner, IsSplit
  <2>4. \A n \in Nodes : n \notin face'[n].children  BY <1>1 DEF Owner
  <2>. QED  BY <2>2, <2>3, <2>4 DEF Owner, IsSplit
<1>8. Windows'
  <2>1. \A d \in Contexts : WindowOf(ctx'[d], pushed'[d], top'[d])
    BY <1>4 DEF Windows
  <2>. QED  BY <2>1 DEF Windows
<1>. QED  BY <1>1, <1>5, <1>7, <1>8

LEMMA IslandsStep ==
  IslandsInv /\ [IslandsNext]_islandvars => IslandsInv'
<1> SUFFICES ASSUME IslandsInv, [IslandsNext]_islandvars  PROVE IslandsInv'
  OBVIOUS
<1>1. ASSUME NEW n \in Nodes, NEW c \in Contexts, NEW children \in SUBSET Nodes,
             Cardinality(children) = 2, Split(n, children, c)
      PROVE  IslandsInv'
  <2>1. children # {}  BY <1>1, FS_EmptySet
  <2>. QED  BY <1>1, <2>1, SplitKeeps
<1>2. ASSUME NEW n \in Nodes, Merge(n)  PROVE IslandsInv'
  BY <1>2, MergeKeeps
<1>3. ASSUME NEW c \in Contexts, PushLocal(c) \/ \E n \in 1 .. MaxBlocks : RewindLocal(c, n)
      PROVE  IslandsInv'
  BY <1>3, LocalKeeps
<1>4. CASE UNCHANGED islandvars
  BY <1>4 DEF islandvars, islands, IslandsInv, IslandsTypeOK, Owner, IsSplit, Windows
<1>. QED  BY <1>1, <1>2, <1>3, <1>4 DEF IslandsNext

LEMMA IslandsHold ==
  IslandsSpec => []IslandsInv
<1>. QED  BY IslandsInitially, IslandsStep, PTL DEF IslandsSpec

\* Every context in use belongs to one split face and every split face to its own
\* context, however splits and merges nest, but for those whose face was reclaimed
\* with its parent (pogls_face_state.h lines 206-248, 321-359).
THEOREM IslandsAreOwned ==
  IslandsSpec => []IslandsOwned
<1>1. IslandsInv => IslandsOwned
  BY DEF IslandsInv, Owner, IslandsOwned
<1>. QED  BY <1>1, IslandsHold, PTL

\* A local rewind keeps the newest blocks of its timeline, as many as the ring holds
\* below the highest head it had (pogls_face_state.h lines 362-383).
THEOREM WindowsAreLocal ==
  IslandsSpec => []LocalWindow
<1>1. IslandsInv => LocalWindow
  BY DEF IslandsInv, IslandsTypeOK, Windows, WindowOf, LocalWindow
<1>. QED  BY <1>1, IslandsHold, PTL

-----------------------------------------------------------------------------
(* Sleeping faces (FaceSleep).  What is not dirty is saved, unless it shares  *)
(* a page; what never sleeps or is dirty is in memory, unless it shares one.  *)

SleepInv ==
  /\ SleepTypeOK
  /\ \A n \in Faces \ Exposed : n \notin dirty => n \in saved
  /\ \A n \in Faces \ Exposed : n \in dirty \/ IsAnchor(n) => n \in memory
  /\ \A n \in released : Aligned(n)

LEMMA SleepInitially == SleepInit => SleepInv
  BY DEF SleepInit, SleepInv, SleepTypeOK

\* What madvise takes for sleepers, of nodes that share no page with any of them.
LEMMA SleepKeeps ==
  ASSUME SleepInv, NEW nodes \in SUBSET Faces, NEW given \in BOOLEAN,
         NEW size \in NodeBytes \cup {DataStride}, FallAsleep(nodes, given, size)
  PROVE  SleepInv'
<1> DEFINE advised == given /\ size > 0
           gone    == {n \in nodes : CanSleep(n) /\ (advised => Aligned(n))}
<1>1. /\ sleeping' = sleeping \cup gone
      /\ memory' = IF advised THEN {m \in memory : \A n \in gone : m \notin Swept(n, size)}
                   ELSE memory
      /\ released' = IF advised THEN released \cup gone ELSE released
      /\ dirty' = dirty /\ saved' = saved
  BY DEF FallAsleep
<1>2. gone \subseteq Faces /\ \A n \in gone : CanSleep(n) /\ (advised => Aligned(n))
  OBVIOUS
<1> HIDE DEF gone, advised
<1>3. SleepTypeOK'
  BY <1>1, <1>2 DEF SleepInv, SleepTypeOK
<1>4. ASSUME NEW m \in Faces \ Exposed, m \in dirty \/ IsAnchor(m)
      PROVE  m \in memory'
  <2>1. m \in memory  BY <1>4 DEF SleepInv
  <2>2. ASSUME advised, NEW n \in gone, m \in Swept(n, size)  PROVE FALSE
    <3>1. n \in Faces /\ CanSleep(n) /\ Aligned(n)  BY <1>2, <2>2
    <3>2. n # m  BY <1>4, <3>1 DEF CanSleep
    <3>3. ~IsAnchor(n)  BY <3>1 DEF CanSleep
    <3>. QED  BY <1>4, <2>2, <3>1, <3>2, <3>3 DEF Exposed
  <2>. QED  BY <1>1, <2>1, <2>2
<1>5. \A n \in released' : Aligned(n)
  BY <1>1, <1>2 DEF SleepInv
<1>. QED  BY <1>1, <1>3, <1>4, <1>5 DEF SleepInv

LEMMA SleepStep == SleepInv /\ [SleepNext]_sleepvars => SleepInv'
<1> SUFFICES ASSUME SleepInv, [SleepNext]_sleepvars  PROVE SleepInv'
  OBVIOUS
<1> USE DEF SleepInv, SleepTypeOK
<1>1. ASSUME NEW n \in Faces, WriteFace(n)  PROVE SleepInv'
  BY <1>1 DEF WriteFace
<1>2. ASSUME NEW n \in Faces, SaveFace(n)  PROVE SleepInv'
  BY <1>2 DEF SaveFace
<1>3. ASSUME NEW up \in SUBSET Faces, WakeUp(up)  PROVE SleepInv'
  BY <1>3 DEF WakeUp
<1>4. ASSUME NEW n \in Faces, Wake(n)  PROVE SleepInv'
  <2>1. {n} \cap sleeping \in SUBSET Faces  OBVIOUS
  <2>. QED  BY <1>3, <1>4, <2>1 DEF Wake
<1>5. ASSUME WakeAll  PROVE SleepInv'
  <2>1. sleeping \in SUBSET Faces  OBVIOUS
  <2>. QED  BY <1>3, <1>5, <2>1 DEF WakeAll
<1>6. ASSUME NEW n \in Faces, NEW given \in BOOLEAN, NEW size \in NodeBytes,
             Sleep(n, given, size)
      PROVE  SleepInv'
  <2>1. {n} \in SUBSET Faces  OBVIOUS
  <2>. QED  BY <1>6, <2>1, SleepKeeps DEF Sleep
<1>7. ASSUME NEW idle \in SUBSET {n \in Faces : CanSleep(n)}, NEW given \in BOOLEAN, SleepIdle(idle, given)
      PROVE  SleepInv'
  <2>1. idle \in SUBSET Faces  OBVIOUS
  <2>. QED  BY <1>7, <2>1, SleepKeeps DEF SleepIdle
<1>8. CASE UNCHANGED sleepvars
  BY <1>8 DEF sleepvars
<1>. QED  BY <1>1, <1>2, <1>4, <1>5, <1>6, <1>7, <1>8 DEF SleepNext

LEMMA SleepHolds == SleepSpec => []SleepInv
  BY SleepInitially, SleepStep, PTL DEF SleepSpec

\* Whatever the layout of the nodes in pages: of a node that shares no page with one
\* that may sleep, no order of writes, deltas, sleeps and wake-ups loses the newest
\* data, and of an anchor not even from memory (pogls_face_sleep.h lines 145-285).
THEOREM SleepLosesNothing == SleepSpec => []PendingDataKept
<1>1. SleepInv => PendingDataKept  BY DEF SleepInv, PendingDataKept
<1>. QED  BY <1>1, SleepHolds, PTL

\* madvise takes memory only of nodes that lie whole pages apart (lines 176-182).
THEOREM SleepersArePagesApart == SleepSpec => []PagesApart
<1>1. SleepInv => PagesApart
  <2> SUFFICES ASSUME SleepInv, NEW m \in released, NEW n \in released
               PROVE  (Start(m) - Start(n)) % PageSize = 0
    BY DEF PagesApart
  <2>1. m \in Nat /\ n \in Nat /\ Aligned(m) /\ Aligned(n)
    BY DEF SleepInv, SleepTypeOK, Faces
  <2>2. Start(m) \in Nat /\ Start(n) \in Nat
    BY <2>1, SleepAssumption DEF Start
  <2>3. (Start(m) - (Start(n) % PageSize)) % PageSize = (Start(m) - Start(n)) % PageSize
    BY <2>2, SleepAssumption, RemainderSub
  <2>. QED  BY <2>1, <2>2, <2>3 DEF Aligned
<1>. QED  BY <1>1, SleepHolds, PTL

LEMMA WholeMultiple ==
  ASSUME NEW a \in Int, NEW m \in Nat \ {0}, a % m = 0
  PROVE  \E k \in Int : a = m * k
<1>1. a \div m \in Int /\ a = m * (a \div m) + 0  BY Division
<1> DEFINE k == a \div m
<1>2. k \in Int /\ a = m * k  BY <1>1
<1> HIDE DEF k
<1>. QED  BY <1>2

\* Nodes of 130 bytes (pogls_face_sleep.h lines 34-40, 69, 115), or an array of one
\* 8-byte field for each (line 159): on pages of 4096 bytes madvise takes the memory
\* of at most one of the 162 nodes, wherever they begin.
THEOREM OneNodeAtMost ==
  ASSUME NodeMax = 162, DataStride \in {8, 130}, PageSize = 4096
  PROVE  SleepSpec => []OneReleased
<1>1. SleepInv /\ PagesApart => OneReleased
  <2> SUFFICES ASSUME SleepInv, PagesApart, NEW m \in released, NEW n \in released
               PROVE  m = n
    BY DEF OneReleased
  <2>1. m \in 0 .. 161 /\ n \in 0 .. 161
    BY DEF SleepInv, SleepTypeOK, Faces
  <2> DEFINE d == Start(m) - Start(n)
  <2>2. d = (m - n) * DataStride /\ d \in Int  BY <2>1, SleepAssumption DEF Start
  <2>3. d % PageSize = 0  BY DEF PagesApart
  <2> HIDE DEF d
  <2>4. PICK k \in Int : d = PageSize * k
    BY <2>2, <2>3, SleepAssumption, WholeMultiple
  <2>5. d = 4096 * k  BY <2>4
  <2>6. CASE DataStride = 8  BY <2>1, <2>2, <2>4, <2>5, <2>6, SMT
  <2>7. CASE DataStride = 130  BY <2>1, <2>2, <2>4, <2>5, <2>7, SMT
  <2>. QED  BY <2>6, <2>7
<1>. QED  BY <1>1, SleepHolds, SleepersArePagesApart, PTL

-----------------------------------------------------------------------------
(* The bridge (EngineBridge).  What the loop of Passed lets through is found  *)
(* by induction over its turns: the least turn after which a fact fails would *)
(* have to follow one after which it holds.                                   *)

\* What the loop of Passed has let through of the first k writes of a batch, as f.
Goes(batch, i, w, out) == batch[i].world = w /\ batch[i].id \notin out

Through(batch, w, out, k, f) ==
  f = [i \in 0 .. k |->
        IF i = 0 THEN << >>
        ELSE IF batch[i].world = w /\ batch[i].id \notin out
        THEN Append(f[i - 1], batch[i].id) ELSE f[i - 1]]

LEMMA ThroughExists ==
  ASSUME NEW batch, NEW w, NEW out, NEW n \in Nat
  PROVE  \E f : Through(batch, w, out, n, f)
<1> DEFINE S == {k \in Nat : \E f : Through(batch, w, out, k, f)}
<1>1. 0 \in S
  <2> DEFINE f == [i \in {0} |-> << >>]
  <2>1. Through(batch, w, out, 0, f)  BY 0 .. 0 = {0} DEF Through
  <2>. QED  BY <2>1
<1>2. ASSUME NEW k \in 0 .. (n - 1), k \in S  PROVE k + 1 \in S
  <2>1. PICK f : Through(batch, w, out, k, f)  BY <1>2
  <2> DEFINE k1 == k + 1
             g == [i \in 0 .. k1 |-> IF i <= k THEN f[i]
                     ELSE IF batch[i].world = w /\ batch[i].id \notin out
                     THEN Append(f[k], batch[i].id) ELSE f[k]]
             h == [i \in 0 .. k1 |-> IF i = 0 THEN << >>
                     ELSE IF batch[i].world = w /\ batch[i].id \notin out
                     THEN Append(g[i - 1], batch[i].id) ELSE g[i - 1]]
  <2>2. k \in Nat /\ k1 \in Nat /\ k < k1  OBVIOUS
  <2>3. ASSUME NEW i \in 0 .. k1  PROVE g[i] = h[i]
    <3>1. CASE i = 0
      <4>1. i <= k /\ 0 \in 0 .. k  BY <2>2, <3>1
      <4>2. g[i] = f[0]  BY <3>1, <4>1
      <4>3. f[0] = << >>  BY <2>1, <4>1 DEF Through
      <4>. QED  BY <3>1, <4>2, <4>3
    <3>2. CASE i # 0 /\ i <= k
      <4>1. i \in 0 .. k /\ i - 1 \in 0 .. k1 /\ i - 1 <= k  BY <2>2, <3>2
      <4>2. g[i] = f[i] /\ g[i - 1] = f[i - 1]  BY <3>2, <4>1
      <4>3. f[i] = IF batch[i].world = w /\ batch[i].id \notin out
                   THEN Append(f[i - 1], batch[i].id) ELSE f[i - 1]
        BY <2>1, <3>2, <4>1 DEF Through
      <4>4. h[i] = IF batch[i].world = w /\ batch[i].id \notin out
                   THEN Append(g[i - 1], batch[i].id) ELSE g[i - 1]
        BY <3>2
      <4> HIDE DEF g, h
      <4>. QED  BY <4>2, <4>3, <4>4
    <3>3. CASE i = k1
      <4>1. i - 1 = k /\ k \in 0 .. k1 /\ ~(i <= k) /\ i # 0  BY <2>2, <3>3
      <4>2. g[i - 1] = f[k]  BY <2>2, <4>1
      <4>3. g[i] = IF batch[i].world = w /\ batch[i].id \notin out
                   THEN Append(f[k], batch[i].id) ELSE f[k]
        BY <4>1
      <4>4. h[i] = IF batch[i].world = w /\ batch[i].id \notin out
                   THEN Append(g[i - 1], batch[i].id) ELSE g[i - 1]
        BY <4>1
      <4> HIDE DEF g, h
      <4>. QED  BY <4>2, <4>3, <4>4
    <3>. QED  BY <2>2, <3>1, <3>2, <3>3
  <2>4. g = h
    <3>1. g = [i \in 0 .. k1 |-> g[i]] /\ h = [i \in 0 .. k1 |-> h[i]]  OBVIOUS
    <3> HIDE DEF g, h
    <3>. QED  BY <2>3, <3>1
  <2> HIDE DEF g
  <2>5. Through(batch, w, out, k1, g)  BY <2>4 DEF Through
  <2>. QED  BY <2>2, <2>5
<1> HIDE DEF S
<1>3. n \in 0 .. n /\ 0 .. n \subseteq S  BY <1>1, <1>2, UpTo
<1>. QED  BY <1>3 DEF S

LEMMA PassedLoops ==
  ASSUME NEW batch, NEW w, NEW out, Len(batch) \in Nat
  PROVE  \E f : Through(batch, w, out, Len(batch), f) /\ Passed(batch, w, out) = f[Len(batch)]
<1> DEFINE f == CHOOSE f : Through(batch, w, out, Len(batch), f)
<1>1. Through(batch, w, out, Len(batch), f)  BY ThroughExists
<1>2. Passed(batch, w, out) = f[Len(batch)]
  BY Zenon DEF Through, Passed
<1>. QED  BY <1>1, <1>2

LEMMA ThroughAt ==
  ASSUME NEW batch, NEW w, NEW out, NEW n \in Nat, NEW f, Through(batch, w, out, n, f)
  PROVE  /\ f[0] = << >>
         /\ \A k \in 0 .. (n - 1) :
              f[k + 1] = IF Goes(batch, k + 1, w, out)
                         THEN Append(f[k], batch[k + 1].id) ELSE f[k]
<1>1. f[0] = << >>  BY DEF Through
<1>2. ASSUME NEW k \in 0 .. (n - 1)
      PROVE  f[k + 1] = IF Goes(batch, k + 1, w, out)
                        THEN Append(f[k], batch[k + 1].id) ELSE f[k]
  <2> DEFINE k1 == k + 1
  <2>1. k1 \in 0 .. n /\ k1 # 0 /\ k1 - 1 = k  OBVIOUS
  <2> HIDE DEF k1
  <2>2. f[k1] = IF Goes(batch, k1, w, out)
                THEN Append(f[k1 - 1], batch[k1].id) ELSE f[k1 - 1]
    BY <2>1 DEF Through, Goes
  <2>. QED  BY <2>1, <2>2 DEF k1
<1>. QED  BY <1>1, <1>2

Writes == [id : Nat, world : Worlds]
Elems(s) == {s[i] : i \in DOMAIN s}
Ordered(s) == \A i, j \in DOMAIN s : i < j => s[i] < s[j]

\* m is the number of the write before a batch.
Numbered(batch, m) == \A i \in 1 .. Len(batch) : batch[i].id = m + i

LEMMA OrderedAppend ==
  ASSUME NEW s \in Seq(Nat), NEW x \in Nat, Ordered(s), \A y \in Elems(s) : y < x
  PROVE  /\ Append(s, x) \in Seq(Nat) /\ Ordered(Append(s, x))
         /\ Elems(Append(s, x)) = Elems(s) \cup {x}
         /\ Len(Append(s, x)) = Len(s) + 1
<1> DEFINE n == Len(s)
           t == Append(s, x)
<1>1. n \in Nat /\ DOMAIN s = 1 .. n  BY LenProperties
<1>2. /\ t \in Seq(Nat) /\ Len(t) = n + 1 /\ DOMAIN t = 1 .. n + 1
      /\ t[n + 1] = x /\ \A i \in 1 .. n : t[i] = s[i]
  BY <1>1, AppendProperties, LenProperties
<1> HIDE DEF n, t
<1>3. Elems(t) = Elems(s) \cup {x}
  <2>1. ASSUME NEW i \in 1 .. n + 1  PROVE t[i] \in Elems(s) \cup {x}
    <3>1. i \in 1 .. n \/ i = n + 1  BY <1>1
    <3>. QED  BY <1>1, <1>2, <3>1 DEF Elems
  <2>2. ASSUME NEW i \in 1 .. n  PROVE s[i] \in Elems(t)
    <3>1. i \in 1 .. n + 1  BY <1>1
    <3>. QED  BY <1>2, <3>1 DEF Elems
  <2>3. x \in Elems(t)  BY <1>1, <1>2 DEF Elems
  <2>. QED  BY <1>1, <1>2, <2>1, <2>2, <2>3 DEF Elems
<1>4. ASSUME NEW i \in 1 .. n + 1, NEW j \in 1 .. n + 1, i < j  PROVE t[i] < t[j]
  <2>1. i \in 1 .. n  BY <1>1, <1>4
  <2>2. CASE j \in 1 .. n
    BY <1>1, <1>2, <1>4, <2>1, <2>2 DEF Ordered
  <2>3. CASE j = n + 1
    BY <1>1, <1>2, <2>1, <2>3 DEF Elems
  <2>. QED  BY <1>1, <2>2, <2>3
<1>5. Ordered(t)  BY <1>2, <1>4 DEF Ordered
<1>. QED  BY <1>2, <1>3, <1>5 DEF n, t

\* What the loop lets through is in order, and is what it should be.
LEMMA PassedFacts ==
  ASSUME NEW batch \in Seq(Writes), NEW m \in Nat, Numbered(batch, m), NEW w, NEW out
  PROVE  /\ Passed(batch, w, out) \in Seq(Nat)
         /\ Ordered(Passed(batch, w, out))
         /\ Elems(Passed(batch, w, out)) =
              {m + i : i \in {j \in 1 .. Len(batch) : Goes(batch, j, w, out)}}
<1> DEFINE n == Len(batch)
           Fact(k, s) == /\ s \in Seq(Nat) /\ Ordered(s)
                         /\ Elems(s) = {m + i : i \in {j \in 1 .. k : Goes(batch, j, w, out)}}
<1>0. n \in Nat  BY LenProperties
<1>1. PICK f : Through(batch, w, out, n, f) /\ Passed(batch, w, out) = f[n]
  BY <1>0, PassedLoops
<1>2. /\ f[0] = << >>
      /\ \A k \in 0 .. (n - 1) :
           f[k + 1] = IF Goes(batch, k + 1, w, out)
                      THEN Append(f[k], batch[k + 1].id) ELSE f[k]
  BY <1>0, <1>1, ThroughAt
<1>3. \A i \in 1 .. n : batch[i].id = m + i  BY DEF Numbered
<1> HIDE DEF n
<1> DEFINE S == {k \in Nat : k <= n => Fact(k, f[k])}
<1>4. Fact(0, f[0])
  <2>1. Len(<< >>) = 0 /\ << >> \in Seq(Nat) /\ DOMAIN << >> = {}
    BY EmptySeq, LenProperties
  <2>2. 1 .. 0 = {}  OBVIOUS
  <2>. QED  BY <1>2, <2>1, <2>2 DEF Ordered, Elems
<1>5. ASSUME NEW k \in 0 .. (n - 1), Fact(k, f[k])  PROVE Fact(k + 1, f[k + 1])
  <2> DEFINE k1 == k + 1
             s == f[k]
             through(x) == {m + i : i \in {j \in 1 .. x : Goes(batch, j, w, out)}}
  <2>1. k \in Nat /\ k1 \in 1 .. n /\ batch[k1].id = m + k1  BY <1>0, <1>3
  <2>2. f[k1] = IF Goes(batch, k1, w, out) THEN Append(s, m + k1) ELSE s
    BY <1>2, <2>1
  <2>3. s \in Seq(Nat) /\ Ordered(s) /\ Elems(s) = through(k)  BY <1>5
  <2> HIDE DEF s
  <2>4. CASE Goes(batch, k1, w, out)
    <3>1. \A y \in Elems(s) : y < m + k1  BY <2>1, <2>3
    <3>2. m + k1 \in Nat  BY <2>1
    <3>3. /\ Append(s, m + k1) \in Seq(Nat) /\ Ordered(Append(s, m + k1))
          /\ Elems(Append(s, m + k1)) = Elems(s) \cup {m + k1}
      BY <2>3, <3>1, <3>2, OrderedAppend
    <3>4. through(k1) = through(k) \cup {m + k1}
      <4>1. 1 .. k1 = 1 .. k \cup {k1}  BY <2>1
      <4> HIDE DEF k1
      <4>. QED  BY <2>4, <4>1
    <3> HIDE DEF k1
    <3>. QED  BY <2>2, <2>3, <2>4, <3>3, <3>4 DEF k1
  <2>5. CASE ~Goes(batch, k1, w, out)
    <3>4. through(k1) = through(k)
      <4>1. 1 .. k1 = 1 .. k \cup {k1}  BY <2>1
      <4> HIDE DEF k1
      <4>. QED  BY <2>5, <4>1
    <3> HIDE DEF k1
    <3>. QED  BY <2>2, <2>3, <2>5, <3>4 DEF k1
  <2>. QED  BY <2>4, <2>5
<1>6. 0 \in S /\ \A k \in 0 .. (n - 1) : k \in S => k + 1 \in S
  <2> HIDE DEF Fact
  <2>. QED  BY <1>0, <1>4, <1>5
<1> HIDE DEF S
<1>7. n \in 0 .. n /\ 0 .. n \subseteq S  BY <1>0, <1>6, UpTo
<1>8. Fact(n, f[n])
  <2> HIDE DEF Fact
  <2>. QED  BY <1>0, <1>7 DEF S
<1>. QED  BY <1>1, <1>8 DEF n

\* The two worlds share a batch.
LEMMA PassedLens ==
  ASSUME NEW batch \in Seq(Writes), NEW m \in Nat, Numbered(batch, m), NEW out
  PROVE  Len(Passed(batch, "A", out)) + Len(Passed(batch, "B", out)) <= Len(batch)
<1> DEFINE n == Len(batch)
<1>0. n \in Nat  BY LenProperties
<1>1. PICK f : Through(batch, "A", out, n, f) /\ Passed(batch, "A", out) = f[n]
  BY <1>0, PassedLoops
<1>2. PICK g : Through(batch, "B", out, n, g) /\ Passed(batch, "B", out) = g[n]
  BY <1>0, PassedLoops
<1>3. /\ f[0] = << >>
      /\ \A k \in 0 .. (n - 1) :
           f[k + 1] = IF Goes(batch, k + 1, "A", out)
                      THEN Append(f[k], batch[k + 1].id) ELSE f[k]
  BY <1>0, <1>1, ThroughAt
<1>4. /\ g[0] = << >>
      /\ \A k \in 0 .. (n - 1) :
           g[k + 1] = IF Goes(batch, k + 1, "B", out)
                      THEN Append(g[k], batch[k + 1].id) ELSE g[k]
  BY <1>0, <1>2, ThroughAt
<1>5. \A i \in 1 .. n : batch[i].id = m + i  BY DEF Numbered
<1> HIDE DEF n
<1> DEFINE Fact(k) == f[k] \in Seq(Nat) /\ g[k] \in Seq(Nat) /\ Len(f[k]) + Len(g[k]) <= k
           S == {k \in Nat : k <= n => Fact(k)}
<1>6. Fact(0)
  <2>1. Len(<< >>) = 0 /\ << >> \in Seq(Nat)  BY EmptySeq
  <2>. QED  BY <1>3, <1>4, <2>1
<1>7. ASSUME NEW k \in 0 .. (n - 1), Fact(k)  PROVE Fact(k + 1)
  <2> DEFINE k1 == k + 1
  <2>1. k \in Nat /\ k1 = k + 1 /\ k1 \in 1 .. n /\ m + k1 \in Nat /\ batch[k1].id = m + k1
    BY <1>0, <1>5
  <2>2. ~(Goes(batch, k1, "A", out) /\ Goes(batch, k1, "B", out))  BY DEF Goes
  <2>3. ASSUME NEW s \in Seq(Nat)
        PROVE  /\ Append(s, m + k1) \in Seq(Nat) /\ Len(Append(s, m + k1)) = Len(s) + 1
               /\ Len(s) \in Nat
    BY <2>1, AppendProperties, LenProperties
  <2>4. /\ f[k1] = IF Goes(batch, k1, "A", out) THEN Append(f[k], m + k1) ELSE f[k]
        /\ g[k1] = IF Goes(batch, k1, "B", out) THEN Append(g[k], m + k1) ELSE g[k]
    BY <1>3, <1>4, <2>1
  <2> DEFINE s == f[k]
             t == g[k]
             s1 == Append(s, m + k1)
             t1 == Append(t, m + k1)
             x == Len(s)
             y == Len(t)
  <2>5. /\ s \in Seq(Nat) /\ t \in Seq(Nat) /\ s1 \in Seq(Nat) /\ t1 \in Seq(Nat)
        /\ Len(s1) = x + 1 /\ Len(t1) = y + 1 /\ x \in Nat /\ y \in Nat /\ x + y <= k
    <3>1. s \in Seq(Nat) /\ t \in Seq(Nat) /\ x + y <= k  BY <1>7
    <3> HIDE DEF k1, s, t
    <3>. QED  BY <2>3, <3>1
  <2> HIDE DEF s, t, s1, t1, x, y
  <2>6. \/ f[k1] = s1 /\ g[k1] = t
        \/ f[k1] = s /\ (g[k1] = t1 \/ g[k1] = t)
    BY <2>2, <2>4 DEF s, t, s1, t1
  <2> HIDE DEF k1
  <2>7. f[k1] \in Seq(Nat) /\ g[k1] \in Seq(Nat)  BY <2>5, <2>6
  <2>8. Len(f[k1]) + Len(g[k1]) <= x + y + 1
    <3>1. CASE f[k1] = s1 /\ g[k1] = t
      <4>1. Len(f[k1]) = x + 1 /\ Len(g[k1]) = y  BY <2>5, <3>1 DEF y
      <4>. QED  BY <2>5, <4>1
    <3>2. CASE f[k1] = s /\ g[k1] = t1
      <4>1. Len(f[k1]) = x /\ Len(g[k1]) = y + 1  BY <2>5, <3>2 DEF x
      <4>. QED  BY <2>5, <4>1
    <3>3. CASE f[k1] = s /\ g[k1] = t
      <4>1. Len(f[k1]) = x /\ Len(g[k1]) = y  BY <3>3 DEF x, y
      <4>. QED  BY <2>5, <4>1
    <3>. QED  BY <2>6, <3>1, <3>2, <3>3
  <2>9. Len(f[k1]) \in Nat /\ Len(g[k1]) \in Nat  BY <2>7, LenProperties
  <2>a. x \in Nat /\ y \in Nat /\ x + y <= k  BY <2>5
  <2>b. k \in Nat /\ k1 = k + 1  BY <2>1
  <2>10. Len(f[k1]) + Len(g[k1]) <= k1
    <3> DEFINE lf == Len(f[k1])
               lg == Len(g[k1])
    <3>1. lf \in Nat /\ lg \in Nat /\ lf + lg <= x + y + 1  BY <2>8, <2>9
    <3> HIDE DEF lf, lg
    <3>2. lf + lg <= k1  BY <2>a, <2>b, <3>1
    <3>. QED  BY <3>2 DEF lf, lg
  <2>. QED  BY <2>7, <2>10 DEF k1
<1>8. 0 \in S /\ \A k \in 0 .. (n - 1) : k \in S => k + 1 \in S
  <2> HIDE DEF Fact
  <2>. QED  BY <1>0, <1>6, <1>7
<1> HIDE DEF S
<1>9. n \in 0 .. n /\ 0 .. n \subseteq S  BY <1>0, <1>8, UpTo
<1>10. Fact(n)
  <2> HIDE DEF Fact
  <2>. QED  BY <1>0, <1>9 DEF S
<1>. QED  BY <1>1, <1>2, <1>10 DEF n

\* The lanes a and b and the writes ejected, after m writes.
LanesInv(m, a, b, out) ==
  /\ a \in Seq(Nat) /\ b \in Seq(Nat) /\ Ordered(a) /\ Ordered(b)
  /\ Elems(a) \cap Elems(b) = {}
  /\ out \cap (Elems(a) \cup Elems(b)) = {}
  /\ Elems(a) \cup Elems(b) \cup out = 1 .. m

LEMMA OrderedConcat ==
  ASSUME NEW s \in Seq(Nat), NEW t \in Seq(Nat), Ordered(s), Ordered(t),
         \A x \in Elems(s), y \in Elems(t) : x < y
  PROVE  /\ s \o t \in Seq(Nat) /\ Ordered(s \o t)
         /\ Elems(s \o t) = Elems(s) \cup Elems(t)
         /\ Len(s \o t) = Len(s) + Len(t)
<1> DEFINE n == Len(s)
           k == Len(t)
           u == s \o t
<1>1. n \in Nat /\ k \in Nat /\ DOMAIN s = 1 .. n /\ DOMAIN t = 1 .. k
  BY LenProperties
<1>2. /\ u \in Seq(Nat) /\ Len(u) = n + k
      /\ \A i \in 1 .. n + k : u[i] = IF i <= n THEN s[i] ELSE t[i - n]
  BY ConcatProperties
<1>3. DOMAIN u = 1 .. n + k  BY <1>2, LenProperties
<1> HIDE DEF n, k, u
<1>4. \A i \in 1 .. n : i \in 1 .. n + k /\ u[i] = s[i]  BY <1>1, <1>2
<1>5. ASSUME NEW j \in 1 .. k  PROVE n + j \in 1 .. n + k /\ u[n + j] = t[j]
  <2>1. n + j \in 1 .. n + k /\ ~(n + j <= n) /\ (n + j) - n = j  BY <1>1
  <2>. QED  BY <1>2, <2>1
<1>6. \A i \in 1 .. n + k : i \in 1 .. n \/ \E j \in 1 .. k : i = n + j
  <2>1. ASSUME NEW i \in 1 .. n + k, i \notin 1 .. n  PROVE \E j \in 1 .. k : i = n + j
    <3>1. i - n \in 1 .. k /\ i = n + (i - n)  BY <1>1, <2>1
    <3>. QED  BY <3>1
  <2>. QED  BY <2>1
<1>7. Elems(u) = Elems(s) \cup Elems(t)
  <2>1. \A i \in 1 .. n + k : u[i] \in Elems(s) \cup Elems(t)
    BY <1>1, <1>4, <1>5, <1>6 DEF Elems
  <2>2. \A i \in 1 .. n : s[i] \in Elems(u)  BY <1>3, <1>4 DEF Elems
  <2>3. \A j \in 1 .. k : t[j] \in Elems(u)  BY <1>3, <1>5 DEF Elems
  <2>4. Elems(u) \subseteq Elems(s) \cup Elems(t)  BY <1>3, <2>1 DEF Elems
  <2>5. Elems(s) \subseteq Elems(u) /\ Elems(t) \subseteq Elems(u)
    BY <1>1, <2>2, <2>3 DEF Elems
  <2>. QED  BY <2>4, <2>5
<1>8. ASSUME NEW i \in 1 .. n + k, NEW j \in 1 .. n + k, i < j  PROVE u[i] < u[j]
  <2>1. CASE j \in 1 .. n
    <3>1. i \in 1 .. n  BY <1>1, <1>8, <2>1
    <3>. QED  BY <1>1, <1>4, <1>8, <2>1, <3>1 DEF Ordered
  <2>2. ASSUME NEW b \in 1 .. k, j = n + b  PROVE u[i] < u[j]
    <3>1. CASE i \in 1 .. n
      <4>1. u[i] \in Elems(s) /\ u[j] \in Elems(t)
        BY <1>1, <1>4, <1>5, <2>2, <3>1 DEF Elems
      <4>. QED  BY <4>1
    <3>2. ASSUME NEW a \in 1 .. k, i = n + a  PROVE u[i] < u[j]
      <4>1. a < b  BY <1>1, <1>8, <2>2, <3>2
      <4>2. t[a] < t[b]  BY <1>1, <4>1 DEF Ordered
      <4>. QED  BY <1>5, <2>2, <3>2, <4>2
    <3>. QED  BY <1>6, <3>1, <3>2
  <2>. QED  BY <1>6, <2>1, <2>2
<1>9. Ordered(u)  BY <1>3, <1>8 DEF Ordered
<1>. QED  BY <1>2, <1>7, <1>9 DEF n, k, u

\* A flush of a batch keeps the lanes, and so does the view of what is staged.
LEMMA LanesAfter ==
  ASSUME NEW m \in Nat, NEW a, NEW b, NEW gone, LanesInv(m, a, b, gone),
         NEW batch \in Seq(Writes), Numbered(batch, m), NEW out \in SUBSET Ids(batch)
  PROVE  LanesInv(m + Len(batch), a \o Passed(batch, "A", out), b \o Passed(batch, "B", out),
                  gone \cup out)
<1> DEFINE n == Len(batch)
           p == Passed(batch, "A", out)
           q == Passed(batch, "B", out)
           a1 == a \o p
           b1 == b \o q
           G(w) == {j \in 1 .. n : Goes(batch, j, w, out)}
<1>0. n \in Nat /\ DOMAIN batch = 1 .. n  BY LenProperties
<1>1. /\ p \in Seq(Nat) /\ Ordered(p) /\ Elems(p) = {m + i : i \in G("A")}
      /\ q \in Seq(Nat) /\ Ordered(q) /\ Elems(q) = {m + i : i \in G("B")}
  BY PassedFacts
<1>2. /\ a \in Seq(Nat) /\ b \in Seq(Nat) /\ Ordered(a) /\ Ordered(b)
      /\ Elems(a) \cap Elems(b) = {}
      /\ gone \cap (Elems(a) \cup Elems(b)) = {}
      /\ Elems(a) \cup Elems(b) \cup gone = 1 .. m
  BY DEF LanesInv
<1>3. \A i \in 1 .. n : batch[i].id = m + i /\ batch[i].world \in {"A", "B"}
  <2>1. \A i \in 1 .. n : batch[i] \in Writes  BY ElementOfSeq
  <2>. QED  BY <2>1 DEF Numbered, Writes, Worlds
<1> HIDE DEF n, p, q
<1>4. /\ \A x \in Elems(a), y \in Elems(p) : x < y
      /\ \A x \in Elems(b), y \in Elems(q) : x < y
  BY <1>0, <1>1, <1>2
<1>5. /\ a1 \in Seq(Nat) /\ Ordered(a1) /\ Elems(a1) = Elems(a) \cup Elems(p)
      /\ b1 \in Seq(Nat) /\ Ordered(b1) /\ Elems(b1) = Elems(b) \cup Elems(q)
  BY <1>1, <1>2, <1>4, OrderedConcat
<1> HIDE DEF a1, b1
<1>6. \A x \in out : \E i \in 1 .. n : x = m + i  BY <1>0, <1>3 DEF Ids
<1>7. \A i \in 1 .. n : m + i \in Elems(p) \cup Elems(q) \cup out
  BY <1>1, <1>3 DEF Goes
<1>8. Elems(p) \cap Elems(q) = {} /\ out \cap (Elems(p) \cup Elems(q)) = {}
  BY <1>0, <1>1, <1>3 DEF Goes
<1>9. \A x \in Elems(p) \cup Elems(q) \cup out : x \in m + 1 .. m + n
  BY <1>0, <1>1, <1>6
<1>10. m + 1 .. m + n \subseteq Elems(p) \cup Elems(q) \cup out
  <2> SUFFICES ASSUME NEW x \in m + 1 .. m + n
               PROVE  x \in Elems(p) \cup Elems(q) \cup out
    OBVIOUS
  <2>1. x - m \in 1 .. n /\ m + (x - m) = x  BY <1>0
  <2>. QED  BY <1>7, <2>1
<1>11. (1 .. m) \cap (m + 1 .. m + n) = {} /\ (1 .. m) \cup (m + 1 .. m + n) = 1 .. m + n
  BY <1>0
<1> DEFINE new == m + 1 .. m + n
           old == 1 .. m
<1>12. Elems(p) \cup Elems(q) \cup out = new  BY <1>9, <1>10
<1>13. Elems(a1) \cup Elems(b1) \cup (gone \cup out) = 1 .. m + n
  BY <1>2, <1>5, <1>11, <1>12, Zenon
<1> HIDE DEF new, old
<1>14. Elems(a1) \cap Elems(b1) = {} /\ (gone \cup out) \cap (Elems(a1) \cup Elems(b1)) = {}
  <2>1. old \cap new = {}  BY <1>11 DEF old, new
  <2>2. Elems(a) \subseteq old /\ Elems(b) \subseteq old /\ gone \subseteq old
    BY <1>2 DEF old
  <2>3. Elems(p) \subseteq new /\ Elems(q) \subseteq new /\ out \subseteq new
    BY <1>12
  <2>. QED  BY <1>2, <1>5, <1>8, <2>1, <2>2, <2>3
<1>15. LanesInv(m + n, a1, b1, gone \cup out)
  BY <1>5, <1>13, <1>14 DEF LanesInv
<1>. QED  BY <1>15 DEF n, a1, b1, p, q

Flushed == ops - Len(pending)

Uncommitted ==
  Len(delta_lane["A"]) - committed["A"] + Len(delta_lane["B"]) - committed["B"]

BridgeInv ==
  /\ ops \in Nat /\ pending \in Seq(Writes) /\ Len(pending) < Batch /\ Flushed \in Nat
  /\ Numbered(pending, Flushed)
  /\ delta_lane \in [Worlds -> Seq(Nat)]
  /\ LanesInv(Flushed, delta_lane["A"], delta_lane["B"], ejected)
  /\ ~is_open => pending = << >>
  /\ flush_count \in Nat
  /\ committed \in [Worlds -> Nat]
  /\ \A w \in Worlds : committed[w] <= Len(delta_lane[w])
  /\ Uncommitted <= Batch * (flush_count % CommitBatch)

LEMMA NextRemainder ==
  ASSUME NEW n \in Nat, (n + 1) % CommitBatch # 0
  PROVE  /\ (n + 1) % CommitBatch = (n % CommitBatch) + 1
         /\ (n % CommitBatch) \in Nat
<1> DEFINE r == n % CommitBatch
           r1 == r + 1
<1>1. CommitBatch \in Nat \ {0} /\ n \in Int /\ 1 \in Int  BY BridgeAssumption
<1>2. r \in 0 .. (CommitBatch - 1)  BY <1>1, Division
<1>3. ((n % CommitBatch) + 1) % CommitBatch = (n + 1) % CommitBatch
  BY <1>1, RemainderAdd
<1> HIDE DEF r
<1>4. r1 % CommitBatch = (n + 1) % CommitBatch  BY <1>3 DEF r
<1>5. CASE r1 < CommitBatch
  <2>1. r1 \in 0 .. (CommitBatch - 1)  BY <1>1, <1>2, <1>5
  <2>2. r1 % CommitBatch = r1
    <3> HIDE DEF r1
    <3>. QED  BY <1>1, <2>1, RemainderSmall
  <2>. QED  BY <1>2, <1>4, <2>2 DEF r
<1>6. CASE r1 = CommitBatch
  <2>1. CommitBatch = CommitBatch * 1 + 0 /\ 0 \in 0 .. (CommitBatch - 1)
    BY <1>1
  <2>2. CommitBatch % CommitBatch = 0
    <3>1. CommitBatch \in Int /\ 1 \in Int  BY <1>1
    <3>. QED  BY <1>1, <2>1, <3>1, RemainderUnique
  <2>. QED  BY <1>4, <1>6, <2>2
<1>. QED  BY <1>1, <1>2, <1>5, <1>6

\* A flush of the staged writes, be they all there is or one more.
LEMMA FlushKeeps ==
  ASSUME BridgeInv, NEW staged \in Seq(Writes), Numbered(staged, Flushed),
         Len(staged) <= Batch, NEW out \in SUBSET Ids(staged), NEW alone,
         FlushPending(staged, out, alone), ops' = Flushed + Len(staged)
  PROVE  BridgeInv'
<1> DEFINE m == Flushed
           n == Len(staged)
           a == delta_lane["A"]
           b == delta_lane["B"]
           p == Passed(staged, "A", out)
           q == Passed(staged, "B", out)
<1>1. /\ m \in Nat /\ n \in Nat /\ LanesInv(m, a, b, ejected)
      /\ a \in Seq(Nat) /\ b \in Seq(Nat) /\ Batch \in Nat \ {0}
  BY BridgeAssumption, LenProperties DEF BridgeInv, LanesInv
<1>2. /\ delta_lane' = [w \in Worlds |-> delta_lane[w] \o Passed(staged, w, out)]
      /\ ejected' = ejected \cup out /\ flush_count' = flush_count + 1
      /\ pending' = << >>
      /\ committed' = [w \in Worlds |->
           IF CommitsNow \/ w \in alone THEN Len(delta_lane'[w]) ELSE committed[w]]
  BY DEF FlushPending, Drained
<1>3. Len(<< >>) = 0 /\ << >> \in Seq(Writes)  BY EmptySeq
<1>4. ops' - Len(pending') = m + n /\ ops' \in Nat /\ Flushed' = m + n
  <2> DEFINE z == Len(pending')
             x == ops'
  <2>1. x = m + n /\ z = 0 /\ m \in Nat /\ n \in Nat  BY <1>1, <1>2, <1>3
  <2> HIDE DEF m, n, x, z
  <2>2. x - z = m + n /\ x \in Nat  BY <2>1
  <2>. QED  BY <2>2 DEF Flushed, x, z
<1>5. delta_lane'["A"] = a \o p /\ delta_lane'["B"] = b \o q
  BY <1>2 DEF Worlds
<1>6. LanesInv(m + n, a \o p, b \o q, ejected \cup out)
  BY <1>1, LanesAfter
<1>7. p \in Seq(Nat) /\ q \in Seq(Nat)  BY <1>1, PassedFacts
<1>8. Len(p) + Len(q) <= n  BY <1>1, PassedLens
<1>9. /\ a \o p \in Seq(Nat) /\ Len(a \o p) = Len(a) + Len(p)
      /\ b \o q \in Seq(Nat) /\ Len(b \o q) = Len(b) + Len(q)
  <2> HIDE DEF a, b, p, q
  <2>. QED  BY <1>1, <1>7, ConcatProperties
<1>10. Len(a) \in Nat /\ Len(b) \in Nat /\ Len(p) \in Nat /\ Len(q) \in Nat
  <2> HIDE DEF a, b, p, q
  <2>. QED  BY <1>1, <1>7, LenProperties
<1>11. Numbered(pending', Flushed')  BY <1>2, <1>3 DEF Numbered
<1>12. delta_lane' \in [Worlds -> Seq(Nat)]
  BY <1>2, <1>5, <1>9 DEF Worlds
<1>13. /\ committed["A"] \in Nat /\ committed["B"] \in Nat /\ flush_count \in Nat
       /\ committed["A"] <= Len(a) /\ committed["B"] <= Len(b)
       /\ Len(a) - committed["A"] + Len(b) - committed["B"] <= Batch * (flush_count % CommitBatch)
  BY DEF BridgeInv, Worlds, Uncommitted
<1> DEFINE ca == committed["A"]
           cb == committed["B"]
           ca1 == committed'["A"]
           cb1 == committed'["B"]
           la == Len(a)
           lb == Len(b)
           la1 == Len(a \o p)
           lb1 == Len(b \o q)
           r == flush_count % CommitBatch
           r1 == (flush_count + 1) % CommitBatch
<1>14. /\ ca1 = IF CommitsNow \/ "A" \in alone THEN la1 ELSE ca
       /\ cb1 = IF CommitsNow \/ "B" \in alone THEN lb1 ELSE cb
  BY <1>2, <1>5 DEF Worlds
<1>15. la1 \in Nat /\ lb1 \in Nat /\ la1 >= la /\ lb1 >= lb /\ la1 + lb1 <= la + lb + Batch
  <2> DEFINE lp == Len(p)
             lq == Len(q)
  <2>1. /\ la \in Nat /\ lb \in Nat /\ lp \in Nat /\ lq \in Nat /\ lp + lq <= n /\ n <= Batch
        /\ la1 = la + lp /\ lb1 = lb + lq
    BY <1>8, <1>9, <1>10
  <2> HIDE DEF lp, lq, n, la, lb, la1, lb1
  <2>. QED  BY <1>1, <2>1
<1>16. ca \in Nat /\ cb \in Nat /\ ca <= la /\ cb <= lb /\ la \in Nat /\ lb \in Nat
       /\ la - ca + lb - cb <= Batch * r
  BY <1>10, <1>13
<1>17. r1 \in Nat /\ r \in Nat
  BY <1>13, BridgeAssumption, Division
<1>18. CommitsNow \/ r1 # 0  BY DEF CommitsNow
<1>19. r1 # 0 => r1 = r + 1  BY <1>13, NextRemainder
<1> HIDE DEF a, b, p, q, la, lb, la1, lb1, ca, cb, ca1, cb1, r, r1
<1>20. Batch * r1 >= 0 /\ Batch * (r + 1) = Batch * r + Batch
  BY <1>1, <1>17, SMT
<1>21. ca1 \in Nat /\ cb1 \in Nat /\ ca1 <= la1 /\ cb1 <= lb1
  BY <1>14, <1>15, <1>16
<1>22. la1 - ca1 + lb1 - cb1 <= Batch * r1
  <2>1. CASE CommitsNow
    <3>1. ca1 = la1 /\ cb1 = lb1  BY <1>14, <2>1
    <3> DEFINE x == Batch * r1
    <3>2. x >= 0 /\ x \in Int  BY <1>1, <1>17, <1>20
    <3> HIDE DEF x
    <3>3. la1 - ca1 + lb1 - cb1 <= x  BY <1>15, <3>1, <3>2
    <3>. QED  BY <3>3 DEF x
  <2>2. CASE ~CommitsNow
    <3>1. r1 = r + 1  BY <1>18, <1>19, <2>2
    <3>2. ca1 >= ca /\ cb1 >= cb
      BY <1>14, <1>15, <1>16
    <3> DEFINE x == Batch * r
               x1 == Batch * r1
    <3>3. x1 = x + Batch /\ x \in Int /\ la - ca + lb - cb <= x
      BY <1>1, <1>16, <1>17, <1>20, <3>1
    <3> HIDE DEF x, x1
    <3>4. la1 - ca1 + lb1 - cb1 <= x1
      BY <1>1, <1>15, <1>16, <1>21, <3>2, <3>3
    <3>. QED  BY <3>4 DEF x1
  <2>. QED  BY <2>1, <2>2
<1>23. committed' \in [Worlds -> Nat] /\ \A w \in Worlds : committed'[w] <= Len(delta_lane'[w])
  <2>1. committed' = [w \in Worlds |-> committed'[w]]  BY <1>2
  <2>2. ca1 = committed'["A"] /\ cb1 = committed'["B"]  BY DEF ca1, cb1
  <2>3. la1 = Len(delta_lane'["A"]) /\ lb1 = Len(delta_lane'["B"])
    BY <1>5 DEF la1, lb1
  <2>. QED  BY <1>21, <2>1, <2>2, <2>3 DEF Worlds
<1>24. Uncommitted' <= Batch * (flush_count' % CommitBatch)
  BY <1>2, <1>5, <1>22 DEF Uncommitted, la1, lb1, ca1, cb1, r1
<1>25. LanesInv(Flushed', delta_lane'["A"], delta_lane'["B"], ejected')
  BY <1>2, <1>4, <1>5, <1>6
<1>26. Len(pending') < Batch /\ pending' \in Seq(Writes) /\ flush_count' \in Nat
  BY <1>1, <1>2, <1>3, <1>13
<1>27. Flushed' \in Nat  BY <1>1, <1>4
<1>. QED  BY <1>2, <1>4, <1>11, <1>12, <1>23, <1>24, <1>25, <1>26, <1>27 DEF BridgeInv


\* The write that is staged is numbered as the ones before it.
LEMMA Staged ==
  ASSUME BridgeInv, NEW w \in Worlds, NEW staged,
         staged = Append(pending, [id |-> ops + 1, world |-> w])
  PROVE  /\ staged \in Seq(Writes) /\ Numbered(staged, Flushed)
         /\ Len(staged) = Len(pending) + 1 /\ Len(staged) <= Batch
         /\ ops + 1 = Flushed + Len(staged)
         /\ ops + 1 - Len(staged) = Flushed
<1> DEFINE x == [id |-> ops + 1, world |-> w]
           n == Len(pending)
           k == Len(staged)
<1>1. /\ ops \in Nat /\ pending \in Seq(Writes) /\ n < Batch /\ Flushed \in Nat
      /\ Flushed = ops - n /\ Batch \in Nat
      /\ \A i \in 1 .. n : pending[i].id = Flushed + i
  BY BridgeAssumption DEF BridgeInv, Numbered, Flushed
<1>2. n \in Nat  BY <1>1, LenProperties
<1>3. x \in Writes  BY <1>1 DEF Writes
<1>4. /\ staged \in Seq(Writes) /\ k = n + 1
      /\ staged[n + 1] = x /\ \A i \in 1 .. n : staged[i] = pending[i]
  <2> HIDE DEF x
  <2>. QED  BY <1>1, <1>3, AppendProperties DEF x
<1>5. x.id = ops + 1  OBVIOUS
<1> DEFINE m == Flushed
<1> HIDE DEF n, k, x, m
<1>6. m \in Nat /\ ops \in Nat /\ m = ops - n /\ Batch \in Nat /\ n < Batch
  BY <1>1 DEF m
<1>7. k <= Batch /\ ops + 1 = m + k /\ ops + 1 - k = m
  BY <1>2, <1>4, <1>6
<1>8. ASSUME NEW i \in 1 .. k  PROVE staged[i].id = m + i
  <2>1. CASE i \in 1 .. n  BY <1>1, <1>4, <2>1 DEF m
  <2>2. CASE i = n + 1
    <3>1. m + i = ops + 1  BY <1>2, <1>6, <2>2
    <3>. QED  BY <1>4, <1>5, <2>2, <3>1
  <2>3. i \in 1 .. n \/ i = n + 1
    <3>1. k = n + 1  BY <1>4
    <3>. QED  BY <1>2, <3>1
  <2>. QED  BY <2>1, <2>2, <2>3
<1>. QED  BY <1>4, <1>7, <1>8 DEF Numbered, n, k, m

LEMMA BridgeStarts ==
  ASSUME BridgeInit
  PROVE  BridgeInv
<1>1. Len(<< >>) = 0 /\ << >> \in Seq(Writes) /\ << >> \in Seq(Nat) /\ DOMAIN << >> = {}
  BY EmptySeq, LenProperties
<1>2. /\ ops = 0 /\ pending = << >> /\ delta_lane = [w \in Worlds |-> << >>]
      /\ committed = [w \in Worlds |-> 0] /\ ejected = {} /\ flush_count = 0
  BY DEF BridgeInit
<1>3. delta_lane["A"] = << >> /\ delta_lane["B"] = << >>
      /\ committed["A"] = 0 /\ committed["B"] = 0
  BY <1>2 DEF Worlds
<1>4. Flushed = 0
  <2> DEFINE z == Len(pending)
  <2>1. z = 0  BY <1>1, <1>2
  <2> HIDE DEF z
  <2>2. ops - z = 0  BY <1>2, <2>1
  <2>. QED  BY <2>2 DEF Flushed, z
<1>5. Numbered(pending, Flushed)  BY <1>1, <1>2 DEF Numbered
<1>6. LanesInv(Flushed, delta_lane["A"], delta_lane["B"], ejected)
  <2>1. 1 .. 0 = {}  OBVIOUS
  <2>. QED  BY <1>1, <1>2, <1>3, <1>4, <2>1 DEF LanesInv, Ordered, Elems
<1>7. Uncommitted <= Batch * (flush_count % CommitBatch)
  <2>1. Uncommitted = 0  BY <1>1, <1>3 DEF Uncommitted
  <2>2. (flush_count % CommitBatch) \in Nat  BY <1>2, BridgeAssumption, Division
  <2>3. Batch * (flush_count % CommitBatch) >= 0
    <3> DEFINE r == flush_count % CommitBatch
    <3> HIDE DEF r
    <3>. QED  BY <2>2, BridgeAssumption, SMT DEF r
  <2>4. Batch * (flush_count % CommitBatch) \in Int  BY <2>2, BridgeAssumption
  <2> DEFINE x == Batch * (flush_count % CommitBatch)
  <2> HIDE DEF x
  <2>5. 0 <= x  BY <2>3, <2>4 DEF x
  <2>. QED  BY <2>1, <2>5 DEF x
<1>8. \A w \in Worlds : committed[w] <= Len(delta_lane[w])
  BY <1>1, <1>2
<1>9. delta_lane \in [Worlds -> Seq(Nat)] /\ committed \in [Worlds -> Nat]
  BY <1>1, <1>2
<1>10. Len(pending) < Batch  BY <1>1, <1>2, BridgeAssumption
<1>. QED  BY <1>1, <1>2, <1>4, <1>5, <1>6, <1>7, <1>8, <1>9, <1>10 DEF BridgeInv

\* engine_bridge_flush_all
LEMMA FlushAllKeeps ==
  ASSUME BridgeInv, FlushAll, ops' = ops
  PROVE  BridgeInv' /\ pending' = << >>
<1>1. CASE pending # << >>
  <2>1. PICK out \in SUBSET Ids(pending) : FlushPending(pending, out, {"A"})
    BY <1>1 DEF FlushAll
  <2>2. /\ pending \in Seq(Writes) /\ Numbered(pending, Flushed) /\ Len(pending) <= Batch
        /\ ops = Flushed + Len(pending)
    <3> DEFINE n == Len(pending)
    <3>1. /\ n < Batch /\ ops \in Nat /\ Batch \in Nat /\ n \in Nat
      BY BridgeAssumption, LenProperties DEF BridgeInv
    <3> HIDE DEF n
    <3>2. n <= Batch /\ ops = (ops - n) + n  BY <3>1
    <3>. QED  BY <3>2 DEF n, BridgeInv, Flushed
  <2>3. BridgeInv'
    <3> HIDE DEF BridgeInv, FlushPending, Numbered, Flushed
    <3>. QED  BY <2>1, <2>2, FlushKeeps
  <2>. QED  BY <2>1, <2>3 DEF FlushPending, Drained
<1>2. CASE pending = << >>
  <2>1. /\ committed' = [committed EXCEPT !["A"] = Len(delta_lane["A"])]
        /\ UNCHANGED << pending, ew_flushes, flush_count, delta_lane, ejected >>
    BY <1>2 DEF FlushAll
  <2> DEFINE la == Len(delta_lane["A"])
             lb == Len(delta_lane["B"])
             ca == committed["A"]
             cb == committed["B"]
             x  == Batch * (flush_count % CommitBatch)
  <2>2. delta_lane["A"] \in Seq(Nat) /\ delta_lane["B"] \in Seq(Nat)
    BY DEF BridgeInv, Worlds
  <2>3. la \in Nat /\ lb \in Nat  BY <2>2, LenProperties
  <2>4. ca \in Nat /\ cb \in Nat /\ ca <= la /\ cb <= lb
    BY DEF BridgeInv, Worlds
  <2>5. la - ca + lb - cb <= x  BY DEF BridgeInv, Uncommitted
  <2>6. x \in Int
    <3>1. (flush_count % CommitBatch) \in Nat  BY BridgeAssumption, Division DEF BridgeInv
    <3>. QED  BY <3>1, BridgeAssumption
  <2>7. committed'["A"] = la /\ committed'["B"] = cb  BY <2>1 DEF BridgeInv, Worlds
  <2>8. committed' \in [Worlds -> Nat] /\ \A w \in Worlds : committed'[w] <= Len(delta_lane'[w])
    BY <2>1, <2>3, <2>4 DEF BridgeInv, Worlds
  <2>9. Uncommitted' <= Batch * (flush_count' % CommitBatch)
    <3>1. Uncommitted' = la - la + lb - cb  BY <2>1, <2>7 DEF Uncommitted
    <3>2. x = Batch * (flush_count' % CommitBatch)  BY <2>1
    <3> HIDE DEF la, lb, ca, cb, x
    <3>3. la - la + lb - cb <= x  BY <2>3, <2>4, <2>5, <2>6
    <3>. QED  BY <3>1, <3>2, <3>3
  <2>10. Flushed' = Flushed  BY <2>1 DEF Flushed
  <2>. QED  BY <1>2, <2>1, <2>8, <2>9, <2>10 DEF BridgeInv
<1>. QED  BY <1>1, <1>2

LEMMA WriteKeeps ==
  ASSUME BridgeInv, NEW n \in FaceIds, NEW w \in Worlds, Write(n, w)
  PROVE  BridgeInv'
<1> DEFINE x == Append(pending, [id |-> ops + 1, world |-> w])
<1>1. PICK staged : staged = x  OBVIOUS
<1>2. /\ staged \in Seq(Writes) /\ Numbered(staged, Flushed)
      /\ Len(staged) = Len(pending) + 1 /\ Len(staged) <= Batch
      /\ ops + 1 = Flushed + Len(staged)
      /\ ops + 1 - Len(staged) = Flushed
  BY <1>1, Staged
<1>3. is_open /\ is_open' = is_open /\ ops' = ops + 1  BY DEF Write
<1>4. \/ \E out \in SUBSET Ids(staged) : FlushPending(staged, out, {})
      \/ /\ Len(staged) < Batch
         /\ pending' = staged
         /\ UNCHANGED << ew_flushes, flush_count, delta, ejected >>
  BY <1>1 DEF Write
<1>5. ASSUME NEW out \in SUBSET Ids(staged), FlushPending(staged, out, {})
      PROVE  BridgeInv'
  <2> HIDE DEF BridgeInv, FlushPending, Numbered, Flushed
  <2>. QED  BY <1>2, <1>3, <1>5, FlushKeeps
<1>6. CASE /\ Len(staged) < Batch
           /\ pending' = staged
           /\ UNCHANGED << ew_flushes, flush_count, delta, ejected >>
  <2>1. Flushed' = Flushed
    <3> DEFINE m == Flushed
    <3> HIDE DEF m
    <3>1. ops + 1 - Len(staged) = m  BY <1>2 DEF m
    <3> DEFINE o == ops'
               z == Len(pending')
               y == Len(staged)
    <3>2. o = ops + 1 /\ z = y  BY <1>3, <1>6
    <3> HIDE DEF o, y, z
    <3>3. ops + 1 - y = m  BY <3>1 DEF y
    <3>4. y \in Nat /\ ops \in Nat
      <4>1. y \in Nat  BY <1>2, LenProperties DEF y
      <4>2. ops \in Nat  BY DEF BridgeInv
      <4>. QED  BY <4>1, <4>2
    <3>5. o - z = m  BY <3>2, <3>3, <3>4
    <3>. QED  BY <3>5 DEF Flushed, m, o, z
  <2>2. delta_lane' = delta_lane /\ committed' = committed /\ flush_count' = flush_count
        /\ ejected' = ejected
    BY <1>6 DEF delta
  <2>3. Uncommitted' = Uncommitted  BY <2>2 DEF Uncommitted
  <2>4. Numbered(pending', Flushed')  BY <1>2, <1>6, <2>1
  <2>5. ops' \in Nat  BY <1>3 DEF BridgeInv
  <2>6. pending' \in Seq(Writes) /\ Len(pending') < Batch  BY <1>2, <1>6
  <2>7. /\ Flushed \in Nat /\ delta_lane \in [Worlds -> Seq(Nat)]
        /\ LanesInv(Flushed, delta_lane["A"], delta_lane["B"], ejected)
        /\ flush_count \in Nat /\ committed \in [Worlds -> Nat]
        /\ \A v \in Worlds : committed[v] <= Len(delta_lane[v])
        /\ Uncommitted <= Batch * (flush_count % CommitBatch)
    BY DEF BridgeInv
  <2> HIDE DEF Flushed, Numbered, LanesInv, Uncommitted
  <2>. QED  BY <1>3, <2>1, <2>2, <2>3, <2>4, <2>5, <2>6, <2>7 DEF BridgeInv
<1>. QED  BY <1>4, <1>5, <1>6

\* What is staged is numbered on from what is flushed, the lanes and the ejected
\* writes share out what is flushed, and each flush since the last commit of both
\* worlds has left at most a batch uncommitted: engine_bridge_close, the checkpoint
\* and hs_engine_write_v38, for every batch size and commit distance.
THEOREM BridgeKeepsInv == BridgeSpec => []BridgeInv
<1>1. BridgeInit => BridgeInv  BY BridgeStarts
<1>2. BridgeInv /\ [BridgeNext]_bridge => BridgeInv'
  <2> SUFFICES ASSUME BridgeInv, [BridgeNext]_bridge  PROVE BridgeInv'
    OBVIOUS
  <2>1. ASSUME NEW n \in FaceIds, NEW w \in Worlds, Write(n, w)  PROVE BridgeInv'
    BY <2>1, WriteKeeps
  <2>2. CASE Checkpoint
    BY <2>2, FlushAllKeeps DEF Checkpoint
  <2>3. CASE Close
    BY <2>3, FlushAllKeeps DEF Close
  <2>4. ASSUME UNCHANGED << is_open, pending, flush_count, delta, ops, ejected >>
        PROVE  BridgeInv'
    BY <2>4 DEF BridgeInv, delta, Flushed, Uncommitted
  <2>5. ASSUME NEW n \in FaceIds, IdleTick(n) \/ WakeComplete(n)  PROVE BridgeInv'
    BY <2>4, <2>5 DEF IdleTick, WakeComplete
  <2>6. CASE UNCHANGED bridge
    BY <2>4, <2>6 DEF bridge
  <2>. QED  BY <2>1, <2>2, <2>3, <2>5, <2>6 DEF BridgeNext
<1>. QED  BY <1>1, <1>2, PTL DEF BridgeSpec

\* hs_engine_write_v38 and _bridge_flush_pending (pogls_engine_bridge.h lines 301-505):
\* whatever the audit ejects and whenever the window expires, each write is staged, in
\* the lane of its world or ejected, once and in order, and a closed bridge has staged
\* nothing.
THEOREM EachWriteOnce == BridgeSpec => []EachOnceInItsWorld
<1>1. BridgeInv => EachOnceInItsWorld
  <2> SUFFICES ASSUME BridgeInv  PROVE EachOnceInItsWorld
    OBVIOUS
  <2> DEFINE a == delta_lane["A"] \o Passed(pending, "A", {})
             b == delta_lane["B"] \o Passed(pending, "B", {})
             m == Flushed
             n == Len(pending)
  <2>1. /\ m \in Nat /\ n \in Nat /\ ops \in Nat /\ ops = m + n
    <3>1. m \in Nat /\ ops \in Nat /\ n \in Nat /\ m = ops - n
      BY LenProperties DEF BridgeInv, Flushed
    <3> HIDE DEF m, n
    <3>. QED  BY <3>1
  <2>2. LanesInv(m + n, a, b, ejected \cup {})
    BY <2>1, LanesAfter DEF BridgeInv
  <2>3. ejected \cup {} = ejected  OBVIOUS
  <2> HIDE DEF a, b, m, n
  <2>4. LanesInv(ops, a, b, ejected)  BY <2>1, <2>2, <2>3
  <2>5. ~is_open => pending = << >>  BY DEF BridgeInv
  <2>6. /\ \A i, j \in DOMAIN a : i < j => a[i] < a[j]
        /\ \A i, j \in DOMAIN b : i < j => b[i] < b[j]
        /\ {a[i] : i \in DOMAIN a} \cap {b[i] : i \in DOMAIN b} = {}
        /\ ejected \cap ({a[i] : i \in DOMAIN a} \cup {b[i] : i \in DOMAIN b}) = {}
        /\ {a[i] : i \in DOMAIN a} \cup {b[i] : i \in DOMAIN b} \cup ejected = 1 .. ops
    BY <2>4 DEF LanesInv, Ordered, Elems
  <2>. QED  BY <2>5, <2>6 DEF EachOnceInItsWorld, Worlds, a, b
<1>. QED  BY <1>1, BridgeKeepsInv, PTL

\* However the flushes of line 352 and of line 362 count, and whichever world a
\* checkpoint commits alone, a crash between two calls loses less than a commit's
\* distance of full batches, for every batch size and distance.
THEOREM FewUncommitted == BridgeSpec => []CrashWindow
<1>1. BridgeInv => CrashWindow
  <2> SUFFICES ASSUME BridgeInv  PROVE CrashWindow
    OBVIOUS
  <2> DEFINE r == flush_count % CommitBatch
  <2>1. r \in 0 .. (CommitBatch - 1)  BY BridgeAssumption, Division DEF BridgeInv
  <2>2. Uncommitted <= Batch * r  BY DEF BridgeInv
  <2> HIDE DEF r
  <2>3. Batch * r <= (CommitBatch - 1) * Batch
    BY <2>1, BridgeAssumption, SMT
  <2> DEFINE x == Batch * r
             y == (CommitBatch - 1) * Batch
             la == Len(delta_lane["A"])
             lb == Len(delta_lane["B"])
             ca == committed["A"]
             cb == committed["B"]
  <2>4. x \in Int /\ y \in Int  BY <2>1, BridgeAssumption
  <2>5. la \in Int /\ lb \in Int /\ ca \in Int /\ cb \in Int
    <3>1. delta_lane["A"] \in Seq(Nat) /\ delta_lane["B"] \in Seq(Nat)
      BY DEF BridgeInv, Worlds
    <3>2. la \in Nat /\ lb \in Nat  BY <3>1, LenProperties
    <3>. QED  BY <3>2 DEF BridgeInv, Worlds
  <2>6. la - ca + lb - cb <= x  BY <2>2 DEF Uncommitted
  <2> HIDE DEF la, lb, ca, cb, x, y
  <2>7. la - ca + lb - cb <= y
    <3>1. x <= y  BY <2>3 DEF x, y
    <3>. QED  BY <2>4, <2>5, <2>6, <3>1
  <2>. QED  BY <2>7 DEF CrashWindow, la, lb, ca, cb, y
<1>. QED  BY <1>1, BridgeKeepsInv, PTL

-----------------------------------------------------------------------------
\* A hot face has an activity that no longer decays below the threshold.
FaceStates == {"NORMAL", "ACTIVE_LOOP", "GHOST", "WAKING"}

FacesInv ==
  /\ node_face \in [FaceIds -> [state : FaceStates, activity : 0 .. ActMax, last_tick : Nat]]
  /\ bridge_tick \in Nat
  /\ \A n \in FaceIds : node_face[n].state = "ACTIVE_LOOP" => node_face[n].activity > SplitThresh
  /\ woken = 0

\* What is left after the decay.
LEMMA Decayed ==
  ASSUME NEW s \in 0 .. ActMax
  PROVE  /\ s - s \div Share \in Nat /\ s - s \div Share <= s
         /\ s >= Share => s - s \div Share < s
         /\ s > SplitThresh => s - s \div Share > SplitThresh
<1> DEFINE d == s \div Share
<1>1. Share \in Nat \ {0} /\ s \in Nat /\ SplitThresh \in Nat /\ SplitThresh + 1 < Share /\ Share >= 2
      /\ ActMax \in Nat
  BY FaceAssumption
<1>2. PICK r : r \in 0 .. (Share - 1) /\ s = Share * d + r /\ d \in Int
  <2>1. s \in Int  BY <1>1
  <2>. QED  BY <1>1, <2>1, Division
<1> HIDE DEF d
<1>3. d >= 0
  <2> SUFFICES ASSUME d <= -1  PROVE FALSE  BY <1>2
  <2>1. Share * d <= -Share  BY <1>1, <1>2, SMT
  <2> DEFINE y == Share * d
  <2>2. y \in Int  BY <1>1, <1>2
  <2>3. y <= -Share /\ s = y + r  BY <1>2, <2>1
  <2> HIDE DEF y
  <2>. QED  BY <1>1, <1>2, <2>2, <2>3
<1>4. CASE d = 0
  <2>1. s = r  BY <1>1, <1>2, <1>4
  <2>. QED  BY <1>1, <1>2, <1>4, <2>1 DEF d
<1>5. CASE d >= 1
  <2>1. Share * d - d >= Share - 1 /\ Share * d >= d
    <3>1. (Share - 1) * (d - 1) >= 0  BY <1>1, <1>2, <1>5, SMT
    <3>2. (Share - 1) * (d - 1) = Share * d - Share - d + 1  BY <1>1, <1>2, SMT
    <3> DEFINE y == Share * d
    <3>3. y \in Int  BY <1>1, <1>2
    <3>4. y - Share - d + 1 >= 0  BY <3>1, <3>2
    <3> HIDE DEF y
    <3>5. y - d >= Share - 1 /\ y >= d  BY <1>1, <1>2, <1>5, <3>3, <3>4
    <3>. QED  BY <3>5 DEF y
  <2> DEFINE y == Share * d
  <2>2. y \in Int /\ s = y + r /\ y - d >= Share - 1 /\ y >= d  BY <1>1, <1>2, <2>1
  <2> HIDE DEF y
  <2>3. s - d \in Nat /\ s - d <= s /\ s - d < s /\ s - d > SplitThresh
    BY <1>1, <1>2, <1>5, <2>2
  <2>. QED  BY <2>3 DEF d
<1>. QED  BY <1>2, <1>3, <1>4, <1>5

LEMMA UpdatedBounds ==
  ASSUME NEW s \in 0 .. ActMax, NEW hit \in BOOLEAN
  PROVE  /\ Updated(s, hit) \in 0 .. ActMax
         /\ s > SplitThresh => Updated(s, hit) > SplitThresh
<1> DEFINE d == s - s \div Share
<1>1. d \in Nat /\ d <= s /\ (s > SplitThresh => d > SplitThresh)
  BY Decayed
<1> DEFINE u == Updated(s, hit)
<1>2. u = IF s = ActMax /\ hit THEN ActMax ELSE d + (IF hit THEN 1 ELSE 0)
  BY DEF Updated
<1>3. ActMax \in Nat /\ SplitThresh \in Nat /\ SplitThresh < ActMax  BY FaceAssumption
<1> SUFFICES u \in 0 .. ActMax /\ (s > SplitThresh => u > SplitThresh)
  OBVIOUS
<1> HIDE DEF d, u
<1>4. CASE s = ActMax /\ hit
  <2>1. u = ActMax  BY <1>2, <1>4
  <2>. QED  BY <1>3, <1>4, <2>1
<1>5. CASE s # ActMax /\ hit
  <2>1. u = d + 1  BY <1>2, <1>5
  <2>2. s < ActMax  BY <1>3, <1>5
  <2>. QED  BY <1>1, <1>3, <2>1, <2>2
<1>6. CASE ~hit
  <2>1. u = d + 0  BY <1>2, <1>6
  <2>. QED  BY <1>1, <1>3, <2>1
<1>. QED  BY <1>4, <1>5, <1>6

\* One tick of a face.
LEMMA TickKeeps ==
  ASSUME NEW n \in FaceIds, NEW now \in Nat, NEW hit \in BOOLEAN,
         NEW f \in [state : FaceStates, activity : 0 .. ActMax, last_tick : Nat],
         f.state = "ACTIVE_LOOP" => f.activity > SplitThresh
  PROVE  LET g == Ticked(n, f, hit, now)
         IN  /\ g \in [state : FaceStates, activity : 0 .. ActMax, last_tick : Nat]
             /\ g.state = "ACTIVE_LOOP" => g.activity > SplitThresh
             /\ hit => g.state # "GHOST"
<1> DEFINE up == Updated(f.activity, hit)
           e == [f EXCEPT !.activity = up, !.last_tick = IF hit THEN now ELSE f.last_tick]
           g == [e EXCEPT !.state = Moved(n, e, hit, now)]
<1>1. up \in 0 .. ActMax /\ (f.activity > SplitThresh => up > SplitThresh)
  BY UpdatedBounds
<1> HIDE DEF up
<1>2. /\ e \in [state : FaceStates, activity : 0 .. ActMax, last_tick : Nat]
      /\ e.state = f.state /\ e.activity = up
      /\ e.last_tick = IF hit THEN now ELSE f.last_tick
  BY <1>1
<1> HIDE DEF e
<1>3. Moved(n, e, hit, now) \in FaceStates
  BY <1>2 DEF Moved, FaceStates
<1>4. Moved(n, e, hit, now) = "ACTIVE_LOOP" => e.activity > SplitThresh
  BY <1>1, <1>2 DEF Moved, FaceStates
<1>5. hit => Moved(n, e, hit, now) # "GHOST"
  <2> SUFFICES ASSUME hit, Moved(n, e, hit, now) = "GHOST"  PROVE FALSE
    OBVIOUS
  <2>1. e.last_tick = now /\ now - now = 0  BY <1>2
  <2>2. GhostTicks \in Nat  BY FaceAssumption
  <2>. QED  BY <1>2, <2>1, <2>2 DEF Moved, FaceStates
<1>6. /\ g \in [state : FaceStates, activity : 0 .. ActMax, last_tick : Nat]
      /\ g.state = Moved(n, e, hit, now) /\ g.activity = e.activity
  BY <1>2, <1>3
<1>7. g = Ticked(n, f, hit, now)  BY DEF Ticked, g, e, up
<1>. QED  BY <1>4, <1>5, <1>6, <1>7

\* A face that became hot never cools (pogls_face_state.h lines 72-79, 181), and no
\* write finds a GHOST to wake (line 405 of the bridge), as long as an activity above
\* the threshold is one too small to decay below it, as 6 and 8 are in the code.
THEOREM NoDeadTransition == BridgeSpec => []DeadTransitions
<1>1. BridgeInit => FacesInv
  BY FaceAssumption DEF BridgeInit, FacesInv, FaceStates
<1>2. FacesInv /\ [BridgeNext]_bridge => FacesInv'
  <2> SUFFICES ASSUME FacesInv, [BridgeNext]_bridge  PROVE FacesInv'
    OBVIOUS
  <2> DEFINE Face == [state : FaceStates, activity : 0 .. ActMax, last_tick : Nat]
  <2>0. /\ node_face \in [FaceIds -> Face] /\ bridge_tick \in Nat /\ woken = 0
        /\ \A n \in FaceIds : node_face[n].state = "ACTIVE_LOOP" => node_face[n].activity > SplitThresh
    BY DEF FacesInv
  <2>1. ASSUME NEW n \in FaceIds, NEW w \in Worlds, Write(n, w)  PROVE FacesInv'
    <3>1. TickFace(n)  BY <2>1 DEF Write
    <3> DEFINE now == bridge_tick + 1
    <3>2. PICK f : f = Ticked(n, node_face[n], TRUE, now)  OBVIOUS
    <3>3. now \in Nat  BY <2>0
    <3>4. f \in Face /\ (f.state = "ACTIVE_LOOP" => f.activity > SplitThresh) /\ f.state # "GHOST"
      BY <2>0, <3>2, <3>3, TickKeeps
    <3>5. bridge_tick' = now /\ node_face' = [node_face EXCEPT ![n] = f] /\ woken' = woken
      BY <3>1, <3>2, <3>4 DEF TickFace
    <3> HIDE DEF now
    <3>. QED  BY <2>0, <3>3, <3>4, <3>5 DEF FacesInv
  <2>2. ASSUME NEW n \in FaceIds, IdleTick(n)  PROVE FacesInv'
    <3>1. PICK f : f = Ticked(n, node_face[n], FALSE, bridge_tick)  OBVIOUS
    <3>2. f \in Face /\ (f.state = "ACTIVE_LOOP" => f.activity > SplitThresh)
      BY <2>0, <3>1, TickKeeps
    <3>3. bridge_tick' = bridge_tick /\ node_face' = [node_face EXCEPT ![n] = f] /\ woken' = woken
      BY <2>2, <3>1 DEF IdleTick
    <3>. QED  BY <2>0, <3>2, <3>3 DEF FacesInv
  <2>3. ASSUME NEW n \in FaceIds, WakeComplete(n)  PROVE FacesInv'
    <3>1. /\ node_face' = [node_face EXCEPT ![n].state = "NORMAL"]
          /\ bridge_tick' = bridge_tick /\ woken' = woken
      BY <2>3 DEF WakeComplete
    <3>. QED  BY <2>0, <3>1 DEF FacesInv, FaceStates
  <2>4. CASE Checkpoint \/ Close \/ UNCHANGED bridge
    BY <2>4 DEF Checkpoint, Close, bridge, faces, FacesInv
  <2>. QED  BY <2>1, <2>2, <2>3, <2>4 DEF BridgeNext
<1>3. FacesInv => DeadTransitions  BY DEF FacesInv, DeadTransitions
<1>. QED  BY <1>1, <1>2, <1>3, PTL DEF BridgeSpec
=============================================================================
