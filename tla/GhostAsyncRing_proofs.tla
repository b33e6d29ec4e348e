----------------------- MODULE GhostAsyncRing_proofs ------------------------
(***************************************************************************)
(* The ghost ring is correct for every ring size, batch size and number of *)
(* laps before its indices wrap: the invariant RingInv is inductive, the   *)
(* callback sees every entry once and in order, a foreground drain leaves  *)
(* the ring empty, and the ring implements the FIFO queue GhostQueue.      *)
(***************************************************************************)
EXTENDS GhostAsyncRing, ModArith, SequenceTheorems

Inv == TypeOK /\ RingInv

LEMMA WrapFacts == Wrap \in Nat \ {0} /\ Size < Wrap /\ Size \in Nat \ {0}
<1>1. Laps * Size >= 2 * Size  BY RingAssumption, SMT
<1>2. Laps * Size \in Nat  BY RingAssumption, SMT
<1>. QED  BY <1>1, <1>2, RingAssumption DEF Wrap

LEMMA SlotRange ==
  ASSUME NEW i \in Int  PROVE Slot(i) \in 0 .. (Size - 1)
  BY WrapFacts, Division DEF Slot

\* A wrapped index has the slot of the count it stands for.
LEMMA SlotOfWrapped ==
  ASSUME NEW i \in Int  PROVE Slot(i % Wrap) = Slot(i)
<1>1. Wrap = Laps * Size /\ Laps \in Nat \ {0}  BY RingAssumption DEF Wrap
<1>. QED  BY <1>1, WrapFacts, RemainderOfRemainder DEF Slot

LEMMA SlotOfWrappedPlus ==
  ASSUME NEW a \in Int, NEW i \in Int  PROVE Slot((a % Wrap) + i) = Slot(a + i)
<1>1. (a % Wrap) + i \in Int  BY WrapFacts, Division
<1>2. Slot((a % Wrap) + i) = Slot(((a % Wrap) + i) % Wrap)
  BY <1>1, SlotOfWrapped
<1>3. ((a % Wrap) + i) % Wrap = (a + i) % Wrap  BY WrapFacts, RemainderAdd
<1>. QED  BY <1>2, <1>3, SlotOfWrapped

LEMMA SlotDistinct ==
  ASSUME NEW a \in Int, NEW b \in Int, a # b, a - b < Size, b - a < Size
  PROVE  Slot(a) # Slot(b)
  BY WrapFacts, RemainderDistinct DEF Slot

\* The unsigned difference of the indices is the number of waiting entries.
LEMMA OccupiedIsBacklog ==
  ASSUME TypeOK, IndicesAgree
  PROVE  /\ Taken \in Nat
         /\ Occupied = accepted - Taken
         /\ Occupied \in 0 .. Size
<1>1. Taken \in Nat  BY LenProperties DEF TypeOK, Taken
<1>2. accepted - Taken \in 0 .. (Wrap - 1)
  BY <1>1, WrapFacts DEF TypeOK, IndicesAgree
<1>3. ((accepted % Wrap) - (Taken % Wrap)) % Wrap = accepted - Taken
  <2>1. accepted \in Int /\ Taken \in Int  BY <1>1 DEF TypeOK
  <2>. QED  BY <2>1, <1>2, WrapFacts, RemainderDistance
<1>. QED  BY <1>1, <1>3 DEF IndicesAgree, Occupied

LEMMA AdvanceRange ==
  ASSUME NEW i \in Int, NEW n \in Int
  PROVE  Advance(i, n) \in 0 .. (Wrap - 1)
  BY WrapFacts, Division DEF Advance

LEMMA AdvanceCount ==
  ASSUME NEW a \in Int, NEW n \in Int
  PROVE  Advance(a % Wrap, n) = (a + n) % Wrap
  BY WrapFacts, RemainderAdd DEF Advance

-----------------------------------------------------------------------------
LEMMA InitType == Init => TypeOK
<1>1. 0 \in 0 .. (Wrap - 1)  BY WrapFacts
<1>2. << >> \in Seq(Nat) /\ Len(<< >>) = 0  BY EmptySeq
<1>3. 0 \in 0 .. Batch  BY RingAssumption
<1>4. [s \in 0 .. (Size - 1) |-> Torn] \in [0 .. (Size - 1) -> Nat]  BY DEF Torn
<1> SUFFICES ASSUME Init  PROVE TypeOK
  OBVIOUS
<1>5. head \in 0 .. (Wrap - 1) /\ tail \in 0 .. (Wrap - 1)
  BY <1>1 DEF Init
<1>6. slots \in [0 .. (Size - 1) -> Nat]  BY <1>4 DEF Init
<1>7. avail \in 0 .. Batch /\ batch \in Seq(Nat) /\ Len(batch) <= avail
  BY <1>2, <1>3 DEF Init
<1>. QED
  BY <1>2, <1>5, <1>6, <1>7 DEF Init, TypeOK, MainAt, ThreadAt, ConsAt

LEMMA NextType == TypeOK /\ [Next]_vars => TypeOK'
<1> SUFFICES ASSUME TypeOK, [Next]_vars  PROVE TypeOK'
  OBVIOUS
<1> USE DEF TypeOK, MainAt, ThreadAt, ConsAt, counters, control, passvars
<1>1. CASE Refuse  BY <1>1 DEF Refuse
<1>2. CASE BeginPush  BY <1>2 DEF BeginPush
<1>3. CASE TearSlot  BY <1>3, SlotRange DEF TearSlot, Torn
<1>4. CASE FillSlot  BY <1>4, SlotRange DEF FillSlot
<1>5. CASE PublishHead
  <2>1. head' \in 0 .. (Wrap - 1)
    BY <1>5, AdvanceRange DEF PublishHead
  <2>. QED  BY <1>5, <2>1 DEF PublishHead
<1>6. CASE CountPush  BY <1>6 DEF CountPush
<1>7. CASE EmptyPass  BY <1>7 DEF EmptyPass, AfterPass
<1>8. CASE BeginPass
  <2>1. Occupied \in Nat  BY WrapFacts, Division DEF Occupied
  <2>2. avail' \in 0 .. Batch
    BY <1>8, <2>1, RingAssumption DEF BeginPass, Lesser
  <2>. QED  BY <1>8, <2>2 DEF BeginPass
<1>9. CASE CopySlot
  <2>1. Len(batch) \in Nat  BY LenProperties
  <2>2. slots[Slot(tail + Len(batch))] \in Nat
    <3>1. tail + Len(batch) \in Int  BY <2>1, WrapFacts
    <3>2. Slot(tail + Len(batch)) \in 0 .. (Size - 1)  BY <3>1, SlotRange
    <3>. QED  BY <3>2
  <2>3. batch' \in Seq(Nat) /\ Len(batch') <= avail
    BY <1>9, <2>1, <2>2, AppendProperties DEF CopySlot
  <2>. QED  BY <1>9, <2>3 DEF CopySlot
<1>10. CASE ReleaseSlots
  <2>1. tail' \in 0 .. (Wrap - 1)
    BY <1>10, AdvanceRange, RingAssumption DEF ReleaseSlots
  <2>. QED  BY <1>10, <2>1 DEF ReleaseSlots
<1>11. CASE Deliver
  <2>1. out' \in Seq(Nat)  BY <1>11, ConcatProperties DEF Deliver
  <2>2. avail' \in 0 .. Batch /\ batch' \in Seq(Nat) /\ Len(batch') <= avail'
    BY <1>11, RingAssumption DEF Deliver
  <2>3. drained' \in Nat  BY <1>11, RingAssumption DEF Deliver
  <2>. QED  BY <1>11, <2>1, <2>2, <2>3 DEF Deliver, AfterPass
<1>12. CASE TestRunning  BY <1>12 DEF TestRunning
<1>13. CASE Start  BY <1>13 DEF Start
<1>14. CASE Stop  BY <1>14 DEF Stop
<1>15. CASE Join  BY <1>15 DEF Join
<1>16. CASE DrainForeground  BY <1>16 DEF DrainForeground
<1>17. CASE UNCHANGED vars  BY <1>17 DEF vars
<1>. QED
  BY <1>1, <1>2, <1>3, <1>4, <1>5, <1>6, <1>7, <1>8, <1>9, <1>10, <1>11, <1>12,
     <1>13, <1>14, <1>15, <1>16, <1>17 DEF Next, Push, DrainPass

\* Type correctness of the ring, for every size, batch and wrap.
THEOREM TypeCorrect == Spec => []TypeOK
  BY InitType, NextType, PTL DEF Spec

-----------------------------------------------------------------------------
LEMMA InitInv == Init => Inv
<1> SUFFICES ASSUME Init  PROVE Inv
  OBVIOUS
<1>1. TypeOK  BY InitType
<1>2. Taken = 0  BY DEF Init, Taken
<1>3. 0 % Wrap = 0  BY WrapFacts, RemainderSmall
<1>4. IndicesAgree
  BY <1>2, <1>3, WrapFacts DEF Init, IndicesAgree
<1>5. SlotsIntact  BY <1>2 DEF Init, SlotsIntact
<1>6. NextIsFilled /\ BatchIntact /\ ExactlyOnceInOrder
  BY DEF Init, NextIsFilled, BatchIntact, ExactlyOnceInOrder
<1>. QED  BY <1>1, <1>4, <1>5, <1>6 DEF Inv, RingInv

\* A step that moves neither index, slot, batch nor history keeps the ring
\* intact, provided the main thread does not enter a push.
LEMMA QuietStep ==
  ASSUME Inv,
         UNCHANGED << head, tail, slots, passvars, accepted, out >>,
         main' = main \/ main' \notin {"checked", "torn", "filled"}
  PROVE  RingInv'
<1> USE DEF Inv, RingInv, passvars
<1>1. Taken' = Taken  BY DEF Taken
<1>2. IndicesAgree'  BY <1>1 DEF IndicesAgree
<1>3. SlotsIntact'  BY <1>1 DEF SlotsIntact, Slot
<1>4. NextIsFilled'  BY DEF NextIsFilled, Slot
<1>5. BatchIntact' /\ ExactlyOnceInOrder'
  BY DEF BatchIntact, ExactlyOnceInOrder
<1>. QED  BY <1>2, <1>3, <1>4, <1>5

\* The producer's slot is outside the window [tail, head).
LEMMA WriteKeepsWindow ==
  ASSUME Inv, accepted - Taken < Size, NEW v,
         slots' = [slots EXCEPT ![Slot(head)] = v],
         UNCHANGED << head, accepted, out, cons, avail >>
  PROVE  SlotsIntact'
<1>1. Taken' = Taken /\ Taken \in Nat /\ accepted \in Nat
  BY OccupiedIsBacklog DEF Inv, RingInv, Taken, TypeOK
<1>2. Slot(head) = Slot(accepted)
  BY <1>1, SlotOfWrapped DEF Inv, RingInv, IndicesAgree
<1> SUFFICES ASSUME NEW n \in (Taken + 1) .. accepted
             PROVE  slots'[Slot(n - 1)] = n
  BY <1>1 DEF SlotsIntact, Slot
<1>3. n - 1 \in Int /\ n - 1 # accepted /\ accepted - (n - 1) < Size
      /\ (n - 1) - accepted < Size
  BY <1>1, WrapFacts
<1>4. Slot(n - 1) # Slot(head)
  BY <1>1, <1>2, <1>3, SlotDistinct
<1>5. Slot(n - 1) \in 0 .. (Size - 1)  BY <1>3, SlotRange
<1>6. slots[Slot(n - 1)] = n  BY DEF Inv, RingInv, SlotsIntact
<1>. QED  BY <1>4, <1>5, <1>6 DEF Inv, TypeOK

LEMMA NextInv == Inv /\ [Next]_vars => RingInv'
<1> SUFFICES ASSUME Inv, [Next]_vars  PROVE RingInv'
  OBVIOUS
<1>a. TypeOK /\ IndicesAgree /\ SlotsIntact /\ NextIsFilled /\ BatchIntact
      /\ ExactlyOnceInOrder
  BY DEF Inv, RingInv
<1>b. Taken \in Nat /\ Occupied = accepted - Taken /\ Occupied \in 0 .. Size
  BY <1>a, OccupiedIsBacklog
<1>c. accepted \in Nat /\ Len(out) \in Nat /\ Len(batch) \in Nat
      /\ avail \in 0 .. Batch /\ Batch \in 1 .. Size
  BY <1>a, LenProperties, RingAssumption DEF TypeOK
<1>1. CASE Refuse
  BY <1>1, QuietStep DEF Refuse, passvars
<1>2. CASE BeginPush
  <2>1. Taken' = Taken  BY <1>2 DEF BeginPush, Taken, passvars
  <2>2. IndicesAgree'
    BY <1>2, <1>a, <1>b, <2>1 DEF BeginPush, IndicesAgree, passvars
  <2>3. SlotsIntact'  BY <1>2, <1>a, <2>1 DEF BeginPush, SlotsIntact, Slot
  <2>4. NextIsFilled'  BY <1>2 DEF BeginPush, NextIsFilled
  <2>5. BatchIntact' /\ ExactlyOnceInOrder'
    BY <1>2, <1>a DEF BeginPush, BatchIntact, ExactlyOnceInOrder, passvars
  <2>. QED  BY <2>2, <2>3, <2>4, <2>5 DEF RingInv
<1>3. CASE TearSlot
  <2>1. Taken' = Taken  BY <1>3 DEF TearSlot, Taken, passvars
  <2>2. IndicesAgree'
    BY <1>3, <1>a, <2>1 DEF TearSlot, IndicesAgree, passvars
  <2>3. SlotsIntact'
    BY <1>3, <1>a, WriteKeepsWindow DEF TearSlot, IndicesAgree, passvars
  <2>4. NextIsFilled'  BY <1>3 DEF TearSlot, NextIsFilled
  <2>5. BatchIntact' /\ ExactlyOnceInOrder'
    BY <1>3, <1>a DEF TearSlot, BatchIntact, ExactlyOnceInOrder, passvars
  <2>. QED  BY <2>2, <2>3, <2>4, <2>5 DEF RingInv
<1>4. CASE FillSlot
  <2>1. Taken' = Taken  BY <1>4 DEF FillSlot, Taken, passvars
  <2>2. IndicesAgree'
    BY <1>4, <1>a, <2>1 DEF FillSlot, IndicesAgree, passvars
  <2>3. SlotsIntact'
    BY <1>4, <1>a, WriteKeepsWindow DEF FillSlot, IndicesAgree, passvars
  <2>4. NextIsFilled'
    <3>1. head \in Int  BY <1>a, WrapFacts DEF TypeOK
    <3>2. Slot(head) \in 0 .. (Size - 1)  BY <3>1, SlotRange
    <3>3. slots'[Slot(head)] = accepted + 1
      BY <1>4, <1>a, <3>2 DEF FillSlot, TypeOK
    <3>. QED  BY <1>4, <3>3 DEF FillSlot, NextIsFilled, Slot
  <2>5. BatchIntact' /\ ExactlyOnceInOrder'
    BY <1>4, <1>a DEF FillSlot, BatchIntact, ExactlyOnceInOrder, passvars
  <2>. QED  BY <2>2, <2>3, <2>4, <2>5 DEF RingInv
<1>5. CASE PublishHead
  <2>1. Taken' = Taken  BY <1>5 DEF PublishHead, Taken, passvars
  <2>2. head' = accepted' % Wrap
    BY <1>5, <1>a, <1>c, AdvanceCount DEF PublishHead, IndicesAgree
  <2>3. IndicesAgree'
    <3>1. accepted' = accepted + 1 /\ main = "filled" /\ main' = "count"
          /\ UNCHANGED << tail, out, cons, avail, batch >>
      BY <1>5 DEF PublishHead, passvars
    <3>2. tail' = Taken' % Wrap  BY <3>1, <2>1, <1>a DEF IndicesAgree
    <3>3. accepted - Taken \in 0 .. Size /\ accepted - Taken < Size
      BY <3>1, <1>a DEF IndicesAgree
    <3>4. accepted' - Taken' \in 0 .. Size  BY <3>1, <3>3, <2>1, <1>b, <1>c, WrapFacts
    <3>5. cons # "rest" => accepted' - Len(out) >= avail /\ avail > 0
      BY <3>1, <1>a, <1>c DEF IndicesAgree
    <3>. QED  BY <2>2, <3>1, <3>2, <3>4, <3>5, <1>a DEF IndicesAgree
  <2>4. slots[Slot(accepted)] = accepted + 1
    BY <1>5, <1>a, <1>c, SlotOfWrapped DEF PublishHead, NextIsFilled, IndicesAgree
  <2>5. SlotsIntact'
    <3> SUFFICES ASSUME NEW n \in (Taken + 1) .. (accepted + 1)
                 PROVE  slots[Slot(n - 1)] = n
      BY <1>5, <2>1 DEF PublishHead, SlotsIntact, Slot
    <3>1. CASE n = accepted + 1  BY <3>1, <2>4, <1>c
    <3>2. CASE n # accepted + 1
      <4>1. n \in (Taken + 1) .. accepted  BY <3>2, <1>b, <1>c
      <4>. QED  BY <4>1, <1>a DEF SlotsIntact
    <3>. QED  BY <3>1, <3>2
  <2>6. NextIsFilled'  BY <1>5 DEF PublishHead, NextIsFilled
  <2>7. BatchIntact' /\ ExactlyOnceInOrder'
    BY <1>5, <1>a DEF PublishHead, BatchIntact, ExactlyOnceInOrder, passvars
  <2>. QED  BY <2>3, <2>5, <2>6, <2>7 DEF RingInv
<1>6. CASE CountPush
  BY <1>6, QuietStep DEF CountPush, passvars
<1>7. CASE EmptyPass
  BY <1>7, QuietStep DEF EmptyPass, AfterPass, passvars
<1>8. CASE BeginPass
  <2>1. cons = "rest" /\ Taken = Len(out) /\ Taken' = Taken
    BY <1>8 DEF BeginPass, Taken
  <2>2. avail' \in 1 .. Batch /\ avail' <= accepted - Taken
    BY <1>8, <1>b, <1>c DEF BeginPass, Lesser
  <2>3. IndicesAgree'
    BY <1>8, <1>a, <1>b, <1>c, <2>1, <2>2 DEF BeginPass, IndicesAgree
  <2>4. SlotsIntact'  BY <1>8, <1>a, <2>1 DEF BeginPass, SlotsIntact, Slot
  <2>5. NextIsFilled'  BY <1>8, <1>a DEF BeginPass, NextIsFilled, Slot
  <2>6. BatchIntact' /\ ExactlyOnceInOrder'
    BY <1>8, <1>a DEF BeginPass, BatchIntact, ExactlyOnceInOrder
  <2>. QED  BY <2>3, <2>4, <2>5, <2>6 DEF RingInv
<1>9. CASE CopySlot
  <2>1. cons = "copy" /\ Taken = Len(out) /\ Taken' = Taken
        /\ Len(batch) < avail /\ avail <= accepted - Len(out)
    BY <1>9, <1>a DEF CopySlot, Taken, IndicesAgree
  <2>2. IndicesAgree'  BY <1>9, <1>a, <2>1 DEF CopySlot, IndicesAgree
  <2>3. SlotsIntact'  BY <1>9, <1>a, <2>1 DEF CopySlot, SlotsIntact, Slot
  <2>4. NextIsFilled'  BY <1>9, <1>a DEF CopySlot, NextIsFilled, Slot
  <2>5. slots[Slot(tail + Len(batch))] = Len(out) + Len(batch) + 1
    <3> DEFINE n == Len(out) + Len(batch) + 1
    <3>1. n \in (Taken + 1) .. accepted  BY <2>1, <1>c
    <3>2. slots[Slot(n - 1)] = n  BY <3>1, <1>a DEF SlotsIntact
    <3>3. Slot(tail + Len(batch)) = Slot(Len(out) + Len(batch))
      BY <1>a, <1>c, <2>1, SlotOfWrappedPlus DEF IndicesAgree
    <3>4. n - 1 = Len(out) + Len(batch)  BY <1>c
    <3>. QED  BY <3>2, <3>3, <3>4
  <2>6. BatchIntact'
    <3> DEFINE e == slots[Slot(tail + Len(batch))]
    <3>1. batch' = Append(batch, e) /\ out' = out  BY <1>9 DEF CopySlot
    <3>2. e \in Nat  BY <2>5, <1>c
    <3>3. /\ Len(batch') = Len(batch) + 1
          /\ batch'[Len(batch) + 1] = e
          /\ \A i \in 1 .. Len(batch) : batch'[i] = batch[i]
      BY <3>1, <3>2, <1>a, AppendProperties DEF TypeOK
    <3> HIDE DEF e
    <3> SUFFICES ASSUME NEW i \in 1 .. (Len(batch) + 1)
                 PROVE  batch'[i] = Len(out) + i
      BY <3>1, <3>3 DEF BatchIntact
    <3>4. CASE i = Len(batch) + 1  BY <3>3, <3>4, <2>5, <1>c DEF e
    <3>5. CASE i \in 1 .. Len(batch)  BY <3>3, <3>5, <1>a DEF BatchIntact
    <3>. QED  BY <3>4, <3>5, <1>c
  <2>7. ExactlyOnceInOrder'  BY <1>9, <1>a DEF CopySlot, ExactlyOnceInOrder
  <2>. QED  BY <2>2, <2>3, <2>4, <2>6, <2>7 DEF RingInv
<1>10. CASE ReleaseSlots
  <2>1. cons = "copy" /\ Taken = Len(out) /\ Taken' = Len(out) + avail
        /\ avail <= accepted - Len(out) /\ avail > 0
    BY <1>10, <1>a DEF ReleaseSlots, Taken, IndicesAgree
  <2>2. tail' = Taken' % Wrap
    BY <1>10, <1>a, <1>c, <2>1, AdvanceCount DEF ReleaseSlots, IndicesAgree
  <2>3. IndicesAgree'
    <3>1. cons' = "deliver" /\ Len(batch) = avail
          /\ UNCHANGED << head, main, out, avail, batch, accepted >>
      BY <1>10 DEF ReleaseSlots
    <3>2. head' = accepted' % Wrap  BY <3>1, <1>a DEF IndicesAgree
    <3>3. accepted - Taken \in 0 .. Size
          /\ (main \in {"checked", "torn", "filled"} =>
                accepted - Taken < Size /\ accepted < MaxPush)
      BY <1>a DEF IndicesAgree
    <3>4. accepted' - Taken' \in 0 .. Size
          /\ (main' \in {"checked", "torn", "filled"} =>
                accepted' - Taken' < Size /\ accepted' < MaxPush)
      BY <3>1, <3>3, <2>1, <1>c, WrapFacts
    <3>. QED  BY <2>1, <2>2, <3>1, <3>2, <3>4 DEF IndicesAgree
  <2>4. SlotsIntact'
    <3> SUFFICES ASSUME NEW n \in (Taken' + 1) .. accepted
                 PROVE  slots[Slot(n - 1)] = n
      BY <1>10 DEF ReleaseSlots, SlotsIntact, Slot
    <3>1. n \in (Taken + 1) .. accepted  BY <2>1, <1>b, <1>c
    <3>. QED  BY <3>1, <1>a DEF SlotsIntact
  <2>5. NextIsFilled'  BY <1>10, <1>a DEF ReleaseSlots, NextIsFilled, Slot
  <2>6. BatchIntact' /\ ExactlyOnceInOrder'
    BY <1>10, <1>a DEF ReleaseSlots, BatchIntact, ExactlyOnceInOrder
  <2>. QED  BY <2>3, <2>4, <2>5, <2>6 DEF RingInv
<1>11. CASE Deliver
  <2>1. cons = "deliver" /\ Len(batch) = avail /\ Taken = Len(out) + avail
    BY <1>11, <1>a DEF Deliver, Taken, IndicesAgree
  <2>2. /\ Len(out') = Len(out) + Len(batch)
        /\ \A i \in 1 .. Len(out) : out'[i] = out[i]
        /\ \A i \in (Len(out) + 1) .. (Len(out) + Len(batch)) :
              out'[i] = batch[i - Len(out)]
    <3>1. out' = out \o batch  BY <1>11 DEF Deliver
    <3>2. out \in Seq(Nat) /\ batch \in Seq(Nat)  BY <1>a DEF TypeOK
    <3>. QED  BY <3>1, <3>2, <1>c, ConcatProperties
  <2>3. Taken' = Taken  BY <1>11, <2>1, <2>2, <1>c DEF Deliver, Taken
  <2>4. IndicesAgree'
    <3>1. main' = main \/ main' = "idle"  BY <1>11 DEF Deliver, AfterPass
    <3>. QED  BY <1>11, <1>a, <1>b, <1>c, <2>3, <3>1 DEF Deliver, IndicesAgree
  <2>5. SlotsIntact'  BY <1>11, <1>a, <2>3 DEF Deliver, SlotsIntact, Slot
  <2>6. NextIsFilled'
    BY <1>11, <1>a DEF Deliver, AfterPass, NextIsFilled, Slot
  <2>7. BatchIntact'  BY <1>11 DEF Deliver, BatchIntact
  <2>8. ExactlyOnceInOrder'
    <3> SUFFICES ASSUME NEW i \in 1 .. (Len(out) + Len(batch))
                 PROVE  out'[i] = i
      BY <2>2 DEF ExactlyOnceInOrder
    <3>1. CASE i <= Len(out)
      BY <3>1, <2>2, <1>a, <1>c DEF ExactlyOnceInOrder
    <3>2. CASE i > Len(out)
      <4>1. i - Len(out) \in 1 .. Len(batch)  BY <3>2, <1>c
      <4>2. batch[i - Len(out)] = Len(out) + (i - Len(out))
        BY <4>1, <1>a DEF BatchIntact
      <4>. QED  BY <3>2, <4>2, <2>2, <1>c
    <3>. QED  BY <3>1, <3>2, <1>c
  <2>. QED  BY <2>4, <2>5, <2>6, <2>7, <2>8 DEF RingInv
<1>12. CASE TestRunning
  BY <1>12, QuietStep DEF TestRunning, passvars
<1>13. CASE Start
  BY <1>13, QuietStep DEF Start, passvars
<1>14. CASE Stop
  BY <1>14, QuietStep DEF Stop, passvars
<1>15. CASE Join
  BY <1>15, QuietStep DEF Join, passvars
<1>16. CASE DrainForeground
  BY <1>16, QuietStep DEF DrainForeground, passvars
<1>17. CASE UNCHANGED vars
  BY <1>17, QuietStep DEF vars, passvars
<1>. QED
  BY <1>1, <1>2, <1>3, <1>4, <1>5, <1>6, <1>7, <1>8, <1>9, <1>10, <1>11, <1>12,
     <1>13, <1>14, <1>15, <1>16, <1>17 DEF Next, Push, DrainPass

LEMMA InvAlways == Spec => []Inv
<1>1. Inv /\ [Next]_vars => Inv'  BY NextInv, NextType DEF Inv
<1>. QED  BY InitInv, <1>1, PTL DEF Spec

\* The ring stays intact at every interleaving: indices, slots and the batch
\* being drained agree with what was published and what was drained.
THEOREM RingIntact == Spec => []RingInv
<1>1. Inv => RingInv  BY DEF Inv
<1>. QED  BY InvAlways, <1>1, PTL

\* The drain callback sees every accepted entry once, whole and in order.
THEOREM DeliveryExactlyOnce == Spec => []ExactlyOnceInOrder
<1>1. Inv => ExactlyOnceInOrder  BY DEF Inv, RingInv
<1>. QED  BY InvAlways, <1>1, PTL

-----------------------------------------------------------------------------
(* drain_foreground.  Nothing is pushed while it runs and no thread exists,  *)
(* so that a pass takes all there is or a full batch.                        *)

ForegroundInv ==
  /\ Inv
  /\ started <=> thread # "none"
  /\ main = "drain" => ~started
  /\ cons # "rest" => Draining
  /\ main = "drain" /\ cons # "rest" => avail = Lesser(accepted - Len(out), Batch)

LEMMA ForegroundStep == ForegroundInv /\ [Next]_vars => ForegroundInv'
<1> SUFFICES ASSUME ForegroundInv, [Next]_vars  PROVE ForegroundInv'
  OBVIOUS
<1> USE DEF counters, control, passvars
<1>1. Inv /\ Inv'  BY NextInv, NextType DEF ForegroundInv, Inv
<1>2. CASE Push
  <2>1. main # "drain" /\ main' # "drain" /\ UNCHANGED << control, thread, passvars >>
    BY <1>2 DEF Push, Refuse, BeginPush, TearSlot, FillSlot, PublishHead, CountPush
  <2>. QED  BY <1>1, <2>1 DEF ForegroundInv, Draining
<1>3. CASE EmptyPass
  BY <1>1, <1>3 DEF EmptyPass, AfterPass, ForegroundInv, Draining
<1>4. CASE BeginPass
  <2>1. avail' = Lesser(accepted - Len(out), Batch)
    BY <1>1, <1>4, OccupiedIsBacklog DEF BeginPass, Inv, RingInv, Taken
  <2>. QED  BY <1>1, <1>4, <2>1 DEF BeginPass, ForegroundInv, Draining
<1>5. CASE CopySlot
  BY <1>1, <1>5 DEF CopySlot, ForegroundInv, Draining
<1>6. CASE ReleaseSlots
  BY <1>1, <1>6 DEF ReleaseSlots, ForegroundInv, Draining
<1>7. CASE Deliver
  BY <1>1, <1>7 DEF Deliver, AfterPass, ForegroundInv, Draining
<1>8. CASE TestRunning
  BY <1>1, <1>8 DEF TestRunning, ForegroundInv, Draining
<1>9. CASE Start  BY <1>1, <1>9 DEF Start, ForegroundInv, Draining
<1>10. CASE Stop  BY <1>1, <1>10 DEF Stop, ForegroundInv, Draining
<1>11. CASE Join  BY <1>1, <1>11 DEF Join, ForegroundInv, Draining
<1>12. CASE DrainForeground
  BY <1>1, <1>12 DEF DrainForeground, ForegroundInv, Draining
<1>13. CASE UNCHANGED vars
  BY <1>1, <1>13 DEF vars, ForegroundInv, Draining
<1>. QED
  BY <1>2, <1>3, <1>4, <1>5, <1>6, <1>7, <1>8, <1>9, <1>10, <1>11, <1>12, <1>13
  DEF Next, DrainPass

\* ghost_async_drain_foreground returns only when the ring is empty, at any backlog
\* and for any ring and batch size.
THEOREM ForegroundLeavesNothing == Spec => ForegroundEmpties
<1>1. Init => ForegroundInv
  BY InitInv DEF Init, ForegroundInv
<1>2. ASSUME ForegroundInv, [Next]_vars
      PROVE  [(main = "drain" /\ main' = "idle") => head' = tail']_vars
  <2> SUFFICES ASSUME Next, main = "drain", main' = "idle"  PROVE head' = tail'
    BY <1>2
  <2> USE DEF counters, control, passvars
  <2>1. Inv /\ TypeOK /\ IndicesAgree  BY <1>2 DEF ForegroundInv, Inv, RingInv
  <2>2. /\ Taken \in Nat /\ Occupied = accepted - Taken /\ accepted \in Nat
        /\ Len(out) \in Nat /\ avail \in Nat /\ Batch \in Nat
    BY <2>1, OccupiedIsBacklog, LenProperties, RingAssumption DEF TypeOK
  <2>3. EmptyPass \/ Deliver
    BY DEF Next, Push, DrainPass, Refuse, BeginPush, TearSlot, FillSlot, PublishHead,
           CountPush, BeginPass, CopySlot, ReleaseSlots, TestRunning, Start, Stop, Join,
           DrainForeground
  <2>4. head' = head /\ tail' = tail  BY <2>3 DEF EmptyPass, Deliver
  <2>5. accepted = Taken
    <3>1. CASE EmptyPass  BY <2>2, <3>1 DEF EmptyPass
    <3>2. CASE Deliver
      <4>1. avail < Batch /\ Taken = Len(out) + avail
        BY <3>2 DEF Deliver, AfterPass, Taken
      <4>2. avail = Lesser(accepted - Len(out), Batch)
        BY <1>2, <3>2 DEF Deliver, ForegroundInv
      <4>. QED  BY <2>2, <4>1, <4>2 DEF Lesser
    <3>. QED  BY <2>3, <3>1, <3>2
  <2>. QED  BY <2>1, <2>4, <2>5 DEF IndicesAgree
<1>. QED  BY <1>1, <1>2, ForegroundStep, PTL DEF Spec, ForegroundEmpties

-----------------------------------------------------------------------------
(* The refinement. *)

\* What waits in the ring is determined by the two counts.
LEMMA WaitingIs ==
  Inv => /\ Waiting = [i \in 1 .. (accepted - Taken) |-> Taken + i]
         /\ accepted - Taken \in Nat /\ Taken \in Nat
         /\ Waiting \in Seq(Nat)
         /\ Len(Waiting) = accepted - Taken
<1> SUFFICES ASSUME Inv
             PROVE  /\ Waiting = [i \in 1 .. (accepted - Taken) |-> Taken + i]
                    /\ accepted - Taken \in Nat /\ Taken \in Nat
                    /\ Waiting \in Seq(Nat)
                    /\ Len(Waiting) = accepted - Taken
  OBVIOUS
<1>1. Taken \in Nat /\ accepted \in Nat /\ accepted - Taken \in Nat
  BY OccupiedIsBacklog DEF Inv, RingInv, TypeOK
<1>2. ASSUME NEW i \in 1 .. (accepted - Taken)
      PROVE  slots[Slot(Taken + i - 1)] = Taken + i
  <2>1. Taken + i \in (Taken + 1) .. accepted  BY <1>1
  <2>2. (Taken + i) - 1 = Taken + i - 1  BY <1>1
  <2>. QED  BY <2>1, <2>2 DEF Inv, RingInv, SlotsIntact
<1>3. Waiting = [i \in 1 .. (accepted - Taken) |-> Taken + i]
  BY <1>2 DEF Waiting
<1>4. \A i \in 1 .. (accepted - Taken) : Taken + i \in Nat  BY <1>1
<1>5. Waiting \in Seq(Nat) /\ Len(Waiting) = accepted - Taken
  <2>1. Waiting \in [1 .. (accepted - Taken) -> Nat]  BY <1>3, <1>4
  <2>. QED  BY <2>1, <1>1
<1>. QED  BY <1>1, <1>3, <1>5

\* The same after a step.
LEMMA WaitingThen ==
  ASSUME Inv'
  PROVE  /\ Waiting' = [i \in 1 .. (accepted' - Taken') |-> Taken' + i]
         /\ accepted' - Taken' \in Nat
         /\ Waiting' \in Seq(Nat)
         /\ Len(Waiting') = accepted' - Taken'
<1>1. (Inv => /\ Waiting = [i \in 1 .. (accepted - Taken) |-> Taken + i]
              /\ accepted - Taken \in Nat /\ Taken \in Nat
              /\ Waiting \in Seq(Nat)
              /\ Len(Waiting) = accepted - Taken)'
  BY WaitingIs, PTL
<1>. QED  BY <1>1

\* A step that changes neither count nor what is handed over is invisible.
LEMMA InvisibleStep ==
  ASSUME Inv, Inv', Taken' = Taken,
         UNCHANGED << HandedOver, out, accepted, overflows >>
  PROVE  UNCHANGED Queue!vars
<1>1. Waiting' = Waiting  BY WaitingIs, WaitingThen
<1>. QED  BY <1>1 DEF Queue!vars

\* Publishing an entry is accepting it.
LEMMA PublishIsAccept ==
  ASSUME Inv, Inv', PublishHead  PROVE Queue!Accept
<1>1. Taken' = Taken /\ accepted' = accepted + 1 /\ HandedOver' = HandedOver
      /\ UNCHANGED << out, overflows >> /\ accepted \in Nat
  BY DEF PublishHead, Taken, HandedOver, counters, passvars, Inv, TypeOK
<1>2. accepted - Taken < Size /\ accepted < MaxPush
  BY DEF PublishHead, Inv, RingInv, IndicesAgree
<1>3. Waiting' = Append(Waiting, accepted + 1)
  <2> DEFINE app == Append(Waiting, accepted + 1)
             n == accepted - Taken
  <2>1. n \in Nat /\ Taken \in Nat /\ Len(Waiting) = n /\ Waiting \in Seq(Nat)
        /\ Waiting = [i \in 1 .. n |-> Taken + i]
    BY WaitingIs
  <2>2. /\ app \in Seq(Nat) /\ Len(app) = n + 1
        /\ app[n + 1] = accepted + 1
        /\ \A i \in 1 .. n : app[i] = Waiting[i]
    BY <2>1, <1>1, AppendProperties
  <2>3. accepted' - Taken' = n + 1  BY <1>1, <2>1
  <2>4. Waiting' = [i \in 1 .. (n + 1) |-> Taken + i]
        /\ Waiting' \in Seq(Nat) /\ Len(Waiting') = n + 1
    BY <1>1, <2>3, WaitingThen
  <2>5. ASSUME NEW i \in 1 .. (n + 1)  PROVE Waiting'[i] = app[i]
    <3>1. CASE i = n + 1
      <4>1. Taken + (n + 1) = accepted + 1  BY <1>1, <2>1
      <4>. QED  BY <3>1, <4>1, <2>2, <2>4
    <3>2. CASE i \in 1 .. n  BY <3>2, <2>1, <2>2, <2>4
    <3>. QED  BY <3>1, <3>2, <2>1
  <2> HIDE DEF app, n
  <2>6. Waiting' = app  BY <2>2, <2>4, <2>5, SeqEqual
  <2>. QED  BY <2>6 DEF app
<1>4. Len(Waiting) < Size  BY <1>2, WaitingIs
<1>. QED  BY <1>1, <1>2, <1>3, <1>4 DEF Queue!Accept

\* Releasing the slots of a batch is taking the batch from the queue.
LEMMA ReleaseIsTake ==
  ASSUME Inv, Inv', ReleaseSlots  PROVE \E n \in 1 .. Batch : Queue!Take(n)
<1>1. /\ cons = "copy" /\ cons' = "deliver" /\ Len(batch) = avail
      /\ UNCHANGED << out, accepted, overflows, avail, batch >>
  BY DEF ReleaseSlots, counters
<1>2. avail \in 1 .. Batch /\ avail <= accepted - Len(out)
  BY <1>1, RingAssumption DEF Inv, RingInv, IndicesAgree, TypeOK
<1>3. Taken = Len(out) /\ Taken' = Taken + avail /\ HandedOver = << >>
      /\ HandedOver' = batch
  BY <1>1 DEF Taken, HandedOver
<1> DEFINE n == accepted - Taken
<1>4. n \in Nat /\ Taken \in Nat /\ Len(Waiting) = n
      /\ Waiting = [i \in 1 .. n |-> Taken + i]
  BY WaitingIs
<1>5. avail <= n /\ accepted \in Nat  BY <1>2, <1>3 DEF Inv, TypeOK
<1>6. batch = [i \in 1 .. avail |-> Waiting[i]]
  <2>1. batch \in [1 .. avail -> Nat]
    BY <1>1, LenProperties DEF Inv, TypeOK
  <2>2. ASSUME NEW i \in 1 .. avail  PROVE batch[i] = Waiting[i]
    <3>1. batch[i] = Len(out) + i
      BY <1>1 DEF Inv, RingInv, BatchIntact
    <3>. QED  BY <3>1, <1>2, <1>3, <1>4, <1>5
  <2>. QED  BY <2>1, <2>2
<1>7. Waiting' = [i \in 1 .. (n - avail) |-> Waiting[avail + i]]
  <2>1. accepted' - Taken' = n - avail  BY <1>1, <1>2, <1>3, <1>4, <1>5
  <2>2. Waiting' = [i \in 1 .. (n - avail) |-> (Taken + avail) + i]
    BY <1>3, <2>1, WaitingThen
  <2>3. ASSUME NEW i \in 1 .. (n - avail)
        PROVE  Waiting[avail + i] = (Taken + avail) + i
    BY <1>2, <1>4, <1>5
  <2>. QED  BY <2>2, <2>3
<1>8. Queue!Take(avail)
  BY <1>1, <1>2, <1>3, <1>4, <1>5, <1>6, <1>7 DEF Queue!Take
<1>. QED  BY <1>2, <1>8

\* Calling the callback is handing the batch over.
LEMMA DeliverIsHandOver ==
  ASSUME Inv, Inv', Deliver  PROVE Queue!HandOver
<1>1. /\ cons = "deliver" /\ cons' = "rest" /\ out' = out \o batch
      /\ UNCHANGED << accepted, overflows >>
  BY DEF Deliver
<1>2. Len(batch) = avail /\ avail > 0
  BY <1>1 DEF Inv, RingInv, IndicesAgree
<1>3. batch # << >>  BY <1>2, EmptySeq
<1>4. HandedOver = batch /\ HandedOver' = << >>  BY <1>1 DEF HandedOver
<1>5. Taken' = Taken
  <2>1. Len(out') = Len(out) + Len(batch)
    BY <1>1, ConcatProperties DEF Inv, TypeOK
  <2>2. Len(out) \in Nat /\ avail \in Nat
    BY LenProperties, RingAssumption DEF Inv, TypeOK
  <2>. QED  BY <1>1, <1>2, <2>1, <2>2 DEF Taken
<1>6. Waiting' = Waiting  BY <1>1, <1>5, WaitingIs, WaitingThen
<1>. QED  BY <1>1, <1>3, <1>4, <1>6 DEF Queue!HandOver

LEMMA StepRefines == Inv /\ Inv' /\ [Next]_vars => [Queue!Next]_(Queue!vars)
<1> SUFFICES ASSUME Inv, Inv', [Next]_vars
             PROVE  [Queue!Next]_(Queue!vars)
  OBVIOUS
<1>1. CASE Refuse
  <2>1. Taken' = Taken /\ UNCHANGED << HandedOver, out, accepted >>
    BY <1>1 DEF Refuse, Taken, HandedOver, passvars
  <2>2. Waiting' = Waiting  BY <2>1, WaitingIs, WaitingThen
  <2>3. Len(Waiting) = Size
    <3>1. Len(Waiting) = Occupied /\ Occupied \in 0 .. Size
      BY WaitingIs, OccupiedIsBacklog DEF Inv, RingInv
    <3>. QED  BY <1>1, <3>1, WrapFacts DEF Refuse
  <2>4. Queue!Refuse  BY <1>1, <2>1, <2>2, <2>3 DEF Refuse, Queue!Refuse
  <2>. QED  BY <2>4 DEF Queue!Next
<1>2. CASE BeginPush
  BY <1>2, InvisibleStep DEF BeginPush, Taken, HandedOver, passvars, counters
<1>3. CASE TearSlot
  BY <1>3, InvisibleStep DEF TearSlot, Taken, HandedOver, passvars, counters
<1>4. CASE FillSlot
  BY <1>4, InvisibleStep DEF FillSlot, Taken, HandedOver, passvars, counters
<1>5. CASE PublishHead  BY <1>5, PublishIsAccept DEF Queue!Next
<1>6. CASE CountPush
  BY <1>6, InvisibleStep DEF CountPush, Taken, HandedOver, passvars
<1>7. CASE EmptyPass
  BY <1>7, InvisibleStep DEF EmptyPass, Taken, HandedOver, passvars, counters
<1>8. CASE BeginPass
  BY <1>8, InvisibleStep DEF BeginPass, Taken, HandedOver, counters
<1>9. CASE CopySlot
  BY <1>9, InvisibleStep DEF CopySlot, Taken, HandedOver, counters
<1>10. CASE ReleaseSlots  BY <1>10, ReleaseIsTake DEF Queue!Next
<1>11. CASE Deliver  BY <1>11, DeliverIsHandOver DEF Queue!Next
<1>12. CASE TestRunning
  BY <1>12, InvisibleStep DEF TestRunning, Taken, HandedOver, passvars, counters
<1>13. CASE Start
  BY <1>13, InvisibleStep DEF Start, Taken, HandedOver, passvars, counters
<1>14. CASE Stop
  BY <1>14, InvisibleStep DEF Stop, Taken, HandedOver, passvars, counters
<1>15. CASE Join
  BY <1>15, InvisibleStep DEF Join, Taken, HandedOver, passvars, counters
<1>16. CASE DrainForeground
  BY <1>16, InvisibleStep
     DEF DrainForeground, Taken, HandedOver, passvars, counters
<1>17. CASE UNCHANGED vars
  BY <1>17, InvisibleStep DEF vars, Taken, HandedOver, passvars, counters
<1>. QED
  BY <1>1, <1>2, <1>3, <1>4, <1>5, <1>6, <1>7, <1>8, <1>9, <1>10, <1>11, <1>12,
     <1>13, <1>14, <1>15, <1>16, <1>17 DEF Next, Push, DrainPass

LEMMA InitRefines == Init => Queue!Init
<1> SUFFICES ASSUME Init  PROVE Queue!Init
  OBVIOUS
<1>1. Taken = 0 /\ accepted = 0  BY DEF Init, Taken
<1>2. Waiting = << >>  BY <1>1 DEF Waiting
<1>. QED  BY <1>2 DEF Init, Queue!Init, HandedOver

\* The ring with its two threads implements the bounded FIFO queue: whatever
\* the interleaving, a caller cannot tell the lock-free ring from the queue.
THEOREM RingImplementsQueue == Spec => ImplementsQueue
<1>1. Inv /\ Inv' /\ [Next]_vars => [Queue!Next]_(Queue!vars)
  BY StepRefines
<1>. QED  BY InitRefines, InvAlways, <1>1, PTL DEF Spec, ImplementsQueue, Queue!Spec
=============================================================================
