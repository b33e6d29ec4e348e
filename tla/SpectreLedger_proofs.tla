------------------------ MODULE SpectreLedger_proofs ------------------------
(***************************************************************************)
(* Proofs about SpectreLedger for any lanes, ring size and number of       *)
(* writes: what was synced stays, the ring holds the newest entries, and a *)
(* confirmed entry has its block whole in the file.                        *)
(***************************************************************************)
EXTENDS SpectreLedger, ModArith, SequenceTheorems

-----------------------------------------------------------------------------
(* Blocks in a file.                                                         *)

Unit == Nat \X {1, 2}

\* WholeIn, of any sequence of units.
Holds(q, block, n) ==
  \E i \in 1 .. n : i < n /\ SubSeq(q, i, i + 1) = Units(block)

LEMMA UnitsOfBlock ==
  ASSUME NEW b \in Nat
  PROVE  /\ Units(b) \in Seq(Unit) /\ Len(Units(b)) = 2
         /\ SubSeq(Units(b), 1, 2) = Units(b)
<1>1. Units(b) \in Seq(Unit) /\ Len(Units(b)) = 2  BY DEF Units, Unit
<1>2. SubSeq(Units(b), 1, Len(Units(b))) = Units(b)  BY <1>1, SubSeqFull
<1>. QED  BY <1>1, <1>2

\* What a torn append leaves: some first part of the block.
LEMMA PartOfBlock ==
  ASSUME NEW b \in Nat, NEW written \in 0 .. 2
  PROVE  /\ SubSeq(Units(b), 1, written) \in Seq(Unit)
         /\ Len(SubSeq(Units(b), 1, written)) = written
<1>1. \A i \in 1 .. written : Units(b)[i] \in Unit  BY DEF Units, Unit
<1>2. /\ SubSeq(Units(b), 1, written) \in Seq(Unit)
      /\ Len(SubSeq(Units(b), 1, written))
           = IF 1 <= written THEN written - 1 + 1 ELSE 0
  BY <1>1, SubSeqProperties
<1>. QED  BY <1>2

\* A block stays where it is when the file grows, and when it is cut behind it.
LEMMA HoldsAfterAppend ==
  ASSUME NEW q \in Seq(Unit), NEW r \in Seq(Unit), NEW b, NEW n \in 0 .. Len(q),
         Holds(q, b, n)
  PROVE  Holds(q \o r, b, n)
<1>1. PICK i \in 1 .. n : i < n /\ SubSeq(q, i, i + 1) = Units(b)  BY DEF Holds
<1>2. i \in 1 .. Len(q) /\ i + 1 \in 1 .. Len(q)  BY <1>1
<1>3. SubSeq(q \o r, i, i + 1) = SubSeq(q, i, i + 1)  BY <1>2, SubSeqOfConcat1
<1>. QED  BY <1>1, <1>3 DEF Holds

LEMMA HoldsAfterCut ==
  ASSUME NEW q \in Seq(Unit), NEW b, NEW k \in 0 .. Len(q), NEW n \in 0 .. k,
         Holds(q, b, n)
  PROVE  Holds(SubSeq(q, 1, k), b, n)
<1>1. PICK i \in 1 .. n : i < n /\ SubSeq(q, i, i + 1) = Units(b)  BY DEF Holds
<1>2. /\ 1 \in 1 .. Len(q) /\ k \in 1 .. Len(q)
      /\ i \in 1 .. k - 1 + 1 /\ i + 1 \in 1 .. k - 1 + 1
  BY <1>1
<1>3. SubSeq(SubSeq(q, 1, k), i, i + 1) = SubSeq(q, 1 + i - 1, 1 + (i + 1) - 1)
  BY <1>2, SubSeqOfSubSeq
<1>4. 1 + i - 1 = i /\ 1 + (i + 1) - 1 = i + 1  OBVIOUS
<1>. QED  BY <1>1, <1>3, <1>4 DEF Holds

LEMMA HoldsWithinMore ==
  ASSUME NEW q, NEW b, NEW n \in Nat, NEW m \in Nat, n <= m, Holds(q, b, n)
  PROVE  Holds(q, b, m)
  BY DEF Holds

LEMMA SecondPart ==
  ASSUME NEW q \in Seq(Unit), NEW r \in Seq(Unit), Len(r) = 2
  PROVE  SubSeq(q \o r, Len(q) + 1, Len(q) + 2) = SubSeq(r, 1, 2)
<1>1. Len(q) \in Nat  OBVIOUS
<1> DEFINE m == Len(q) + 1
           n == Len(q) + 2
<1>2. m \in Len(q) + 1 .. Len(q) + Len(r) /\ n \in Len(q) + 1 .. Len(q) + Len(r)
  BY <1>1
<1>3. m - Len(q) = 1 /\ n - Len(q) = 2  BY <1>1
<1> HIDE DEF m, n
<1>4. SubSeq(q \o r, m, n) = SubSeq(r, m - Len(q), n - Len(q))
  BY <1>2, SubSeqOfConcat2
<1>. QED  BY <1>3, <1>4 DEF m, n

LEMMA HoldsAppended ==
  ASSUME NEW q \in Seq(Unit), NEW b \in Nat
  PROVE  Holds(q \o Units(b), b, Len(q) + 2)
<1>1. Len(q) \in Nat /\ Len(Units(b)) = 2 /\ Units(b) \in Seq(Unit)  BY UnitsOfBlock
<1>2. SubSeq(q \o Units(b), Len(q) + 1, Len(q) + 2) = Units(b)
  BY <1>1, SecondPart, UnitsOfBlock
<1>3. (Len(q) + 1) + 1 = Len(q) + 2  BY <1>1
<1>5. SubSeq(q \o Units(b), Len(q) + 1, (Len(q) + 1) + 1) = Units(b)  BY <1>2, <1>3
<1>6. Len(q) + 1 \in 1 .. (Len(q) + 2) /\ Len(q) + 1 < Len(q) + 2  BY <1>1
<1>. QED  BY <1>5, <1>6 DEF Holds

-----------------------------------------------------------------------------
(* The lane files (DeltaWriter).  DeltaKept is inductive with the fact that   *)
(* an acknowledged block whose fflush worked is in the kernel's file.         *)

DeltaTypes ==
  /\ file \in [Lanes -> Seq(Unit)] /\ offset \in [Lanes -> Nat]
  /\ durable \in [Lanes -> Nat] /\ \A l \in Lanes : durable[l] <= Len(file[l])
  /\ acked \in [Lanes -> SUBSET Nat] /\ synced \in [Lanes -> SUBSET Nat]
  /\ lost \in [Lanes -> SUBSET Nat]

AckedIsWritten ==
  \A l \in Lanes : \A block \in acked[l] \ lost[l] : Holds(file[l], block, Len(file[l]))

SyncedHolds ==
  \A l \in Lanes : \A block \in synced[l] : Holds(file[l], block, durable[l])

DeltaInv == DeltaTypes /\ OffsetIsFileSize /\ AckedIsWritten /\ SyncedHolds

LEMMA DeltaInitially ==
  DeltaInit => DeltaInv
  BY DEF DeltaInit, DeltaInv, DeltaTypes, OffsetIsFileSize, AckedIsWritten, SyncedHolds

LEMMA AppendKeeps ==
  ASSUME DeltaInv, NEW l \in Lanes, NEW b \in Nat, NEW ok \in BOOLEAN,
         DeltaAppend(l, b, ok)
  PROVE  DeltaInv'
<1> USE DEF DeltaInv
<1>1. PICK written \in 0 .. 2 :
        /\ written = 2 => ok
        /\ file' = [file EXCEPT ![l] = @ \o SubSeq(Units(b), 1, written)]
        /\ torn' = IF written < 2 THEN torn \cup {l} ELSE torn
        /\ lost' = IF ~ok THEN lost
                   ELSE IF written < 2 THEN [lost EXCEPT ![l] = @ \cup {b}]
                   ELSE [lost EXCEPT ![l] = @ \ {b}]
  BY DEF DeltaAppend
<1>2. /\ dw_open' = dw_open /\ durable' = durable /\ synced' = synced
      /\ offset' = IF ok THEN [offset EXCEPT ![l] = @ + 2] ELSE offset
      /\ acked' = IF ok THEN [acked EXCEPT ![l] = @ \cup {b}] ELSE acked
  BY DEF DeltaAppend, Advanced
<1>a. written \in 0 .. 2  OBVIOUS
<1>b. /\ SubSeq(Units(b), 1, written) \in Seq(Unit)
      /\ Len(SubSeq(Units(b), 1, written)) = written
  BY <1>a, PartOfBlock, Zenon
<1> DEFINE more == SubSeq(Units(b), 1, written)
<1>3. more \in Seq(Unit) /\ Len(more) = written  BY <1>b
<1>4. file[l] \in Seq(Unit) /\ Len(file[l]) \in Nat  BY DEF DeltaTypes
<1> HIDE DEF more
<1>5. /\ file'[l] = file[l] \o more /\ file'[l] \in Seq(Unit)
      /\ Len(file'[l]) = Len(file[l]) + written
      /\ \A k \in Lanes \ {l} : file'[k] = file[k]
  BY <1>1, <1>3, <1>4 DEF DeltaTypes, more
<1>6. DeltaTypes'
  <2>1. file' \in [Lanes -> Seq(Unit)]  BY <1>1, <1>3, <1>4 DEF DeltaTypes, more
  <2>2. \A k \in Lanes : durable'[k] <= Len(file'[k])
    <3> SUFFICES ASSUME NEW k \in Lanes  PROVE durable'[k] <= Len(file'[k])
      OBVIOUS
    <3>1. durable'[k] = durable[k] /\ durable[k] \in Nat /\ durable[k] <= Len(file[k])
      BY <1>2 DEF DeltaTypes
    <3>. QED  BY <3>1, <1>a, <1>4, <1>5
  <2>3. offset' \in [Lanes -> Nat]  BY <1>2 DEF DeltaTypes
  <2>4. /\ acked' \in [Lanes -> SUBSET Nat] /\ lost' \in [Lanes -> SUBSET Nat]
        /\ synced' \in [Lanes -> SUBSET Nat] /\ durable' \in [Lanes -> Nat]
    BY <1>1, <1>2 DEF DeltaTypes
  <2>. QED  BY <2>1, <2>2, <2>3, <2>4 DEF DeltaTypes
<1>7. OffsetIsFileSize'
  <2> SUFFICES ASSUME dw_open', NEW k \in Lanes \ torn'
               PROVE  offset'[k] = Len(file'[k])
    BY DEF OffsetIsFileSize
  <2>1. k \in Lanes \ torn /\ offset[k] = Len(file[k])
    BY <1>1, <1>2 DEF OffsetIsFileSize
  <2>2. CASE k = l
    <3>1. written = 2 /\ ok  BY <1>1, <2>2
    <3>. QED  BY <1>2, <1>5, <2>1, <2>2, <3>1 DEF DeltaTypes
  <2>3. CASE k # l  BY <1>2, <1>5, <2>1, <2>3 DEF DeltaTypes
  <2>. QED  BY <2>2, <2>3
<1>8. AckedIsWritten'
  <2> SUFFICES ASSUME NEW k \in Lanes, NEW x \in acked'[k] \ lost'[k]
               PROVE  Holds(file'[k], x, Len(file'[k]))
    BY DEF AckedIsWritten
  <2>1. CASE x \in acked[k] \ lost[k]
    <3>1. Holds(file[k], x, Len(file[k]))  BY <2>1 DEF AckedIsWritten
    <3>2. CASE k = l
      <4>1. Holds(file'[l], x, Len(file[l]))
        BY <1>3, <1>4, <1>5, <3>1, <3>2, HoldsAfterAppend
      <4>2. Len(file'[l]) \in Nat /\ Len(file[l]) <= Len(file'[l])  BY <1>4, <1>5
      <4>. QED  BY <4>1, <4>2, <3>2, <1>4, HoldsWithinMore
    <3>3. CASE k # l  BY <3>1, <3>3, <1>5
    <3>. QED  BY <3>2, <3>3
  <2>2. CASE x \notin acked[k] \ lost[k]
    <3>1. k = l /\ x = b /\ ok /\ written = 2
      BY <1>1, <1>2, <2>2 DEF DeltaTypes
    <3>2. file'[l] = file[l] \o Units(b) /\ Len(file'[l]) = Len(file[l]) + 2
      BY <1>5, <3>1, UnitsOfBlock DEF more
    <3>. QED  BY <3>1, <3>2, <1>4, HoldsAppended
  <2>. QED  BY <2>1, <2>2
<1>9. SyncedHolds'
  <2> SUFFICES ASSUME NEW k \in Lanes, NEW x \in synced[k]
               PROVE  Holds(file'[k], x, durable[k])
    BY <1>2 DEF SyncedHolds
  <2>1. Holds(file[k], x, durable[k]) /\ durable[k] \in 0 .. Len(file[k])
    BY DEF SyncedHolds, DeltaTypes
  <2>2. CASE k = l
    BY <2>1, <2>2, <1>3, <1>4, <1>5, HoldsAfterAppend
  <2>3. CASE k # l  BY <2>1, <2>3, <1>5
  <2>. QED  BY <2>2, <2>3
<1>. QED  BY <1>6, <1>7, <1>8, <1>9

LEMMA SyncKeeps ==
  ASSUME DeltaInv, NEW l \in Lanes, NEW ok \in BOOLEAN, DeltaSync(l, ok)
  PROVE  DeltaInv'
<1> USE DEF DeltaInv
<1>1. PICK kept \in durable[l] .. Len(file[l]) :
        (ok => kept = Len(file[l])) /\ durable' = [durable EXCEPT ![l] = kept]
  BY DEF DeltaSync
<1>2. /\ synced' = IF ok THEN [synced EXCEPT ![l] = @ \cup (acked[l] \ lost[l])]
                   ELSE synced
      /\ UNCHANGED << dw_open, file, offset, acked, lost, torn >>
  BY DEF DeltaSync
<1>3. durable[l] \in Nat /\ Len(file[l]) \in Nat /\ kept \in Nat
  BY <1>1 DEF DeltaTypes
<1>4. DeltaTypes'  BY <1>1, <1>2, <1>3 DEF DeltaTypes
<1>5. OffsetIsFileSize' /\ AckedIsWritten'
  BY <1>2 DEF OffsetIsFileSize, AckedIsWritten
<1>6. SyncedHolds'
  <2> SUFFICES ASSUME NEW k \in Lanes, NEW x \in synced'[k]
               PROVE  Holds(file[k], x, durable'[k])
    BY <1>2 DEF SyncedHolds
  <2>1. durable[k] \in Nat /\ durable'[k] \in Nat /\ durable[k] <= durable'[k]
    BY <1>1, <1>3, <1>4 DEF DeltaTypes
  <2>2. CASE x \in synced[k]
    <3>1. Holds(file[k], x, durable[k])  BY <2>2 DEF SyncedHolds
    <3>. QED  BY <3>1, <2>1, HoldsWithinMore
  <2>3. CASE x \notin synced[k]
    <3>1. k = l /\ ok /\ x \in acked[l] \ lost[l]  BY <1>2, <2>3 DEF DeltaTypes
    <3>2. durable'[l] = Len(file[l])  BY <1>1, <3>1 DEF DeltaTypes
    <3>. QED  BY <3>1, <3>2 DEF AckedIsWritten
  <2>. QED  BY <2>2, <2>3
<1>. QED  BY <1>4, <1>5, <1>6

\* A power failure cuts every file behind what is durable.
LEMMA PowerKeeps ==
  ASSUME DeltaInv, PowerFails
  PROVE  DeltaInv'
<1> USE DEF DeltaInv
<1>1. PICK kept \in [Lanes -> 0 .. 2 * MaxWrites] :
        /\ \A l \in Lanes : kept[l] \in durable[l] .. Len(file[l])
        /\ file' = [l \in Lanes |-> SubSeq(file[l], 1, kept[l])]
        /\ durable' = kept
  BY DEF PowerFails
<1>2. /\ dw_open' = FALSE /\ acked' = [l \in Lanes |-> {}]
      /\ UNCHANGED << offset, synced, lost, torn >>
  BY DEF PowerFails
<1>3. \A l \in Lanes : file[l] \in Seq(Unit) /\ Len(file[l]) \in Nat
                       /\ durable[l] \in Nat /\ kept[l] \in Nat
  BY <1>1 DEF DeltaTypes
<1>4. ASSUME NEW l \in Lanes
      PROVE  file'[l] \in Seq(Unit) /\ Len(file'[l]) = kept[l]
  <2>1. \A i \in 1 .. kept[l] : file[l][i] \in Unit  BY <1>1, <1>3
  <2>2. /\ SubSeq(file[l], 1, kept[l]) \in Seq(Unit)
        /\ Len(SubSeq(file[l], 1, kept[l]))
             = IF 1 <= kept[l] THEN kept[l] - 1 + 1 ELSE 0
    BY <2>1, <1>3, SubSeqProperties
  <2>. QED  BY <2>2, <1>1, <1>3
<1>5. DeltaTypes'
  <2>1. file' \in [Lanes -> Seq(Unit)]  BY <1>1, <1>4
  <2>2. durable' \in [Lanes -> Nat]  BY <1>1, <1>3
  <2>3. \A l \in Lanes : durable'[l] <= Len(file'[l])  BY <1>1, <1>3, <1>4
  <2>. QED  BY <2>1, <2>2, <2>3, <1>2 DEF DeltaTypes
<1>6. OffsetIsFileSize' /\ AckedIsWritten'
  BY <1>2 DEF OffsetIsFileSize, AckedIsWritten
<1>7. SyncedHolds'
  <2> SUFFICES ASSUME NEW k \in Lanes, NEW x \in synced[k]
               PROVE  Holds(file'[k], x, durable'[k])
    BY <1>2 DEF SyncedHolds
  <2>1. Holds(file[k], x, durable[k])  BY DEF SyncedHolds
  <2>2. kept[k] \in 0 .. Len(file[k]) /\ durable[k] \in 0 .. kept[k]  BY <1>1, <1>3
  <2>3. Holds(SubSeq(file[k], 1, kept[k]), x, durable[k])
    BY <2>1, <2>2, <1>3, HoldsAfterCut
  <2>4. Holds(SubSeq(file[k], 1, kept[k]), x, kept[k])
    BY <2>2, <2>3, <1>3, HoldsWithinMore
  <2>. QED  BY <2>4, <1>1
<1>. QED  BY <1>5, <1>6, <1>7

LEMMA OpenAndCloseKeep ==
  ASSUME DeltaInv, DeltaOpen \/ DeltaClose
  PROVE  DeltaInv'
<1> USE DEF DeltaInv
<1>1. CASE DeltaOpen
  <2>1. /\ offset' = [l \in Lanes |-> Len(file[l])]
        /\ UNCHANGED << file, durable, acked, synced, lost >>
    BY <1>1 DEF DeltaOpen
  <2>2. ASSUME NEW l \in Lanes  PROVE Len(file[l]) \in Nat
    <3>1. file[l] \in Seq(Unit)  BY DEF DeltaTypes
    <3>. QED  BY <3>1
  <2>a. offset' \in [Lanes -> Nat]  BY <2>1, <2>2
  <2>3. DeltaTypes'  BY <2>1, <2>a DEF DeltaTypes
  <2>. QED  BY <2>1, <2>3 DEF OffsetIsFileSize, AckedIsWritten, SyncedHolds
<1>2. CASE DeltaClose
  BY <1>2 DEF DeltaClose, DeltaTypes, OffsetIsFileSize, AckedIsWritten, SyncedHolds
<1>. QED  BY <1>1, <1>2

-----------------------------------------------------------------------------
(* The ring.  tail is reduced by an overflow and not by a pop, head never is, *)
(* so that only their remainders tell where the ring ends: tail and count     *)
(* together lead to the slot that head leads to.                              *)

EntrySet == [batch : Nat, lane : Lanes, world_offset : Nat \cup {Pending}]

RingTypes ==
  /\ entries \in [Slots -> EntrySet] /\ taken \in EntrySet /\ place \in Nat
  /\ head \in Nat /\ tail \in Nat /\ count \in Nat /\ batches \in Nat
  /\ pushed \in Seq(Nat)

Newest ==
  /\ count <= RingMax /\ count <= Len(pushed)
  /\ (tail + count) % RingMax = head % RingMax
  /\ \A i \in 1 .. count :
       entries[(tail + i - 1) % RingMax].batch = pushed[Len(pushed) - count + i]

LedgerInv == RingTypes /\ (~emptied => Newest)

LEMMA SlotOf ==
  ASSUME NEW i \in Int
  PROVE  i % RingMax \in Slots
  BY LedgerAssumption, Division DEF Slots

LEMMA SameSlot ==
  ASSUME NEW a \in Int, NEW b \in Int, NEW i \in Int, a % RingMax = b % RingMax
  PROVE  (a + i) % RingMax = (b + i) % RingMax
<1>0. RingMax \in Nat \ {0}  BY LedgerAssumption
<1>1. ((a % RingMax) + i) % RingMax = (a + i) % RingMax  BY <1>0, RemainderAdd
<1>2. ((b % RingMax) + i) % RingMax = (b + i) % RingMax  BY <1>0, RemainderAdd
<1>. QED  BY <1>1, <1>2

LEMMA NextSlot ==
  ASSUME NEW a \in Int, NEW b \in Int, a % RingMax = b % RingMax
  PROVE  (a + 1) % RingMax = (b + 1) % RingMax
<1>1. 1 \in Int  OBVIOUS
<1>. QED  BY <1>1, SameSlot

LEMMA ZeroedIsEntry ==
  Zeroed \in EntrySet
<1>1. (CHOOSE l \in Lanes : TRUE) \in Lanes  BY LedgerAssumption
<1>. QED  BY <1>1 DEF Zeroed, EntrySet

\* An empty ring, as spectre_init leaves it.
LEMMA EmptyRing ==
  ASSUME entries = [s \in Slots |-> Zeroed], head = 0, tail = 0, count = 0,
         taken = Zeroed, place = 0, batches \in Nat, pushed = << >>, emptied = FALSE
  PROVE  LedgerInv
<1>0. << >> \in Seq(Nat)  OBVIOUS
<1>1. RingTypes  BY <1>0, ZeroedIsEntry DEF RingTypes
<1>2. Newest  BY LedgerAssumption DEF Newest
<1>. QED  BY <1>1, <1>2 DEF LedgerInv

LEMMA PushKeeps ==
  ASSUME LedgerInv, NEW l \in Lanes, Push(l)
  PROVE  LedgerInv'
<1>1. /\ entries' = [entries EXCEPT ![head % RingMax] = Entry(batches + 1, l)]
      /\ head' = head + 1 /\ batches' = batches + 1
      /\ pushed' = Append(pushed, batches + 1)
      /\ UNCHANGED << taken, place, emptied >>
  BY DEF Push, flusher
<1>2. RingTypes  BY DEF LedgerInv
<1>3. head % RingMax \in Slots /\ RingMax \in Nat \ {0}
  <2>1. head \in Int  BY <1>2 DEF RingTypes
  <2>. QED  BY <2>1, SlotOf, LedgerAssumption
<1>4. Entry(batches + 1, l) \in EntrySet /\ Entry(batches + 1, l).batch = batches + 1
  BY <1>2 DEF RingTypes, Entry, EntrySet
<1>5. /\ pushed' \in Seq(Nat) /\ Len(pushed) \in Nat /\ Len(pushed') = Len(pushed) + 1
      /\ \A i \in 1 .. Len(pushed) : pushed'[i] = pushed[i]
      /\ pushed'[Len(pushed) + 1] = batches + 1
  BY <1>1, <1>2 DEF RingTypes
<1>6. tail' \in Nat /\ count' \in Nat
  <2>1. tail \in Nat /\ count \in Nat  BY <1>2 DEF RingTypes
  <2>2. (tail + 1) % RingMax \in Nat  BY <2>1, SlotOf, <1>3 DEF Slots
  <2>. QED  BY <2>1, <2>2 DEF Push, MakeRoom
<1>7. RingTypes'  BY <1>1, <1>2, <1>3, <1>4, <1>5, <1>6 DEF RingTypes
<1>8. ASSUME ~emptied  PROVE Newest'
  <2>0. Newest  BY <1>8 DEF LedgerInv
  <2>1. /\ tail \in Nat /\ head \in Nat /\ count \in Nat /\ count <= RingMax
        /\ count <= Len(pushed) /\ (tail + count) % RingMax = head % RingMax
    BY <1>2, <2>0 DEF RingTypes, Newest
  \* The slot that head leads to holds the new entry, and no other of the ring.
  <2>2. ASSUME NEW j \in Int, tail <= j, j < tail + count, tail + count - j < RingMax
        PROVE  entries'[j % RingMax] = entries[j % RingMax]
    <3> DEFINE e == tail + count
    <3>0. e \in Int /\ j \in Int /\ j # e /\ j - e < RingMax /\ e - j < RingMax
      BY <2>1, <2>2, <1>3
    <3> HIDE DEF e
    <3>a. j % RingMax # e % RingMax  BY <3>0, <1>3, RemainderDistinct
    <3>1. j % RingMax # (tail + count) % RingMax  BY <3>a DEF e
    <3>. QED  BY <3>1, <2>1, <1>1
  <2>3. entries'[(tail + count) % RingMax].batch = batches + 1
    BY <2>1, <1>1, <1>2, <1>3, <1>4 DEF RingTypes
  <2>4. CASE ~Full
    <3>1. tail' = tail /\ count' = count + 1 /\ count < RingMax
      BY <2>1, <2>4, <1>3 DEF Push, MakeRoom, Full
    <3>2. (tail' + count') % RingMax = head' % RingMax
      <4>1. ((tail + count) + 1) % RingMax = (head + 1) % RingMax
        <5>1. tail + count \in Int /\ head \in Int  BY <2>1
        <5>. QED  BY <5>1, <2>1, NextSlot
      <4>2. tail' + count' = (tail + count) + 1  BY <3>1, <2>1
      <4>. QED  BY <4>1, <4>2, <1>1
    <3>3. ASSUME NEW i \in 1 .. count'
          PROVE  entries'[(tail' + i - 1) % RingMax].batch
                   = pushed'[Len(pushed') - count' + i]
      <4>1. CASE i <= count
        <5>1. entries'[(tail + i - 1) % RingMax] = entries[(tail + i - 1) % RingMax]
          BY <4>1, <3>1, <2>1, <2>2, <1>3
        <5>2. entries[(tail + i - 1) % RingMax].batch = pushed[Len(pushed) - count + i]
          BY <4>1, <2>0 DEF Newest
        <5>3. /\ Len(pushed') - count' + i = Len(pushed) - count + i
              /\ Len(pushed) - count + i \in 1 .. Len(pushed)
          BY <4>1, <3>1, <2>1, <1>5
        <5>. QED  BY <5>1, <5>2, <5>3, <3>1, <1>5
      <4>2. CASE i = count + 1
        <5>1. /\ tail' + i - 1 = tail + count
              /\ Len(pushed') - count' + i = Len(pushed) + 1
          BY <4>2, <3>1, <2>1, <1>5
        <5>. QED  BY <5>1, <2>3, <1>5
      <4>. QED  BY <4>1, <4>2, <3>1, <2>1
    <3>. QED  BY <3>1, <3>2, <3>3, <2>1, <1>3, <1>5 DEF Newest
  <2>5. CASE Full
    <3>1. tail' = (tail + 1) % RingMax /\ count' = count /\ count = RingMax
      BY <2>1, <2>5, <1>3 DEF Push, MakeRoom, Full
    <3>2. ASSUME NEW i \in Int
          PROVE  (tail' + i) % RingMax = (tail + 1 + i) % RingMax
      <4> DEFINE t == tail + 1
      <4>1. t \in Int  BY <2>1
      <4> HIDE DEF t
      <4>2. ((t % RingMax) + i) % RingMax = (t + i) % RingMax
        BY <4>1, <1>3, RemainderAdd
      <4>. QED  BY <4>2, <3>1 DEF t
    <3>3. (tail' + count') % RingMax = head' % RingMax
      <4>1. ((tail + count) + 1) % RingMax = (head + 1) % RingMax
        <5>1. tail + count \in Int /\ head \in Int  BY <2>1
        <5>. QED  BY <5>1, <2>1, NextSlot
      <4>2. count \in Int  BY <2>1
      <4>3. (tail' + count) % RingMax = (tail + 1 + count) % RingMax  BY <4>2, <3>2
      <4>4. tail + 1 + count = (tail + count) + 1  BY <2>1
      <4>. QED  BY <4>1, <4>3, <4>4, <3>1, <1>1
    <3>4. ASSUME NEW i \in 1 .. count'
          PROVE  entries'[(tail' + i - 1) % RingMax].batch
                   = pushed'[Len(pushed') - count' + i]
      <4>0. (tail' + i - 1) % RingMax = (tail + i) % RingMax
        <5>1. i - 1 \in Int /\ tail + 1 + (i - 1) = tail + i  BY <2>1
        <5>2. (tail' + (i - 1)) % RingMax = (tail + i) % RingMax  BY <5>1, <3>2
        <5>3. tail' + (i - 1) = tail' + i - 1  BY <1>6
        <5>. QED  BY <5>2, <5>3
      <4>1. CASE i < count
        <5>0. /\ tail + i \in Int /\ tail <= tail + i /\ tail + i < tail + count
              /\ tail + count - (tail + i) < RingMax
          BY <4>1, <3>1, <2>1, <1>3
        <5>1. entries'[(tail + i) % RingMax] = entries[(tail + i) % RingMax]
          BY <5>0, <2>2
        <5>2. i + 1 \in 1 .. count /\ tail + (i + 1) - 1 = tail + i  BY <4>1, <2>1
        <5>3. entries[(tail + (i + 1) - 1) % RingMax].batch
                = pushed[Len(pushed) - count + (i + 1)]
          BY <5>2, <2>0 DEF Newest
        <5>4. /\ Len(pushed') - count' + i = Len(pushed) - count + (i + 1)
              /\ Len(pushed) - count + (i + 1) \in 1 .. Len(pushed)
          BY <4>1, <3>1, <2>1, <1>5
        <5>. QED  BY <4>0, <5>1, <5>2, <5>3, <5>4, <1>5
      <4>2. CASE i = count
        <5>1. Len(pushed') - count' + i = Len(pushed) + 1  BY <4>2, <3>1, <2>1, <1>5
        <5>. QED  BY <4>0, <4>2, <5>1, <2>3, <1>5
      <4>. QED  BY <4>1, <4>2, <3>1, <2>1
    <3>. QED  BY <3>1, <3>3, <3>4, <2>1, <1>3, <1>5 DEF Newest
  <2>. QED  BY <2>4, <2>5
<1>. QED  BY <1>1, <1>7, <1>8 DEF LedgerInv

\* A pop takes the oldest entry, as long as the count tells that there is one.
LEMMA PopKeeps ==
  ASSUME LedgerInv, PopOldest,
         UNCHANGED << entries, head, taken, place, batches, pushed >>
  PROVE  LedgerInv'
<1>1. RingTypes  BY DEF LedgerInv
<1>2. RingTypes'  BY <1>1 DEF RingTypes, PopOldest
<1>3. ASSUME ~emptied'  PROVE Newest'
  <2>1. CASE UNCHANGED << tail, count, emptied >>
    BY <2>1, <1>3 DEF LedgerInv, Newest
  <2>2. CASE tail' = tail + 1 /\ count' = count - 1 /\ count > 0 /\ ~emptied
    <3>1. Newest  BY <2>2 DEF LedgerInv
    <3>2. /\ tail \in Nat /\ count \in Nat /\ Len(pushed) \in Nat
          /\ tail' + count' = tail + count
      BY <1>1, <2>2 DEF RingTypes
    <3>3. ASSUME NEW i \in 1 .. count'
          PROVE  entries[(tail' + i - 1) % RingMax].batch
                   = pushed[Len(pushed) - count' + i]
      <4>1. /\ i + 1 \in 1 .. count /\ tail' + i - 1 = tail + (i + 1) - 1
            /\ Len(pushed) - count' + i = Len(pushed) - count + (i + 1)
        BY <2>2, <3>2
      <4>2. entries[(tail + (i + 1) - 1) % RingMax].batch
              = pushed[Len(pushed) - count + (i + 1)]
        BY <4>1, <3>1 DEF Newest
      <4>. QED  BY <4>1, <4>2
    <3>4. count' <= RingMax /\ count' <= Len(pushed)
      BY <2>2, <3>1, <3>2, LedgerAssumption DEF Newest
    <3>5. (tail' + count') % RingMax = head % RingMax  BY <3>1, <3>2 DEF Newest
    <3>. QED  BY <3>3, <3>4, <3>5 DEF Newest
  <2>3. tail' = tail + 1 /\ count # 0 => count > 0  BY <1>1 DEF RingTypes
  <2>. QED  BY <1>1, <1>3, <2>1, <2>2, <2>3, LedgerAssumption DEF PopOldest, RingTypes
<1>. QED  BY <1>2, <1>3 DEF LedgerInv

LEMMA WorkerKeeps ==
  ASSUME LedgerInv, DeltaInv,
         Peek \/ Confirm \/ \E ok \in BOOLEAN : AppendBatch(ok) \/ SyncBatch(ok)
  PROVE  LedgerInv'
<1>1. RingTypes  BY DEF LedgerInv
<1> USE DEF LedgerInv
<1>2. CASE Peek
  <2>1. /\ taken' = entries[tail % RingMax]
        /\ UNCHANGED << entries, head, tail, count, place, batches, pushed, emptied >>
    BY <1>2 DEF Peek, ring
  <2>2. taken' \in EntrySet  BY <2>1, <1>1, SlotOf DEF RingTypes
  <2>. QED  BY <2>1, <2>2 DEF RingTypes, Newest
<1>3. CASE Confirm
  <2>1. /\ entries' = IF count > 0
                      THEN [entries EXCEPT ![OldestSlot].world_offset = place]
                      ELSE entries
        /\ UNCHANGED << head, tail, count, taken, place, batches, pushed, emptied >>
    BY <1>3 DEF Confirm, history
  <2>2. OldestSlot \in Slots  BY <1>1, SlotOf DEF RingTypes, OldestSlot
  <2>3. entries' \in [Slots -> EntrySet]
    BY <2>1, <2>2, <1>1 DEF RingTypes, EntrySet
  <2>4. \A s \in Slots : entries'[s].batch = entries[s].batch
    BY <2>1, <2>2, <1>1 DEF RingTypes, EntrySet
  <2>5. RingTypes'  BY <2>1, <2>3, <1>1 DEF RingTypes
  <2>6. ASSUME Newest  PROVE Newest'
    <3>1. ASSUME NEW i \in 1 .. count
          PROVE  entries'[(tail + i - 1) % RingMax].batch
                   = pushed[Len(pushed) - count + i]
      <4>1. tail + i - 1 \in Int  BY <1>1 DEF RingTypes
      <4>2. (tail + i - 1) % RingMax \in Slots  BY <4>1, SlotOf
      <4>. QED  BY <4>2, <2>4, <2>6 DEF Newest
    <3>. QED  BY <3>1, <2>1, <2>6 DEF Newest
  <2>. QED  BY <2>1, <2>5, <2>6
<1>4. ASSUME NEW ok \in BOOLEAN, AppendBatch(ok)  PROVE LedgerInv'
  <2>1. /\ place' = offset[taken.lane]
        /\ UNCHANGED << entries, head, tail, count, taken, batches, pushed, emptied >>
    BY <1>4 DEF AppendBatch, ring, history
  <2>2. place' \in Nat
    BY <2>1, <1>1 DEF RingTypes, EntrySet, DeltaInv, DeltaTypes
  <2>. QED  BY <2>1, <2>2 DEF RingTypes, Newest
<1>5. ASSUME NEW ok \in BOOLEAN, SyncBatch(ok)  PROVE LedgerInv'
  BY <1>5 DEF SyncBatch, ring, history, RingTypes, Newest
<1>. QED  BY <1>2, <1>3, <1>4, <1>5

-----------------------------------------------------------------------------
SpectreInv == DeltaInv /\ LedgerInv

LEMMA SpectreInitially ==
  Init => SpectreInv
<1> SUFFICES ASSUME Init  PROVE SpectreInv
  OBVIOUS
<1>1. /\ entries = [s \in Slots |-> Zeroed] /\ head = 0 /\ tail = 0 /\ count = 0
      /\ taken = Zeroed /\ place = 0 /\ batches \in Nat /\ pushed = << >>
      /\ emptied = FALSE
  BY DEF Init
<1>2. LedgerInv  BY <1>1, EmptyRing
<1>. QED  BY <1>2, DeltaInitially DEF Init, SpectreInv

LEMMA SpectreStep ==
  SpectreInv /\ [Next]_vars => SpectreInv'
<1> SUFFICES ASSUME SpectreInv, [Next]_vars  PROVE SpectreInv'
  OBVIOUS
<1> USE DEF SpectreInv
<1>a. ASSUME UNCHANGED delta  PROVE DeltaInv'
  BY <1>a DEF delta, DeltaInv, DeltaTypes, OffsetIsFileSize, AckedIsWritten, SyncedHolds
<1>b. ASSUME UNCHANGED << ring, flusher, history >>  PROVE LedgerInv'
  BY <1>b DEF ring, flusher, history, LedgerInv, RingTypes, Newest
<1>1. ASSUME NEW l \in Lanes, Push(l)  PROVE SpectreInv'
  BY <1>1, <1>a, PushKeeps DEF Push
<1>2. CASE Pop \/ PopOther
  BY <1>2, <1>a, PopKeeps DEF Pop, PopOther, flusher
<1>3. CASE Peek \/ Confirm
  BY <1>3, <1>a, WorkerKeeps DEF Peek, Confirm
<1>4. ASSUME NEW ok \in BOOLEAN, AppendBatch(ok) \/ SyncBatch(ok)
      PROVE  SpectreInv'
  <2>1. taken.lane \in Lanes /\ taken.batch \in Nat
    BY DEF LedgerInv, RingTypes, EntrySet
  <2>2. DeltaInv'
    BY <1>4, <2>1, AppendKeeps, SyncKeeps DEF AppendBatch, SyncBatch
  <2>. QED  BY <1>4, <2>2, WorkerKeeps
<1>5. CASE (DeltaOpen \/ DeltaClose) /\ UNCHANGED << ring, flusher, history >>
  BY <1>5, <1>b, OpenAndCloseKeep
<1>6. CASE PowerFails /\ Forget
  <2>1. batches' \in Nat  BY <1>6 DEF Forget, LedgerInv, RingTypes
  <2>2. /\ entries' = [s \in Slots |-> Zeroed] /\ head' = 0 /\ tail' = 0 /\ count' = 0
        /\ taken' = Zeroed /\ place' = 0 /\ pushed' = << >> /\ emptied' = FALSE
    BY <1>6 DEF Forget
  <2>a. << >> \in Seq(Nat)  OBVIOUS
  <2>3. RingTypes'  BY <2>1, <2>2, <2>a, ZeroedIsEntry DEF RingTypes
  <2>4. Newest'  BY <2>2, LedgerAssumption DEF Newest
  <2>. QED  BY <1>6, <2>3, <2>4, PowerKeeps DEF LedgerInv
<1>7. CASE UNCHANGED vars  BY <1>7, <1>a, <1>b DEF vars
<1>. QED  BY <1>1, <1>2, <1>3, <1>4, <1>5, <1>6, <1>7 DEF Next

\* Where a block is, and that a synced one stays, over torn appends, failing syncs,
\* closings and power failures, for any lanes and any number of writes
\* (pogls_delta.h lines 48-153).
THEOREM SyncedStays ==
  Spec => []DeltaKept
<1>1. SpectreInv => DeltaKept
  BY DEF SpectreInv, DeltaInv, SyncedHolds, Holds, DeltaKept, SyncedSurvives, WholeIn
<1>. QED  BY <1>1, SpectreInitially, SpectreStep, PTL DEF Spec

\* The ring of the ledger keeps the newest entries in order, for any ring size, although
\* its two indices wrap differently (pogls_spectre.h lines 67-110).
THEOREM NewestKept ==
  Spec => []HoldsNewest
<1>1. SpectreInv => HoldsNewest
  BY DEF SpectreInv, LedgerInv, Newest, HoldsNewest
<1>. QED  BY <1>1, SpectreInitially, SpectreStep, PTL DEF Spec

-----------------------------------------------------------------------------
(* What is confirmed.  A confirmed entry stays in the ring only until the     *)
(* worker pops, so that what matters is whether the worker is still at the    *)
(* entry it took.                                                             *)

\* A batch lies whole at a place of its lane's file, within the first n units.
At(l, block, p, n) ==
  l \in torn \/ (p + 2 <= n /\ SubSeq(file[l], p + 1, p + 2) = Units(block))

Oldest == entries[tail % RingMax]

\* What the worker has reached, whatever happens to the ring meanwhile.
WorkerInv ==
  /\ worker \in {"peek", "append", "sync", "confirm", "pop"}
  /\ worker \in {"sync", "confirm", "pop"} => dw_open
  /\ worker = "sync" => At(taken.lane, taken.batch, place, Len(file[taken.lane]))
  /\ worker = "confirm" => At(taken.lane, taken.batch, place, durable[taken.lane])

\* The live entries are pending, except one that is about to be popped; and as long
\* as nobody overtakes the worker, the oldest is the one it took.
LiveInv ==
  /\ count <= head - tail
  /\ \A i \in 0 .. (count - 1) :
       \/ entries[(tail + i) % RingMax].world_offset = Pending
       \/ i = 0 /\ worker = "pop"
  /\ worker # "peek" /\ ~overtaken => count > 0
  /\ worker \in {"append", "sync", "confirm"} /\ ~overtaken =>
       Oldest.batch = taken.batch /\ Oldest.lane = taken.lane
  /\ worker = "pop" /\ ~overtaken =>
       At(Oldest.lane, Oldest.batch, Oldest.world_offset, durable[Oldest.lane])

ConfirmInv == SpectreInv /\ WorkerInv /\ (~emptied => LiveInv)

\* A push leaves the live entries where tail leads to them, less the one it drops,
\* and adds a pending one.
LEMMA LiveAfterPush ==
  ASSUME LedgerInv, ~emptied, NEW l \in Lanes, Push(l), NEW i \in 0 .. (count' - 1)
  PROVE  \/ entries'[(tail' + i) % RingMax].world_offset = Pending
         \/ ~Full /\ i < count /\ entries'[(tail' + i) % RingMax] = entries[(tail + i) % RingMax]
         \/ /\ Full /\ i + 1 < count
            /\ entries'[(tail' + i) % RingMax] = entries[(tail + (i + 1)) % RingMax]
<1>1. /\ entries' = [entries EXCEPT ![head % RingMax] = Entry(batches + 1, l)]
      /\ RingTypes /\ Newest
  BY DEF Push, LedgerInv
<1>2. /\ tail \in Nat /\ head \in Nat /\ count \in Nat /\ count <= RingMax
      /\ (tail + count) % RingMax = head % RingMax /\ RingMax \in Nat \ {0}
  BY <1>1, LedgerAssumption DEF RingTypes, Newest
<1>3. head % RingMax \in Slots  BY <1>2, SlotOf
<1>4. entries'[head % RingMax].world_offset = Pending
  BY <1>1, <1>3 DEF RingTypes, Entry
<1>5. ASSUME NEW j \in Int, 0 <= j, j < count, count - j < RingMax
      PROVE  entries'[(tail + j) % RingMax] = entries[(tail + j) % RingMax]
  <2> DEFINE e == tail + count
             d == tail + j
  <2>1. e \in Int /\ d \in Int /\ d # e /\ d - e < RingMax /\ e - d < RingMax
    BY <1>2, <1>5
  <2>2. d % RingMax # e % RingMax
    <3> HIDE DEF d, e
    <3>. QED  BY <1>2, <2>1, RemainderDistinct
  <2>. QED  BY <1>1, <1>2, <2>2
<1>6. CASE ~Full
  <2>1. tail' = tail /\ count' = count + 1 /\ count < RingMax
    BY <1>2, <1>6 DEF Push, MakeRoom, Full
  <2>2. CASE i = count
    BY <1>2, <1>4, <2>1, <2>2
  <2>3. CASE i # count
    <3>1. i \in Int /\ 0 <= i /\ i < count /\ count - i < RingMax
      BY <1>2, <2>1, <2>3
    <3>. QED  BY <1>5, <1>6, <2>1, <3>1
  <2>. QED  BY <2>2, <2>3
<1>7. CASE Full
  <2>1. tail' = (tail + 1) % RingMax /\ count' = count /\ count = RingMax
    BY <1>2, <1>7 DEF Push, MakeRoom, Full
  <2>2. (tail' + i) % RingMax = (tail + (i + 1)) % RingMax
    <3> DEFINE t == tail + 1
    <3>1. t \in Int /\ i \in Int  BY <1>2, <2>1
    <3>2. tail + (i + 1) = t + i  BY <1>2, <3>1
    <3> HIDE DEF t
    <3>3. ((t % RingMax) + i) % RingMax = (t + i) % RingMax
      BY <1>2, <3>1, RemainderAdd
    <3>. QED  BY <2>1, <3>2, <3>3 DEF t
  <2>3. CASE i + 1 = count
    BY <1>2, <1>4, <2>2, <2>3
  <2>4. CASE i + 1 # count
    <3>1. i + 1 \in Int /\ 0 <= i + 1 /\ i + 1 < count /\ count - (i + 1) < RingMax
      BY <1>2, <2>1, <2>4
    <3>. QED  BY <1>5, <1>7, <2>2, <3>1
  <2>. QED  BY <2>3, <2>4
<1>. QED  BY <1>6, <1>7

LEMMA ConfirmInit == Init => ConfirmInv
<1> SUFFICES ASSUME Init  PROVE ConfirmInv
  OBVIOUS
<1>1. worker = "peek" /\ count = 0 /\ head = 0 /\ tail = 0  BY DEF Init
<1>. QED  BY <1>1, SpectreInitially DEF ConfirmInv, WorkerInv, LiveInv

LEMMA PushConfirms ==
  ASSUME ConfirmInv, SpectreInv', NEW l \in Lanes, Push(l)
  PROVE  ConfirmInv'
<1>1. /\ UNCHANGED << file, torn, durable, dw_open >>
      /\ UNCHANGED << worker, taken, place, emptied >>
      /\ overtaken' = (overtaken \/ (Full /\ worker # "peek")) /\ head' = head + 1
  BY DEF Push, flusher, delta
<1>2. LedgerInv /\ RingTypes /\ (~emptied => Newest)
  BY DEF ConfirmInv, SpectreInv, LedgerInv
<1>3. /\ tail \in Nat /\ head \in Nat /\ count \in Nat /\ RingMax \in Nat \ {0}
  BY <1>2, LedgerAssumption DEF RingTypes
<1>4. WorkerInv'  BY <1>1 DEF ConfirmInv, WorkerInv, At
<1>5. ASSUME ~emptied'  PROVE LiveInv'
  <2>1. LiveInv /\ Newest /\ ~emptied  BY <1>1, <1>2, <1>5 DEF ConfirmInv
  <2>2. count' <= head' - tail' /\ count' >= count
    <3>1. CASE ~Full
      BY <1>1, <1>3, <2>1, <3>1 DEF LiveInv, Push, MakeRoom
    <3>2. CASE Full
      <4>1. tail' = (tail + 1) % RingMax /\ count' = count
        BY <1>3, <3>2 DEF Push, MakeRoom
      <4>2. (tail + 1) % RingMax <= tail + 1
        <5> DEFINE t == tail + 1
                   q == t \div RingMax
                   r == t % RingMax
        <5>1. t \in Nat  BY <1>3
        <5>2. q \in Int /\ r \in 0 .. (RingMax - 1) /\ t = RingMax * q + r
          BY <1>3, <5>1, Division
        <5> HIDE DEF t, q, r
        <5>3. q >= 0
          <6> SUFFICES ASSUME q <= -1  PROVE FALSE
            BY <5>2
          <6>1. RingMax * q <= RingMax * (-1)  BY <1>3, <5>2, SMT
          <6>. QED  BY <1>3, <5>1, <5>2, <6>1
        <5>4. RingMax * q >= 0  BY <1>3, <5>2, <5>3, SMT
        <5>5. RingMax * q \in Int  BY <1>3, <5>2
        <5>6. r <= t  BY <5>1, <5>2, <5>4, <5>5
        <5>. QED  BY <5>6 DEF t, r
      <4>3. (tail + 1) % RingMax \in Int  BY <1>3, Division
      <4>. QED  BY <1>1, <1>3, <2>1, <4>1, <4>2, <4>3 DEF LiveInv
    <3>. QED  BY <3>1, <3>2
  <2>3. ASSUME NEW i \in 0 .. (count' - 1)
        PROVE  \/ entries'[(tail' + i) % RingMax].world_offset = Pending
               \/ i = 0 /\ worker' = "pop"
    <3>1. CASE entries'[(tail' + i) % RingMax].world_offset = Pending
      BY <3>1
    <3>2. CASE /\ i < count
               /\ entries'[(tail' + i) % RingMax] = entries[(tail + i) % RingMax]
      <4>1. i \in 0 .. (count - 1)  BY <1>3, <3>2
      <4>. QED  BY <1>1, <2>1, <3>2, <4>1 DEF LiveInv
    <3>3. CASE /\ i + 1 < count
               /\ entries'[(tail' + i) % RingMax] = entries[(tail + (i + 1)) % RingMax]
      <4>1. i + 1 \in 0 .. (count - 1) /\ i + 1 # 0  BY <1>3, <3>3
      <4>2. entries[(tail + (i + 1)) % RingMax].world_offset = Pending
        BY <2>1, <4>1 DEF LiveInv
      <4>. QED  BY <3>3, <4>2
    <3>. QED  BY <1>2, <2>1, <3>1, <3>2, <3>3, LiveAfterPush
  <2>4. ASSUME worker' # "peek", ~overtaken'
        PROVE  count > 0 /\ ~overtaken /\ Oldest' = Oldest
    <3>1. ~Full /\ ~overtaken /\ count > 0  BY <1>1, <2>1, <2>4 DEF LiveInv
    <3>2. /\ head % RingMax = (tail + count) % RingMax /\ tail' = tail
          /\ entries' = [entries EXCEPT ![head % RingMax] = Entry(batches + 1, l)]
          /\ count < RingMax
      BY <1>3, <2>1, <3>1 DEF Push, MakeRoom, Newest, Full
    <3> DEFINE e == tail + count
    <3>3. tail \in Int /\ e \in Int /\ tail # e /\ tail - e < RingMax /\ e - tail < RingMax
      BY <1>3, <3>1, <3>2
    <3>a. RingMax \in Nat \ {0}  BY <1>3
    <3>4. tail % RingMax # e % RingMax
      <4> HIDE DEF e
      <4>. QED  BY <3>3, <3>a, RemainderDistinct
    <3>. QED  BY <3>1, <3>2, <3>4 DEF Oldest
  <2>5. worker' # "peek" /\ ~overtaken' => count' > 0
    <3>1. count' \in Int  BY <1>3 DEF Push, MakeRoom
    <3>. QED  BY <1>3, <2>2, <2>4, <3>1
  <2>6. worker' \in {"append", "sync", "confirm"} /\ ~overtaken' =>
          Oldest'.batch = taken'.batch /\ Oldest'.lane = taken'.lane
    BY <1>1, <2>1, <2>4 DEF LiveInv
  <2>7. worker' = "pop" /\ ~overtaken' =>
          At(Oldest.lane, Oldest.batch, Oldest.world_offset, durable[Oldest.lane])'
    <3> SUFFICES ASSUME worker' = "pop", ~overtaken'
                 PROVE  At(Oldest.lane, Oldest.batch, Oldest.world_offset,
                           durable[Oldest.lane])'
      OBVIOUS
    <3>1. At(Oldest.lane, Oldest.batch, Oldest.world_offset, durable[Oldest.lane])
      BY <1>1, <2>1, <2>4 DEF LiveInv
    <3>2. Oldest' = Oldest  BY <2>4
    <3>. QED  BY <1>1, <3>1, <3>2 DEF At
  <2>. QED  BY <2>2, <2>3, <2>5, <2>6, <2>7 DEF LiveInv
<1>. QED  BY <1>4, <1>5 DEF ConfirmInv

\* A pop, of the worker or of another caller: the ring empties from the front.
LEMMA PopConfirms ==
  ASSUME ConfirmInv, SpectreInv', Pop \/ PopOther
  PROVE  ConfirmInv'
<1>1. /\ UNCHANGED << file, torn, durable, dw_open >>
      /\ UNCHANGED << entries, head, taken, place >> /\ PopOldest
      /\ \/ worker = "pop" /\ worker' = "peek"
         \/ worker' = worker /\ overtaken' = (overtaken \/ worker # "peek")
  BY DEF Pop, PopOther, flusher, delta
<1>2. RingTypes  BY DEF ConfirmInv, SpectreInv, LedgerInv
<1>3. tail \in Nat /\ head \in Nat /\ count \in Nat  BY <1>2 DEF RingTypes
<1>4. WorkerInv'  BY <1>1 DEF ConfirmInv, WorkerInv, At
<1>5. worker' # "peek" => overtaken'  BY <1>1
<1>6. ASSUME ~emptied'  PROVE LiveInv'
  <2>1. ~emptied
    <3>1. emptied' = emptied \/ emptied' = (emptied \/ count = 0)
      BY <1>1 DEF PopOldest
    <3>. QED  BY <1>6, <3>1
  <2>a. LiveInv  BY <2>1 DEF ConfirmInv
  <2>2. CASE tail = head /\ UNCHANGED << tail, count >>
    <3>1. count' = 0 /\ count' <= head' - tail'
      BY <1>1, <1>3, <2>a, <2>2 DEF LiveInv
    <3>. QED  BY <1>5, <3>1 DEF LiveInv
  <2>3. CASE tail' = tail + 1 /\ count' = count - 1 /\ count > 0
    <3>1. count' <= head' - tail'  BY <1>1, <1>3, <2>a, <2>3 DEF LiveInv
    <3>2. ASSUME NEW i \in 0 .. (count' - 1)
          PROVE  entries'[(tail' + i) % RingMax].world_offset = Pending
      <4>1. i + 1 \in 0 .. (count - 1) /\ i + 1 # 0 /\ tail' + i = tail + (i + 1)
        BY <1>3, <2>3
      <4>2. entries[(tail + (i + 1)) % RingMax].world_offset = Pending
        BY <2>a, <4>1 DEF LiveInv
      <4>. QED  BY <1>1, <4>1, <4>2
    <3>. QED  BY <1>5, <3>1, <3>2 DEF LiveInv
  <2>4. tail = head \/ (tail' = tail + 1 /\ count # 0)
    BY <1>1, <1>6 DEF PopOldest
  <2>. QED  BY <1>1, <1>3, <2>2, <2>3, <2>4 DEF PopOldest
<1>. QED  BY <1>4, <1>6 DEF ConfirmInv

\* The worker's steps.
LEMMA SecondLength ==
  ASSUME NEW q \in Seq(Unit), NEW r \in Seq(Unit), Len(r) = 2
  PROVE  Len(q \o r) = Len(q) + 2 /\ Len(q) \in Nat
<1>1. Len(q \o r) = Len(q) + Len(r)  BY ConcatProperties
<1>2. Len(q) \in Nat  BY LenProperties
<1>. QED  BY <1>1, <1>2

LEMMA WorkerConfirms ==
  ASSUME ConfirmInv, SpectreInv',
         Peek \/ Confirm \/ \E ok \in BOOLEAN : AppendBatch(ok) \/ SyncBatch(ok)
  PROVE  ConfirmInv'
<1>1. /\ RingTypes /\ DeltaTypes /\ OffsetIsFileSize /\ WorkerInv
      /\ (~emptied => LiveInv)
  BY DEF ConfirmInv, SpectreInv, LedgerInv, DeltaInv
<1>2. /\ tail \in Nat /\ head \in Nat /\ count \in Nat /\ tail + 0 = tail
      /\ taken \in EntrySet /\ taken.lane \in Lanes /\ taken.batch \in Nat
      /\ OldestSlot \in Slots /\ entries \in [Slots -> EntrySet] /\ place \in Nat
  <2>1. /\ tail \in Nat /\ head \in Nat /\ count \in Nat /\ place \in Nat
        /\ taken \in EntrySet /\ entries \in [Slots -> EntrySet]
    BY <1>1 DEF RingTypes
  <2>2. taken.lane \in Lanes /\ taken.batch \in Nat  BY <2>1 DEF EntrySet
  <2>. QED  BY <2>1, <2>2, SlotOf DEF OldestSlot
<1>3. CASE Peek
  <2>1. /\ worker' = "append" /\ taken' = Oldest /\ ~overtaken' /\ count > 0
        /\ worker = "peek" /\ Oldest' = Oldest
        /\ UNCHANGED << entries, head, tail, count, emptied >>
    BY <1>3 DEF Peek, ring, Oldest
  <2>2. WorkerInv'  BY <2>1 DEF WorkerInv
  <2>3. ~emptied' => LiveInv'  BY <1>1, <2>1 DEF LiveInv
  <2>. QED  BY <2>2, <2>3 DEF ConfirmInv
<1>4. CASE Confirm
  <2>1. /\ worker = "confirm" /\ worker' = "pop"
        /\ UNCHANGED << file, torn, durable, dw_open >>
        /\ UNCHANGED << head, tail, count, taken, place, emptied, overtaken >>
        /\ entries' = IF count > 0
                      THEN [entries EXCEPT ![OldestSlot].world_offset = place] ELSE entries
    BY <1>4 DEF Confirm, history, delta
  <2>2. WorkerInv'  BY <1>1, <2>1 DEF WorkerInv
  <2>3. ASSUME ~emptied'  PROVE LiveInv'
    <3>1. LiveInv  BY <1>1, <2>1, <2>3
    <3>2. ASSUME NEW i \in 0 .. (count - 1), i # 0
          PROVE  entries'[(tail + i) % RingMax].world_offset = Pending
      <4>1. entries[(tail + i) % RingMax].world_offset = Pending
        BY <3>1, <3>2 DEF LiveInv
      <4>2. (tail + i) % RingMax # OldestSlot
        <5>1. count <= RingMax /\ RingMax \in Nat \ {0}
          BY <2>1, <2>3, LedgerAssumption
          DEF ConfirmInv, SpectreInv, LedgerInv, Newest
        <5> DEFINE j == tail + i
        <5>2. tail \in Int /\ j \in Int /\ j # tail /\ j - tail < RingMax /\ tail - j < RingMax
          BY <1>2, <3>2, <5>1
        <5>3. j % RingMax # tail % RingMax
          <6> HIDE DEF j
          <6>. QED  BY <5>1, <5>2, RemainderDistinct
        <5>. QED  BY <5>3 DEF OldestSlot
      <4>3. (tail + i) % RingMax \in Slots
        <5>1. tail + i \in Int  BY <1>2, <3>2
        <5>. QED  BY <5>1, SlotOf
      <4>4. entries'[(tail + i) % RingMax] = entries[(tail + i) % RingMax]
        BY <1>2, <2>1, <4>2, <4>3
      <4>. QED  BY <4>1, <4>4
    <3>3. ASSUME NEW i \in 0 .. (count' - 1)
          PROVE  \/ entries'[(tail' + i) % RingMax].world_offset = Pending
                 \/ i = 0 /\ worker' = "pop"
      BY <2>1, <3>2
    <3>4. ASSUME ~overtaken'
          PROVE  At(Oldest.lane, Oldest.batch, Oldest.world_offset, durable[Oldest.lane])'
      <4>1. count > 0 /\ Oldest.batch = taken.batch /\ Oldest.lane = taken.lane
        BY <2>1, <3>1, <3>4 DEF LiveInv
      <4>2. Oldest' = [Oldest EXCEPT !.world_offset = place]
        BY <1>2, <2>1, <4>1 DEF Oldest, OldestSlot
      <4>3. Oldest \in EntrySet
        BY <1>2 DEF Oldest, OldestSlot
      <4>4. /\ Oldest'.lane = taken.lane /\ Oldest'.batch = taken.batch
            /\ Oldest'.world_offset = place
        BY <4>1, <4>2, <4>3 DEF EntrySet
      <4>5. At(taken.lane, taken.batch, place, durable[taken.lane])
        BY <1>1, <2>1 DEF WorkerInv
      <4>. QED  BY <2>1, <4>4, <4>5 DEF At
    <3>5. count' <= head' - tail' /\ (~overtaken' => count' > 0)
      BY <2>1, <3>1 DEF LiveInv
    <3>. QED  BY <2>1, <3>3, <3>4, <3>5 DEF LiveInv
  <2>. QED  BY <2>2, <2>3 DEF ConfirmInv
<1>5. ASSUME NEW ok \in BOOLEAN, AppendBatch(ok)  PROVE ConfirmInv'
  <2>1. /\ worker = "append" /\ worker' = (IF ok THEN "sync" ELSE "peek")
        /\ DeltaAppend(taken.lane, taken.batch, ok) /\ place' = offset[taken.lane]
        /\ UNCHANGED << entries, head, tail, count, taken, emptied, overtaken >>
    BY <1>5 DEF AppendBatch, ring, history
  <2>2. dw_open /\ dw_open' /\ durable' = durable  BY <2>1 DEF DeltaAppend
  <2>3. ASSUME ok, taken.lane \notin torn'
        PROVE  /\ place' + 2 <= Len(file'[taken.lane])
               /\ SubSeq(file'[taken.lane], place' + 1, place' + 2) = Units(taken.batch)
    <3> DEFINE l == taken.lane
               b == taken.batch
               q == file[taken.lane]
    <3>1. PICK written \in 0 .. 2 :
            /\ file' = [file EXCEPT ![l] = @ \o SubSeq(Units(b), 1, written)]
            /\ torn' = IF written < 2 THEN torn \cup {l} ELSE torn
      BY <2>1 DEF DeltaAppend
    <3>2. written = 2 /\ l \notin torn  BY <2>3, <3>1
    <3>3. Units(b) \in Seq(Unit) /\ Len(Units(b)) = 2 /\ SubSeq(Units(b), 1, 2) = Units(b)
      BY <1>2, UnitsOfBlock
    <3>4. q \in Seq(Unit) /\ place' = Len(q)
      BY <1>1, <1>2, <2>1, <2>2, <3>2 DEF DeltaTypes, OffsetIsFileSize
    <3>5. file'[l] = q \o Units(b)  BY <1>1, <1>2, <3>1, <3>2, <3>3 DEF DeltaTypes
    <3> HIDE DEF l, b, q
    <3>6. Len(q \o Units(b)) = Len(q) + 2 /\ Len(q) \in Nat
      BY <3>3, <3>4, SecondLength
    <3>7. SubSeq(q \o Units(b), Len(q) + 1, Len(q) + 2) = Units(b)
      BY <3>3, <3>4, SecondPart
    <3>8. place' + 2 <= Len(file'[l])  BY <3>4, <3>5, <3>6
    <3>9. SubSeq(file'[l], place' + 1, place' + 2) = Units(b)  BY <3>4, <3>5, <3>7
    <3>. QED  BY <3>8, <3>9 DEF l, b
  <2>4. WorkerInv'
    BY <2>1, <2>2, <2>3 DEF WorkerInv, At
  <2>5. ~emptied' => LiveInv'
    <3>1. Oldest' = Oldest  BY <2>1 DEF Oldest
    <3>2. worker' # "pop" /\ worker # "pop"  BY <2>1
    <3>. QED  BY <1>1, <2>1, <3>1, <3>2 DEF LiveInv
  <2>. QED  BY <2>4, <2>5 DEF ConfirmInv
<1>6. ASSUME NEW ok \in BOOLEAN, SyncBatch(ok)  PROVE ConfirmInv'
  <2>1. /\ worker = "sync" /\ worker' = (IF ok THEN "confirm" ELSE "peek")
        /\ DeltaSync(taken.lane, ok)
        /\ UNCHANGED << entries, head, tail, count, taken, place, emptied, overtaken >>
    BY <1>6 DEF SyncBatch, ring, history
  <2>2. dw_open /\ dw_open' /\ file' = file /\ torn' = torn  BY <2>1 DEF DeltaSync
  <2>3. ok => durable'[taken.lane] = Len(file[taken.lane])
    BY <1>1, <1>2, <2>1 DEF DeltaSync, DeltaTypes
  <2>4. At(taken.lane, taken.batch, place, Len(file[taken.lane]))
    BY <1>1, <2>1 DEF WorkerInv
  <2>5. WorkerInv'
    BY <2>1, <2>2, <2>3, <2>4 DEF WorkerInv, At
  <2>6. ~emptied' => LiveInv'
    <3>1. Oldest' = Oldest  BY <2>1 DEF Oldest
    <3>2. worker' # "pop" /\ worker # "pop"  BY <2>1
    <3>. QED  BY <1>1, <2>1, <3>1, <3>2 DEF LiveInv
  <2>. QED  BY <2>5, <2>6 DEF ConfirmInv
<1>. QED  BY <1>3, <1>4, <1>5, <1>6

LEMMA ConfirmStep ==
  ConfirmInv /\ [Next]_vars => ConfirmInv'
<1> SUFFICES ASSUME ConfirmInv, [Next]_vars  PROVE ConfirmInv'
  OBVIOUS
<1>1. SpectreInv'  BY SpectreStep DEF ConfirmInv
<1>2. ASSUME UNCHANGED << ring, flusher, history >>, worker \in {"peek", "append"}
      PROVE  ConfirmInv'
  <2>1. /\ UNCHANGED << entries, head, tail, count, worker, taken, place, emptied, overtaken >>
        /\ Oldest' = Oldest
    BY <1>2 DEF ring, flusher, history, Oldest
  <2>. QED  BY <1>1, <1>2, <2>1 DEF ConfirmInv, WorkerInv, LiveInv
<1>3. CASE worker = "peek" /\ DeltaClose /\ UNCHANGED << ring, flusher, history >>
  BY <1>2, <1>3
<1>4. CASE DeltaOpen /\ UNCHANGED << ring, flusher, history >>
  BY <1>2, <1>4 DEF DeltaOpen, ConfirmInv, WorkerInv
<1>5. CASE PowerFails /\ Forget
  <2>1. worker' = "peek" /\ count' = 0 /\ head' = 0 /\ tail' = 0  BY <1>5 DEF Forget
  <2>. QED  BY <1>1, <2>1 DEF ConfirmInv, WorkerInv, LiveInv
<1>6. CASE UNCHANGED vars
  <2>1. /\ UNCHANGED << entries, head, tail, count, worker, taken, place, emptied, overtaken >>
        /\ UNCHANGED << file, torn, durable, dw_open >> /\ Oldest' = Oldest
    BY <1>6 DEF vars, delta, ring, flusher, history, Oldest
  <2>. QED  BY <1>1, <2>1 DEF ConfirmInv, WorkerInv, LiveInv, At
<1>. QED
  BY <1>1, <1>3, <1>4, <1>5, <1>6, PushConfirms, PopConfirms, WorkerConfirms DEF Next

\* spectre_confirm (pogls_spectre.h lines 107-120) by the worker that its comments
\* prescribe, for any ring size and any number of batches: an entry confirmed at a
\* place of its lane's file is there, whole and synced, unless the lane had a failed
\* write or the entry was dropped or popped while the worker was at it.
THEOREM ConfirmedStays ==
  Spec => []ConfirmedIsOnDisk
<1>1. ASSUME ConfirmInv  PROVE ConfirmedIsOnDisk
  <2> SUFFICES ASSUME NEW i \in 0 .. (count - 1), ~overtaken, ~emptied,
                      entries[(tail + i) % RingMax].world_offset # Pending
               PROVE  LET e == entries[(tail + i) % RingMax]
                      IN  \/ e.lane \in torn
                          \/ /\ e.world_offset + 2 <= durable[e.lane]
                             /\ SubSeq(file[e.lane], e.world_offset + 1, e.world_offset + 2)
                                  = Units(e.batch)
    BY DEF ConfirmedIsOnDisk
  <2>1. LiveInv /\ tail \in Nat
    BY <1>1 DEF ConfirmInv, SpectreInv, LedgerInv, RingTypes
  <2>2. i = 0 /\ worker = "pop"  BY <2>1 DEF LiveInv
  <2>3. tail + i = tail  BY <2>1, <2>2
  <2>4. At(Oldest.lane, Oldest.batch, Oldest.world_offset, durable[Oldest.lane])
    BY <2>1, <2>2 DEF LiveInv
  <2>. QED  BY <2>3, <2>4 DEF At, Oldest
<1>. QED  BY <1>1, ConfirmInit, ConfirmStep, PTL DEF Spec
=============================================================================
