----------------------------- MODULE RewindBuffer -----------------------------
(***************************************************************************)
(* src/core/pogls_rewind.h: the ring of speculative writes that stands     *)
(* before the delta lane.  Blocks are pushed, flushed to the delta lane a  *)
(* gate at a time, and rolled back, by steps or to a checkpoint, as far as *)
(* they are not flushed.  It is called from one thread; the difficulty is  *)
(* in the order of the calls.                                              *)
(*                                                                         *)
(* head and confirmed count blocks and are not reduced modulo Max; the     *)
(* bound MaxPush keeps them below 2^32.  The delta is external: an append  *)
(* may fail, and rewind_flush_gate does not look.  A block is the ordinal  *)
(* of its push.  Checksums, times and delta_seq of the checkpoints are     *)
(* read by nothing and left out, as are the statistics but total_writes.   *)
(* `timeline`, `lane` and `overrun` are history.                           *)
(***************************************************************************)
EXTENDS Integers, Sequences

CONSTANTS
  Max,       \* REWIND_MAX
  Gate,      \* REWIND_GATE
  Nexus,     \* REWIND_NEXUS
  MaxPush    \* bound: pushes in a behaviour

ASSUME RewindAssumption ==
  /\ Max \in Nat \ {0} /\ Gate \in Nat \ {0} /\ Nexus \in Nat \ {0}
  /\ Gate <= Max /\ Max % Nexus = 0 /\ MaxPush \in Nat

VARIABLES
  slots,       \* the blocks of the ring
  head, tail, count, confirmed, epoch,
  writes,      \* stats.total_writes
  checkpoints, \* slot_index of each checkpoint
  timeline,    \* the blocks pushed and not rolled back
  lane,        \* per append to the delta: the block, or Lost
  overrun      \* a block has been overwritten before it was flushed

ring    == << slots, head, tail, count, confirmed, epoch, writes, checkpoints >>
vars    == << ring, timeline, lane, overrun >>

Lost == 0
Slots == 0 .. (Max - 1)
Checkpoints == 0 .. (Max \div Nexus - 1)   \* REWIND_CKPT_COUNT of them

TypeOK ==
  /\ slots \in [Slots -> Nat]
  /\ head \in Nat /\ confirmed \in 0 .. head /\ tail \in Slots
  /\ count \in 0 .. Max /\ count <= head
  /\ epoch \in Nat /\ writes \in Nat
  /\ checkpoints \in [Checkpoints -> Slots]
  /\ timeline \in Seq(Nat) /\ Len(timeline) = head
  /\ lane \in Seq(Nat) /\ Len(lane) = confirmed
  /\ overrun \in BOOLEAN

\* rewind_init: the checkpoints claim slots that have not been written.
Init ==
  /\ slots = [s \in Slots |-> 0]
  /\ head = 0 /\ tail = 0 /\ count = 0 /\ confirmed = 0 /\ epoch = 0 /\ writes = 0
  /\ checkpoints = [c \in Checkpoints |-> c * Nexus]
  /\ timeline = << >> /\ lane = << >> /\ overrun = FALSE

-----------------------------------------------------------------------------
\* head - confirmed, as rewind_depth has it.
Depth == IF head > confirmed THEN head - confirmed ELSE 0

SlotAt(position) == position % Max

\* The oldest block gives way when the ring is full, flushed or not.
Evict ==
  IF count < Max
  THEN count' = count + 1 /\ UNCHANGED tail
  ELSE tail' = (tail + 1) % Max /\ UNCHANGED count

\* Every Nexus writes one checkpoint is overwritten, in turn.
SaveCheckpoint ==
  checkpoints' =
    IF (writes + 1) % Nexus = 0
    THEN [checkpoints EXCEPT
            ![((writes + 1) \div Nexus - 1) % (Max \div Nexus)] = SlotAt(head)]
    ELSE checkpoints

\* rewind_push
Push ==
  /\ writes < MaxPush
  /\ slots' = [slots EXCEPT ![SlotAt(head)] = writes + 1]
  /\ head' = head + 1
  /\ epoch' = IF (head + 1) % Max = 0 THEN epoch + 1 ELSE epoch
  /\ Evict
  /\ writes' = writes + 1
  /\ SaveCheckpoint
  /\ timeline' = Append(timeline, writes + 1)
  /\ overrun' = (overrun \/ Depth >= Max)
  /\ UNCHANGED << confirmed, lane >>

FlushGate_fromTail(stored) ==
  /\ Depth >= Gate
  /\ lane' = lane \o [i \in 1 .. Gate |->
                        IF i \in stored THEN slots[SlotAt(tail + i - 1)] ELSE Lost]
  /\ confirmed' = confirmed + Gate
  /\ UNCHANGED << slots, head, tail, count, epoch, writes, checkpoints, timeline,
                  overrun >>

\* rewind_flush_gate: a whole gate or nothing.  stored says which appends succeed.
FlushGate(stored) ==
  /\ Depth >= Gate
  /\ lane' = lane \o [i \in 1 .. Gate |->
                        IF i \in stored THEN slots[SlotAt(confirmed + i - 1)] ELSE Lost]
  /\ confirmed' = confirmed + Gate
  /\ UNCHANGED << slots, head, tail, count, epoch, writes, checkpoints, timeline,
                  overrun >>

Lesser(a, b) == IF a <= b THEN a ELSE b

\* rewind: n steps, or as many as are not flushed.  The epoch stays.
RollBack(n) ==
  LET steps == Lesser(n, Depth)
  IN  /\ head' = head - steps
      /\ count' = IF count > steps THEN count - steps ELSE 0
      /\ timeline' = SubSeq(timeline, 1, head - steps)
      /\ UNCHANGED << slots, tail, confirmed, epoch, writes, checkpoints, lane,
                      overrun >>

Rewind(n) == n > 0 /\ RollBack(n)

\* rewind_to_checkpoint: the last checkpoint of the table whose slot is not past
\* the target, if it is behind head.
Candidates(target) == {c \in Checkpoints : checkpoints[c] <= target}

RewindToCheckpoint(target) ==
  \E c \in Candidates(target) :
    /\ \A d \in Candidates(target) : d <= c
    /\ checkpoints[c] + 1 < head
    /\ RollBack(head - (checkpoints[c] + 1))

Next ==
  \/ Push
  \/ \E stored \in SUBSET (1 .. Gate) : FlushGate(stored)
  \/ \E n \in 1 .. MaxPush : Rewind(n)
  \/ \E target \in Slots : RewindToCheckpoint(target)

Spec == Init /\ [][Next]_vars

-----------------------------------------------------------------------------
Peek_pastHead(offset) == slots[SlotAt(head - offset)]

\* rewind_peek, where it does not return NULL.
Peek(offset) == slots[SlotAt(head - 1 - offset)]

\* rewind_peek(offset) is the block pushed offset before the last one that was
\* not rolled back, whatever was evicted, flushed and rolled back before.
PeekIsTimeline ==
  \A offset \in 0 .. (count - 1) : Peek(offset) = timeline[head - offset]

\* While no unflushed block has been overwritten, the delta lane holds the
\* timeline: each block flushed once, in order, never rolled back afterwards.
FlushedIsTimeline ==
  ~overrun => \A i \in 1 .. confirmed : lane[i] \in {timeline[i], Lost}

\* And as far as rewind_depth says one can rewind, the blocks left are in the
\* ring, with tail at the oldest.
WindowCoversDepth ==
  ~overrun => Depth <= count /\ tail = SlotAt(head - count)

=============================================================================
