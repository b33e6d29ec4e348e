----------------------------- MODULE MeshEntryBuf -----------------------------
(***************************************************************************)
(* MeshEntryBuf of src/pogls_mesh_entry.h: the ring through which the mesh *)
(* drain callback hands its entries to the cluster engine, one thread      *)
(* each.  As in the detach lane both of them store tail, the producer when *)
(* the ring is full, and neither looks again at what it has loaded.        *)
(* mesh_entry_drain is pops one after the other.  An entry is its number;  *)
(* copying one of 24 bytes takes time, and sees a slot that is being       *)
(* written torn.                                                           *)
(***************************************************************************)
EXTENDS Integers, Sequences

CONSTANTS
  BufSize,    \* MESH_ENTRY_BUF_SIZE
  BufLaps,    \* laps of the ring before the uint32_t indices wrap
  BufFirst,   \* where the indices are, of a ring that has been emptied before
  MaxEntries  \* bound: entries pushed

ASSUME BufAssumption ==
  /\ BufSize \in Nat \ {0} /\ BufLaps \in Nat /\ BufLaps > 1
  /\ BufFirst \in Nat /\ MaxEntries \in Nat

VARIABLES
  buf_ring, buf_head, buf_tail,
  overflows,
  producer,    \* "idle", "full", "write" or "publish"
  loaded,      \* the tail mesh_entry_push has loaded
  consumer,    \* "idle", "seen", "copy" or "release"
  at,          \* the tail mesh_entry_pop has loaded
  copied,      \* *out
  buf_pushed,  \* history: entries pushed so far, which numbers them
  popped       \* history: the entries popped, in order

buf == << buf_ring, buf_head, buf_tail, overflows, producer, loaded, consumer, at,
          copied, buf_pushed, popped >>

Indices == BufSize * BufLaps
Torn    == -1

BufInit ==
  /\ buf_ring = [i \in 0 .. (BufSize - 1) |-> 0]
  /\ buf_head = BufFirst % Indices /\ buf_tail = buf_head /\ overflows = 0
  /\ producer = "idle" /\ loaded = 0
  /\ consumer = "idle" /\ at = 0 /\ copied = 0
  /\ buf_pushed = 0 /\ popped = << >>

After(index) == (index + 1) % Indices
BufPending   == (buf_head - buf_tail) % Indices

-----------------------------------------------------------------------------
consumerState == << consumer, at, copied, popped >>

FullAt(tail) == (buf_head - tail) % Indices >= BufSize

LoadTail ==
  /\ producer = "idle" /\ buf_pushed < MaxEntries
  /\ loaded' = buf_tail
  /\ producer' = IF FullAt(buf_tail) THEN "full" ELSE "write"
  /\ UNCHANGED << buf_ring, buf_head, buf_tail, overflows, buf_pushed, consumerState >>

\* The oldest entry is given up by the tail loaded before.
GiveUpOldest ==
  /\ producer = "full" /\ producer' = "write"
  /\ buf_tail' = After(loaded) /\ overflows' = overflows + 1
  /\ UNCHANGED << buf_ring, buf_head, loaded, buf_pushed, consumerState >>

WriteSlot ==
  /\ producer = "write" /\ producer' = "publish"
  /\ buf_ring' = [buf_ring EXCEPT ![buf_head % BufSize] = Torn]
  /\ UNCHANGED << buf_head, buf_tail, overflows, loaded, buf_pushed, consumerState >>

\* The slot is whole, then head is stored with release.
Publish ==
  /\ producer = "publish" /\ producer' = "idle"
  /\ buf_ring' = [buf_ring EXCEPT ![buf_head % BufSize] = buf_pushed + 1]
  /\ buf_head' = After(buf_head)
  /\ buf_pushed' = buf_pushed + 1
  /\ UNCHANGED << buf_tail, overflows, loaded, consumerState >>

producerState == << buf_head, overflows, producer, loaded, buf_pushed >>

\* mesh_entry_pop loads tail, and head after it.
LoadOwnTail ==
  /\ consumer = "idle"
  /\ at' = buf_tail /\ consumer' = "seen"
  /\ UNCHANGED << buf_ring, buf_tail, producerState, copied, popped >>

TestEmpty ==
  /\ consumer = "seen"
  /\ consumer' = IF at = buf_head THEN "idle" ELSE "copy"
  /\ UNCHANGED << buf_ring, buf_tail, producerState, at, copied, popped >>

CopyEntry ==
  /\ consumer = "copy" /\ consumer' = "release"
  /\ copied' = buf_ring[at % BufSize]
  /\ UNCHANGED << buf_ring, buf_tail, producerState, at, popped >>

StoreTail_reloaded == buf_tail' = After(buf_tail)

StoreTail == buf_tail' = After(at)

Release ==
  /\ consumer = "release" /\ consumer' = "idle"
  /\ StoreTail
  /\ popped' = Append(popped, copied)
  /\ UNCHANGED << buf_ring, producerState, at, copied >>

BufNext ==
  \/ LoadTail \/ GiveUpOldest \/ WriteSlot \/ Publish
  \/ LoadOwnTail \/ TestEmpty \/ CopyEntry \/ Release

BufSpec == BufInit /\ [][BufNext]_buf

-----------------------------------------------------------------------------
\* As long as the ring was never full, the consumer gets every entry once, whole and
\* in order.  (A full one breaks all three: the consumer's store of tail undoes the
\* producer's, after which entries of the next lap are taken for those given up.)
PoppedInOrder ==
  overflows = 0 /\ producer # "full" => popped = [i \in 1 .. Len(popped) |-> i]

\* However the two stores of tail undo each other, each of the newest entries, as many
\* as the ring has slots that are not being written, was popped whole, is being
\* popped, or is in its slot between the two indices.
NewestKept ==
  \A n \in 1 .. buf_pushed :
    n > buf_pushed - BufSize + (IF producer \in {"idle", "full"} THEN 0 ELSE 1) =>
      LET index == (BufFirst + n - 1) % Indices
      IN  \/ \E i \in DOMAIN popped : popped[i] = n
          \/ consumer = "release" /\ copied = n
          \/ /\ buf_ring[index % BufSize] = n
             /\ (buf_head - index) % Indices \in 1 .. BufPending

\* What the ring owes the cluster engine, before it overflows and after.
BufferKeeps == PoppedInOrder /\ NewestKept
=============================================================================
