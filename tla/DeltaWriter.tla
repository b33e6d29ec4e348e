----------------------------- MODULE DeltaWriter -----------------------------
(***************************************************************************)
(* src/storage/pogls_delta.h: the append-only lane files and the writer    *)
(* that init, append, sync and close work on, through disks that fill up,  *)
(* failed fsyncs and power failures.  A call appends one block, which      *)
(* stands for the blocks of the call and has two units, so that it can be  *)
(* torn.  A failing fflush drops what it could not write (as glibc's       *)
(* does), so that a stream holds nothing between two calls.                *)
(***************************************************************************)
EXTENDS Naturals, Sequences

CONSTANTS
  Lanes,     \* DELTA_MAX_LANES
  MaxWrites  \* bound: calls of delta_append

VARIABLES
  dw_open,   \* delta_writer_init has returned 0, and delta_writer_close is to come
  file,      \* per lane, the units the kernel has been given
  durable,   \* per lane, the length of file that a power failure cannot take
  offset,    \* lane->offset, in units
  writes,    \* calls of delta_append so far
  acked,     \* history: per lane, the blocks whose append returned 0
  synced,    \* history: per lane, the blocks acked and not lost at a sync that returned 0
  lost,      \* history: per lane, the blocks acked although fflush failed on them
  torn       \* history: lanes with a failed write since init

delta == << dw_open, file, durable, offset, writes, acked, synced, lost, torn >>

Units(block) == << << block, 1 >>, << block, 2 >> >>

DeltaInit ==
  /\ dw_open = TRUE
  /\ file = [l \in Lanes |-> << >>] /\ durable = [l \in Lanes |-> 0]
  /\ offset = [l \in Lanes |-> 0]
  /\ writes = 0
  /\ acked = [l \in Lanes |-> {}] /\ synced = [l \in Lanes |-> {}]
  /\ lost = [l \in Lanes |-> {}] /\ torn = {}

-----------------------------------------------------------------------------
Advanced(l, ok) == IF ok THEN [offset EXCEPT ![l] = @ + 2] ELSE offset

\* delta_append returns 0 (ok) or -1.  It fails if fwrite falls short; it does not
\* if fflush does, and counts a block that is not all in the file.
DeltaAppend(l, block, ok) ==
  /\ dw_open /\ writes < MaxWrites
  /\ \E written \in 0 .. 2 :
       /\ written = 2 => ok
       /\ file' = [file EXCEPT ![l] = @ \o SubSeq(Units(block), 1, written)]
       /\ torn' = IF written < 2 THEN torn \cup {l} ELSE torn
       /\ lost' = IF ~ok THEN lost
                  ELSE IF written < 2 THEN [lost EXCEPT ![l] = @ \cup {block}]
                  ELSE [lost EXCEPT ![l] = @ \ {block}]
  /\ offset' = Advanced(l, ok)
  /\ acked' = IF ok THEN [acked EXCEPT ![l] = @ \cup {block}] ELSE acked
  /\ writes' = writes + 1
  /\ UNCHANGED << dw_open, durable, synced >>

DeltaSync_ignoresFsync(l, ok) ==
  /\ dw_open
  /\ \E kept \in durable[l] .. Len(file[l]) : durable' = [durable EXCEPT ![l] = kept]
  /\ synced' = IF ok THEN [synced EXCEPT ![l] = @ \cup (acked[l] \ lost[l])] ELSE synced
  /\ UNCHANGED << dw_open, file, offset, writes, acked, lost, torn >>

\* delta_sync: fsync works, or fails with some of the file written out.
DeltaSync(l, ok) ==
  /\ dw_open
  /\ \E kept \in durable[l] .. Len(file[l]) :
       (ok => kept = Len(file[l])) /\ durable' = [durable EXCEPT ![l] = kept]
  /\ synced' = IF ok THEN [synced EXCEPT ![l] = @ \cup (acked[l] \ lost[l])] ELSE synced
  /\ UNCHANGED << dw_open, file, offset, writes, acked, lost, torn >>

\* delta_writer_close flushes and closes; it does not sync.
DeltaClose ==
  /\ dw_open /\ dw_open' = FALSE
  /\ UNCHANGED << file, durable, offset, writes, acked, synced, lost, torn >>

\* The power fails: of what was not synced, any part is on the disk.
PowerFails ==
  /\ dw_open' = FALSE
  /\ \E kept \in [Lanes -> 0 .. 2 * MaxWrites] :
       /\ \A l \in Lanes : kept[l] \in durable[l] .. Len(file[l])
       /\ file' = [l \in Lanes |-> SubSeq(file[l], 1, kept[l])]
       /\ durable' = kept
  /\ acked' = [l \in Lanes |-> {}]
  /\ UNCHANGED << offset, writes, synced, lost, torn >>

\* delta_writer_init over the files there are.  A lane that cannot be opened fails
\* the call, which changes nothing here: the writer stays unusable.
DeltaOpen ==
  /\ ~dw_open /\ dw_open' = TRUE
  /\ offset' = [l \in Lanes |-> Len(file[l])]
  /\ torn' = {}
  /\ UNCHANGED << file, durable, writes, acked, synced, lost >>

-----------------------------------------------------------------------------
\* The block is in lane l whole, within its first n units.
WholeIn(l, block, n) ==
  \E i \in 1 .. n : i < n /\ SubSeq(file[l], i, i + 1) = Units(block)

\* A block acknowledged before delta_sync returned 0 is on the disk whole from
\* then on, whatever fails later, except one whose own fflush failed:
\* delta_append returns 0 for it all the same (line 135).
SyncedSurvives ==
  \A l \in Lanes : \A block \in synced[l] : WholeIn(l, block, durable[l])

\* lane->offset is the length of the file, so that a block is found where offset
\* said, as long as no write of this session has failed.
OffsetIsFileSize ==
  dw_open => \A l \in Lanes \ torn : offset[l] = Len(file[l])

\* What the writer owes its caller: where a block is, and that a synced one stays.
DeltaKept == OffsetIsFileSize /\ SyncedSurvives
=============================================================================
