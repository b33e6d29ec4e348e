---------------------------- MODULE SpectreLedger ----------------------------
(***************************************************************************)
(* src/storage/pogls_spectre.h: the ring of batch entries between the      *)
(* producers that push them and the worker that flushes each to its delta  *)
(* lane (DeltaWriter) and confirms it.  Every call holds the ring's mutex  *)
(* and is one action.  The worker is the caller the calls are made for:    *)
(* peek the oldest entry, append and sync its batch, confirm it with its   *)
(* place in the file, pop it.                                              *)
(***************************************************************************)
EXTENDS DeltaWriter

CONSTANTS
  RingMax,   \* SPECTRE_MAX
  Pending,   \* SPECTRE_WORLD_PENDING
  MaxPushes  \* bound: entries ever pushed, far below the 2^32 of head and tail

ASSUME LedgerAssumption ==
  /\ RingMax \in Nat \ {0} /\ MaxPushes \in Nat /\ MaxWrites \in Nat
  /\ Pending \notin Nat /\ Lanes # {}

VARIABLES
  entries,   \* slots of the ring
  head, tail, count,
  worker,    \* what the worker does next: "peek", "append", "sync", "confirm", "pop"
  taken,     \* the entry the worker has peeked at
  place,     \* where the worker's append has put its batch
  \* History.
  batches,   \* batches ever pushed, which numbers them
  pushed,    \* the batches pushed since spectre_init, in order
  emptied,   \* a pop has returned an entry of a ring whose count was 0
  overtaken  \* an entry was dropped or popped while the worker was at one

ring    == << entries, head, tail, count >>
flusher == << worker, taken, place >>
history == << batches, pushed, emptied, overtaken >>
vars    == << delta, ring, flusher, history >>

Slots == 0 .. (RingMax - 1)

\* spectre_build_entry: a batch of blocks of one lane, not on disk yet.
Entry(batch, l) == [batch |-> batch, lane |-> l, world_offset |-> Pending]

Zeroed == [batch |-> 0, lane |-> CHOOSE l \in Lanes : TRUE, world_offset |-> 0]

Init ==
  /\ DeltaInit
  /\ entries = [s \in Slots |-> Zeroed] /\ head = 0 /\ tail = 0 /\ count = 0
  /\ worker = "peek" /\ taken = Zeroed /\ place = 0
  /\ batches = 0 /\ pushed = << >> /\ emptied = FALSE /\ overtaken = FALSE

-----------------------------------------------------------------------------
Full == count >= RingMax

MakeRoom_keepsTail == tail' = tail /\ count' = IF Full THEN count ELSE count + 1

\* A full ring gives up its oldest entry; here tail is reduced, head never is.
MakeRoom ==
  \/ Full /\ tail' = (tail + 1) % RingMax /\ count' = count
  \/ ~Full /\ tail' = tail /\ count' = count + 1

\* spectre_push of the next batch.
Push(l) ==
  /\ batches < MaxPushes /\ batches' = batches + 1
  /\ entries' = [entries EXCEPT ![head % RingMax] = Entry(batches + 1, l)]
  /\ head' = head + 1
  /\ MakeRoom
  /\ pushed' = Append(pushed, batches + 1)
  /\ overtaken' = (overtaken \/ (Full /\ worker # "peek"))
  /\ UNCHANGED << delta, flusher, emptied >>

\* spectre_pop.  An empty ring is told by its indices, not by its count.
PopOldest ==
  \/ tail = head /\ UNCHANGED << tail, count, emptied >>
  \/ /\ tail # head /\ tail' = tail + 1
     /\ count' = IF count > 0 THEN count - 1 ELSE 0
     /\ emptied' = (emptied \/ count = 0)

\* The worker is done with its entry, or another caller takes one.
Pop ==
  /\ worker = "pop" /\ worker' = "peek"
  /\ PopOldest
  /\ UNCHANGED << delta, entries, head, taken, place, batches, pushed, overtaken >>

PopOther ==
  /\ PopOldest
  /\ overtaken' = (overtaken \/ worker # "peek")
  /\ UNCHANGED << delta, entries, head, flusher, batches, pushed >>

\* spectre_peek at offset 0.
Peek ==
  /\ worker = "peek" /\ count > 0
  /\ taken' = entries[tail % RingMax]
  /\ worker' = "append"
  /\ overtaken' = FALSE
  /\ UNCHANGED << delta, ring, place, batches, pushed, emptied >>

OldestSlot_unshifted == 0

\* spectre_confirm at offset 0: whatever entry is the oldest by now.
OldestSlot == tail % RingMax

Confirm ==
  /\ worker = "confirm" /\ worker' = "pop"
  /\ entries' = IF count > 0
                THEN [entries EXCEPT ![OldestSlot].world_offset = place] ELSE entries
  /\ UNCHANGED << delta, head, tail, count, taken, place, history >>

-----------------------------------------------------------------------------
\* delta_append_batch with do_sync: the worker gives up for now on an error, also on
\* one that comes after the batch was appended.
AppendBatch(ok) ==
  /\ worker = "append" /\ worker' = (IF ok THEN "sync" ELSE "peek")
  /\ DeltaAppend(taken.lane, taken.batch, ok)
  /\ place' = offset[taken.lane]
  /\ UNCHANGED << ring, taken, history >>

SyncBatch(ok) ==
  /\ worker = "sync" /\ worker' = (IF ok THEN "confirm" ELSE "peek")
  /\ DeltaSync(taken.lane, ok)
  /\ UNCHANGED << ring, taken, place, history >>

\* The process is gone, and the ledger with it; spectre_init starts another.
Forget ==
  /\ entries' = [s \in Slots |-> Zeroed] /\ head' = 0 /\ tail' = 0 /\ count' = 0
  /\ worker' = "peek" /\ taken' = Zeroed /\ place' = 0
  /\ batches' = batches
  /\ pushed' = << >> /\ emptied' = FALSE /\ overtaken' = FALSE

Next ==
  \/ \E l \in Lanes : Push(l)
  \/ Pop \/ PopOther \/ Peek \/ Confirm
  \/ \E ok \in BOOLEAN : AppendBatch(ok) \/ SyncBatch(ok)
  \/ worker = "peek" /\ DeltaClose /\ UNCHANGED << ring, flusher, history >>
  \/ DeltaOpen /\ UNCHANGED << ring, flusher, history >>
  \/ PowerFails /\ Forget

Spec == Init /\ [][Next]_vars

-----------------------------------------------------------------------------
\* The ring holds the newest entries that were pushed and not popped, oldest at
\* tail, overflows included: tail and count move together although only one of
\* the two indices is ever reduced.  It ends when a pop finds tail # head in a
\* ring that is empty: then it returns an entry already popped or dropped.
HoldsNewest ==
  ~emptied =>
    /\ count <= RingMax /\ count <= Len(pushed)
    /\ \A i \in 1 .. count :
         entries[(tail + i - 1) % RingMax].batch = pushed[Len(pushed) - count + i]

\* An entry confirmed at a place of its lane's file is there, whole and synced, so
\* that only the pending ones are owed to the disk, as spectre_count_pending
\* reports them.  Not so if an entry was dropped or popped while the worker was at
\* one: confirm counts from a tail that has moved on (line 117).
ConfirmedIsOnDisk ==
  \A i \in 0 .. (count - 1) :
    LET e == entries[(tail + i) % RingMax]
    IN  \/ e.world_offset = Pending \/ e.batch = 0 \/ overtaken \/ emptied
        \/ e.lane \in torn
        \/ /\ e.world_offset + 2 <= durable[e.lane]
           /\ SubSeq(file[e.lane], e.world_offset + 1, e.world_offset + 2) = Units(e.batch)
=============================================================================
