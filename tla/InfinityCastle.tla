---------------------------- MODULE InfinityCastle ----------------------------
(***************************************************************************)
(* src/routing/pogls_infinity_castle.h: the trace of what was read, the    *)
(* window of the last offsets, and the tables keyed by it.  A signature    *)
(* stands for the window it hashes, slot by slot; no window hashes to the  *)
(* 0 of a zeroed entry.  Nothing ever ages an entry and nothing ever       *)
(* writes a PredictEntry, so that predict_prefetch does nothing and        *)
(* collapse entries, replaced only when old, stay as they were zeroed.     *)
(* Statistics, the lane and the priority of a trace entry are left out.    *)
(***************************************************************************)
EXTENDS Integers, Sequences, FiniteSets

CONSTANTS
  WindowSize,      \* COLLAPSE_WINDOW
  TraceSize,       \* TRACE_SIZE
  GhostSize,       \* entries of the GhostCache
  CollapseTtl,     \* COLLAPSE_TTL
  Offsets,         \* offsets asked for; 0 is also that of an unused trace entry
  Data,            \* inputs and results; a datum is its own checksum
  MaxCastleOps     \* bound: calls

ASSUME CastleAssumption ==
  /\ WindowSize \in Nat \ {0} /\ TraceSize \in Nat \ {0} /\ GhostSize \in Nat \ {0}
  /\ CollapseTtl \in Nat /\ Offsets \subseteq Nat /\ Data \subseteq Nat
  /\ MaxCastleOps \in Nat

VARIABLES
  trace, trace_head,
  window, window_head,
  collapse,         \* CollapseTable: signature and age
  ghost,            \* GhostCache
  phase, modules_enabled,
  castle_ops,
  \* History.
  recorded,         \* what trace_record was given, newest last
  results,         \* per window, the result last computed in PHASE_PREWRITE
  served            \* the last answer of a fast path, with its window

castle == << trace, trace_head, window, window_head, collapse, ghost, phase,
             modules_enabled, castle_ops, recorded, results, served >>

Zero == << >>  \* the signature of a zeroed entry

CastleInit ==
  /\ trace = [i \in 0 .. (TraceSize - 1) |-> [offset |-> 0, xor_sig |-> 0]]
  /\ trace_head = 0
  /\ window = [i \in 0 .. (WindowSize - 1) |-> 0] /\ window_head = 0
  /\ collapse = [i \in 0 .. (GhostSize - 1) |-> [signature |-> Zero, age |-> 0]]
  /\ ghost = [i \in 0 .. (GhostSize - 1) |-> [signature |-> Zero, output |-> 0]]
  /\ phase = "PREWRITE" /\ modules_enabled = TRUE
  /\ castle_ops = 0
  /\ recorded = << >> /\ results = {} /\ served = << >>

-----------------------------------------------------------------------------
\* collapse_update_window
Windowed(offset) == [window EXCEPT ![window_head] = offset]

UpdateWindow(offset) ==
  /\ window' = Windowed(offset)
  /\ window_head' = (window_head + 1) % WindowSize

\* The low bits of build_signature.
Index(sig) == (sig[0] + 2 * sig[WindowSize - 1]) % GhostSize

\* trace_record does nothing in PHASE_COMMIT.
Traced(offset, data) ==
  [trace EXCEPT ![trace_head] = [offset |-> offset, xor_sig |-> data]]

TraceRecord(offset, data) ==
  \/ phase = "COMMIT" /\ UNCHANGED << trace, trace_head, recorded >>
  \/ /\ phase = "PREWRITE"
     /\ trace' = Traced(offset, data)
     /\ trace_head' = (trace_head + 1) % TraceSize
     /\ recorded' = Append(recorded, [offset |-> offset, xor_sig |-> data])

\* trace_lookup: the first entry of the array with the offset, be it not the newest.
TraceHits(offset) == {i \in DOMAIN trace : trace[i].offset = offset}
TraceLookup(offset) ==
  trace[CHOOSE i \in TraceHits(offset) : \A j \in TraceHits(offset) : i <= j]

\* collapse_lookup: a foreign entry is replaced if it is old.
Collapsed(sig) ==
  LET e == collapse[Index(sig)]
  IN  IF e.signature # sig /\ e.age > CollapseTtl
      THEN [collapse EXCEPT ![Index(sig)] = [signature |-> sig, age |-> 0]]
      ELSE collapse

GhostHit_anySignature(sig) == ghost[Index(sig)].signature # Zero

\* ghost_lookup
GhostHit(sig) == ghost[Index(sig)].signature = sig

-----------------------------------------------------------------------------
\* infinity_castle_process.  The lookup of fast path 3 repeats the one of fast path 1,
\* which has just failed.
CastleProcess(offset, data) ==
  LET sig == Windowed(offset)
  IN  /\ UpdateWindow(offset)
      /\ \/ /\ modules_enabled /\ GhostHit(sig)
            /\ served' = << window', ghost[Index(sig)].output >>
            /\ UNCHANGED << trace, trace_head, recorded, ghost, collapse, results >>
         \/ /\ ~(modules_enabled /\ GhostHit(sig))
            /\ collapse' = IF modules_enabled THEN Collapsed(sig) ELSE collapse
            /\ TraceRecord(offset, data)
            /\ IF phase = "PREWRITE"
               THEN /\ ghost' = [ghost EXCEPT ![Index(sig)] =
                                   [signature |-> sig, output |-> data]]
                    /\ results' = {c \in results : c[1] # window'} \cup {<< window', data >>}
               ELSE UNCHANGED << ghost, results >>
            /\ served' = << >>
      /\ UNCHANGED << phase, modules_enabled >>

\* What pipeline_wire_process calls of it (lines 501 to 503 there).
CastleObserve(offset, data) ==
  /\ TraceRecord(offset, data)
  /\ UpdateWindow(offset)
  /\ served' = << >>
  /\ UNCHANGED << collapse, ghost, results, phase, modules_enabled >>

\* drift_guard_verify: a mismatch switches the fast paths off.
DriftGuardVerify(offset, data) ==
  /\ TraceHits(offset) # {} /\ TraceLookup(offset).xor_sig # data
  /\ modules_enabled' = FALSE
  /\ served' = << >>
  /\ UNCHANGED << trace, trace_head, recorded, window, window_head, collapse, ghost,
                  results, phase >>

\* infinity_castle_set_phase, which switches them on again, drift or not.
SetPhase(to) ==
  /\ phase' = to
  /\ modules_enabled' = (to = "PREWRITE")
  /\ served' = << >>
  /\ UNCHANGED << trace, trace_head, recorded, window, window_head, collapse, ghost,
                  results >>

CastleNext ==
  /\ castle_ops < MaxCastleOps /\ castle_ops' = castle_ops + 1
  /\ \/ \E offset \in Offsets, data \in Data :
          \/ CastleProcess(offset, data)
          \/ CastleObserve(offset, data)
          \/ DriftGuardVerify(offset, data)
     \/ \E to \in {"PREWRITE", "COMMIT"} : SetPhase(to)

CastleSpec == CastleInit /\ [][CastleNext]_castle

-----------------------------------------------------------------------------
\* An answer of the fast path is the last one computed for the very window of
\* offsets that was asked with, although windows share entries, phases and drift
\* switch storing and serving on and off, and observed offsets move the window in
\* between.  (It is not the answer for the data asked with: those are not in the
\* signature.)
ServedForItsWindow == served = << >> \/ served \in results

\* The trace is the last TraceSize records, so that an offset among them is found
\* with a checksum it was recorded with, and with its newest one if it is in the
\* trace once.  Recorded twice it may be compared with the older of the two.
TraceRemembers ==
  LET first  == IF Len(recorded) > TraceSize THEN Len(recorded) - TraceSize + 1 ELSE 1
      recent == {recorded[i] : i \in first .. Len(recorded)}
  IN  \A offset \in Offsets \ {0} :
        LET its == {r \in recent : r.offset = offset}
        IN  /\ (TraceHits(offset) # {}) <=> (its # {})
            /\ its # {} => TraceLookup(offset) \in its

CastleRemembers == ServedForItsWindow /\ TraceRemembers
=============================================================================
