----------------------------- MODULE SnapshotOps ------------------------------
(***************************************************************************)
(* src/pogls_v4_snapshot.h, the functions: what v4_audit_ingest does to a  *)
(* V4AuditContext and what create, certify, auto_promote and invalidate do *)
(* to a V4SnapshotHeader.  SnapshotAudit calls them in any order,          *)
(* PipelineWire in the order of pipeline_wire_process.                     *)
(*                                                                         *)
(* A 64-bit digest is a set of bits, so that ^ is symmetric difference.    *)
(* Of an audit tile only its state and its hash are kept: nothing reads    *)
(* the flags, streaks and per-tile counters, and the count of clean        *)
(* neighbours is computed and thrown away.  Of the signal queue only the   *)
(* indices are kept: nothing reads its entries.                            *)
(***************************************************************************)
EXTENDS Integers

CONSTANTS
  Tiles,      \* V4_AUDIT_TILES
  Bits,       \* the bits of a digest
  SigSize     \* length of signal_queue

ASSUME SnapshotAssumption == SigSize \in Nat /\ SigSize >= 2

Digest    == SUBSET Bits
Xor(a, b) == (a \ b) \cup (b \ a)

Flags  == {"GEO_INVALID", "GHOST_DRIFT", "UNIT_CIRCLE", "TWIN_WINDOW", "OVERFLOW"}
Health == {"OK", "DEGRADED", "OFFLINE"}
TileState  == {"IDLE", "CLEAN", "ANOMALY"}
SnapState  == {"PENDING", "CERTIFIED", "AUTO", "VOID"}

\* What v4_audit_ingest reads of a DetachEntry; digest is value ^ angular_addr.
Entry == [tile : Tiles, reason : SUBSET Flags, digest : Digest]

Audit == [health : {"OK", "DEGRADED"}, state : [Tiles -> TileState],
          hash : [Tiles -> Digest], merkle : Digest, scans : Nat, anomalies : Nat,
          sig_head : 0 .. (SigSize - 1), sig_tail : {0}, sig_dropped : Nat]

Header == [id : Nat, parent : Nat, state : SnapState, certifier : Nat,
           checkpoint : BOOLEAN, health : Health, suspicious : BOOLEAN,
           merkle : Digest]

-----------------------------------------------------------------------------
\* v4_audit_init
AuditInit ==
  [health |-> "OK", state |-> [t \in Tiles |-> "IDLE"], hash |-> [t \in Tiles |-> {}],
   merkle |-> {}, scans |-> 0, anomalies |-> 0,
   sig_head |-> 0, sig_tail |-> 0, sig_dropped |-> 0]

\* The three reasons that make an entry an anomaly; the others count as clean.
Anomalous(e) == e.reason \cap {"GEO_INVALID", "GHOST_DRIFT", "UNIT_CIRCLE"} # {}

Scanned(a, e) ==
  [a EXCEPT !.hash = [a.hash EXCEPT ![e.tile] = Xor(@, e.digest)], !.scans = @ + 1]

Marked(a, e, state) == [a EXCEPT !.state = [a.state EXCEPT ![e.tile] = state]]

NextSignal(a) == (a.sig_head + 1) % SigSize

Signalled_neverFull(a) == [a EXCEPT !.sig_head = NextSignal(a)]

\* Push to the signal queue, or count the loss when the ring is full.
Signalled(a) ==
  IF NextSignal(a) # a.sig_tail
  THEN [a EXCEPT !.sig_head = NextSignal(a)]
  ELSE [a EXCEPT !.sig_dropped = @ + 1]

Judged_strict(a) ==
  IF a.anomalies > a.scans \div 2 THEN [a EXCEPT !.health = "DEGRADED"] ELSE a

\* More than a quarter of the scans anomalous: degrade.  Nothing restores health.
Judged(a) ==
  IF a.anomalies > a.scans \div 4 THEN [a EXCEPT !.health = "DEGRADED"] ELSE a

IngestedAnomaly(a, e) ==
  LET s == Marked(Scanned(a, e), e, "ANOMALY")
  IN  Judged(Signalled([s EXCEPT !.anomalies = @ + 1]))

\* merkle_root ^= tile_hash, the tile's hash as this entry leaves it.
IngestedClean(a, e) ==
  LET s == Marked(Scanned(a, e), e, "CLEAN")
  IN  [s EXCEPT !.merkle = Xor(@, s.hash[e.tile])]

\* v4_audit_ingest
Ingested(a, e) == IF Anomalous(e) THEN IngestedAnomaly(a, e) ELSE IngestedClean(a, e)

-----------------------------------------------------------------------------
\* v4_snap_create
Created(id, parent) ==
  [id |-> id, parent |-> parent, state |-> "PENDING", certifier |-> 0,
   checkpoint |-> FALSE, health |-> "OK", suspicious |-> FALSE, merkle |-> {}]

\* v4_snap_certify called with audit = NULL: no truth gate, nothing frozen.
Certified(s, certifier) ==
  [s EXCEPT !.state = "CERTIFIED", !.certifier = certifier, !.checkpoint = TRUE]

CanCertify_ignoresHealth(s, a) == s.state = "PENDING"

\* The early returns -2, -3 and -4 of v4_snap_certify.
CanCertify(s, a) == s.state = "PENDING" /\ a.health # "DEGRADED"

\* v4_snap_certify with an audit: its root and the open signals are copied.
CertifiedBy(s, certifier, a) ==
  [Certified(s, certifier) EXCEPT
     !.merkle = a.merkle, !.health = a.health,
     !.suspicious = (a.sig_head # a.sig_tail)]

\* v4_snap_auto_promote, past its early returns -2 and -3.
CanPromote(s, health) == s.state = "PENDING" /\ health # "DEGRADED"
Promoted(s, health)   == [s EXCEPT !.state = "AUTO", !.health = health]

\* v4_snap_invalidate, past its early return -2.
CanInvalidate(s) == s.state = "AUTO"
Invalidated(s)   == [s EXCEPT !.state = "VOID"]

\* v4_snap_is_certified, v4_snap_is_immune, v4_verify_merkle
IsCertified(s)     == s.state = "CERTIFIED"
IsImmune(s)        == s.checkpoint
VerifyMerkle(s, a) == IsCertified(s) /\ s.merkle = a.merkle
=============================================================================
