---------------------------- MODULE SnapshotAudit ----------------------------
(***************************************************************************)
(* src/pogls_v4_snapshot.h as a component: one audit context that ingests  *)
(* entries and the snapshots its callers create and move through their     *)
(* life, in any order the functions allow.  A call refused by one of the   *)
(* early returns changes nothing and is not an action.                     *)
(*                                                                         *)
(* `evidence` is history: the audit's counters at the moment a snapshot    *)
(* was certified, NoEvidence until then and when no audit was passed.      *)
(***************************************************************************)
EXTENDS SnapshotOps, Sequences, FiniteSets

CONSTANTS
  Entries,      \* the entries callers ingest
  NoEvidence,   \* model value
  MaxScans,     \* bound: entries ingested in a behaviour
  MaxSnaps      \* bound: snapshots created in a behaviour

ASSUME AuditAssumption ==
  /\ Entries \subseteq Entry
  /\ MaxScans \in Nat /\ MaxSnaps \in Nat
  /\ NoEvidence \notin [scans : Nat, anomalies : Nat]
  /\ NoEvidence \notin [hash : [Tiles -> Digest], merkle : Digest]
  /\ NoEvidence \notin Digest \X BOOLEAN

VARIABLES
  audit,     \* the V4AuditContext
  snaps,     \* the V4SnapshotHeaders, in the order of v4_snap_create
  freezes,   \* the V4SnapTileFreeze of each, NoEvidence where none was asked for
  evidence   \* history

vars == << audit, snaps, freezes, evidence >>

Counters == [scans : Nat, anomalies : Nat]
Freeze   == [hash : [Tiles -> Digest], merkle : Digest]

TypeOK ==
  /\ audit \in Audit
  /\ snaps \in Seq(Header)
  /\ freezes \in Seq(Freeze \cup {NoEvidence})
  /\ evidence \in Seq(Counters \cup {NoEvidence})
  /\ Len(freezes) = Len(snaps) /\ Len(evidence) = Len(snaps)

Init ==
  /\ audit = AuditInit
  /\ snaps = << >> /\ freezes = << >> /\ evidence = << >>

-----------------------------------------------------------------------------
\* v4_audit_ingest; v4_audit_ingest_batch is this action in a loop.
Ingest(e) ==
  /\ audit.scans < MaxScans
  /\ audit' = Ingested(audit, e)
  /\ UNCHANGED << snaps, freezes, evidence >>

Create ==
  /\ Len(snaps) < MaxSnaps
  /\ snaps' = Append(snaps, Created(Len(snaps) + 1, Len(snaps)))
  /\ freezes' = Append(freezes, NoEvidence)
  /\ evidence' = Append(evidence, NoEvidence)
  /\ UNCHANGED audit

Witnessed == [scans |-> audit.scans, anomalies |-> audit.anomalies]

Certify(i) ==
  /\ CanCertify(snaps[i], audit)
  /\ snaps' = [snaps EXCEPT ![i] = CertifiedBy(@, audit.scans, audit)]
  /\ evidence' = [evidence EXCEPT ![i] = Witnessed]
  /\ UNCHANGED << audit, freezes >>

\* v4_snap_certify_freeze: certify, then copy every tile's hash.
CertifyFreeze(i) ==
  /\ CanCertify(snaps[i], audit)
  /\ snaps' = [snaps EXCEPT ![i] = CertifiedBy(@, audit.scans, audit)]
  /\ freezes' = [freezes EXCEPT ![i] = [hash |-> audit.hash, merkle |-> audit.merkle]]
  /\ evidence' = [evidence EXCEPT ![i] = Witnessed]
  /\ UNCHANGED audit

CertifyUnaudited(i) ==
  /\ snaps[i].state = "PENDING"
  /\ snaps' = [snaps EXCEPT ![i] = Certified(@, audit.scans)]
  /\ UNCHANGED << audit, freezes, evidence >>

\* The health is the caller's argument, not read from the audit.
AutoPromote(i, health) ==
  /\ CanPromote(snaps[i], health)
  /\ snaps' = [snaps EXCEPT ![i] = Promoted(@, health)]
  /\ UNCHANGED << audit, freezes, evidence >>

Invalidate(i) ==
  /\ CanInvalidate(snaps[i])
  /\ snaps' = [snaps EXCEPT ![i] = Invalidated(@)]
  /\ UNCHANGED << audit, freezes, evidence >>

Next ==
  \/ \E e \in Entries : Ingest(e)
  \/ Create
  \/ \E i \in DOMAIN snaps :
       \/ Certify(i)
       \/ CertifyFreeze(i)
       \/ CertifyUnaudited(i)
       \/ \E health \in Health : AutoPromote(i, health)
       \/ Invalidate(i)

Spec == Init /\ [][Next]_vars

-----------------------------------------------------------------------------
\* Snapshots certified against an audit.
Audited == {i \in DOMAIN snaps : evidence[i] # NoEvidence}

\* While health is OK at most a quarter of all entries ever ingested were
\* anomalies: the division rounds down, and the test is made only when an
\* anomaly arrives.
HealthMatchesHistory ==
  audit.health = "OK" => 4 * audit.anomalies <= audit.scans

\* "never silent drop": every anomaly is in the signal queue or counted as
\* dropped, and the queue never wraps onto its own tail, which would make a
\* full queue look empty to certify.
SignalsAccounted ==
  /\ audit.sig_head + audit.sig_dropped = audit.anomalies
  /\ audit.sig_dropped > 0 => audit.sig_head = SigSize - 1

\* The root moves only with clean entries, so it still is the first one's
\* empty root as long as everything ingested was an anomaly.
RootNeedsClean == audit.scans = audit.anomalies => audit.merkle = {}

AuditInv == HealthMatchesHistory /\ SignalsAccounted /\ RootNeedsClean

\* The truth gate of v4_snap_certify, in terms of what had happened rather than
\* of the flag it reads: a snapshot certified against the audit was certified
\* when no more than a quarter of the entries were anomalies, and carries
\* is_suspicious exactly if there had been any.
CertificatesEarned ==
  \A i \in Audited :
    /\ IsCertified(snaps[i])
    /\ 4 * evidence[i].anomalies <= evidence[i].scans
    /\ snaps[i].suspicious <=> evidence[i].anomalies > 0

\* v4_verify_merkle accepts an audited certificate until the next clean entry:
\* anomalies, however many, never make a true certificate fail.
Cleans(c) == c.scans - c.anomalies

VerifyUntilNextClean ==
  \A i \in Audited :
    Cleans(evidence[i]) = Cleans(audit) => VerifyMerkle(snaps[i], audit)

\* is_immune and is_certified are read in different places for the same thing,
\* and a freeze exists only for a certified snapshot and carries its root.
FlagsAgree ==
  \A i \in DOMAIN snaps :
    /\ IsImmune(snaps[i]) <=> IsCertified(snaps[i])
    /\ freezes[i] # NoEvidence =>
         i \in Audited /\ freezes[i].merkle = snaps[i].merkle

\* Degradation is for good: no later entry, clean or not, reopens the gate.
DegradedForGood ==
  [][audit.health = "DEGRADED" =>
       audit'.health = "DEGRADED"
       /\ \A i \in DOMAIN snaps' : evidence'[i] # NoEvidence => i \in Audited]_vars

\* The snapshots live the life that the header comment promises; a certified
\* one keeps its root and its suspicion for good.
Stages == [i \in DOMAIN snaps |-> snaps[i].state]
Seals  == [i \in DOMAIN snaps |->
             IF evidence[i] # NoEvidence
             THEN << snaps[i].merkle, snaps[i].suspicious >> ELSE NoEvidence]
IsDegraded == audit.health = "DEGRADED"

Lifecycle == INSTANCE SnapshotLifecycle WITH
  NoSeal <- NoEvidence, stage <- Stages, sealed <- Seals, degraded <- IsDegraded

ImplementsLifecycle == Lifecycle!Spec
=============================================================================
