-------------------------- MODULE Pipeline_proofs --------------------------
(***************************************************************************)
(* Proofs about the audit with its snapshot (SnapshotAudit) and about the  *)
(* wired pipeline (PipelineWire), for any set of tiles, bits, lanes and    *)
(* addresses, any length of the signal queue and any number of entries.    *)
(***************************************************************************)
EXTENDS SnapshotAudit, PipelineWire, ModArith, SequenceTheorems, FiniteSetTheorems

-----------------------------------------------------------------------------
(* What one v4_audit_ingest does.                                          *)

LEMMA XorType ==
  ASSUME NEW a \in Digest, NEW b \in Digest
  PROVE  Xor(a, b) \in Digest
  BY DEF Xor, Digest

\* The 64-slot index: one more, or back to zero from the last slot.
LEMMA NextSignalWraps ==
  ASSUME NEW a \in Audit
  PROVE  /\ NextSignal(a) \in 0 .. (SigSize - 1)
         /\ NextSignal(a) = IF a.sig_head = SigSize - 1 THEN 0 ELSE a.sig_head + 1
<1> DEFINE h == a.sig_head
<1>1. SigSize \in Nat \ {0} /\ h \in 0 .. (SigSize - 1)
  BY SnapshotAssumption DEF Audit
<1>2. CASE h = SigSize - 1
  <2>1. h + 1 = SigSize * 1 + 0  BY <1>1, <1>2
  <2>2. 0 \in 0 .. (SigSize - 1)  BY <1>1
  <2>3. (h + 1) % SigSize = 0
    <3> HIDE DEF h
    <3>. QED  BY <1>1, <2>1, <2>2, RemainderUnique
  <2>. QED  BY <1>2, <2>2, <2>3 DEF NextSignal
<1>3. CASE h # SigSize - 1
  <2>1. h + 1 \in 0 .. (SigSize - 1)  BY <1>1, <1>3
  <2>2. (h + 1) % SigSize = h + 1
    <3> HIDE DEF h
    <3>. QED  BY <1>1, <2>1, RemainderSmall
  <2>. QED  BY <1>3, <2>1, <2>2 DEF NextSignal
<1>. QED  BY <1>2, <1>3

LEMMA ScannedFields ==
  ASSUME NEW a \in Audit, NEW e \in Entry
  PROVE  /\ Scanned(a, e) \in Audit
         /\ Scanned(a, e).scans = a.scans + 1
         /\ Scanned(a, e).anomalies = a.anomalies
         /\ Scanned(a, e).merkle = a.merkle
         /\ Scanned(a, e).health = a.health
         /\ Scanned(a, e).sig_head = a.sig_head
         /\ Scanned(a, e).sig_tail = a.sig_tail
         /\ Scanned(a, e).sig_dropped = a.sig_dropped
<1>1. a.hash \in [Tiles -> Digest] /\ e.tile \in Tiles /\ e.digest \in Digest
  BY DEF Audit, Entry
<1> DEFINE h == [a.hash EXCEPT ![e.tile] = Xor(@, e.digest)]
<1>2. h \in [Tiles -> Digest]
  BY <1>1, XorType
<1> DEFINE b == [a EXCEPT !.hash = h]
<1>3. Scanned(a, e) = [b EXCEPT !.scans = @ + 1]
  <2> HIDE DEF h
  <2>. QED  BY DEF Scanned, Audit, h
<1>4. /\ b \in Audit
      /\ b.scans = a.scans /\ b.anomalies = a.anomalies /\ b.merkle = a.merkle
      /\ b.health = a.health /\ b.sig_head = a.sig_head
      /\ b.sig_tail = a.sig_tail /\ b.sig_dropped = a.sig_dropped
  <2> HIDE DEF h
  <2>. QED  BY <1>2 DEF Audit
<1> HIDE DEF b
<1>. QED  BY <1>3, <1>4 DEF Audit

LEMMA MarkedFields ==
  ASSUME NEW a \in Audit, NEW e \in Entry, NEW state \in TileState
  PROVE  /\ Marked(a, e, state) \in Audit
         /\ Marked(a, e, state).scans = a.scans
         /\ Marked(a, e, state).anomalies = a.anomalies
         /\ Marked(a, e, state).merkle = a.merkle
         /\ Marked(a, e, state).health = a.health
         /\ Marked(a, e, state).hash = a.hash
         /\ Marked(a, e, state).sig_head = a.sig_head
         /\ Marked(a, e, state).sig_dropped = a.sig_dropped
<1> DEFINE s == [a.state EXCEPT ![e.tile] = state]
<1>1. s \in [Tiles -> TileState]  BY DEF Audit
<1>2. Marked(a, e, state) = [a EXCEPT !.state = s]  BY DEF Marked
<1> HIDE DEF s
<1>. QED  BY <1>1, <1>2 DEF Audit

LEMMA SignalledFields ==
  ASSUME NEW a \in Audit
  PROVE  /\ Signalled(a) \in Audit
         /\ Signalled(a).scans = a.scans
         /\ Signalled(a).anomalies = a.anomalies
         /\ Signalled(a).merkle = a.merkle
         /\ Signalled(a).health = a.health
         /\ IF a.sig_head = SigSize - 1
            THEN /\ Signalled(a).sig_head = a.sig_head
                 /\ Signalled(a).sig_dropped = a.sig_dropped + 1
            ELSE /\ Signalled(a).sig_head = a.sig_head + 1
                 /\ Signalled(a).sig_dropped = a.sig_dropped
<1>1. /\ a.sig_tail = 0
      /\ NextSignal(a) # 0 <=> a.sig_head # SigSize - 1
  BY NextSignalWraps, SnapshotAssumption DEF Audit
<1>2. NextSignal(a) \in 0 .. (SigSize - 1)  BY NextSignalWraps
<1>3. CASE a.sig_head = SigSize - 1
  <2>1. Signalled(a) = [a EXCEPT !.sig_dropped = @ + 1]
    BY <1>1, <1>3 DEF Signalled
  <2>. QED  BY <1>3, <2>1 DEF Audit
<1>4. CASE a.sig_head # SigSize - 1
  <2>1. Signalled(a) = [a EXCEPT !.sig_head = NextSignal(a)]
    BY <1>1, <1>4 DEF Signalled
  <2>2. NextSignal(a) = a.sig_head + 1  BY <1>4, NextSignalWraps
  <2>. QED  BY <1>2, <1>4, <2>1, <2>2 DEF Audit
<1>. QED  BY <1>3, <1>4

LEMMA JudgedFields ==
  ASSUME NEW a \in Audit
  PROVE  /\ Judged(a) \in Audit
         /\ Judged(a).scans = a.scans
         /\ Judged(a).anomalies = a.anomalies
         /\ Judged(a).merkle = a.merkle
         /\ Judged(a).sig_head = a.sig_head
         /\ Judged(a).sig_dropped = a.sig_dropped
         /\ a.health = "DEGRADED" => Judged(a).health = "DEGRADED"
         /\ Judged(a).health = "OK" => 4 * a.anomalies <= a.scans
<1>1. a.scans \in Nat /\ a.anomalies \in Nat  BY DEF Audit
<1>2. /\ a.scans \div 4 \in Int
      /\ a.scans % 4 \in 0 .. (4 - 1)
      /\ a.scans = 4 * (a.scans \div 4) + (a.scans % 4)
  <2>1. 4 \in Nat \ {0} /\ a.scans \in Int  BY <1>1
  <2>. QED  BY <2>1, Division
<1>3. CASE a.anomalies > a.scans \div 4
  <2>1. Judged(a) = [a EXCEPT !.health = "DEGRADED"]  BY <1>3 DEF Judged
  <2>. QED  BY <2>1 DEF Audit
<1>4. CASE ~(a.anomalies > a.scans \div 4)
  <2>1. Judged(a) = a  BY <1>4 DEF Judged
  <2>2. 4 * a.anomalies <= a.scans  BY <1>1, <1>2, <1>4
  <2>. QED  BY <2>1, <2>2
<1>. QED  BY <1>3, <1>4

\* A clean entry moves the root and the clean count, and nothing that the truth
\* gate or the signal queue looks at.
LEMMA CleanFields ==
  ASSUME NEW a \in Audit, NEW e \in Entry
  PROVE  LET b == IngestedClean(a, e)
         IN  /\ b \in Audit
             /\ b.scans = a.scans + 1
             /\ b.anomalies = a.anomalies
             /\ b.health = a.health
             /\ b.sig_head = a.sig_head
             /\ b.sig_dropped = a.sig_dropped
<1> DEFINE s == Scanned(a, e)
           m == Marked(s, e, "CLEAN")
<1>1. /\ s \in Audit
      /\ s.scans = a.scans + 1 /\ s.anomalies = a.anomalies /\ s.health = a.health
      /\ s.sig_head = a.sig_head /\ s.sig_dropped = a.sig_dropped
  BY ScannedFields
<1>2. IngestedClean(a, e) = [m EXCEPT !.merkle = Xor(@, m.hash[e.tile])]
  BY DEF IngestedClean
<1> HIDE DEF s
<1>3. "CLEAN" \in TileState  BY DEF TileState
<1>4. /\ m \in Audit
      /\ m.scans = s.scans /\ m.anomalies = s.anomalies /\ m.health = s.health
      /\ m.sig_head = s.sig_head /\ m.sig_dropped = s.sig_dropped
  BY <1>1, <1>3, MarkedFields
<1> HIDE DEF m
<1>5. Xor(m.merkle, m.hash[e.tile]) \in Digest
  BY <1>4, XorType DEF Audit, Entry
<1>. QED  BY <1>1, <1>2, <1>4, <1>5 DEF Audit

LEMMA AnomalyFields ==
  ASSUME NEW a \in Audit, NEW e \in Entry
  PROVE  LET b == IngestedAnomaly(a, e)
         IN  /\ b \in Audit
             /\ b.scans = a.scans + 1
             /\ b.anomalies = a.anomalies + 1
             /\ b.merkle = a.merkle
             /\ a.health = "DEGRADED" => b.health = "DEGRADED"
             /\ b.health = "OK" => 4 * b.anomalies <= b.scans
             /\ IF a.sig_head = SigSize - 1
                THEN b.sig_head = a.sig_head /\ b.sig_dropped = a.sig_dropped + 1
                ELSE b.sig_head = a.sig_head + 1 /\ b.sig_dropped = a.sig_dropped
<1> DEFINE s == Scanned(a, e)
           k == Marked(s, e, "ANOMALY")
           m == [k EXCEPT !.anomalies = @ + 1]
           n == Signalled(m)
<1>1. /\ s \in Audit
      /\ s.scans = a.scans + 1 /\ s.anomalies = a.anomalies /\ s.merkle = a.merkle
      /\ s.health = a.health /\ s.sig_head = a.sig_head
      /\ s.sig_dropped = a.sig_dropped
  BY ScannedFields
<1>2. "ANOMALY" \in TileState  BY DEF TileState
<1>3. /\ k \in Audit
      /\ k.scans = s.scans /\ k.anomalies = s.anomalies /\ k.merkle = s.merkle
      /\ k.health = s.health /\ k.sig_head = s.sig_head
      /\ k.sig_dropped = s.sig_dropped
  <2> HIDE DEF s
  <2>. QED  BY <1>1, <1>2, MarkedFields
<1>4. /\ m \in Audit
      /\ m.scans = a.scans + 1 /\ m.anomalies = a.anomalies + 1
      /\ m.merkle = a.merkle /\ m.health = a.health
      /\ m.sig_head = a.sig_head /\ m.sig_dropped = a.sig_dropped
  <2> HIDE DEF s, k
  <2>. QED  BY <1>1, <1>3 DEF Audit
<1>5. IngestedAnomaly(a, e) = Judged(n)  BY DEF IngestedAnomaly
<1> HIDE DEF m
<1>6. /\ n \in Audit
      /\ n.scans = m.scans /\ n.anomalies = m.anomalies
      /\ n.merkle = m.merkle /\ n.health = m.health
      /\ IF m.sig_head = SigSize - 1
         THEN n.sig_head = m.sig_head /\ n.sig_dropped = m.sig_dropped + 1
         ELSE n.sig_head = m.sig_head + 1 /\ n.sig_dropped = m.sig_dropped
  BY <1>4, SignalledFields
<1> HIDE DEF n
<1>7. /\ Judged(n) \in Audit
      /\ Judged(n).scans = n.scans /\ Judged(n).anomalies = n.anomalies
      /\ Judged(n).merkle = n.merkle
      /\ Judged(n).sig_head = n.sig_head /\ Judged(n).sig_dropped = n.sig_dropped
      /\ n.health = "DEGRADED" => Judged(n).health = "DEGRADED"
      /\ Judged(n).health = "OK" => 4 * n.anomalies <= n.scans
  BY <1>6, JudgedFields
<1>. QED  BY <1>4, <1>5, <1>6, <1>7

-----------------------------------------------------------------------------
(* Types.                                                                  *)

LEMMA AuditInitType == AuditInit \in Audit
<1>1. [t \in Tiles |-> "IDLE"] \in [Tiles -> TileState]  BY DEF TileState
<1>2. [t \in Tiles |-> {}] \in [Tiles -> Digest]  BY DEF Digest
<1>3. {} \in Digest /\ 0 \in 0 .. (SigSize - 1)
  BY SnapshotAssumption DEF Digest
<1>. QED  BY <1>1, <1>2, <1>3 DEF AuditInit, Audit

LEMMA IngestedType ==
  ASSUME NEW a \in Audit, NEW e \in Entry
  PROVE  Ingested(a, e) \in Audit
  BY CleanFields, AnomalyFields DEF Ingested

LEMMA HeaderOperations ==
  ASSUME NEW s \in Header, NEW a \in Audit, NEW c \in Nat, NEW health \in Health
  PROVE  /\ Certified(s, c) \in Header
         /\ CertifiedBy(s, c, a) \in Header
         /\ Promoted(s, health) \in Header
         /\ Invalidated(s) \in Header
<1>1. Certified(s, c) \in Header
  BY DEF Certified, Header, SnapState
<1>2. a.health \in Health /\ a.merkle \in Digest  BY DEF Audit, Health
<1>3. CertifiedBy(s, c, a) \in Header
  <2> DEFINE k == Certified(s, c)
             q == (a.sig_head # a.sig_tail)
  <2>1. CertifiedBy(s, c, a)
          = [k EXCEPT !.merkle = a.merkle, !.health = a.health, !.suspicious = q]
    BY DEF CertifiedBy
  <2>2. q \in BOOLEAN  OBVIOUS
  <2> HIDE DEF k, q
  <2>3. k \in Header  BY <1>1 DEF k
  <2>. QED  BY <1>2, <2>1, <2>2, <2>3 DEF Header
<1>4. Promoted(s, health) \in Header /\ Invalidated(s) \in Header
  BY DEF Promoted, Invalidated, Header, SnapState
<1>. QED  BY <1>1, <1>3, <1>4

LEMMA CreatedType ==
  ASSUME NEW id \in Nat, NEW parent \in Nat
  PROVE  Created(id, parent) \in Header
<1>1. {} \in Digest  BY DEF Digest
<1>. QED  BY <1>1 DEF Created, Header, SnapState, Health

LEMMA InitType == Init => TypeOK
<1>1. /\ << >> \in Seq(Header) /\ << >> \in Seq(Freeze \cup {NoEvidence})
      /\ << >> \in Seq(Counters \cup {NoEvidence}) /\ Len(<< >>) = 0
  BY EmptySeq
<1>. QED  BY <1>1, AuditInitType DEF Init, TypeOK

\* A sequence updated at one place keeps its length.
LEMMA UpdateType ==
  ASSUME NEW S, NEW s \in Seq(S), NEW i \in DOMAIN s, NEW x \in S
  PROVE  /\ [s EXCEPT ![i] = x] \in Seq(S)
         /\ Len([s EXCEPT ![i] = x]) = Len(s)
         /\ DOMAIN [s EXCEPT ![i] = x] = DOMAIN s
         /\ s[i] \in S
<1>1. i \in 1 .. Len(s) /\ s[i] \in S  BY ElementOfSeq, LenProperties
<1>. QED  BY <1>1, ExceptSeq

LEMMA NextType == TypeOK /\ [Next]_vars => TypeOK'
<1> SUFFICES ASSUME TypeOK, [Next]_vars  PROVE TypeOK'
  OBVIOUS
<1> USE DEF TypeOK
<1>0. audit.scans \in Nat /\ audit.anomalies \in Nat  BY DEF Audit
<1>1. ASSUME NEW e \in Entries, Ingest(e)  PROVE TypeOK'
  <2>1. audit' \in Audit  BY <1>1, IngestedType, AuditAssumption DEF Ingest
  <2>. QED  BY <1>1, <2>1 DEF Ingest
<1>2. CASE Create
  <2>1. Len(snaps) \in Nat /\ Len(snaps) + 1 \in Nat  BY LenProperties
  <2>2. Created(Len(snaps) + 1, Len(snaps)) \in Header  BY <2>1, CreatedType
  <2>3. snaps' \in Seq(Header) /\ Len(snaps') = Len(snaps) + 1
    BY <1>2, <2>2, AppendProperties DEF Create
  <2>4. /\ freezes' \in Seq(Freeze \cup {NoEvidence})
        /\ Len(freezes') = Len(freezes) + 1
    BY <1>2, AppendProperties DEF Create
  <2>5. /\ evidence' \in Seq(Counters \cup {NoEvidence})
        /\ Len(evidence') = Len(evidence) + 1
    BY <1>2, AppendProperties DEF Create
  <2>. QED  BY <1>2, <2>3, <2>4, <2>5 DEF Create
<1>3. ASSUME NEW i \in DOMAIN snaps  PROVE snaps[i] \in Header
  BY <1>3, UpdateType, ElementOfSeq, LenProperties
<1>4. DOMAIN evidence = DOMAIN snaps /\ DOMAIN freezes = DOMAIN snaps
  BY LenProperties
<1>5. Witnessed \in Counters \cup {NoEvidence}
  BY <1>0 DEF Witnessed, Counters
<1>6. ASSUME NEW i \in DOMAIN snaps, Certify(i)  PROVE TypeOK'
  <2>1. CertifiedBy(snaps[i], audit.scans, audit) \in Header
    BY <1>0, <1>3, HeaderOperations DEF Health
  <2>2. snaps' \in Seq(Header) /\ Len(snaps') = Len(snaps)
    BY <1>6, <2>1, UpdateType DEF Certify
  <2>3. /\ evidence' \in Seq(Counters \cup {NoEvidence})
        /\ Len(evidence') = Len(evidence)
    BY <1>4, <1>5, <1>6, UpdateType DEF Certify
  <2>. QED  BY <1>6, <2>2, <2>3 DEF Certify
<1>7. ASSUME NEW i \in DOMAIN snaps, CertifyFreeze(i)  PROVE TypeOK'
  <2>1. CertifiedBy(snaps[i], audit.scans, audit) \in Header
    BY <1>0, <1>3, HeaderOperations DEF Health
  <2>2. snaps' \in Seq(Header) /\ Len(snaps') = Len(snaps)
    BY <1>7, <2>1, UpdateType DEF CertifyFreeze
  <2>3. /\ evidence' \in Seq(Counters \cup {NoEvidence})
        /\ Len(evidence') = Len(evidence)
    BY <1>4, <1>5, <1>7, UpdateType DEF CertifyFreeze
  <2>4. [hash |-> audit.hash, merkle |-> audit.merkle] \in Freeze \cup {NoEvidence}
    BY DEF Freeze, Audit
  <2>5. /\ freezes' \in Seq(Freeze \cup {NoEvidence})
        /\ Len(freezes') = Len(freezes)
    BY <1>4, <1>7, <2>4, UpdateType DEF CertifyFreeze
  <2>. QED  BY <1>7, <2>2, <2>3, <2>5 DEF CertifyFreeze
<1>8. ASSUME NEW i \in DOMAIN snaps, CertifyUnaudited(i)  PROVE TypeOK'
  <2>1. Certified(snaps[i], audit.scans) \in Header
    BY <1>0, <1>3, HeaderOperations DEF Health
  <2>2. snaps' \in Seq(Header) /\ Len(snaps') = Len(snaps)
    BY <1>8, <2>1, UpdateType DEF CertifyUnaudited
  <2>. QED  BY <1>8, <2>2 DEF CertifyUnaudited
<1>9. ASSUME NEW i \in DOMAIN snaps, NEW health \in Health, AutoPromote(i, health)
      PROVE  TypeOK'
  <2>1. Promoted(snaps[i], health) \in Header
    BY <1>0, <1>3, HeaderOperations
  <2>2. snaps' \in Seq(Header) /\ Len(snaps') = Len(snaps)
    BY <1>9, <2>1, UpdateType DEF AutoPromote
  <2>. QED  BY <1>9, <2>2 DEF AutoPromote
<1>10. ASSUME NEW i \in DOMAIN snaps, Invalidate(i)  PROVE TypeOK'
  <2>1. Invalidated(snaps[i]) \in Header
    BY <1>0, <1>3, HeaderOperations DEF Health
  <2>2. snaps' \in Seq(Header) /\ Len(snaps') = Len(snaps)
    BY <1>10, <2>1, UpdateType DEF Invalidate
  <2>. QED  BY <1>10, <2>2 DEF Invalidate
<1>11. CASE UNCHANGED vars  BY <1>11 DEF vars
<1>. QED
  BY <1>1, <1>2, <1>6, <1>7, <1>8, <1>9, <1>10, <1>11 DEF Next

\* Type correctness, in particular that the signal index stays inside the ring
\* and the audit's health is one of two values whatever is ingested.
THEOREM TypeCorrect == Spec => []TypeOK
  BY InitType, NextType, PTL DEF Spec

-----------------------------------------------------------------------------
(* The inductive invariant.  What is claimed of every snapshot is a claim   *)
(* about each by itself and the audit, and needs one more fact: the audit's *)
(* clean entries never become fewer than at a certification.                *)

CountsGrow(a) == a.anomalies <= a.scans

AuditOK(a) ==
  /\ a.health = "OK" => 4 * a.anomalies <= a.scans
  /\ a.sig_head + a.sig_dropped = a.anomalies
  /\ a.sig_dropped > 0 => a.sig_head = SigSize - 1
  /\ a.scans = a.anomalies => a.merkle = {}
  /\ CountsGrow(a)

SnapOK(a, s, f, ev) ==
  /\ ev # NoEvidence =>
       /\ IsCertified(s)
       /\ 4 * ev.anomalies <= ev.scans
       /\ s.suspicious <=> ev.anomalies > 0
       /\ Cleans(ev) <= Cleans(a)
       /\ Cleans(ev) = Cleans(a) => s.merkle = a.merkle
  /\ IsImmune(s) <=> IsCertified(s)
  /\ f # NoEvidence => ev # NoEvidence /\ f.merkle = s.merkle

Inv ==
  /\ TypeOK
  /\ AuditOK(audit)
  /\ \A i \in DOMAIN snaps : SnapOK(audit, snaps[i], freezes[i], evidence[i])

LEMMA InvImplies ==
  Inv => AuditInv /\ CertificatesEarned /\ VerifyUntilNextClean /\ FlagsAgree
<1> SUFFICES ASSUME Inv
             PROVE  AuditInv /\ CertificatesEarned /\ VerifyUntilNextClean /\ FlagsAgree
  OBVIOUS
<1>1. AuditInv
  BY DEF Inv, AuditOK, AuditInv, HealthMatchesHistory, SignalsAccounted, RootNeedsClean
<1>2. CertificatesEarned  BY DEF Inv, SnapOK, CertificatesEarned, Audited
<1>3. VerifyUntilNextClean
  BY DEF Inv, SnapOK, VerifyUntilNextClean, VerifyMerkle, Audited
<1>4. FlagsAgree  BY DEF Inv, SnapOK, FlagsAgree, Audited
<1>. QED  BY <1>1, <1>2, <1>3, <1>4

LEMMA AuditSteps ==
  ASSUME NEW a \in Audit, NEW e \in Entry, AuditOK(a)
  PROVE  AuditOK(Ingested(a, e))
<1>0. /\ a.scans \in Nat /\ a.anomalies \in Nat /\ a.sig_dropped \in Nat
      /\ a.sig_head \in 0 .. (SigSize - 1) /\ SigSize \in Nat /\ SigSize >= 2
  BY SnapshotAssumption DEF Audit
<1>1. CASE Anomalous(e)
  <2> DEFINE b == IngestedAnomaly(a, e)
  <2>1. Ingested(a, e) = b  BY <1>1 DEF Ingested
  <2>2. /\ b.scans = a.scans + 1
        /\ b.anomalies = a.anomalies + 1
        /\ b.merkle = a.merkle
        /\ b.health = "OK" => 4 * b.anomalies <= b.scans
        /\ IF a.sig_head = SigSize - 1
           THEN b.sig_head = a.sig_head /\ b.sig_dropped = a.sig_dropped + 1
           ELSE b.sig_head = a.sig_head + 1 /\ b.sig_dropped = a.sig_dropped
    BY AnomalyFields
  <2> HIDE DEF b
  <2>3. b.sig_head + b.sig_dropped = b.anomalies
    BY <1>0, <2>2 DEF AuditOK
  <2>4. b.sig_dropped > 0 => b.sig_head = SigSize - 1
    BY <1>0, <2>2 DEF AuditOK
  <2>. QED  BY <1>0, <2>1, <2>2, <2>3, <2>4 DEF AuditOK, CountsGrow
<1>2. CASE ~Anomalous(e)
  <2> DEFINE b == IngestedClean(a, e)
  <2>1. Ingested(a, e) = b  BY <1>2 DEF Ingested
  <2>2. /\ b.scans = a.scans + 1 /\ b.anomalies = a.anomalies
        /\ b.health = a.health
        /\ b.sig_head = a.sig_head /\ b.sig_dropped = a.sig_dropped
    BY CleanFields
  <2> HIDE DEF b
  <2>. QED  BY <1>0, <2>1, <2>2 DEF AuditOK, CountsGrow
<1>. QED  BY <1>1, <1>2

\* An entry leaves every snapshot's standing intact: an anomaly moves neither the
\* root nor the clean count, a clean entry ends the claim about the root.
LEMMA SnapSteps ==
  ASSUME NEW a \in Audit, NEW e \in Entry, NEW s, NEW f,
         NEW ev \in Counters \cup {NoEvidence}, SnapOK(a, s, f, ev)
  PROVE  SnapOK(Ingested(a, e), s, f, ev)
<1>0. a.scans \in Nat /\ a.anomalies \in Nat  BY DEF Audit
<1> DEFINE b == Ingested(a, e)
<1>1. ASSUME ev # NoEvidence
      PROVE  /\ Cleans(ev) <= Cleans(b)
             /\ Cleans(ev) = Cleans(b) => s.merkle = b.merkle
  <2>1. ev.scans \in Nat /\ ev.anomalies \in Nat  BY <1>1 DEF Counters
  <2>2. /\ Cleans(ev) <= Cleans(a)
        /\ Cleans(ev) = Cleans(a) => s.merkle = a.merkle
    BY <1>1 DEF SnapOK
  <2>3. CASE Anomalous(e)
    <3>1. /\ b.scans = a.scans + 1 /\ b.anomalies = a.anomalies + 1
          /\ b.merkle = a.merkle
      BY <2>3, AnomalyFields DEF Ingested
    <3> HIDE DEF b
    <3>2. Cleans(b) = Cleans(a)  BY <1>0, <3>1 DEF Cleans
    <3>. QED  BY <2>2, <3>1, <3>2
  <2>4. CASE ~Anomalous(e)
    <3>1. b.scans = a.scans + 1 /\ b.anomalies = a.anomalies
      BY <2>4, CleanFields DEF Ingested
    <3> HIDE DEF b
    <3>2. Cleans(ev) < Cleans(b)  BY <1>0, <2>1, <2>2, <3>1 DEF Cleans
    <3>3. Cleans(ev) \in Int /\ Cleans(b) \in Int
      BY <1>0, <2>1, <3>1 DEF Cleans
    <3>. QED  BY <3>2, <3>3
  <2>. QED  BY <2>3, <2>4
<1> HIDE DEF b
<1>. QED  BY <1>1 DEF SnapOK, b

\* Certification on a healthy audit earns what SnapOK says of it.
LEMMA CertifyEarns ==
  ASSUME NEW a \in Audit, AuditOK(a), NEW s \in Header, NEW c \in Nat,
         NEW f \in Freeze \cup {NoEvidence},
         CanCertify(s, a), f # NoEvidence => f.merkle = a.merkle
  PROVE  SnapOK(a, CertifiedBy(s, c, a), f,
                [scans |-> a.scans, anomalies |-> a.anomalies])
<1> DEFINE t == CertifiedBy(s, c, a)
           ev == [scans |-> a.scans, anomalies |-> a.anomalies]
<1>1. /\ t.state = "CERTIFIED" /\ t.checkpoint = TRUE
      /\ t.merkle = a.merkle
      /\ t.suspicious = (a.sig_head # a.sig_tail)
  <2> DEFINE k == Certified(s, c)
             q == (a.sig_head # a.sig_tail)
  <2>1. t = [k EXCEPT !.merkle = a.merkle, !.health = a.health, !.suspicious = q]
    BY DEF CertifiedBy
  <2>2. k \in Header /\ k.state = "CERTIFIED" /\ k.checkpoint = TRUE
    BY DEF Certified, Header, SnapState
  <2> HIDE DEF k, q
  <2>3. t.state = "CERTIFIED" /\ t.checkpoint = TRUE /\ t.merkle = a.merkle
        /\ t.suspicious = q
    BY <2>1, <2>2 DEF Header
  <2>. QED  BY <2>3 DEF q
<1>2. /\ a.scans \in Nat /\ a.anomalies \in Nat /\ a.sig_dropped \in Nat
      /\ a.sig_head \in Nat /\ a.sig_tail = 0 /\ a.health = "OK"
      /\ SigSize \in Nat /\ SigSize >= 2
  BY SnapshotAssumption DEF Audit, CanCertify
<1>3. a.sig_head # a.sig_tail <=> a.anomalies > 0  BY <1>2 DEF AuditOK
<1>4. 4 * a.anomalies <= a.scans  BY <1>2 DEF AuditOK
<1>5. ev.scans = a.scans /\ ev.anomalies = a.anomalies  OBVIOUS
<1>6. ev # NoEvidence  BY <1>2, AuditAssumption
<1>7. Cleans(ev) = Cleans(a) /\ Cleans(a) \in Int  BY <1>2, <1>5 DEF Cleans
<1> HIDE DEF t, ev
<1>8. t.suspicious <=> ev.anomalies > 0
  <2>1. t.suspicious <=> a.anomalies > 0
    <3> DEFINE q == a.sig_head # a.sig_tail
               n == a.anomalies > 0
    <3>1. t.suspicious = q /\ (q <=> n)  BY <1>1, <1>3
    <3> HIDE DEF q, n
    <3>2. t.suspicious <=> n  BY <3>1, Zenon
    <3>. QED  BY <3>2 DEF n
  <2>. QED  BY <1>5, <2>1
<1>9. IsCertified(t) /\ (IsImmune(t) <=> IsCertified(t))
  BY <1>1 DEF IsCertified, IsImmune
<1>10. f # NoEvidence => ev # NoEvidence /\ f.merkle = t.merkle
  BY <1>1, <1>6
<1>11. 4 * ev.anomalies <= ev.scans /\ Cleans(ev) <= Cleans(a) /\ t.merkle = a.merkle
  BY <1>1, <1>4, <1>5, <1>7
<1>12. SnapOK(a, t, f, ev)
  BY <1>8, <1>9, <1>10, <1>11 DEF SnapOK
<1>. QED  BY <1>12 DEF t, ev

LEMMA InitInv == Init => Inv
<1> SUFFICES ASSUME Init  PROVE Inv
  OBVIOUS
<1>1. TypeOK  BY InitType
<1>2. AuditOK(audit)
  BY SnapshotAssumption DEF Init, AuditInit, AuditOK, CountsGrow
<1>3. DOMAIN snaps = {}
  <2>1. << >> \in Seq(Header) /\ Len(<< >>) = 0  BY EmptySeq
  <2>. QED  BY <2>1, LenProperties DEF Init
<1>. QED  BY <1>1, <1>2, <1>3 DEF Inv

\* One snapshot changed: it is enough that the changed one is in order.
LEMMA UpdateOne ==
  ASSUME Inv, NEW i \in DOMAIN snaps, NEW s \in Header,
         NEW f \in Freeze \cup {NoEvidence}, NEW ev \in Counters \cup {NoEvidence},
         SnapOK(audit, s, f, ev), audit' = audit,
         snaps' = [snaps EXCEPT ![i] = s],
         freezes' = [freezes EXCEPT ![i] = f],
         evidence' = [evidence EXCEPT ![i] = ev],
         TypeOK'
  PROVE  Inv'
<1>1. DOMAIN snaps' = DOMAIN snaps  OBVIOUS
<1>2. /\ DOMAIN freezes = DOMAIN snaps /\ DOMAIN evidence = DOMAIN snaps
  BY LenProperties DEF Inv, TypeOK
<1>3. ASSUME NEW j \in DOMAIN snaps
      PROVE  SnapOK(audit', snaps'[j], freezes'[j], evidence'[j])
  <2>1. CASE j = i
    <3>1. snaps'[j] = s /\ freezes'[j] = f /\ evidence'[j] = ev
      BY <1>2, <2>1
    <3>. QED  BY <3>1
  <2>2. CASE j # i
    <3>1. snaps'[j] = snaps[j] /\ freezes'[j] = freezes[j] /\ evidence'[j] = evidence[j]
      BY <1>2, <2>2
    <3>. QED  BY <3>1 DEF Inv
  <2>. QED  BY <2>1, <2>2
<1>. QED  BY <1>1, <1>3 DEF Inv

LEMMA NextInv == Inv /\ [Next]_vars => Inv'
<1> SUFFICES ASSUME Inv, [Next]_vars  PROVE Inv'
  OBVIOUS
<1>1. TypeOK /\ TypeOK'  BY NextType DEF Inv
<1>2. /\ DOMAIN snaps = 1 .. Len(snaps) /\ Len(snaps) \in Nat
      /\ DOMAIN freezes = DOMAIN snaps /\ DOMAIN evidence = DOMAIN snaps
  BY <1>1, LenProperties DEF TypeOK
<1>3. ASSUME NEW i \in DOMAIN snaps
      PROVE  /\ snaps[i] \in Header
             /\ freezes[i] \in Freeze \cup {NoEvidence}
             /\ evidence[i] \in Counters \cup {NoEvidence}
             /\ [freezes EXCEPT ![i] = freezes[i]] = freezes
             /\ [evidence EXCEPT ![i] = evidence[i]] = evidence
             /\ SnapOK(audit, snaps[i], freezes[i], evidence[i])
  <2>1. /\ snaps[i] \in Header
        /\ freezes[i] \in Freeze \cup {NoEvidence}
        /\ evidence[i] \in Counters \cup {NoEvidence}
    BY <1>1, <1>2, ElementOfSeq DEF TypeOK
  <2>2. /\ freezes \in [1 .. Len(freezes) -> Freeze \cup {NoEvidence}]
        /\ evidence \in [1 .. Len(evidence) -> Counters \cup {NoEvidence}]
    BY <1>1, LenProperties DEF TypeOK
  <2>3. /\ [freezes EXCEPT ![i] = freezes[i]] = freezes
        /\ [evidence EXCEPT ![i] = evidence[i]] = evidence
    BY <2>2
  <2>. QED  BY <2>1, <2>3 DEF Inv
<1>4. audit \in Audit /\ audit.scans \in Nat /\ audit.anomalies \in Nat /\ AuditOK(audit)
  BY <1>1 DEF TypeOK, Audit, Inv
<1>5. Witnessed \in Counters /\ [hash |-> audit.hash, merkle |-> audit.merkle] \in Freeze
  BY <1>4 DEF Witnessed, Counters, Freeze, Audit
<1>6. ASSUME NEW e \in Entries, Ingest(e)  PROVE Inv'
  <2>1. e \in Entry  BY AuditAssumption
  <2>2. AuditOK(audit')  BY <1>4, <1>6, <2>1, AuditSteps DEF Ingest
  <2>3. ASSUME NEW i \in DOMAIN snaps
        PROVE  SnapOK(audit', snaps[i], freezes[i], evidence[i])
    BY <1>3, <1>4, <1>6, <2>1, SnapSteps DEF Ingest
  <2>. QED  BY <1>1, <1>6, <2>2, <2>3 DEF Ingest, Inv
<1>7. CASE Create
  <2> DEFINE n == Len(snaps) + 1
             s == Created(n, Len(snaps))
  <2>1. s \in Header  BY <1>2, CreatedType
  <2>2. /\ DOMAIN snaps' = 1 .. n
        /\ snaps'[n] = s /\ freezes'[n] = NoEvidence /\ evidence'[n] = NoEvidence
        /\ \A i \in DOMAIN snaps : /\ snaps'[i] = snaps[i]
                                   /\ freezes'[i] = freezes[i]
                                   /\ evidence'[i] = evidence[i]
    <3>1. /\ snaps \in Seq(Header) /\ freezes \in Seq(Freeze \cup {NoEvidence})
          /\ evidence \in Seq(Counters \cup {NoEvidence})
          /\ Len(freezes) = Len(snaps) /\ Len(evidence) = Len(snaps)
      BY <1>1 DEF TypeOK
    <3>2. /\ snaps' \in Seq(Header) /\ Len(snaps') = n /\ snaps'[n] = s
          /\ \A i \in DOMAIN snaps : snaps'[i] = snaps[i]
      BY <1>2, <1>7, <2>1, <3>1, AppendProperties DEF Create
    <3>3. /\ freezes'[n] = NoEvidence
          /\ \A i \in DOMAIN snaps : freezes'[i] = freezes[i]
      BY <1>2, <1>7, <3>1, AppendProperties DEF Create
    <3>4. /\ evidence'[n] = NoEvidence
          /\ \A i \in DOMAIN snaps : evidence'[i] = evidence[i]
      BY <1>2, <1>7, <3>1, AppendProperties DEF Create
    <3>. QED  BY <3>2, <3>3, <3>4, LenProperties
  <2>3. SnapOK(audit, s, NoEvidence, NoEvidence)
    BY DEF SnapOK, Created, IsImmune, IsCertified
  <2>4. ASSUME NEW i \in DOMAIN snaps'
        PROVE  SnapOK(audit', snaps'[i], freezes'[i], evidence'[i])
    <3>1. CASE i = n  BY <1>7, <2>2, <2>3, <3>1 DEF Create
    <3>2. CASE i # n
      <4>1. i \in DOMAIN snaps  BY <1>2, <2>2, <2>4, <3>2
      <4>. QED  BY <1>3, <1>7, <2>2, <4>1 DEF Create
    <3>. QED  BY <3>1, <3>2
  <2>5. AuditOK(audit')  BY <1>4, <1>7 DEF Create
  <2>. QED  BY <1>1, <2>4, <2>5 DEF Inv
<1>8. ASSUME NEW i \in DOMAIN snaps, Certify(i)  PROVE Inv'
  <2> DEFINE s == CertifiedBy(snaps[i], audit.scans, audit)
  <2>1. s \in Header  BY <1>3, <1>4, HeaderOperations DEF Health
  <2>2. freezes[i] = NoEvidence
    BY <1>3, <1>8 DEF Certify, CanCertify, SnapOK, IsCertified
  <2>3. SnapOK(audit, s, freezes[i], Witnessed)
    BY <1>3, <1>4, <1>8, <2>2, CertifyEarns DEF Certify, Witnessed
  <2> HIDE DEF s
  <2>4. /\ audit' = audit /\ snaps' = [snaps EXCEPT ![i] = s]
        /\ freezes' = [freezes EXCEPT ![i] = freezes[i]]
        /\ evidence' = [evidence EXCEPT ![i] = Witnessed]
    BY <1>3, <1>8 DEF Certify, s
  <2>. QED  BY <1>1, <1>3, <1>5, <2>1, <2>3, <2>4, UpdateOne
<1>9. ASSUME NEW i \in DOMAIN snaps, CertifyFreeze(i)  PROVE Inv'
  <2> DEFINE s == CertifiedBy(snaps[i], audit.scans, audit)
             f == [hash |-> audit.hash, merkle |-> audit.merkle]
  <2>1. s \in Header  BY <1>3, <1>4, HeaderOperations DEF Health
  <2>2. f.merkle = audit.merkle  OBVIOUS
  <2>3. SnapOK(audit, s, f, Witnessed)
    BY <1>3, <1>4, <1>5, <1>9, <2>2, CertifyEarns DEF CertifyFreeze, Witnessed
  <2>4. f \in Freeze  BY <1>5
  <2> HIDE DEF s, f
  <2>5. /\ audit' = audit /\ snaps' = [snaps EXCEPT ![i] = s]
        /\ freezes' = [freezes EXCEPT ![i] = f]
        /\ evidence' = [evidence EXCEPT ![i] = Witnessed]
    BY <1>9 DEF CertifyFreeze, s, f
  <2>. QED  BY <1>1, <1>5, <2>1, <2>3, <2>4, <2>5, UpdateOne
<1>10. ASSUME NEW i \in DOMAIN snaps, NEW s \in Header,
              snaps' = [snaps EXCEPT ![i] = s],
              UNCHANGED << audit, freezes, evidence >>,
              snaps[i].state # "CERTIFIED", IsImmune(s) <=> IsCertified(s)
       PROVE  Inv'
  <2>1. freezes[i] = NoEvidence /\ evidence[i] = NoEvidence
    BY <1>3, <1>10 DEF SnapOK, IsCertified
  <2>2. SnapOK(audit, s, freezes[i], evidence[i])
    BY <1>10, <2>1 DEF SnapOK
  <2>3. /\ audit' = audit
        /\ freezes' = [freezes EXCEPT ![i] = freezes[i]]
        /\ evidence' = [evidence EXCEPT ![i] = evidence[i]]
    BY <1>3, <1>10
  <2>4. /\ freezes[i] \in Freeze \cup {NoEvidence}
        /\ evidence[i] \in Counters \cup {NoEvidence}
    BY <1>3, <1>10
  <2> DEFINE f == freezes[i]
             ev == evidence[i]
  <2>5. /\ f \in Freeze \cup {NoEvidence} /\ ev \in Counters \cup {NoEvidence}
        /\ SnapOK(audit, s, f, ev)
        /\ freezes' = [freezes EXCEPT ![i] = f]
        /\ evidence' = [evidence EXCEPT ![i] = ev]
        /\ audit' = audit /\ snaps' = [snaps EXCEPT ![i] = s]
    BY <1>10, <2>2, <2>3, <2>4
  <2> HIDE DEF f, ev
  <2>. QED  BY <1>1, <1>10, <2>5, UpdateOne
<1>11. ASSUME NEW i \in DOMAIN snaps, CertifyUnaudited(i)  PROVE Inv'
  <2> DEFINE s == Certified(snaps[i], audit.scans)
  <2>1. s \in Header  BY <1>3, <1>4, HeaderOperations DEF Health
  <2>2. IsImmune(s) <=> IsCertified(s)
    BY <1>3 DEF Certified, Header, IsImmune, IsCertified
  <2>3. /\ snaps' = [snaps EXCEPT ![i] = s] /\ snaps[i].state # "CERTIFIED"
        /\ UNCHANGED << audit, freezes, evidence >>
    BY <1>11 DEF CertifyUnaudited
  <2> HIDE DEF s
  <2>. QED  BY <1>10, <2>1, <2>2, <2>3
<1>12. ASSUME NEW i \in DOMAIN snaps, NEW health \in Health, AutoPromote(i, health)
       PROVE  Inv'
  <2> DEFINE s == Promoted(snaps[i], health)
  <2>1. s \in Header  BY <1>3, <1>4, HeaderOperations
  <2>2. snaps[i].state = "PENDING"  BY <1>12 DEF AutoPromote, CanPromote
  <2>3. ~IsImmune(snaps[i])
    BY <1>3, <2>2 DEF SnapOK, IsCertified
  <2>4. IsImmune(s) <=> IsCertified(s)
    BY <1>3, <2>3 DEF Promoted, Header, IsImmune, IsCertified
  <2>5. /\ snaps' = [snaps EXCEPT ![i] = s] /\ snaps[i].state # "CERTIFIED"
        /\ UNCHANGED << audit, freezes, evidence >>
    BY <1>12, <2>2 DEF AutoPromote
  <2> HIDE DEF s
  <2>. QED  BY <1>10, <2>1, <2>4, <2>5
<1>13. ASSUME NEW i \in DOMAIN snaps, Invalidate(i)  PROVE Inv'
  <2> DEFINE s == Invalidated(snaps[i])
  <2>1. s \in Header  BY <1>3, <1>4, HeaderOperations DEF Health
  <2>2. snaps[i].state = "AUTO"  BY <1>13 DEF Invalidate, CanInvalidate
  <2>3. ~IsImmune(snaps[i])
    BY <1>3, <2>2 DEF SnapOK, IsCertified
  <2>4. IsImmune(s) <=> IsCertified(s)
    BY <1>3, <2>3 DEF Invalidated, Header, IsImmune, IsCertified
  <2>5. /\ snaps' = [snaps EXCEPT ![i] = s] /\ snaps[i].state # "CERTIFIED"
        /\ UNCHANGED << audit, freezes, evidence >>
    BY <1>13, <2>2 DEF Invalidate
  <2> HIDE DEF s
  <2>. QED  BY <1>10, <2>1, <2>4, <2>5
<1>14. CASE UNCHANGED vars
  BY <1>14 DEF vars, Inv, TypeOK
<1>. QED
  BY <1>6, <1>7, <1>8, <1>9, <1>11, <1>12, <1>13, <1>14 DEF Next

LEMMA Invariance == Spec => []Inv
  BY InitInv, NextInv, PTL DEF Spec

\* Health agrees with the whole history of the audit and no anomaly signal is
\* lost without being counted (v4_audit_ingest).
THEOREM AuditInvariant == Spec => []AuditInv
  BY Invariance, InvImplies, PTL

\* The truth gate (v4_snap_certify): what a certificate says was so when issued.
THEOREM CertificatesTrue == Spec => []CertificatesEarned
  BY Invariance, InvImplies, PTL

\* v4_verify_merkle accepts a true certificate until the next clean entry.
THEOREM VerificationStable == Spec => []VerifyUntilNextClean
  BY Invariance, InvImplies, PTL

\* is_immune, is_certified and the freeze never disagree.
THEOREM FlagsConsistent == Spec => []FlagsAgree
  BY Invariance, InvImplies, PTL

-----------------------------------------------------------------------------
(* Degradation, and the promised life of a snapshot.                        *)

LEMMA IngestKeepsDegraded ==
  ASSUME NEW a \in Audit, NEW e \in Entry, a.health = "DEGRADED"
  PROVE  Ingested(a, e).health = "DEGRADED"
  BY CleanFields, AnomalyFields DEF Ingested

LEMMA StepKeepsDegraded ==
  ASSUME Inv, [Next]_vars, audit.health = "DEGRADED"
  PROVE  /\ audit'.health = "DEGRADED"
         /\ \A i \in DOMAIN snaps' : evidence'[i] # NoEvidence => i \in Audited
<1> USE DEF Audited
<1>1. ASSUME NEW e \in Entries, Ingest(e)
      PROVE  audit'.health = "DEGRADED" /\ UNCHANGED << snaps, evidence >>
  BY <1>1, IngestKeepsDegraded, AuditAssumption DEF Ingest, Inv, TypeOK
<1>2. CASE Create
  <2> DEFINE n == Len(snaps) + 1
  <2>1. /\ snaps \in Seq(Header) /\ evidence \in Seq(Counters \cup {NoEvidence})
        /\ Len(evidence) = Len(snaps) /\ Len(snaps) \in Nat
        /\ DOMAIN snaps = 1 .. Len(snaps)
    BY LenProperties DEF Inv, TypeOK
  <2>2. /\ evidence'[n] = NoEvidence
        /\ \A i \in DOMAIN snaps : evidence'[i] = evidence[i]
    BY <1>2, <2>1, AppendProperties DEF Create
  <2>3. DOMAIN snaps' = 1 .. n
    <3>1. Created(n, Len(snaps)) \in Header  BY <2>1, CreatedType
    <3>2. snaps' \in Seq(Header) /\ Len(snaps') = n
      BY <1>2, <2>1, <3>1, AppendProperties DEF Create
    <3>. QED  BY <3>2, LenProperties
  <2>4. audit' = audit  BY <1>2 DEF Create
  <2>. QED  BY <2>1, <2>2, <2>3, <2>4
<1>3. ASSUME NEW i \in DOMAIN snaps  PROVE ~Certify(i) /\ ~CertifyFreeze(i)
  BY DEF Certify, CertifyFreeze, CanCertify
<1>4. ASSUME NEW i \in DOMAIN snaps,
             \/ CertifyUnaudited(i)
             \/ \E health \in Health : AutoPromote(i, health)
             \/ Invalidate(i)
      PROVE  UNCHANGED << audit, evidence >> /\ DOMAIN snaps' = DOMAIN snaps
  BY <1>4 DEF CertifyUnaudited, AutoPromote, Invalidate
<1>5. CASE UNCHANGED vars  BY <1>5 DEF vars
<1>. QED  BY <1>1, <1>2, <1>3, <1>4, <1>5 DEF Next

\* Degradation is for good, and with it certification under audit
\* (v4_audit_ingest line 233, v4_snap_certify line 299).
THEOREM DegradationFinal == Spec => DegradedForGood
<1>1. Inv /\ [Next]_vars =>
        [audit.health = "DEGRADED" =>
           audit'.health = "DEGRADED"
           /\ \A i \in DOMAIN snaps' : evidence'[i] # NoEvidence => i \in Audited]_vars
  BY StepKeepsDegraded
<1>. QED  BY <1>1, Invariance, PTL DEF Spec, DegradedForGood

-----------------------------------------------------------------------------
SealSet == (Digest \X BOOLEAN) \cup {NoEvidence}

LEMMA ViewTypes ==
  TypeOK => /\ Stages \in Seq(SnapState) /\ Seals \in Seq(SealSet)
            /\ Len(Stages) = Len(snaps) /\ Len(Seals) = Len(snaps)
            /\ DOMAIN Stages = DOMAIN snaps /\ DOMAIN Seals = DOMAIN snaps
<1> SUFFICES ASSUME TypeOK
             PROVE  /\ Stages \in Seq(SnapState) /\ Seals \in Seq(SealSet)
                    /\ Len(Stages) = Len(snaps) /\ Len(Seals) = Len(snaps)
                    /\ DOMAIN Stages = DOMAIN snaps /\ DOMAIN Seals = DOMAIN snaps
  OBVIOUS
<1>1. Len(snaps) \in Nat /\ DOMAIN snaps = 1 .. Len(snaps)
  BY LenProperties DEF TypeOK
<1>2. \A i \in DOMAIN snaps : snaps[i] \in Header
  BY <1>1, ElementOfSeq DEF TypeOK
<1>3. Stages \in [1 .. Len(snaps) -> SnapState]
  BY <1>1, <1>2 DEF Stages, Header
<1>4. Seals \in [1 .. Len(snaps) -> SealSet]
  BY <1>1, <1>2 DEF Seals, Header, SealSet
<1>5. Stages \in Seq(SnapState) /\ Seals \in Seq(SealSet)
  BY <1>1, <1>3, <1>4, SeqDef
<1>6. DOMAIN Stages = 1 .. Len(snaps) /\ DOMAIN Seals = 1 .. Len(snaps)
  BY <1>3, <1>4
<1>7. Len(Stages) = Len(snaps) /\ Len(Seals) = Len(snaps)
  BY <1>1, <1>5, <1>6, LenProperties
<1>. QED  BY <1>1, <1>5, <1>6, <1>7

\* A step that replaces snapshot i and its evidence, and how it looks from the
\* abstract side.
Replaces(i, s, ev) ==
  snaps' = [snaps EXCEPT ![i] = s] /\ evidence' = [evidence EXCEPT ![i] = ev]
Shows(i, stage, seal) ==
  Stages' = [Stages EXCEPT ![i] = stage] /\ Seals' = [Seals EXCEPT ![i] = seal]
SealOf(s, ev) == IF ev # NoEvidence THEN << s.merkle, s.suspicious >> ELSE NoEvidence

LEMMA ViewUpdate ==
  ASSUME TypeOK, NEW i \in DOMAIN snaps, NEW s \in Header,
         NEW ev \in Counters \cup {NoEvidence}, Replaces(i, s, ev)
  PROVE  Shows(i, s.state, SealOf(s, ev)) /\ Stages[i] = snaps[i].state
         /\ i \in DOMAIN Stages
<1>0. /\ snaps' = [snaps EXCEPT ![i] = s]
      /\ evidence' = [evidence EXCEPT ![i] = ev]
  BY DEF Replaces
<1>1. DOMAIN evidence = DOMAIN snaps
  BY LenProperties DEF TypeOK
<1>2. DOMAIN snaps' = DOMAIN snaps  BY <1>0
<1>3. ASSUME NEW j \in DOMAIN snaps
      PROVE  /\ snaps'[j] = (IF j = i THEN s ELSE snaps[j])
             /\ evidence'[j] = (IF j = i THEN ev ELSE evidence[j])
  BY <1>0, <1>1
<1>4. Stages' = [Stages EXCEPT ![i] = s.state]
  BY <1>2, <1>3 DEF Stages
<1>5. Seals' = [Seals EXCEPT ![i] = SealOf(s, ev)]
  <2>1. Seals = [j \in DOMAIN snaps |-> SealOf(snaps[j], evidence[j])]
    BY DEF Seals, SealOf
  <2>2. Seals' = [j \in DOMAIN snaps' |-> SealOf(snaps'[j], evidence'[j])]
    BY DEF Seals, SealOf
  <2>. QED  BY <1>2, <1>3, <2>1, <2>2
<1>. QED  BY <1>4, <1>5 DEF Stages, Shows

LEMMA StepsImplement == Inv /\ [Next]_vars => [Lifecycle!Next]_(Lifecycle!lifecycle)
<1> SUFFICES ASSUME Inv, [Next]_vars  PROVE [Lifecycle!Next]_(Lifecycle!lifecycle)
  OBVIOUS
<1> USE DEF Lifecycle!Next, Lifecycle!lifecycle
<1>1. TypeOK /\ DOMAIN Stages = DOMAIN snaps
  BY ViewTypes DEF Inv
<1>2. ASSUME NEW i \in DOMAIN snaps
      PROVE  /\ snaps[i] \in Header
             /\ evidence[i] \in Counters \cup {NoEvidence}
             /\ [evidence EXCEPT ![i] = evidence[i]] = evidence
             /\ snaps[i].state # "CERTIFIED" => evidence[i] = NoEvidence
             /\ evidence[i] = NoEvidence => [Seals EXCEPT ![i] = NoEvidence] = Seals
  <2>1. evidence \in [1 .. Len(evidence) -> Counters \cup {NoEvidence}]
    BY <1>1, LenProperties DEF TypeOK
  <2>2. snaps[i] \in Header /\ i \in 1 .. Len(evidence)
    BY <1>1, ElementOfSeq, LenProperties DEF TypeOK
  <2>3. snaps[i].state # "CERTIFIED" => evidence[i] = NoEvidence
    BY DEF Inv, SnapOK, IsCertified
  <2>4. evidence[i] = NoEvidence => [Seals EXCEPT ![i] = NoEvidence] = Seals
    BY DEF Seals
  <2>. QED  BY <2>1, <2>2, <2>3, <2>4
<1>3. audit.scans \in Nat /\ audit.anomalies \in Nat /\ audit \in Audit
  BY <1>1 DEF TypeOK, Audit
<1>4. Witnessed \in Counters /\ Witnessed # NoEvidence
  BY <1>3, AuditAssumption DEF Witnessed, Counters
<1>5. ASSUME NEW e \in Entries, Ingest(e)
      PROVE  [Lifecycle!Next]_(Lifecycle!lifecycle)
  <2>1. Stages' = Stages /\ Seals' = Seals  BY <1>5 DEF Ingest, Stages, Seals
  <2>2. CASE audit'.health = "DEGRADED"
    <3>1. IsDegraded' = TRUE  BY <2>2 DEF IsDegraded
    <3>. QED  BY <2>1, <3>1 DEF Lifecycle!Degrade
  <2>3. CASE audit'.health # "DEGRADED"
    <3>1. audit.health # "DEGRADED"
      BY <1>3, <1>5, <2>3, IngestKeepsDegraded, AuditAssumption DEF Ingest
    <3>2. IsDegraded' = IsDegraded  BY <2>3, <3>1 DEF IsDegraded
    <3>. QED  BY <2>1, <3>2
  <2>. QED  BY <2>2, <2>3
<1>6. CASE Create
  <2> DEFINE n == Len(snaps) + 1
             s == Created(n, Len(snaps))
  <2>1. /\ snaps \in Seq(Header) /\ evidence \in Seq(Counters \cup {NoEvidence})
        /\ Len(evidence) = Len(snaps) /\ Len(snaps) \in Nat
        /\ DOMAIN snaps = 1 .. Len(snaps)
    BY <1>1, LenProperties DEF TypeOK
  <2>2. s \in Header /\ s.state = "PENDING"  BY <2>1, CreatedType DEF Created
  <2>3. /\ snaps' \in Seq(Header) /\ Len(snaps') = n /\ snaps'[n] = s
        /\ \A i \in 1 .. Len(snaps) : snaps'[i] = snaps[i]
    BY <1>6, <2>1, <2>2, AppendProperties DEF Create
  <2>4. /\ evidence'[n] = NoEvidence
        /\ \A i \in 1 .. Len(snaps) : evidence'[i] = evidence[i]
    BY <1>6, <2>1, AppendProperties DEF Create
  <2>5. DOMAIN snaps' = 1 .. n  BY <2>3, LenProperties
  <2>6. TypeOK'  BY NextType, <1>1
  <2>7. /\ Stages' \in Seq(SnapState) /\ Seals' \in Seq(SealSet)
        /\ Len(Stages') = n /\ Len(Seals') = n
    <3>1. (TypeOK => /\ Stages \in Seq(SnapState) /\ Seals \in Seq(SealSet)
                     /\ Len(Stages) = Len(snaps) /\ Len(Seals) = Len(snaps)
                     /\ DOMAIN Stages = DOMAIN snaps /\ DOMAIN Seals = DOMAIN snaps)'
      BY ViewTypes, PTL
    <3>. QED  BY <2>3, <2>6, <3>1
  <2>8. /\ Stages \in Seq(SnapState) /\ Seals \in Seq(SealSet)
        /\ Len(Stages) = Len(snaps) /\ Len(Seals) = Len(snaps)
    BY <1>1, ViewTypes
  <2>9. "PENDING" \in SnapState /\ NoEvidence \in SealSet
    BY DEF SnapState, SealSet
  <2> HIDE DEF s
  <2>10. Stages' = Append(Stages, "PENDING")
    <3>1. /\ Append(Stages, "PENDING") \in Seq(SnapState)
          /\ Len(Append(Stages, "PENDING")) = n
          /\ \A i \in 1 .. Len(snaps) : Append(Stages, "PENDING")[i] = Stages[i]
          /\ Append(Stages, "PENDING")[n] = "PENDING"
      BY <2>8, <2>9, AppendProperties
    <3>2. \A i \in 1 .. Len(snaps) : Stages'[i] = Stages[i]
      BY <2>1, <2>3, <2>5 DEF Stages
    <3>3. Stages'[n] = "PENDING"  BY <2>1, <2>2, <2>3, <2>5 DEF Stages
    <3>4. \A i \in 1 .. n : Stages'[i] = Append(Stages, "PENDING")[i]
      BY <2>1, <3>1, <3>2, <3>3
    <3>. QED  BY <2>7, <3>1, <3>4, SeqEqual
  <2>11. Seals' = Append(Seals, NoEvidence)
    <3>1. /\ Append(Seals, NoEvidence) \in Seq(SealSet)
          /\ Len(Append(Seals, NoEvidence)) = n
          /\ \A i \in 1 .. Len(snaps) : Append(Seals, NoEvidence)[i] = Seals[i]
          /\ Append(Seals, NoEvidence)[n] = NoEvidence
      BY <2>8, <2>9, AppendProperties
    <3>2. ASSUME NEW i \in 1 .. Len(snaps)  PROVE Seals'[i] = Seals[i]
      <4>1. /\ i \in DOMAIN snaps /\ i \in DOMAIN snaps'
            /\ snaps'[i] = snaps[i] /\ evidence'[i] = evidence[i]
        BY <2>1, <2>3, <2>4, <2>5
      <4>. QED  BY <4>1 DEF Seals
    <3>3. Seals'[n] = NoEvidence  BY <2>1, <2>4, <2>5 DEF Seals
    <3>4. \A i \in 1 .. n : Seals'[i] = Append(Seals, NoEvidence)[i]
      BY <2>1, <3>1, <3>2, <3>3
    <3>. QED  BY <2>7, <3>1, <3>4, SeqEqual
  <2>12. IsDegraded' = IsDegraded  BY <1>6 DEF Create, IsDegraded
  <2>. QED  BY <2>10, <2>11, <2>12 DEF Lifecycle!Create
<1>7. ASSUME NEW i \in DOMAIN snaps, Certify(i) \/ CertifyFreeze(i)
      PROVE  Lifecycle!Next
  <2> DEFINE s == CertifiedBy(snaps[i], audit.scans, audit)
             w == Witnessed
  <2>1. s \in Header  BY <1>2, <1>3, HeaderOperations DEF Health
  <2>2. s.state = "CERTIFIED"
    BY <1>2 DEF CertifiedBy, Certified, Header
  <2>3. /\ audit' = audit /\ Replaces(i, s, w) /\ CanCertify(snaps[i], audit)
    BY <1>7 DEF Certify, CertifyFreeze, Replaces
  <2>4. w \in Counters \cup {NoEvidence}  BY <1>4
  <2>5. snaps[i].state = "PENDING" /\ ~IsDegraded /\ IsDegraded' = IsDegraded
    BY <2>3 DEF IsDegraded, CanCertify
  <2> HIDE DEF s, w
  <2>6. Shows(i, s.state, SealOf(s, w)) /\ Stages[i] = snaps[i].state /\ i \in DOMAIN Stages
    BY <1>1, <2>1, <2>3, <2>4, ViewUpdate
  <2> DEFINE seal == SealOf(s, w)
  <2> HIDE DEF seal
  <2>7. /\ Stages' = [Stages EXCEPT ![i] = "CERTIFIED"]
        /\ Seals' = [Seals EXCEPT ![i] = seal]
        /\ Stages[i] = "PENDING" /\ i \in DOMAIN Stages
    BY <2>2, <2>5, <2>6 DEF Shows, seal
  <2>8. Seals'[i] = seal
    BY <1>1, <2>7, ViewTypes
  <2>9. Lifecycle!Certify(i, Seals'[i])
    BY <2>5, <2>7, <2>8 DEF Lifecycle!Certify
  <2>. QED  BY <2>7, <2>9
<1> DEFINE Unsealed(i) == /\ i \in DOMAIN Stages /\ Seals' = Seals /\ Seals[i] = NoEvidence
                          /\ [Seals EXCEPT ![i] = Seals'[i]] = Seals
                          /\ IsDegraded' = IsDegraded
<1>8. ASSUME NEW i \in DOMAIN snaps, NEW s \in Header,
             snaps' = [snaps EXCEPT ![i] = s], audit' = audit, evidence' = evidence,
             snaps[i].state # "CERTIFIED"
      PROVE  Unsealed(i) /\ Shows(i, s.state, NoEvidence) /\ Stages[i] = snaps[i].state
  <2>1. evidence[i] = NoEvidence  BY <1>2, <1>8
  <2>2. Replaces(i, s, NoEvidence)  BY <1>2, <1>8, <2>1 DEF Replaces
  <2>3. /\ Shows(i, s.state, SealOf(s, NoEvidence)) /\ Stages[i] = snaps[i].state
        /\ i \in DOMAIN Stages
    BY <1>1, <2>2, ViewUpdate
  <2>4. SealOf(s, NoEvidence) = NoEvidence  BY DEF SealOf
  <2>5. Seals[i] = NoEvidence /\ [Seals EXCEPT ![i] = NoEvidence] = Seals
    BY <1>2, <2>1 DEF Seals
  <2>6. Seals' = Seals  BY <2>3, <2>4, <2>5 DEF Shows
  <2>7. IsDegraded' = IsDegraded  BY <1>8 DEF IsDegraded
  <2>. QED  BY <2>3, <2>4, <2>5, <2>6, <2>7
<1> HIDE DEF Unsealed
<1>9. ASSUME NEW i \in DOMAIN snaps, CertifyUnaudited(i)
      PROVE  Lifecycle!Next
  <2> DEFINE s == Certified(snaps[i], audit.scans)
  <2>1. s \in Header  BY <1>2, <1>3, HeaderOperations DEF Health
  <2>2. s.state = "CERTIFIED"  BY <1>2 DEF Certified, Header
  <2>3. /\ snaps' = [snaps EXCEPT ![i] = s] /\ audit' = audit /\ evidence' = evidence
        /\ snaps[i].state = "PENDING"
    BY <1>9 DEF CertifyUnaudited
  <2> HIDE DEF s
  <2>4. Unsealed(i) /\ Shows(i, "CERTIFIED", NoEvidence) /\ Stages[i] = "PENDING"
    BY <1>8, <2>1, <2>2, <2>3
  <2>5. Lifecycle!Certify(i, Seals'[i])  BY <2>4 DEF Unsealed, Shows, Lifecycle!Certify
  <2>. QED  BY <2>4, <2>5 DEF Unsealed
<1>10. ASSUME NEW i \in DOMAIN snaps, NEW health \in Health, AutoPromote(i, health)
      PROVE  Lifecycle!Next
  <2> DEFINE s == Promoted(snaps[i], health)
  <2>1. s \in Header  BY <1>2, <1>3, HeaderOperations DEF Health
  <2>2. s.state = "AUTO"  BY <1>2 DEF Promoted, Header
  <2>3. /\ snaps' = [snaps EXCEPT ![i] = s] /\ audit' = audit /\ evidence' = evidence
        /\ snaps[i].state = "PENDING"
    BY <1>10 DEF AutoPromote, CanPromote
  <2> HIDE DEF s
  <2>4. Unsealed(i) /\ Shows(i, "AUTO", NoEvidence) /\ Stages[i] = "PENDING"
    BY <1>8, <2>1, <2>2, <2>3
  <2>. QED  BY <2>4 DEF Unsealed, Shows, Lifecycle!Promote
<1>11. ASSUME NEW i \in DOMAIN snaps, Invalidate(i)
      PROVE  Lifecycle!Next
  <2> DEFINE s == Invalidated(snaps[i])
  <2>1. s \in Header  BY <1>2, <1>3, HeaderOperations DEF Health
  <2>2. s.state = "VOID"  BY <1>2 DEF Invalidated, Header
  <2>3. /\ snaps' = [snaps EXCEPT ![i] = s] /\ audit' = audit /\ evidence' = evidence
        /\ snaps[i].state = "AUTO"
    BY <1>11 DEF Invalidate, CanInvalidate
  <2> HIDE DEF s
  <2>4. Unsealed(i) /\ Shows(i, "VOID", NoEvidence) /\ Stages[i] = "AUTO"
    BY <1>8, <2>1, <2>2, <2>3
  <2>. QED  BY <2>4 DEF Unsealed, Shows, Lifecycle!Invalidate
<1>12. CASE UNCHANGED vars
  BY <1>12 DEF vars, Stages, Seals, IsDegraded
<1>. QED
  BY <1>5, <1>6, <1>7, <1>9, <1>10, <1>11, <1>12 DEF Next

LEMMA InitImplements == Init => Lifecycle!Init
<1> SUFFICES ASSUME Init  PROVE Lifecycle!Init
  OBVIOUS
<1>1. DOMAIN snaps = {}
  <2>1. << >> \in Seq(Header) /\ Len(<< >>) = 0  BY EmptySeq
  <2>. QED  BY <2>1, LenProperties DEF Init
<1>2. Stages = << >> /\ Seals = << >>  BY <1>1 DEF Stages, Seals
<1>3. IsDegraded = FALSE  BY DEF Init, AuditInit, IsDegraded
<1>. QED  BY <1>2, <1>3 DEF Lifecycle!Init

\* The snapshot functions, called in any order with any entries in between,
\* keep the life the header comment (lines 13-16 and 23-25) promises.
THEOREM SnapshotsImplementLifecycle == Spec => ImplementsLifecycle
  BY Invariance, InitImplements, StepsImplement, PTL
  DEF Spec, ImplementsLifecycle, Lifecycle!Spec

-----------------------------------------------------------------------------
(* PipelineWire: the lanes.                                                *)

Lines == [Lanes -> Seq(Nat)]

\* What a lane has been given and not lost: its file, then its batch.
Written(f, b) == [l \in Lanes |-> f[l] \o b[l]]

Rising(s) == \A i, j \in DOMAIN s : i < j => s[i] < s[j]

\* Lanes that hold operations up to n, each in order and none twice.
Ordered(w, n) ==
  /\ \A l \in Lanes : Rising(w[l]) /\ \A i \in DOMAIN w[l] : w[l][i] <= n
  /\ \A k, l \in Lanes : \A i \in DOMAIN w[k], j \in DOMAIN w[l] :
       w[k][i] = w[l][j] => k = l

Prefix(s, t) == Len(s) <= Len(t) /\ \A i \in 1 .. Len(s) : s[i] = t[i]

LaneInv == /\ WireTypeOK /\ LaneFaithful /\ CloseEmptiesBatches
           /\ Ordered(Written(file, batch), fed)

LEMMA ConcatNats ==
  ASSUME NEW s \in Seq(Nat), NEW t \in Seq(Nat)
  PROVE  /\ s \o t \in Seq(Nat)
         /\ Len(s) \in Nat /\ Len(t) \in Nat
         /\ Len(s \o t) = Len(s) + Len(t)
         /\ Len(s) <= Len(s \o t) /\ Len(s) <= Len(s)
         /\ \A i \in 1 .. Len(s) : (s \o t)[i] = s[i]
         /\ s \o << >> = s
         /\ Prefix(s, s) /\ Prefix(s, s \o t)
<1>1. Len(s) \in Nat /\ Len(t) \in Nat  BY LenProperties
<1>2. /\ s \o t \in Seq(Nat) /\ Len(s \o t) = Len(s) + Len(t)
      /\ \A i \in 1 .. Len(s) + Len(t) :
           (s \o t)[i] = IF i <= Len(s) THEN s[i] ELSE t[i - Len(s)]
  BY ConcatProperties
<1>3. \A i \in 1 .. Len(s) : i \in 1 .. Len(s) + Len(t) /\ i <= Len(s)
  BY <1>1
<1>4. \A i \in 1 .. Len(s) : (s \o t)[i] = s[i]  BY <1>2, <1>3
<1>5. s \o << >> = s  BY ConcatEmptySeq
<1>6. Prefix(s, s) /\ Prefix(s, s \o t)  BY <1>1, <1>2, <1>4 DEF Prefix
<1>. QED  BY <1>1, <1>2, <1>4, <1>5, <1>6

LEMMA ConcatKeeps ==
  ASSUME NEW s \in Seq(Nat), NEW t \in Seq(Nat), NEW i \in DOMAIN s
  PROVE  i \in DOMAIN (s \o t) /\ (s \o t)[i] = s[i]
<1> DEFINE m == Len(s)
           n == Len(t)
<1>1. m \in Nat /\ n \in Nat /\ i \in 1 .. m  BY LenProperties
<1>2. s \o t \in Seq(Nat) /\ Len(s \o t) = m + n /\ (s \o t)[i] = s[i]
  BY <1>1, ConcatNats
<1>3. DOMAIN (s \o t) = 1 .. m + n  BY <1>2, LenProperties
<1> HIDE DEF m, n
<1>4. i \in 1 .. m + n  BY <1>1
<1>. QED  BY <1>2, <1>3, <1>4

LEMMA PrefixOfPrefix ==
  ASSUME NEW s \in Seq(Nat), NEW t \in Seq(Nat), NEW u \in Seq(Nat),
         Prefix(s, t), Prefix(t, u)
  PROVE  Prefix(s, u)
<1>1. Len(s) \in Nat /\ Len(t) \in Nat /\ Len(u) \in Nat  BY LenProperties
<1>2. Len(s) <= Len(t) /\ Len(t) <= Len(u)  BY DEF Prefix
<1>3. \A i \in 1 .. Len(s) : i \in 1 .. Len(t)  BY <1>1, <1>2
<1>4. \A i \in 1 .. Len(s) : s[i] = u[i]  BY <1>3 DEF Prefix
<1>5. Len(s) <= Len(u)  BY <1>1, <1>2
<1>. QED  BY <1>4, <1>5 DEF Prefix

LEMMA ConcatAppend ==
  ASSUME NEW s \in Seq(Nat), NEW t \in Seq(Nat), NEW e \in Nat
  PROVE  s \o Append(t, e) = Append(s \o t, e)
  OBVIOUS

LEMMA WrittenType ==
  ASSUME NEW f \in Lines, NEW b \in Lines
  PROVE  /\ Written(f, b) \in Lines
         /\ \A l \in Lanes : /\ Written(f, b)[l] = f[l] \o b[l]
                             /\ Len(f[l] \o b[l]) = Len(f[l]) + Len(b[l])
                             /\ \A i \in 1 .. Len(f[l]) : (f[l] \o b[l])[i] = f[l][i]
<1>1. ASSUME NEW l \in Lanes
      PROVE  /\ f[l] \o b[l] \in Seq(Nat)
             /\ Len(f[l] \o b[l]) = Len(f[l]) + Len(b[l])
             /\ \A i \in 1 .. Len(f[l]) : (f[l] \o b[l])[i] = f[l][i]
  <2>1. f[l] \in Seq(Nat) /\ b[l] \in Seq(Nat)  BY DEF Lines
  <2>. QED  BY <2>1, ConcatNats
<1>. QED  BY <1>1 DEF Written, Lines

LEMMA PrefixOrdered ==
  ASSUME NEW w \in Lines, NEW v \in Lines, NEW m \in Nat, NEW n \in Nat, m <= n,
         Ordered(w, m), \A l \in Lanes : Prefix(v[l], w[l])
  PROVE  Ordered(v, n)
<1>1. ASSUME NEW l \in Lanes, NEW i \in DOMAIN v[l]
      PROVE  i \in Nat /\ i \in DOMAIN w[l] /\ v[l][i] = w[l][i] /\ w[l][i] \in Nat
  <2>1. v[l] \in Seq(Nat) /\ w[l] \in Seq(Nat)  BY DEF Lines
  <2>2. /\ DOMAIN v[l] = 1 .. Len(v[l]) /\ DOMAIN w[l] = 1 .. Len(w[l])
        /\ Len(v[l]) \in Nat /\ Len(w[l]) \in Nat
    BY <2>1, LenProperties
  <2>3. i \in 1 .. Len(v[l]) /\ i \in Nat  BY <1>1, <2>2
  <2>4. Prefix(v[l], w[l])  OBVIOUS
  <2>5. i \in 1 .. Len(w[l]) /\ v[l][i] = w[l][i]  BY <2>2, <2>3, <2>4 DEF Prefix
  <2>6. w[l][i] \in Nat  BY <2>1, <2>5, ElementOfSeq
  <2>. QED  BY <2>2, <2>3, <2>5, <2>6
<1>. QED  BY <1>1 DEF Ordered, Rising

LEMMA AppendOrdered ==
  ASSUME NEW w \in Lines, NEW n \in Nat, Ordered(w, n), NEW lane \in Lanes
  PROVE  Ordered([w EXCEPT ![lane] = Append(@, n + 1)], n + 1)
<1> DEFINE v == [w EXCEPT ![lane] = Append(@, n + 1)]
<1>1. ASSUME NEW l \in Lanes, NEW i \in DOMAIN v[l]
      PROVE  /\ i \in Nat
             /\ \/ i \in DOMAIN w[l] /\ v[l][i] = w[l][i] /\ w[l][i] \in Nat
                \/ l = lane /\ i = Len(w[l]) + 1 /\ v[l][i] = n + 1
  <2>1. w[l] \in Seq(Nat) /\ n + 1 \in Nat  BY DEF Lines
  <2>2. DOMAIN w[l] = 1 .. Len(w[l]) /\ Len(w[l]) \in Nat
    BY <2>1, LenProperties
  <2>3. \A k \in 1 .. Len(w[l]) : w[l][k] \in Nat  BY <2>1, ElementOfSeq
  <2>4. CASE l = lane
    <3>1. v[l] = Append(w[l], n + 1)  BY <2>4 DEF Lines
    <3>2. /\ v[l] \in Seq(Nat) /\ Len(v[l]) = Len(w[l]) + 1
          /\ \A k \in 1 .. Len(w[l]) : v[l][k] = w[l][k]
          /\ v[l][Len(w[l]) + 1] = n + 1
      BY <2>1, <3>1, AppendProperties
    <3>3. DOMAIN v[l] = 1 .. Len(w[l]) + 1  BY <3>2, LenProperties
    <3>4. i \in 1 .. Len(w[l]) + 1  BY <1>1, <3>3
    <3>5. CASE i \in 1 .. Len(w[l])
      BY <2>2, <2>3, <3>2, <3>5
    <3>6. CASE i = Len(w[l]) + 1
      BY <2>2, <2>4, <3>2, <3>6
    <3>. QED  BY <2>2, <3>4, <3>5, <3>6
  <2>5. CASE l # lane
    <3>1. v[l] = w[l]  BY <2>5 DEF Lines
    <3>. QED  BY <1>1, <2>2, <2>3, <3>1
  <2>. QED  BY <2>4, <2>5
<1>2. ASSUME NEW l \in Lanes  PROVE Rising(v[l])
  <2> SUFFICES ASSUME NEW i \in DOMAIN v[l], NEW j \in DOMAIN v[l], i < j
               PROVE  v[l][i] < v[l][j]
    BY DEF Rising
  <2>1. DOMAIN w[l] = 1 .. Len(w[l]) /\ Len(w[l]) \in Nat
    BY LenProperties DEF Lines
  <2> HIDE DEF v
  <2>2. \A k \in DOMAIN w[l] : w[l][k] <= n  BY DEF Ordered
  <2>3. Rising(w[l])  BY DEF Ordered
  <2>4. i \in DOMAIN w[l] /\ v[l][i] = w[l][i] /\ w[l][i] \in Nat /\ i \in Nat /\ j \in Nat
    BY <1>1, <2>1
  <2>5. CASE j \in DOMAIN w[l] /\ v[l][j] = w[l][j] /\ w[l][j] \in Nat
    BY <2>3, <2>4, <2>5 DEF Rising
  <2>6. CASE v[l][j] = n + 1
    BY <2>2, <2>4, <2>6
  <2>. QED  BY <1>1, <2>5, <2>6
<1>3. \A l \in Lanes : \A i \in DOMAIN v[l] : v[l][i] <= n + 1
  <2> HIDE DEF v
  <2>. QED  BY <1>1 DEF Ordered
<1>4. ASSUME NEW k \in Lanes, NEW l \in Lanes, NEW i \in DOMAIN v[k], NEW j \in DOMAIN v[l],
             v[k][i] = v[l][j]
      PROVE  k = l
  <2> HIDE DEF v
  <2>1. \A x \in Lanes : \A y \in DOMAIN w[x] : w[x][y] # n + 1
    <3>1. \A x \in Lanes : \A y \in DOMAIN w[x] : w[x][y] <= n /\ w[x][y] \in Nat
      BY ElementOfSeq, LenProperties DEF Ordered, Lines
    <3>. QED  BY <3>1
  <2>. QED  BY <1>1, <1>4, <2>1 DEF Ordered
<1> HIDE DEF v
<1>5. Ordered(v, n + 1)  BY <1>2, <1>3, <1>4 DEF Ordered
<1>. QED  BY <1>5 DEF v

LEMMA AppendOperations ==
  ASSUME NEW s \in Seq(Nat), NEW e \in Nat
  PROVE  Operations(Append(s, e)) = Operations(s) \cup {e}
<1> DEFINE n == Len(s)
           t == Append(s, e)
<1>1. n \in Nat /\ DOMAIN s = 1 .. n  BY LenProperties
<1>2. t \in Seq(Nat) /\ Len(t) = n + 1 /\ t[n + 1] = e /\ \A i \in 1 .. n : t[i] = s[i]
  BY AppendProperties
<1>3. DOMAIN t = 1 .. n + 1  BY <1>2, LenProperties
<1> HIDE DEF t, n
<1>4. DOMAIN t = DOMAIN s \cup {n + 1}  BY <1>1, <1>3
<1>5. Operations(t) = Operations(s) \cup {e}  BY <1>1, <1>2, <1>4 DEF Operations
<1>. QED  BY <1>5 DEF t

\* What is cut off the end of a sequence in order is no longer in it.
LEMMA CutOff ==
  ASSUME NEW s \in Seq(Nat), Rising(s), NEW k \in 0 .. Len(s)
  PROVE  /\ SubSeq(s, 1, k) \in Seq(Nat) /\ Len(SubSeq(s, 1, k)) = k
         /\ Prefix(SubSeq(s, 1, k), s)
         /\ Operations(SubSeq(s, k + 1, Len(s))) \subseteq Operations(s)
         /\ Operations(SubSeq(s, 1, k)) =
              Operations(s) \ Operations(SubSeq(s, k + 1, Len(s)))
<1> DEFINE n == Len(s)
           p == SubSeq(s, 1, k)
           r == SubSeq(s, k + 1, n)
<1>1. n \in Nat /\ DOMAIN s = 1 .. n /\ k \in Nat /\ k <= n  BY LenProperties
<1>2. \A i \in 1 .. n : s[i] \in Nat  BY <1>1, ElementOfSeq
<1>3. /\ p \in Seq(Nat) /\ Len(p) = k
      /\ \A i \in 1 .. k : p[i] = s[i]
  <2>1. \A i \in 1 .. k : s[i] \in Nat  BY <1>1, <1>2
  <2>2. /\ SubSeq(s, 1, k) \in Seq(Nat)
        /\ Len(SubSeq(s, 1, k)) = IF 1 <= k THEN k - 1 + 1 ELSE 0
        /\ \A i \in 1 .. k - 1 + 1 : SubSeq(s, 1, k)[i] = s[1 + i - 1]
    BY <1>1, <2>1, SubSeqProperties
  <2>3. k - 1 + 1 = k /\ \A i \in 1 .. k : 1 + i - 1 = i  BY <1>1
  <2>. QED  BY <1>1, <2>2, <2>3
<1>4. /\ r \in Seq(Nat) /\ Len(r) = n - k
      /\ \A i \in 1 .. n - k : r[i] = s[k + i]
  <2>1. k + 1 \in Int /\ n \in Int /\ \A i \in k + 1 .. n : s[i] \in Nat  BY <1>1, <1>2
  <2>2. /\ SubSeq(s, k + 1, n) \in Seq(Nat)
        /\ Len(SubSeq(s, k + 1, n)) = IF k + 1 <= n THEN n - (k + 1) + 1 ELSE 0
        /\ \A i \in 1 .. n - (k + 1) + 1 : SubSeq(s, k + 1, n)[i] = s[k + 1 + i - 1]
    BY <2>1, SubSeqProperties
  <2>3. n - (k + 1) + 1 = n - k /\ \A i \in 1 .. n - k : k + 1 + i - 1 = k + i  BY <1>1
  <2>4. (IF k + 1 <= n THEN n - (k + 1) + 1 ELSE 0) = n - k
    <3> HIDE DEF n
    <3>. QED  BY <1>1, SMT
  <2>. QED  BY <2>2, <2>3, <2>4, Zenon
<1>5. DOMAIN p = 1 .. k /\ DOMAIN r = 1 .. n - k  BY <1>3, <1>4, LenProperties
<1> HIDE DEF p, r, n
<1>6. Operations(p) = {s[i] : i \in 1 .. k}  BY <1>3, <1>5 DEF Operations
<1>7. Operations(r) = {s[i] : i \in k + 1 .. n}
  <2>1. \A i \in 1 .. n - k : k + i \in k + 1 .. n  BY <1>1
  <2>2. \A j \in k + 1 .. n : j - k \in 1 .. n - k /\ k + (j - k) = j  BY <1>1
  <2>3. Operations(r) = {r[i] : i \in 1 .. n - k}  BY <1>5 DEF Operations
  <2>4. \A i \in 1 .. n - k : r[i] \in {s[j] : j \in k + 1 .. n}
    BY <1>4, <2>1
  <2>5. \A j \in k + 1 .. n : s[j] = r[j - k]
    BY <1>4, <2>2
  <2>6. \A j \in k + 1 .. n : s[j] \in {r[i] : i \in 1 .. n - k}
    BY <2>2, <2>5
  <2>. QED  BY <2>3, <2>4, <2>6
<1>8. \A i \in 1 .. k, j \in k + 1 .. n : s[i] # s[j]
  <2>1. \A i \in 1 .. k, j \in k + 1 .. n : i \in 1 .. n /\ j \in 1 .. n /\ i < j  BY <1>1
  <2>2. \A i, j \in 1 .. n : i < j => s[i] < s[j]  BY <1>1 DEF Rising
  <2>3. \A i, j \in 1 .. n : s[i] < s[j] => s[i] # s[j]  BY <1>2
  <2>. QED  BY <2>1, <2>2, <2>3
<1>9. 1 .. n = (1 .. k) \cup (k + 1 .. n)  BY <1>1
<1>10. Operations(s) = Operations(p) \cup Operations(r)
  BY <1>1, <1>6, <1>7, <1>9 DEF Operations
<1>11. Operations(p) \cap Operations(r) = {}  BY <1>6, <1>7, <1>8
<1>12. Prefix(p, s)  BY <1>1, <1>3 DEF Prefix, n
<1>. QED  BY <1>3, <1>10, <1>11, <1>12 DEF p, r, n

\* Before and after some lanes keep a first part of what they were given, q being
\* what they were pushed: the order stays, and what is missing is accounted for.
BeforeKept(lanes, b, q, n, kept) ==
  /\ b \in Lines /\ q \in Lines /\ file \in Lines /\ lost \in [Lanes -> SUBSET (0 .. n)]
  /\ Ordered(Written(file, b), n)
  /\ \A l \in Lanes : Operations(file[l] \o b[l]) = Operations(q[l]) \ lost[l]
  /\ \A l \in Lanes : l \in lanes => kept[l] \in 0 .. Len(file[l] \o b[l])
  /\ Kept(lanes, b, kept)

AfterKept(lanes, b, q, n, kept) ==
  /\ file' \in Lines /\ batch' \in Lines /\ lost' \in [Lanes -> SUBSET (0 .. n)]
  /\ Ordered(Written(file', batch'), n)
  /\ \A l \in Lanes :
       /\ Operations(file'[l] \o batch'[l]) = Operations(q[l]) \ lost'[l]
       /\ batch'[l] = IF l \in lanes THEN << >> ELSE b[l]
       /\ Len(file'[l]) = IF l \in lanes THEN kept[l] ELSE Len(file[l])

LEMMA KeptEffect ==
  ASSUME NEW lanes, NEW b, NEW q, NEW n \in Nat, NEW kept, BeforeKept(lanes, b, q, n, kept)
  PROVE  AfterKept(lanes, b, q, n, kept)
<1>. USE DEF BeforeKept
<1> DEFINE w == Written(file, b)
<1>1. w \in Lines /\ \A l \in Lanes : w[l] = Given(l, b)
  BY WrittenType DEF Given
<1>2. Ordered(w, n)  OBVIOUS
<1> HIDE DEF w
<1>3. ASSUME NEW l \in Lanes
      PROVE  /\ w[l] \in Seq(Nat) /\ Rising(w[l]) /\ file[l] \in Seq(Nat) /\ b[l] \in Seq(Nat)
             /\ Operations(w[l]) \subseteq 0 .. n
  <2>1. w[l] \in Seq(Nat) /\ file[l] \in Seq(Nat) /\ b[l] \in Seq(Nat)
    BY <1>1 DEF Lines
  <2>2. Rising(w[l]) /\ \A i \in DOMAIN w[l] : w[l][i] <= n  BY <1>2 DEF Ordered
  <2>3. \A i \in DOMAIN w[l] : w[l][i] \in Nat  BY <2>1, ElementOfSeq, LenProperties
  <2>4. \A i \in DOMAIN w[l] : w[l][i] \in 0 .. n  BY <2>2, <2>3
  <2>. QED  BY <2>1, <2>2, <2>4 DEF Operations
<1>4. ASSUME NEW l \in Lanes
      PROVE  /\ file'[l] \in Seq(Nat) /\ batch'[l] \in Seq(Nat) /\ lost'[l] \subseteq 0 .. n
             /\ Prefix(file'[l] \o batch'[l], w[l])
             /\ Operations(file'[l] \o batch'[l]) = Operations(q[l]) \ lost'[l]
             /\ batch'[l] = IF l \in lanes THEN << >> ELSE b[l]
             /\ Len(file'[l]) = IF l \in lanes THEN kept[l] ELSE Len(file[l])
  <2>1. lost[l] \subseteq 0 .. n /\ Operations(w[l]) = Operations(q[l]) \ lost[l]
    BY <1>1 DEF Given
  <2>2. CASE l \in lanes
    <3> DEFINE p == SubSeq(w[l], 1, kept[l])
               r == SubSeq(w[l], kept[l] + 1, Len(w[l]))
    <3>1. file'[l] = p /\ batch'[l] = << >> /\ lost'[l] = lost[l] \cup Operations(r)
      BY <1>1, <2>2 DEF Kept
    <3>2. kept[l] \in 0 .. Len(w[l])  BY <1>1, <2>2 DEF Given
    <3>3. /\ p \in Seq(Nat) /\ Len(p) = kept[l] /\ Prefix(p, w[l])
          /\ Operations(r) \subseteq Operations(w[l])
          /\ Operations(p) = Operations(w[l]) \ Operations(r)
      BY <1>3, <3>2, CutOff
    <3> HIDE DEF p, r
    <3>4. p \o << >> = p /\ << >> \in Seq(Nat)  BY <3>3, ConcatEmptySeq, EmptySeq
    <3>5. file'[l] \o batch'[l] = p  BY <3>1, <3>4
    <3>6. Operations(p) = Operations(q[l]) \ lost'[l]  BY <2>1, <3>1, <3>3
    <3>7. lost'[l] \subseteq 0 .. n  BY <1>3, <2>1, <3>1, <3>3
    <3>. QED  BY <2>2, <3>1, <3>3, <3>4, <3>5, <3>6, <3>7
  <2>3. CASE l \notin lanes
    <3>1. file'[l] = file[l] /\ batch'[l] = b[l] /\ lost'[l] = lost[l]
      BY <2>3 DEF Kept
    <3>2. file'[l] \o batch'[l] = w[l]  BY <1>1, <3>1 DEF Given
    <3>3. Prefix(w[l], w[l])  BY <1>3, LenProperties DEF Prefix
    <3>. QED  BY <1>3, <2>1, <2>3, <3>1, <3>2, <3>3
  <2>. QED  BY <2>2, <2>3
<1>5. /\ file' = [l \in Lanes |-> file'[l]] /\ batch' = [l \in Lanes |-> batch'[l]]
      /\ lost' = [l \in Lanes |-> lost'[l]]
  BY DEF Kept
<1>6. file' \in Lines /\ batch' \in Lines /\ lost' \in [Lanes -> SUBSET (0 .. n)]
  BY <1>4, <1>5 DEF Lines
<1>7. Ordered(Written(file', batch'), n)
  <2> DEFINE v == Written(file', batch')
  <2>1. v \in Lines /\ \A l \in Lanes : v[l] = file'[l] \o batch'[l]
    BY <1>6, WrittenType
  <2> HIDE DEF v
  <2>2. \A l \in Lanes : Prefix(v[l], w[l])  BY <1>4, <2>1
  <2>3. n <= n  OBVIOUS
  <2>4. Ordered(v, n)  BY <1>1, <1>2, <2>1, <2>2, <2>3, PrefixOrdered
  <2>. QED  BY <2>4 DEF v
<1>. QED  BY <1>4, <1>6, <1>7 DEF AfterKept

\* A file keeps at least what stdio was sure of, and at most what it was given.
LEMMA KeepableBounds ==
  ASSUME NEW l \in Lanes, NEW b \in Lines, file \in Lines, NEW safe \in 0 .. Len(file[l]),
         NEW k \in Keepable(l, b, safe)
  PROVE  k \in safe .. Len(Given(l, b)) /\ Len(file[l]) \in Nat
<1>1. file[l] \in Seq(Nat) /\ b[l] \in Seq(Nat)  BY DEF Lines
<1>2. /\ Len(file[l]) \in Nat /\ Len(Given(l, b)) \in Nat
      /\ Len(file[l]) <= Len(Given(l, b))
  BY <1>1, ConcatNats, LenProperties DEF Given
<1>. QED  BY <1>2 DEF Keepable

LEMMA LinesType == WireTypeOK => /\ file \in Lines /\ batch \in Lines /\ pushed \in Lines
  BY DEF WireTypeOK, Lines

LEMMA LaneInit == WireInit => LaneInv
<1> SUFFICES ASSUME WireInit  PROVE LaneInv
  OBVIOUS
<1> USE DEF WireInit
<1>1. /\ << >> \in Seq(Nat) /\ Len(<< >>) = 0 /\ << >> \in Seq(Certificate)
  BY EmptySeq
<1>2. AuditInit \in Audit /\ Created(1, 0) \in Header
  BY AuditInitType, CreatedType
<1>3. ghost \in [Slots -> Slot]
  BY PipelineAssumption DEF EmptyTable, Slot
<1>4. opened \subseteq Lanes  BY DEF Openable
<1>5. WireTypeOK
  BY <1>1, <1>2, <1>3, <1>4, PipelineAssumption DEF WireTypeOK
<1>6. \A l \in Lanes : file[l] \o batch[l] = << >>
  BY <1>1, ConcatEmptySeq
<1>7. LaneFaithful /\ CloseEmptiesBatches
  BY <1>6 DEF LaneFaithful, CloseEmptiesBatches, Given, Operations
<1>8. \A l \in Lanes : Written(file, batch)[l] = << >>  BY <1>6 DEF Written
<1>9. Ordered(Written(file, batch), fed)  BY <1>8 DEF Ordered, Rising
<1>. QED  BY <1>5, <1>7, <1>9 DEF LaneInv

-----------------------------------------------------------------------------
(* PipelineWire: types of what the lanes do not hold.                      *)

LEMMA SlotOfType ==
  ASSUME NEW sig \in Sigs
  PROVE  SlotOf(sig) \in Slots
<1>1. sig \in Int /\ NumSlots \in Nat \ {0}  BY PipelineAssumption
<1>. QED  BY <1>1, Division DEF SlotOf, Slots

\* The ghost table g names only what is in the set e of earned pairs, each
\* signature in its own slot.
Names(g, e) ==
  \A s \in Slots :
    \/ g[s].sig = 0
    \/ SlotOf(g[s].sig) = s /\ << g[s].sig, g[s].ctx >> \in e

\* _ghost_lookup moves the hits of the entry found and nothing else.
LEMMA LookedFields ==
  ASSUME NEW g \in [Slots -> Slot], NEW sig \in Sigs
  PROVE  /\ Looked(g, sig) \in [Slots -> Slot]
         /\ \A s \in Slots : /\ Looked(g, sig)[s].sig = g[s].sig
                             /\ Looked(g, sig)[s].ctx = g[s].ctx
<1>1. CASE ~Found(g, sig)
  BY <1>1 DEF Looked
<1>2. CASE Found(g, sig)
  <2> DEFINE t == SlotOf(sig)
             h == (g[t].hits + 1) % HitMod
  <2>1. t \in Slots  BY SlotOfType
  <2>2. g[t] \in Slot  BY <2>1
  <2>3. g[t].hits + 1 \in Int /\ HitMod \in Nat \ {0}
    BY <2>2, PipelineAssumption DEF Slot
  <2>4. h \in 0 .. (HitMod - 1)  BY <2>3, Division
  <2>5. Looked(g, sig) = [g EXCEPT ![t].hits = h]  BY <1>2 DEF Looked
  <2> HIDE DEF h, t
  <2>6. [g[t] EXCEPT !.hits = h] \in Slot  BY <2>2, <2>4 DEF Slot
  <2>7. /\ [g[t] EXCEPT !.hits = h].sig = g[t].sig
        /\ [g[t] EXCEPT !.hits = h].ctx = g[t].ctx
    BY <2>2 DEF Slot
  <2>. QED  BY <2>1, <2>5, <2>6, <2>7
<1>. QED  BY <1>1, <1>2

\* _wire_ghost_store never writes anything but the pair it was called with.
LEMMA StoredFields ==
  ASSUME NEW g \in [Slots -> Slot], NEW sig \in Sigs, NEW ctx \in Ctxs
  PROVE  /\ Stored(g, sig, ctx) \in [Slots -> Slot]
         /\ \A e : Names(g, e) /\ << sig, ctx >> \in e => Names(Stored(g, sig, ctx), e)
<1> DEFINE t == SlotOf(sig)
           n == [sig |-> sig, ctx |-> ctx, hits |-> 1]
           k == [g EXCEPT ![t] = n]
<1>1. t \in Slots  BY SlotOfType
<1>2. n \in Slot  BY PipelineAssumption DEF Slot
<1>3. Stored(g, sig, ctx) = k \/ Stored(g, sig, ctx) = g  BY DEF Stored
<1>4. n.sig = sig /\ n.ctx = ctx  OBVIOUS
<1> HIDE DEF n
<1>5. k \in [Slots -> Slot]  BY <1>1, <1>2
<1>6. \A s \in Slots : k[s] = IF s = t THEN n ELSE g[s]  BY <1>1
<1> HIDE DEF k
<1>7. \A e : Names(g, e) /\ << sig, ctx >> \in e => Names(k, e)
  BY <1>4, <1>6 DEF Names
<1>. QED  BY <1>3, <1>5, <1>7

\* What one operation leaves in the ghost table, given what L3 has earned so far
\* and with it: only earned pairs; and a route to MAIN was earned.
LEMMA ConsultedFields ==
  ASSUME NEW op \in Op, ghost \in [Slots -> Slot], NEW e,
         earned \subseteq e, op.l3 = "MAIN" => << op.sig, op.ctx >> \in e
  PROVE  /\ Consulted(op) \in [Slots -> Slot]
         /\ Names(ghost, earned) =>
              /\ Names(Consulted(op), e)
              /\ RouteOf(op) = "MAIN" => op.sig \in Signatures(e)
<1> DEFINE g == Looked(ghost, op.sig)
<1>1. op.sig \in Sigs /\ op.ctx \in Ctxs  BY DEF Op
<1>2. /\ g \in [Slots -> Slot]
      /\ \A s \in Slots : g[s].sig = ghost[s].sig /\ g[s].ctx = ghost[s].ctx
  BY <1>1, LookedFields
<1>3. Names(ghost, earned) => Names(ghost, e) /\ Names(g, e)
  <2> HIDE DEF g
  <2>. QED  BY <1>2 DEF Names
<1>4. /\ Cached(op) \in [Slots -> Slot]
      /\ Names(ghost, earned) => Names(Cached(op), e)
  <2>1. CASE ~Trusted(op) /\ op.l3 = "MAIN"
    <3>1. Cached(op) = Stored(g, op.sig, op.ctx)  BY <2>1 DEF Cached
    <3> HIDE DEF g
    <3>. QED  BY <1>1, <1>2, <1>3, <2>1, <3>1, StoredFields
  <2>2. CASE ~(~Trusted(op) /\ op.l3 = "MAIN")
    <3>1. Cached(op) = g  BY <2>2 DEF Cached
    <3> HIDE DEF g
    <3>. QED  BY <1>2, <1>3, <3>1
  <2>. QED  BY <2>1, <2>2
<1>5. /\ Looked(Cached(op), op.sig) \in [Slots -> Slot]
      /\ \A s \in Slots : /\ Looked(Cached(op), op.sig)[s].sig = Cached(op)[s].sig
                          /\ Looked(Cached(op), op.sig)[s].ctx = Cached(op)[s].ctx
  BY <1>1, <1>4, LookedFields
<1>6. Names(Cached(op), e) => Names(Looked(Cached(op), op.sig), e)
  BY <1>5 DEF Names
<1>7. /\ Consulted(op) \in [Slots -> Slot]
      /\ Names(ghost, earned) => Names(Consulted(op), e)
  <2> DEFINE c == Cached(op)
             k == Looked(c, op.sig)
  <2>1. Consulted(op) = c \/ Consulted(op) = k  BY DEF Consulted
  <2> HIDE DEF c, k
  <2>. QED  BY <1>4, <1>5, <1>6, <2>1 DEF c, k
<1>8. ASSUME Names(ghost, earned), RouteOf(op) = "MAIN"
      PROVE  op.sig \in Signatures(e)
  <2>0. SlotOf(op.sig) \in Slots  BY <1>1, SlotOfType
  <2>1. Decided(op) = "MAIN" \/ Matured(op)
    BY <1>8 DEF RouteOf
  <2>2. ASSUME NEW h, Names(h, e), Found(h, op.sig)
        PROVE  op.sig \in Signatures(e)
    <3>1. << h[SlotOf(op.sig)].sig, h[SlotOf(op.sig)].ctx >> \in e
      BY <2>0, <2>2 DEF Names, Found
    <3>2. h[SlotOf(op.sig)].sig = op.sig  BY <2>2 DEF Found
    <3>. QED  BY <3>1, <3>2 DEF Signatures
  <2>3. CASE Trusted(op)
    BY <1>3, <1>8, <2>2, <2>3 DEF Trusted
  <2>4. CASE op.l3 = "MAIN"
    BY <2>4 DEF Signatures
  <2>5. CASE Matured(op)
    <3>1. Found(Cached(op), op.sig)  BY <2>5 DEF Matured
    <3>. QED  BY <1>4, <1>8, <2>2, <3>1
  <2>. QED  BY <2>1, <2>3, <2>4, <2>5 DEF Decided
<1>. QED  BY <1>7, <1>8

-----------------------------------------------------------------------------
\* wd_push of the next operation, with the flush it may bring on.
LEMMA PushEffect ==
  ASSUME LaneInv, status = "open", NEW lane \in Lanes, Push(lane, fed + 1),
         fed' = fed + 1, opened' = opened, status' = status, synced' = synced
  PROVE  /\ file' \in Lines /\ batch' \in Lines /\ pushed' \in Lines
         /\ lost' \in [Lanes -> SUBSET (0 .. fed')]
         /\ \A l \in Lanes : Len(batch'[l]) < Batch /\ synced'[l] <= Len(file'[l])
         /\ LaneFaithful' /\ CloseEmptiesBatches'
         /\ Ordered(Written(file, batch), fed)'
<1> DEFINE b == [batch EXCEPT ![lane] = Append(@, fed + 1)]
           full == {l \in {lane} : Len(b[l]) >= Batch}
           w == Written(file, batch)
<1>1. /\ file \in Lines /\ batch \in Lines /\ pushed \in Lines
      /\ fed \in Nat /\ fed + 1 \in Nat /\ Batch \in Nat \ {0}
      /\ \A l \in Lanes : Len(batch[l]) < Batch /\ synced[l] <= Len(file[l])
      /\ \A l \in Lanes : synced[l] \in Nat
      /\ opened \subseteq Lanes /\ lost \in [Lanes -> SUBSET (0 .. fed)]
  BY LinesType, PipelineAssumption DEF LaneInv, WireTypeOK
<1>2. ASSUME NEW l \in Lanes
      PROVE  /\ b[l] \in Seq(Nat) /\ Len(b[l]) \in Nat /\ Len(batch[l]) \in Nat
             /\ b[l] = IF l = lane THEN Append(batch[l], fed + 1) ELSE batch[l]
             /\ file[l] \o b[l] = IF l = lane THEN Append(w[l], fed + 1) ELSE w[l]
             /\ w[l] = file[l] \o batch[l]
  <2>1. batch[l] \in Seq(Nat) /\ file[l] \in Seq(Nat)  BY <1>1 DEF Lines
  <2>2. b[l] = IF l = lane THEN Append(batch[l], fed + 1) ELSE batch[l]
    BY <1>1 DEF Lines
  <2>3. b[l] \in Seq(Nat)  BY <1>1, <2>1, <2>2, AppendProperties
  <2>4. w[l] = file[l] \o batch[l]  BY DEF Written
  <2>5. file[l] \o Append(batch[l], fed + 1) = Append(w[l], fed + 1)
    <3>1. file[l] \o Append(batch[l], fed + 1) = Append(file[l] \o batch[l], fed + 1)
      BY <1>1, <2>1, ConcatAppend
    <3> HIDE DEF w
    <3>. QED  BY <2>4, <3>1
  <2>6. Len(b[l]) \in Nat /\ Len(batch[l]) \in Nat  BY <2>1, <2>3, LenProperties
  <2>7. file[l] \o b[l] = IF l = lane THEN Append(w[l], fed + 1) ELSE w[l]
    BY <2>2, <2>4, <2>5
  <2> HIDE DEF b, w
  <2>. QED  BY <2>2, <2>3, <2>4, <2>6, <2>7
<1>3. b \in Lines
  <2>1. b = [l \in Lanes |-> b[l]]  BY <1>1 DEF Lines
  <2> HIDE DEF b
  <2>. QED  BY <1>2, <2>1 DEF Lines
<1>4. Flushed(full, b) /\ pushed' = [pushed EXCEPT ![lane] = Append(@, fed + 1)]
  BY DEF Push
<1>5. \A l \in Lanes : l \in full <=> l = lane /\ Len(b[l]) >= Batch
  OBVIOUS
<1>6. w \in Lines  BY <1>1, WrittenType
<1>7. Ordered(w, fed) /\ LaneFaithful  BY DEF LaneInv
<1> HIDE DEF b, full, w
<1>8. ASSUME NEW l \in Lanes
      PROVE  /\ pushed'[l] \in Seq(Nat)
             /\ pushed'[l] = IF l = lane THEN Append(pushed[l], fed + 1) ELSE pushed[l]
             /\ Operations(Given(l, b)) = Operations(pushed'[l]) \ lost[l]
  <2>1. pushed[l] \in Seq(Nat) /\ w[l] \in Seq(Nat)  BY <1>1, <1>6 DEF Lines
  <2>2. pushed'[l] = IF l = lane THEN Append(pushed[l], fed + 1) ELSE pushed[l]
    BY <1>1, <1>4 DEF Lines
  <2>3. Operations(w[l]) = Operations(pushed[l]) \ lost[l]
    BY <1>2, <1>7 DEF LaneFaithful, Given
  <2>4. fed + 1 \notin lost[l]
    <3>1. lost[l] \subseteq 0 .. fed  BY <1>1
    <3>. QED  BY <1>1, <3>1
  <2>5. Given(l, b) = IF l = lane THEN Append(w[l], fed + 1) ELSE w[l]
    BY <1>2 DEF Given
  <2>6. CASE l = lane
    <3>1. Operations(Append(w[l], fed + 1)) = Operations(w[l]) \cup {fed + 1}
      BY <1>1, <2>1, AppendOperations
    <3>2. Operations(Append(pushed[l], fed + 1)) = Operations(pushed[l]) \cup {fed + 1}
      BY <1>1, <2>1, AppendOperations
    <3>3. Append(pushed[l], fed + 1) \in Seq(Nat)  BY <1>1, <2>1, AppendProperties
    <3>. QED  BY <2>2, <2>3, <2>4, <2>5, <2>6, <3>1, <3>2, <3>3
  <2>7. CASE l # lane
    BY <2>1, <2>2, <2>3, <2>5, <2>7
  <2>. QED  BY <2>6, <2>7
<1>9. pushed' \in Lines
  <2>1. pushed' = [l \in Lanes |-> pushed'[l]]  BY <1>1, <1>4 DEF Lines
  <2>. QED  BY <1>8, <2>1 DEF Lines
<1>10. Ordered(Written(file, b), fed + 1)
  <2> DEFINE v == [w EXCEPT ![lane] = Append(@, fed + 1)]
             u == Written(file, b)
  <2>1. Ordered(v, fed + 1)  BY <1>1, <1>6, <1>7, AppendOrdered
  <2>2. \A l \in Lanes : v[l] = u[l]
    BY <1>2, <1>6 DEF Lines, Written
  <2> HIDE DEF v, u
  <2>3. Ordered(u, fed + 1)  BY <2>1, <2>2 DEF Ordered
  <2>. QED  BY <2>3 DEF u
<1>11. PICK kept \in [full -> 0 .. MaxOps] :
         /\ \A l \in full : kept[l] \in Keepable(l, b, Len(file[l]))
         /\ Kept(full, b, kept)
  BY <1>4 DEF Flushed
<1>12. \A l \in Lanes : Len(file[l]) \in 0 .. Len(file[l])
  <2>1. \A l \in Lanes : file[l] \in Seq(Nat)  BY <1>1 DEF Lines
  <2>2. \A l \in Lanes : Len(file[l]) \in Nat  BY <2>1, LenProperties
  <2>. QED  BY <2>2
<1>13. \A l \in Lanes : l \in full =>
         kept[l] \in Len(file[l]) .. Len(Given(l, b)) /\ Len(file[l]) \in Nat
  BY <1>1, <1>3, <1>11, <1>12, KeepableBounds
<1>14. lost \in [Lanes -> SUBSET (0 .. fed + 1)]
  <2>1. 0 .. fed \subseteq 0 .. fed + 1  BY <1>1
  <2>. QED  BY <1>1, <2>1
<1>15. \A l \in Lanes : l \in full => kept[l] \in 0 .. Len(Given(l, b))
  BY <1>13
<1>16. /\ file' \in Lines /\ batch' \in Lines /\ lost' \in [Lanes -> SUBSET (0 .. fed + 1)]
       /\ Ordered(Written(file', batch'), fed + 1)
       /\ \A l \in Lanes :
            /\ Operations(file'[l] \o batch'[l]) = Operations(pushed'[l]) \ lost'[l]
            /\ batch'[l] = IF l \in full THEN << >> ELSE b[l]
            /\ Len(file'[l]) = IF l \in full THEN kept[l] ELSE Len(file[l])
  <2>1. \A l \in Lanes :
          /\ Operations(file[l] \o b[l]) = Operations(pushed'[l]) \ lost[l]
          /\ l \in full => kept[l] \in 0 .. Len(file[l] \o b[l])
    BY <1>8, <1>15 DEF Given
  <2>2. Kept(full, b, kept)  BY <1>11
  <2>3. fed + 1 \in Nat  BY <1>1
  <2>4. BeforeKept(full, b, pushed', fed + 1, kept)
    BY <1>1, <1>3, <1>9, <1>10, <1>14, <2>1, <2>2 DEF BeforeKept
  <2>5. AfterKept(full, b, pushed', fed + 1, kept)  BY <2>3, <2>4, KeptEffect
  <2>. QED  BY <2>5 DEF AfterKept
<1>17. ASSUME NEW l \in Lanes
       PROVE  Len(batch'[l]) < Batch /\ synced'[l] <= Len(file'[l])
  <2>1. Len(batch'[l]) < Batch
    <3>1. CASE l \in full
      <4>1. batch'[l] = << >>  BY <1>16, <3>1
      <4>2. Len(<< >>) = 0  BY EmptySeq
      <4>. QED  BY <1>1, <4>1, <4>2
    <3>2. CASE l \notin full /\ l = lane
      <4>1. batch'[l] = b[l] /\ ~(Len(b[l]) >= Batch)  BY <1>5, <1>16, <3>2
      <4>. QED  BY <1>1, <1>2, <4>1
    <3>3. CASE l # lane
      <4>1. batch'[l] = batch[l]  BY <1>2, <1>5, <1>16, <3>3
      <4>. QED  BY <1>1, <4>1
    <3>. QED  BY <3>1, <3>2, <3>3
  <2>2. Len(file[l]) <= Len(file'[l]) /\ Len(file[l]) \in Nat /\ Len(file'[l]) \in Nat
    <3>1. file'[l] \in Seq(Nat) /\ file[l] \in Seq(Nat)  BY <1>1, <1>16 DEF Lines
    <3>2. Len(file[l]) \in Nat /\ Len(file'[l]) \in Nat  BY <3>1, LenProperties
    <3>. QED  BY <1>13, <1>16, <3>2
  <2>3. synced[l] \in Nat /\ synced[l] <= Len(file[l])  BY <1>1
  <2>. QED  BY <2>1, <2>2, <2>3
<1>18. LaneFaithful' /\ CloseEmptiesBatches'
  BY <1>16 DEF LaneFaithful, CloseEmptiesBatches, Given
<1>. QED  BY <1>9, <1>16, <1>17, <1>18 DEF Ordered, Written

\* The other lane operations: what they are given and what they keep is a prefix
\* of what there was.
LEMMA LanesShrink ==
  ASSUME LaneInv, NEW f \in Lines, NEW b \in Lines, NEW n \in Nat, fed <= n,
         \A l \in Lanes : Prefix(f[l] \o b[l], file[l] \o batch[l])
  PROVE  Ordered(Written(f, b), n)
<1> DEFINE w == Written(file, batch)
           v == Written(f, b)
<1>1. w \in Lines /\ v \in Lines /\ fed \in Nat /\ Ordered(w, fed)
  BY LinesType, WrittenType DEF LaneInv, WireTypeOK
<1>2. \A l \in Lanes : w[l] = file[l] \o batch[l] /\ v[l] = f[l] \o b[l]
  BY DEF Written
<1> HIDE DEF w, v
<1>3. \A l \in Lanes : Prefix(v[l], w[l])  BY <1>2
<1>4. Ordered(v, n)  BY <1>1, <1>3, PrefixOrdered
<1>. QED  BY <1>4 DEF v

\* Flush and Close: every batch is emptied, and a file keeps what stdio was sure of.
LEMMA FlushEffect ==
  ASSUME LaneInv, opened' = opened, fed' = fed, pushed' = pushed,
         NEW kept, Kept(Lanes, batch, kept),
         NEW safe \in [Lanes -> Nat], \A l \in Lanes : safe[l] <= Len(file[l]),
         \A l \in Lanes : kept[l] \in Keepable(l, batch, safe[l])
  PROVE  /\ file' \in Lines /\ batch' \in Lines
         /\ lost' \in [Lanes -> SUBSET (0 .. fed')]
         /\ \A l \in Lanes : /\ Len(batch'[l]) < Batch /\ kept[l] \in Nat
                             /\ safe[l] <= Len(file'[l]) /\ Len(file'[l]) = kept[l]
         /\ LaneFaithful' /\ CloseEmptiesBatches'
         /\ Ordered(Written(file, batch), fed)'
<1>1. /\ file \in Lines /\ batch \in Lines /\ pushed \in Lines /\ fed \in Nat
      /\ Batch \in Nat \ {0} /\ LaneFaithful /\ lost \in [Lanes -> SUBSET (0 .. fed)]
      /\ Ordered(Written(file, batch), fed)
  BY LinesType, PipelineAssumption DEF LaneInv, WireTypeOK
<1>2. \A l \in Lanes : safe[l] \in 0 .. Len(file[l])
  <2>1. \A l \in Lanes : file[l] \in Seq(Nat)  BY <1>1 DEF Lines
  <2>2. \A l \in Lanes : Len(file[l]) \in Nat  BY <2>1, LenProperties
  <2>. QED  BY <2>2
<1>3. \A l \in Lanes : kept[l] \in safe[l] .. Len(Given(l, batch))
  BY <1>1, <1>2, KeepableBounds
<1>4. \A l \in Lanes : safe[l] \in Nat  OBVIOUS
<1>5. \A l \in Lanes :
        kept[l] \in 0 .. Len(Given(l, batch)) /\ kept[l] \in Nat /\ safe[l] <= kept[l]
  BY <1>3, <1>4
<1>6. \A l \in Lanes : Operations(Given(l, batch)) = Operations(pushed[l]) \ lost[l]
  BY <1>1 DEF LaneFaithful
<1>7. /\ file' \in Lines /\ batch' \in Lines /\ lost' \in [Lanes -> SUBSET (0 .. fed)]
      /\ Ordered(Written(file', batch'), fed)
      /\ \A l \in Lanes :
           /\ Operations(file'[l] \o batch'[l]) = Operations(pushed[l]) \ lost'[l]
           /\ batch'[l] = << >>
           /\ Len(file'[l]) = kept[l]
  <2>1. \A l \in Lanes :
          /\ Operations(file[l] \o batch[l]) = Operations(pushed[l]) \ lost[l]
          /\ l \in Lanes => kept[l] \in 0 .. Len(file[l] \o batch[l])
    BY <1>5, <1>6 DEF Given
  <2>2. Kept(Lanes, batch, kept)  OBVIOUS
  <2>3. BeforeKept(Lanes, batch, pushed, fed, kept)
    BY <1>1, <2>1, <2>2 DEF BeforeKept
  <2>4. AfterKept(Lanes, batch, pushed, fed, kept)  BY <1>1, <2>3, KeptEffect
  <2>. QED  BY <2>4 DEF AfterKept
<1>8. Len(<< >>) = 0  BY EmptySeq
<1>9. Len(<< >>) < Batch  BY <1>1, <1>8
<1>10. LaneFaithful' /\ CloseEmptiesBatches'
  BY <1>7 DEF LaneFaithful, CloseEmptiesBatches, Given
<1>. QED  BY <1>5, <1>7, <1>9, <1>10 DEF Ordered, Written

\* Memory as pipeline_wire_init leaves it, over files that have lost at most
\* their ends.
LEMMA ZeroedEffect ==
  ASSUME LaneInv, Zeroed, file' \in Lines, fed' = fed, opened' \subseteq Lanes,
         \A l \in Lanes : Prefix(file'[l], file[l])
  PROVE  /\ batch' \in Lines /\ pushed' \in Lines
         /\ \A l \in Lanes : Len(batch'[l]) < Batch
         /\ lost' \in [Lanes -> SUBSET (0 .. fed')]
         /\ LaneFaithful' /\ CloseEmptiesBatches'
         /\ Ordered(Written(file, batch), fed)'
<1>1. file \in Lines /\ batch \in Lines /\ fed \in Nat /\ Batch \in Nat \ {0}
  BY LinesType, PipelineAssumption DEF LaneInv, WireTypeOK
<1>2. << >> \in Seq(Nat) /\ Len(<< >>) = 0  BY EmptySeq
<1>3. /\ batch' = [l \in Lanes |-> << >>] /\ pushed' = file'
      /\ lost' = [l \in Lanes |-> {}]
  BY DEF Zeroed
<1>4. batch' \in Lines  BY <1>2, <1>3 DEF Lines
<1>5. \A l \in Lanes : batch'[l] = << >> /\ Len(batch'[l]) < Batch
  <2>1. Len(<< >>) = 0  BY EmptySeq
  <2>2. Len(<< >>) < Batch  BY <1>1, <2>1
  <2>. QED  BY <1>3, <2>2
<1>6. ASSUME NEW l \in Lanes
      PROVE  /\ file'[l] \o batch'[l] = file'[l]
             /\ Prefix(file'[l] \o batch'[l], file[l] \o batch[l])
  <2>1. file'[l] \in Seq(Nat) /\ file[l] \in Seq(Nat) /\ batch[l] \in Seq(Nat)
    BY <1>1 DEF Lines
  <2>2. file'[l] \o batch'[l] = file'[l]  BY <1>5, <2>1, ConcatEmptySeq
  <2>3. Prefix(file'[l], file[l]) /\ Prefix(file[l], file[l] \o batch[l])
    BY <2>1, ConcatNats
  <2>4. file[l] \o batch[l] \in Seq(Nat)  BY <2>1, ConcatNats
  <2>5. Prefix(file'[l], file[l] \o batch[l])
    BY <2>1, <2>3, <2>4, PrefixOfPrefix
  <2>. QED  BY <2>2, <2>5
<1>7. fed <= fed  BY <1>1
<1>8. Ordered(Written(file', batch'), fed)
  BY <1>1, <1>4, <1>6, <1>7, LanesShrink
<1>9. LaneFaithful'  BY <1>3, <1>6 DEF LaneFaithful, Given
<1>10. CloseEmptiesBatches'  BY <1>5 DEF CloseEmptiesBatches
<1>. QED  BY <1>1, <1>3, <1>4, <1>5, <1>8, <1>9, <1>10 DEF Ordered, Written

LEMMA LaneStep == LaneInv /\ [WireNext]_wire => LaneInv'
<1> SUFFICES ASSUME LaneInv, [WireNext]_wire  PROVE LaneInv'
  OBVIOUS
<1>1. WireTypeOK  BY DEF LaneInv
<1>2. /\ file \in Lines /\ batch \in Lines /\ pushed \in Lines /\ fed \in Nat
      /\ \A l \in Lanes : /\ synced[l] \in Nat /\ Len(file[l]) \in Nat
                          /\ synced[l] <= Len(file[l])
  <2>1. file \in Lines /\ batch \in Lines /\ pushed \in Lines /\ fed \in Nat
    BY <1>1, LinesType DEF WireTypeOK
  <2>2. \A l \in Lanes : synced[l] \in Nat /\ synced[l] <= Len(file[l])
    BY <1>1 DEF WireTypeOK
  <2>3. \A l \in Lanes : file[l] \in Seq(Nat)  BY <2>1 DEF Lines
  <2>4. \A l \in Lanes : Len(file[l]) \in Nat  BY <2>3, LenProperties
  <2>. QED  BY <2>1, <2>2, <2>4
<1>3. ASSUME NEW op \in Op, Process(op)  PROVE LaneInv'
  <2>1. /\ status = "open" /\ fed' = fed + 1 /\ opened' = opened /\ status' = status
        /\ synced' = synced /\ session' = session /\ ghost' = Consulted(op)
        /\ earned' = IF op.l3 = "MAIN" THEN earned \cup {<< op.sig, op.ctx >>} ELSE earned
    BY <1>3 DEF Process
  <2>2. op.sig \in Sigs /\ op.ctx \in Ctxs  BY DEF Op
  <2>3. earned' \subseteq Sigs \X Ctxs /\ ghost' \in [Slots -> Slot]
    <3>1. ghost \in [Slots -> Slot] /\ earned \subseteq Sigs \X Ctxs
      BY <1>1 DEF WireTypeOK
    <3>2. earned \subseteq earned' /\ (op.l3 = "MAIN" => << op.sig, op.ctx >> \in earned')
      BY <2>1
    <3>3. Consulted(op) \in [Slots -> Slot]  BY <3>1, <3>2, ConsultedFields
    <3>. QED  BY <2>1, <2>2, <3>1, <3>3
  <2>4. ASSUME NEW lane \in Lanes, Push(lane, fed + 1)
        PROVE  /\ file' \in Lines /\ batch' \in Lines /\ pushed' \in Lines
               /\ lost' \in [Lanes -> SUBSET (0 .. fed')]
               /\ \A l \in Lanes : Len(batch'[l]) < Batch /\ synced'[l] <= Len(file'[l])
               /\ LaneFaithful' /\ CloseEmptiesBatches'
               /\ Ordered(Written(file, batch), fed)'
    BY <2>1, <2>4, PushEffect
  <2>5. CASE \E lane \in Lanes : Commit(op, lane)
    <3>1. PICK lane \in Lanes : Commit(op, lane)  BY <2>5
    <3> DEFINE e == [tile |-> op.tile, reason |-> {}, digest |-> op.digest]
               a == Ingested(wire_audit, e)
               c == [id |-> snap.id, commits |-> commits + 1, ops |-> committed \cup {fed + 1}]
    <3>2. e \in Entry  BY DEF Op, Entry
    <3>3. a \in Audit  BY <1>1, <3>2, IngestedType DEF WireTypeOK
    <3>4. /\ Push(lane, fed + 1) /\ commits' = commits + 1 /\ wire_audit' = a
          /\ committed' = committed \cup {fed + 1}
          /\ unearned' = unearned \cup ({op.sig} \ Signatures(earned'))
          /\ \/ /\ snap_id_counter' = snap_id_counter + 1
                /\ snap' = Created(snap_id_counter + 1, snap_id_counter)
                /\ certified' = Append(certified, c)
             \/ UNCHANGED << snap, snap_id_counter, certified >>
      BY <3>1 DEF Commit
    <3>5. /\ commits \in Nat /\ snap_id_counter \in Nat /\ committed \subseteq Nat
          /\ snap \in Header /\ unearned \subseteq Sigs /\ certified \in Seq(Certificate)
          /\ opened \subseteq Lanes /\ synced \in [Lanes -> Nat] /\ session \in Nat
          /\ status \in {"open", "closed", "down"}
      BY <1>1 DEF WireTypeOK
    <3> HIDE DEF e, a
    <3>6. c \in Certificate  BY <1>2, <3>5 DEF Certificate, Header
    <3>7. /\ snap_id_counter' \in Nat /\ snap' \in Header
          /\ certified' \in Seq(Certificate)
      <4> HIDE DEF c
      <4>1. Created(snap_id_counter + 1, snap_id_counter) \in Header
        BY <3>5, CreatedType
      <4>2. Append(certified, c) \in Seq(Certificate)
        BY <3>5, <3>6, AppendProperties
      <4>. QED  BY <3>4, <3>5, <4>1, <4>2
    <3>8. /\ commits' \in Nat /\ committed' \subseteq Nat /\ unearned' \subseteq Sigs
          /\ fed' \in Nat
      BY <1>2, <2>1, <2>2, <3>4, <3>5
    <3>9. WireTypeOK'
      BY <2>1, <2>3, <2>4, <3>3, <3>4, <3>5, <3>7, <3>8 DEF WireTypeOK, Lines
    <3>. QED  BY <2>4, <3>4, <3>9 DEF LaneInv
  <2>6. CASE \E evo \in Lanes : Divert(op, evo)
    <3>1. PICK evo \in Lanes : Divert(op, evo)  BY <2>6
    <3> DEFINE lane == (evo + NumLanes \div 2) % NumLanes
    <3>2. lane \in Lanes
      <4>1. NumLanes \in Nat \ {0} /\ evo \in Int  BY PipelineAssumption DEF Lanes
      <4>2. NumLanes \div 2 \in Int  BY <4>1, Division
      <4>3. evo + NumLanes \div 2 \in Int  BY <4>1, <4>2
      <4>. QED  BY <4>1, <4>3, Division DEF Lanes
    <3>3. /\ Push(lane, fed + 1)
          /\ UNCHANGED << commits, repair, unearned, committed, certified >>
      BY <3>1 DEF Divert
    <3> HIDE DEF lane
    <3>4. WireTypeOK'
      BY <1>1, <1>2, <2>1, <2>3, <2>4, <3>2, <3>3 DEF WireTypeOK, Lines, repair
    <3>. QED  BY <2>4, <3>2, <3>3, <3>4 DEF LaneInv
  <2>. QED  BY <1>3, <2>5, <2>6 DEF Process
<1>4. ASSUME NEW kept, Kept(Lanes, batch, kept), NEW safe \in [Lanes -> Nat],
             \A l \in Lanes : safe[l] <= Len(file[l]),
             \A l \in Lanes : kept[l] \in Keepable(l, batch, safe[l]),
             opened' = opened, history' = history, UNCHANGED << ghost, commits, repair >>,
             status' \in {"open", "closed"}, synced' \in [Lanes -> Nat],
             \A l \in Lanes : synced'[l] <= safe[l] \/ synced'[l] = kept[l]
      PROVE  LaneInv'
  <2>1. fed' = fed /\ pushed' = pushed  BY <1>4 DEF history
  <2>2. /\ file' \in Lines /\ batch' \in Lines
        /\ lost' \in [Lanes -> SUBSET (0 .. fed')]
        /\ \A l \in Lanes : /\ Len(batch'[l]) < Batch /\ kept[l] \in Nat
                            /\ safe[l] <= Len(file'[l]) /\ Len(file'[l]) = kept[l]
        /\ LaneFaithful' /\ CloseEmptiesBatches'
        /\ Ordered(Written(file, batch), fed)'
    BY <1>4, <2>1, FlushEffect
  <2>3. \A l \in Lanes : synced'[l] <= Len(file'[l])
    <3>1. \A l \in Lanes : synced'[l] \in Nat /\ safe[l] \in Nat  BY <1>4
    <3>. QED  BY <1>4, <2>2, <3>1
  <2>4. WireTypeOK'
    BY <1>1, <1>4, <2>2, <2>3 DEF WireTypeOK, Lines, history, repair
  <2>. QED  BY <2>2, <2>4 DEF LaneInv
<1>5. CASE Flush
  <2>1. PICK kept \in [Lanes -> 0 .. MaxOps] :
          /\ \A l \in Lanes : kept[l] \in Keepable(l, batch, Len(file[l]))
          /\ Kept(Lanes, batch, kept)
    BY <1>5 DEF Flush, Flushed
  <2> DEFINE safe == [l \in Lanes |-> Len(file[l])]
  <2>2. /\ safe \in [Lanes -> Nat] /\ \A l \in Lanes : safe[l] = Len(file[l])
        /\ \A l \in Lanes : safe[l] <= Len(file[l])
    BY <1>2
  <2>3. synced' = synced /\ synced' \in [Lanes -> Nat]  BY <1>1, <1>5 DEF Flush, WireTypeOK
  <2> HIDE DEF safe
  <2>4. \A l \in Lanes : synced'[l] <= safe[l]  BY <1>2, <2>2, <2>3
  <2>5. \A l \in Lanes : kept[l] \in Keepable(l, batch, safe[l])  BY <2>1, <2>2
  <2>6. /\ opened' = opened /\ history' = history /\ UNCHANGED << ghost, commits, repair >>
        /\ status' \in {"open", "closed"}
    BY <1>5 DEF Flush, history, repair
  <2>. QED  BY <1>4, <2>1, <2>2, <2>3, <2>4, <2>5, <2>6
<1>6. CASE Close
  <2>1. PICK kept \in [Lanes -> 0 .. MaxOps] :
          /\ \A l \in Lanes : kept[l] \in Keepable(l, batch, synced[l])
          /\ Kept(Lanes, batch, kept)
          /\ synced' = kept
    BY <1>6 DEF Close
  <2>2. synced \in [Lanes -> Nat] /\ \A l \in Lanes : synced[l] <= Len(file[l])
    BY <1>1 DEF WireTypeOK
  <2>3. synced' \in [Lanes -> Nat]  BY <2>1, PipelineAssumption
  <2>4. /\ opened' = opened /\ history' = history /\ UNCHANGED << ghost, commits, repair >>
        /\ status' \in {"open", "closed"}
    BY <1>6 DEF Close, history, repair
  <2>. QED  BY <1>4, <2>1, <2>2, <2>3, <2>4
<1>7. ASSUME Zeroed, fed' = fed, opened' \subseteq Lanes, file' \in Lines,
             status' \in {"open", "down"}, session' \in Nat, synced' \in [Lanes -> Nat],
             \A l \in Lanes : Prefix(file'[l], file[l]) /\ synced'[l] <= Len(file'[l])
      PROVE  LaneInv'
  <2>1. /\ batch' \in Lines /\ pushed' \in Lines
        /\ \A l \in Lanes : Len(batch'[l]) < Batch
        /\ lost' \in [Lanes -> SUBSET (0 .. fed')]
        /\ LaneFaithful' /\ CloseEmptiesBatches'
        /\ Ordered(Written(file, batch), fed)'
    BY <1>7, ZeroedEffect
  <2>2. /\ ghost' \in [Slots -> Slot] /\ commits' \in Nat /\ snap_id_counter' \in Nat
        /\ wire_audit' \in Audit /\ snap' \in Header /\ certified' \in Seq(Certificate)
        /\ earned' = {} /\ unearned' = {} /\ committed' = {}
    <3>1. EmptyTable \in [Slots -> Slot]  BY PipelineAssumption DEF EmptyTable, Slot
    <3>2. << >> \in Seq(Certificate)  BY EmptySeq
    <3>. QED  BY <1>7, <3>1, <3>2, AuditInitType, CreatedType DEF Zeroed
  <2>3. WireTypeOK'
    BY <1>2, <1>7, <2>1, <2>2 DEF WireTypeOK, Lines
  <2>. QED  BY <2>1, <2>3 DEF LaneInv
<1>8. CASE Crash
  <2>1. PICK kept \in [Lanes -> 0 .. MaxOps] :
          /\ \A l \in Lanes : kept[l] \in synced[l] .. Len(file[l])
          /\ file' = [l \in Lanes |-> SubSeq(file[l], 1, kept[l])]
          /\ synced' = kept
    BY <1>8 DEF Crash
  <2>2. ASSUME NEW l \in Lanes
        PROVE  /\ file'[l] \in Seq(Nat) /\ Prefix(file'[l], file[l])
               /\ synced'[l] \in Nat /\ synced'[l] <= Len(file'[l])
    <3>1. file[l] \in Seq(Nat)  BY <1>2 DEF Lines
    <3>2. kept[l] \in Nat /\ kept[l] <= Len(file[l])  BY <1>2, <2>1
    <3>3. \A i \in 1 .. kept[l] : i \in 1 .. Len(file[l]) /\ file[l][i] \in Nat
      BY <1>2, <3>1, <3>2, ElementOfSeq
    <3>4. /\ SubSeq(file[l], 1, kept[l]) \in Seq(Nat)
          /\ Len(SubSeq(file[l], 1, kept[l])) = IF 1 <= kept[l] THEN kept[l] - 1 + 1 ELSE 0
          /\ \A i \in 1 .. kept[l] - 1 + 1 : SubSeq(file[l], 1, kept[l])[i] = file[l][1 + i - 1]
      BY <3>2, <3>3, SubSeqProperties
    <3>5. Len(SubSeq(file[l], 1, kept[l])) = kept[l]  BY <3>2, <3>4
    <3>6. \A i \in 1 .. kept[l] : SubSeq(file[l], 1, kept[l])[i] = file[l][i]
      BY <3>2, <3>4
    <3>7. Prefix(SubSeq(file[l], 1, kept[l]), file[l])
      BY <3>2, <3>5, <3>6 DEF Prefix
    <3>8. file'[l] = SubSeq(file[l], 1, kept[l]) /\ synced'[l] = kept[l]  BY <2>1
    <3>. QED  BY <3>2, <3>4, <3>5, <3>7, <3>8
  <2>3. file' \in Lines /\ synced' \in [Lanes -> Nat]
    <3>1. file' = [l \in Lanes |-> file'[l]] /\ synced' = [l \in Lanes |-> synced'[l]]
      BY <2>1
    <3>. QED  BY <2>2, <3>1 DEF Lines
  <2>4. session' \in Nat  BY <1>1, <1>8 DEF Crash, WireTypeOK
  <2>. QED  BY <1>7, <1>8, <2>2, <2>3, <2>4 DEF Crash
<1>9. ASSUME NEW lanes \in Openable, Restart(lanes)  PROVE LaneInv'
  <2>1. \A l \in Lanes : file[l] \in Seq(Nat)  BY <1>2 DEF Lines
  <2>2. \A l \in Lanes : Prefix(file[l], file[l])  BY <2>1, ConcatNats
  <2>3. /\ file' = file /\ synced' = synced /\ fed' = fed /\ opened' = lanes
        /\ session' = session + 1 /\ status' = "open" /\ Zeroed
    BY <1>9 DEF Restart, disk
  <2>4. session' \in Nat /\ synced' \in [Lanes -> Nat]
    BY <1>1, <2>3 DEF WireTypeOK
  <2>. QED  BY <1>2, <1>7, <2>2, <2>3, <2>4 DEF Openable
<1>10. CASE UNCHANGED wire
  <2>1. UNCHANGED << status, opened, ghost, batch, commits, wire_audit, snap,
                     snap_id_counter, file, synced, lost, session, fed, pushed, earned,
                     unearned, committed, certified >>
    BY <1>10 DEF wire, repair, disk, history
  <2>2. WireTypeOK'  BY <1>1, <2>1 DEF WireTypeOK
  <2>3. LaneFaithful' /\ CloseEmptiesBatches'
    BY <2>1 DEF LaneInv, LaneFaithful, CloseEmptiesBatches, Given
  <2>4. Ordered(Written(file', batch'), fed')  BY <2>1 DEF LaneInv
  <2>5. Ordered(Written(file, batch), fed)'  BY <2>4 DEF Ordered, Written
  <2>. QED  BY <2>2, <2>3, <2>5 DEF LaneInv
<1>. QED  BY <1>3, <1>5, <1>6, <1>8, <1>9, <1>10 DEF WireNext

LEMMA LaneInvariance == WireSpec => []LaneInv
  BY LaneInit, LaneStep, PTL DEF WireSpec

LEMMA WrittenOnce == LaneInv => WrittenAtMostOnce
<1> SUFFICES ASSUME LaneInv  PROVE WrittenAtMostOnce
  OBVIOUS
<1> DEFINE w == Written(file, batch)
<1>1. Ordered(w, fed) /\ \A l \in Lanes : w[l] = Given(l, batch)
  BY DEF LaneInv, Written, Given
<1> HIDE DEF w
<1>. QED  BY <1>1 DEF Ordered, Rising, WrittenAtMostOnce, Operations

\* Between pipeline_wire_process, the batch and the file an operation is missing only
\* if its lane was not open or fwrite or fclose did not take it; the others are there
\* once and in order, for any number of lanes, any batch size, any lanes that fail,
\* and whatever short write, crash or restart came before.
THEOREM OnlyRefusedAreLost == WireSpec => []LanesLoseOnlyRefused
<1>1. LaneInv => LanesLoseOnlyRefused  BY WrittenOnce DEF LaneInv, LanesLoseOnlyRefused
<1>. QED  BY <1>1, LaneInvariance, PTL

\* Through short writes, crashes and restarts over the same lane files no operation
\* is ever written twice, and each lane keeps the order in which the operations came.
THEOREM NothingWrittenTwice == WireSpec => []WrittenAtMostOnce
  BY WrittenOnce, LaneInvariance, PTL

-----------------------------------------------------------------------------
(* PipelineWire: the ghost table.                                          *)

EarnedInv == CacheIsEarned /\ MainIsEarned

LEMMA EarnedStep ==
  ASSUME LaneInv, EarnedInv, [WireNext]_wire
  PROVE  EarnedInv'
<1>1. ghost \in [Slots -> Slot] /\ Names(ghost, earned) /\ unearned = {}
  BY DEF LaneInv, WireTypeOK, EarnedInv, CacheIsEarned, MainIsEarned, Names
<1>2. ASSUME NEW op \in Op, Process(op)  PROVE EarnedInv'
  <2>1. /\ ghost' = Consulted(op)
        /\ earned \subseteq earned' /\ (op.l3 = "MAIN" => << op.sig, op.ctx >> \in earned')
    BY <1>2 DEF Process
  <2>2. Names(ghost', earned')  BY <1>1, <2>1, ConsultedFields
  <2>3. unearned' = {}
    <3>1. CASE RouteOf(op) = "MAIN" /\ \E lane \in Lanes : Commit(op, lane)
      <4>1. op.sig \in Signatures(earned')  BY <1>1, <2>1, <3>1, ConsultedFields
      <4>2. unearned' = unearned \cup ({op.sig} \ Signatures(earned'))
        BY <3>1 DEF Commit
      <4>. QED  BY <1>1, <4>1, <4>2
    <3>2. CASE \E evo \in Lanes : Divert(op, evo)
      BY <1>1, <3>2 DEF Divert
    <3>. QED  BY <1>2, <3>1, <3>2 DEF Process
  <2>. QED  BY <2>2, <2>3 DEF EarnedInv, CacheIsEarned, MainIsEarned, Names
<1>3. CASE Zeroed
  <2>1. \A s \in Slots : ghost'[s].sig = 0  BY <1>3 DEF Zeroed, EmptyTable
  <2>. QED  BY <1>3, <2>1 DEF Zeroed, EarnedInv, CacheIsEarned, MainIsEarned
<1>4. CASE UNCHANGED << ghost, earned, unearned >>
  BY <1>4 DEF EarnedInv, CacheIsEarned, MainIsEarned
<1>5. CASE Flush \/ Close
  BY <1>4, <1>5 DEF Flush, Close, Flushed, Kept, history
<1>6. CASE Crash \/ \E lanes \in Openable : Restart(lanes)
  BY <1>3, <1>6 DEF Crash, Restart
<1>7. CASE UNCHANGED wire
  BY <1>4, <1>7 DEF wire, history
<1>. QED  BY <1>2, <1>5, <1>6, <1>7 DEF WireNext

LEMMA EarnedInvariance == WireSpec => []EarnedInv
<1>1. WireInit => EarnedInv
  BY DEF WireInit, EmptyTable, EarnedInv, CacheIsEarned, MainIsEarned
<1>. QED  BY <1>1, EarnedStep, LaneInvariance, PTL DEF WireSpec

\* Whatever signatures collide on a slot and however often hits wraps, the ghost
\* table speaks only for pairs that L3 itself has routed MAIN.
THEOREM CacheSpeaksForL3 == WireSpec => []CacheIsEarned
  BY EarnedInvariance, PTL DEF EarnedInv

\* Neither the cache nor the anchor makes a MAIN of a signature that L3 has not
\* routed MAIN since init, for any table size, hit width and maturity.
THEOREM OnlyL3Promotes == WireSpec => []MainIsEarned
  BY EarnedInvariance, PTL DEF EarnedInv

-----------------------------------------------------------------------------
(* PipelineWire: the gate.                                                 *)

\* One more commit passes the gate exactly when it completes a multiple.
LEMMA GateSteps ==
  ASSUME NEW c \in Nat, NEW g \in Nat \ {0}
  PROVE  /\ c \div g \in Nat /\ (c + 1) \div g \in Nat
         /\ IF (c + 1) % g = 0
            THEN (c + 1) \div g = c \div g + 1 /\ c + 1 = ((c + 1) \div g) * g
            ELSE (c + 1) \div g = c \div g
<1> DEFINE p == c \div g
           q == (c + 1) \div g
           r == c % g
           t == (c + 1) % g
<1>1. p \in Int /\ r \in 0 .. (g - 1) /\ c = g * p + r  BY Division
<1>2. q \in Int /\ t \in 0 .. (g - 1) /\ c + 1 = g * q + t
  <2>1. c + 1 \in Int  OBVIOUS
  <2>. QED  BY <2>1, Division
<1> HIDE DEF p, q, r, t
<1>3. g * (q - p) = g * q - g * p  BY <1>1, <1>2, SMT
<1>4. g * (q - p) = r + 1 - t  BY <1>1, <1>2, <1>3, SMT
<1>5. g * (q - p - 1) = r + 1 - t - g
  <2>1. g * (q - p - 1) = g * (q - p) - g  BY <1>1, <1>2, SMT
  <2>. QED  BY <1>1, <1>2, <1>4, <2>1, SMT
<1>6. CASE t = 0
  <2>1. g * (q - p - 1) <= 0 /\ -g < g * (q - p - 1)  BY <1>1, <1>5, <1>6, SMT
  <2>2. q - p - 1 = 0
    <3>1. q - p - 1 \in Int /\ g * (q - p - 1) < g  BY <1>1, <1>2, <2>1, SMT
    <3>. QED  BY <2>1, <3>1, SmallMultiple
  <2>3. q = p + 1  BY <1>1, <1>2, <2>2
  <2>4. c + 1 = q * g  BY <1>2, <1>6, SMT
  <2>. QED  BY <1>6, <2>3, <2>4
<1>7. CASE t # 0
  <2>1. g * (q - p) < g /\ -g < g * (q - p)  BY <1>1, <1>2, <1>4, <1>7, SMT
  <2>2. q - p \in Int  BY <1>1, <1>2
  <2>3. q - p = 0  BY <2>1, <2>2, SmallMultiple
  <2>. QED  BY <1>1, <1>2, <1>7, <2>3
<1>8. p \in Nat /\ q \in Nat
  <2>1. ASSUME NEW k \in Int, k < 0  PROVE g * k <= -g
    BY <2>1, SMT
  <2>2. ASSUME p < 0  PROVE FALSE
    <3>1. g * p <= -g  BY <1>1, <2>1, <2>2
    <3>. QED  BY <1>1, <3>1, SMT
  <2>3. ASSUME q < 0  PROVE FALSE
    <3>1. g * q <= -g  BY <1>2, <2>1, <2>3
    <3>. QED  BY <1>2, <3>1, SMT
  <2>. QED  BY <1>1, <1>2, <2>2, <2>3
<1>. QED  BY <1>6, <1>7, <1>8 DEF p, q, t

CadenceInv ==
  /\ SnapshotCadence
  /\ committed \subseteq 1 .. fed /\ Cardinality(committed) = commits
  /\ wire_audit.health = "OK"

FreshCadence ==
  /\ commits = 0 /\ certified = << >> /\ snap_id_counter = 1 /\ snap = Created(1, 0)
  /\ committed = {} /\ wire_audit = AuditInit

LEMMA CadenceZero == FreshCadence => CadenceInv
<1> SUFFICES ASSUME FreshCadence  PROVE CadenceInv
  OBVIOUS
<1> USE DEF FreshCadence
<1>1. Gate \in Nat \ {0} /\ 0 \in 0 .. (Gate - 1)  BY PipelineAssumption
<1>2. 0 \div Gate = 0
  <2> DEFINE q == 0 \div Gate
             r == 0 % Gate
  <2>1. q \in Int /\ r \in 0 .. (Gate - 1) /\ 0 = Gate * q + r  BY <1>1, Division
  <2>2. r = 0  BY <1>1, RemainderSmall
  <2> HIDE DEF q, r
  <2>3. Gate * q = 0  BY <1>1, <2>1, <2>2, SMT
  <2>4. q = 0  BY <1>1, <2>1, <2>3, SmallMultiple
  <2>. QED  BY <2>4 DEF q
<1>3. Len(<< >>) = 0 /\ DOMAIN << >> = {}  OBVIOUS
<1>4. snap.state = "PENDING" /\ snap.id = 1  BY DEF Created
<1>5. SnapshotCadence  BY <1>2, <1>3, <1>4 DEF SnapshotCadence
<1>6. Cardinality(committed) = commits  BY FS_EmptySet
<1>. QED  BY <1>5, <1>6 DEF CadenceInv, AuditInit

LEMMA CadenceStep ==
  ASSUME LaneInv, CadenceInv, [WireNext]_wire
  PROVE  CadenceInv'
<1>1. /\ commits \in Nat /\ snap_id_counter \in Nat /\ fed \in Nat
      /\ wire_audit \in Audit /\ certified \in Seq(Certificate) /\ snap \in Header
      /\ Gate \in Nat \ {0}
  BY PipelineAssumption DEF LaneInv, WireTypeOK
<1>2. ASSUME NEW op \in Op, Process(op), NEW lane \in Lanes, Commit(op, lane)
      PROVE  CadenceInv'
  <2> DEFINE e == [tile |-> op.tile, reason |-> {}, digest |-> op.digest]
             a == Ingested(wire_audit, e)
             ops == committed \cup {fed + 1}
             n == Len(certified)
             c == [id |-> snap.id, commits |-> commits + 1, ops |-> ops]
  <2>1. fed' = fed + 1  BY <1>2 DEF Process
  <2>2. a.health = "OK"
    <3>1. e \in Entry /\ ~Anomalous(e)  BY DEF Op, Entry, Anomalous
    <3>2. a = IngestedClean(wire_audit, e)  BY <3>1 DEF Ingested
    <3> HIDE DEF e
    <3>. QED  BY <1>1, <3>1, <3>2, CleanFields DEF CadenceInv
  <2>3. /\ commits' = commits + 1 /\ wire_audit' = a /\ committed' = ops
        /\ IF AtGate(a)
           THEN /\ snap_id_counter' = snap_id_counter + 1
                /\ snap' = Created(snap_id_counter + 1, snap_id_counter)
                /\ certified' = Append(certified, c)
           ELSE UNCHANGED << snap, snap_id_counter, certified >>
    BY <1>2 DEF Commit
  <2> HIDE DEF e, a
  <2>4. AtGate(a) <=> (commits + 1) % Gate = 0
    BY <2>2 DEF AtGate, CanCertify, CadenceInv, SnapshotCadence
  <2>5. /\ ops \subseteq 1 .. fed + 1 /\ Cardinality(ops) = commits + 1
    <3>1. committed \subseteq 1 .. fed /\ Cardinality(committed) = commits
      BY DEF CadenceInv
    <3>2. IsFiniteSet(1 .. fed)  BY <1>1, FS_Interval
    <3>3. IsFiniteSet(committed)  BY <3>1, <3>2, FS_Subset
    <3>4. fed + 1 \notin committed  BY <1>1, <3>1
    <3>5. Cardinality(ops) = commits + 1  BY <3>1, <3>3, <3>4, FS_AddElement
    <3>6. ops \subseteq 1 .. fed + 1  BY <1>1, <3>1
    <3>. QED  BY <3>5, <3>6
  <2>6. /\ n \in Nat /\ n = commits \div Gate /\ snap_id_counter = n + 1
        /\ snap.id = snap_id_counter /\ snap.state = "PENDING"
        /\ DOMAIN certified = 1 .. n
        /\ \A k \in 1 .. n : certified[k].id = k /\ certified[k].commits = k * Gate
                             /\ Cardinality(certified[k].ops) = k * Gate
    BY <1>1, LenProperties DEF CadenceInv, SnapshotCadence
  <2> HIDE DEF ops
  <2>7. /\ c.id = snap.id /\ c.commits = commits + 1 /\ c.ops = ops
    OBVIOUS
  <2>8. CASE (commits + 1) % Gate = 0
    <3>1. (commits + 1) \div Gate = n + 1 /\ commits + 1 = (n + 1) * Gate
      <4>1. IF (commits + 1) % Gate = 0
            THEN (commits + 1) \div Gate = commits \div Gate + 1
                 /\ commits + 1 = ((commits + 1) \div Gate) * Gate
            ELSE (commits + 1) \div Gate = commits \div Gate
        BY <1>1, GateSteps
      <4> HIDE DEF n
      <4>. QED  BY <2>6, <2>8, <4>1
    <3>2. /\ snap_id_counter' = n + 2 /\ snap' = Created(n + 2, n + 1)
          /\ certified' = Append(certified, c)
      BY <2>3, <2>4, <2>6, <2>8
    <3> HIDE DEF c
    <3>3. snap'.state = "PENDING" /\ snap'.id = n + 2  BY <3>2 DEF Created
    <3>5. /\ Len(certified') = n + 1 /\ DOMAIN certified' = 1 .. n + 1
          /\ \A k \in 1 .. n : certified'[k] = certified[k]
          /\ certified'[n + 1] = c
      BY <1>1, <3>2
    <3> HIDE DEF n
    <3>6. ASSUME NEW k \in 1 .. n + 1
          PROVE  certified'[k].id = k /\ certified'[k].commits = k * Gate
                 /\ Cardinality(certified'[k].ops) = k * Gate
      <4>1. CASE k \in 1 .. n
        BY <2>6, <3>5, <4>1
      <4>2. CASE k = n + 1
        <5>1. c.id = k /\ c.commits = k * Gate /\ Cardinality(c.ops) = k * Gate
          BY <2>5, <2>6, <2>7, <3>1, <4>2
        <5>. QED  BY <3>5, <4>2, <5>1
      <4>. QED  BY <2>6, <4>1, <4>2
    <3>7. /\ Len(certified') = commits' \div Gate
          /\ snap_id_counter' = Len(certified') + 1 /\ snap'.id = snap_id_counter'
      BY <2>3, <2>6, <3>1, <3>2, <3>3, <3>5
    <3>8. SnapshotCadence'
      BY <3>3, <3>5, <3>6, <3>7 DEF SnapshotCadence
    <3>. QED  BY <2>1, <2>2, <2>3, <2>5, <3>8 DEF CadenceInv
  <2>9. CASE (commits + 1) % Gate # 0
    <3>1. (commits + 1) \div Gate = n  BY <1>1, <2>6, <2>9, GateSteps
    <3>2. UNCHANGED << snap, snap_id_counter, certified >>  BY <2>3, <2>4, <2>9
    <3>3. SnapshotCadence'
      BY <2>3, <3>1, <3>2 DEF CadenceInv, SnapshotCadence
    <3>. QED  BY <2>1, <2>2, <2>3, <2>5, <3>3 DEF CadenceInv
  <2>. QED  BY <2>8, <2>9
<1>3. ASSUME fed <= fed', fed' \in Nat, UNCHANGED << commits, repair, committed, certified >>
      PROVE  CadenceInv'
  <2>1. committed' \subseteq 1 .. fed'  BY <1>1, <1>3 DEF CadenceInv
  <2>. QED  BY <1>3, <2>1 DEF CadenceInv, SnapshotCadence, repair
<1>4. ASSUME NEW op \in Op, Process(op), NEW evo \in Lanes, Divert(op, evo)
      PROVE  CadenceInv'
  BY <1>1, <1>3, <1>4 DEF Process, Divert
<1>5. CASE Zeroed
  <2>1. FreshCadence'  BY <1>5 DEF Zeroed, FreshCadence
  <2>2. (FreshCadence => CadenceInv)'  BY CadenceZero, PTL
  <2>. QED  BY <2>1, <2>2
<1>6. CASE Flush \/ Close \/ UNCHANGED wire
  BY <1>1, <1>3, <1>6 DEF Flush, Close, wire, history
<1>7. CASE Crash \/ \E lanes \in Openable : Restart(lanes)
  BY <1>5, <1>7 DEF Crash, Restart
<1>. QED  BY <1>2, <1>4, <1>6, <1>7 DEF WireNext, Process

\* The gate is never missed, passed twice or refused: the k-th certificate is
\* made at commit k * Gate, has id k and covers exactly k * Gate operations.
THEOREM GateKeepsCadence == WireSpec => []SnapshotCadence
<1>1. WireInit => CadenceInv
  BY CadenceZero DEF WireInit, FreshCadence
<1>. QED  BY <1>1, CadenceStep, LaneInvariance, PTL DEF WireSpec, CadenceInv
=============================================================================
