SPECIFICATION Spec
CONSTANTS
  Tiles = {1, 2}
  Bits = {b1}
  SigSize = 2
  NoEvidence = NoEvidence
  MaxScans = 8
  MaxSnaps = 2
  Entries <- MCEntries
INVARIANTS
  AuditInv
  CertificatesEarned
PROPERTIES
  ImplementsLifecycle
CHECK_DEADLOCK FALSE
