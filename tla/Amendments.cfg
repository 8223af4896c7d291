CONSTANTS
  Sessions = {s1, s2, s3}
  Actions = {a1, a2}
  MaxRetries = 2
  MaxLines = 6
SPECIFICATION Spec
INVARIANTS
  NoLostUpdate
  AmendedOnceUnlessShared
  
PROPERTY LedgerSpec
SYMMETRY Symmetric
CONSTRAINT FewLines
CHECK_DEADLOCK FALSE
