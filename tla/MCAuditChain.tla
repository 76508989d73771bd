---------------------------- MODULE MCAuditChain ----------------------------
EXTENDS AuditChain, TLC
CONSTANTS e1, e2, e3, e4
Alike == Permutations({e1, e2, e3, e4})
=============================================================================
