---------------------------- MODULE MCAuditLog ----------------------------
(* Small instances of AuditLog: two goroutines, two things an entry can say.  *)
(* Both are interchangeable: no definition names one of them.                 *)
EXTENDS AuditLog, TLC

CONSTANTS w1, w2, allow, deny

MCWriters == {w1, w2}
MCRecords == {allow, deny}
MCSymmetry == Permutations(MCWriters) \cup Permutations(MCRecords)
=============================================================================
