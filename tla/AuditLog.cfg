CONSTANTS
  w1 = w1
  w2 = w2
  allow = allow
  deny = deny
  Writers <- MCWriters
  Records <- MCRecords
  Backend = "redis"
  MaxEntries = 2
  MaxRestarts = 1
  none = none
SYMMETRY MCSymmetry
SPECIFICATION Spec
INVARIANT ChainIntact
INVARIANT PublishedRootStands
INVARIANT VerifiedExportIsTheLog
INVARIANT LatestRunFirst
PROPERTY StoredRowsStay
