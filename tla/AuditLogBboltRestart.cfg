CONSTANTS
  w1 = w1
  w2 = w2
  allow = allow
  deny = deny
  Writers <- MCWriters
  Records <- MCRecords
  Backend = "bbolt"
  MaxEntries = 2
  MaxRestarts = 1
  none = none
SPECIFICATION Spec
PROPERTY StoredRowsStay
