------------------------------ MODULE AuditLog ------------------------------
(***************************************************************************)
(* The hash-chained audit log of a node (internal/audit/log.go), the       *)
(* backend that keeps a copy of its rows (internal/store/bbolt and redis), *)
(* the roots it publishes and the file that an export of it produces.      *)
(*                                                                         *)
(* The fields of an entry that say what was decided are one value of       *)
(* Records.  Its Timestamp is `at', the incarnation of the node that wrote *)
(* it: within one, entries are stamped under the mutex, in Seq order.  The *)
(* hash of an entry is ideal: it is the whole of what SHA-256 is taken     *)
(* over, so two entries have the same hash only if they, and everything    *)
(* before them, agree.                                                     *)
(*                                                                         *)
(* appendEntry links the entry under the mutex of the log and writes it to *)
(* the backend after releasing it: the two are separate steps, and the     *)
(* writers of several entries reach the backend in any order.              *)
(***************************************************************************)
EXTENDS Naturals, Sequences, FiniteSets

CONSTANTS Writers,     \* goroutines that append (one per decision in flight)
          Records,     \* what an entry can say
          Backend,     \* "bbolt" or "redis": storage.backend
          MaxEntries,  \* the bound on the length of the log
          MaxRestarts, \* the bound on restarts of the node
          none         \* no entry

ASSUME BackendAssumption == Backend \in {"bbolt", "redis"}
ASSUME BoundsAssumption == MaxEntries \in Nat /\ MaxRestarts \in Nat
ASSUME NoneAssumption == none \notin [seq: Nat, at: Nat, what: Records]

VARIABLES entries,    \* Log.entries
          root,       \* Log.root
          unstored,   \* for each writer, the row it has yet to write to the backend
          stored,     \* the backend's rows: by Seq (bbolt) or by position (redis)
          published,  \* a root handed out (DNS TXT, gossip, a reply), and when
          file,       \* the last export, and what became of it on disk
          restarts

vars == <<entries, root, unstored, stored, published, file, restarts>>

zeroHash == <<>>

\* Mutant: the hash leaves out PreviousHash.
hashEntryAlone(row, prev) == <<row>>

hashEntry(row, prev) == Append(prev, row)

\* What an entry says, which is also what the backend keeps of it (toStoreEntry)
Rows == [seq: Nat \ {0}, at: Nat, what: Records]
Hashes == Seq(Rows)
Entries == [row: Rows, prev: Hashes, hash: Hashes]

Init ==
  /\ entries = <<>>
  /\ root = zeroHash
  /\ unstored = [w \in Writers |-> none]
  /\ stored = <<>>
  /\ published = [root |-> zeroHash, at |-> 0]
  /\ file = <<>>
  /\ restarts = 0

\* appendEntry, up to the unlock
appendEntry(w, what) ==
  LET row == [seq |-> Len(entries) + 1, at |-> restarts, what |-> what]
      hash == hashEntry(row, root)
  IN  /\ unstored[w] = none
      /\ Len(entries) < MaxEntries
      /\ entries' = Append(entries, [row |-> row, prev |-> root, hash |-> hash])
      /\ root' = hash
      /\ unstored' = [unstored EXCEPT ![w] = row]
      /\ UNCHANGED <<stored, published, file, restarts>>

\* Mutant: redis trims the list.
AuditAppendTrimmed(row) ==
  IF Backend = "redis"
    THEN Append(IF Len(stored) > 1 THEN Tail(stored) ELSE stored, row)
    ELSE [i \in DOMAIN stored \cup {row.seq} |-> IF i = row.seq THEN row ELSE stored[i]]

\* Mutant: redis adds the row at the front.
AuditAppendFirst(row) ==
  IF Backend = "redis"
    THEN <<row>> \o stored
    ELSE [i \in DOMAIN stored \cup {row.seq} |-> IF i = row.seq THEN row ELSE stored[i]]

\* The backend's AuditAppend: bbolt puts the row under its Seq, redis at the end of a list.
AuditAppend(row) ==
  IF Backend = "redis"
    THEN Append(stored, row)
    ELSE [i \in DOMAIN stored \cup {row.seq} |-> IF i = row.seq THEN row ELSE stored[i]]

\* The rest of appendEntry: the row reaches the backend, or its error is dropped.
Store(w) ==
  /\ unstored[w] # none
  /\ stored' \in {AuditAppend(unstored[w]), stored}
  /\ unstored' = [unstored EXCEPT ![w] = none]
  /\ UNCHANGED <<entries, root, published, file, restarts>>

\* RootHash, by a caller that gives the root to the outside
Publish ==
  /\ published' = [root |-> root, at |-> restarts]
  /\ UNCHANGED <<entries, root, unstored, stored, file, restarts>>

\* Mutant: an export starts the log anew.
WriteJSONAndRotate ==
  /\ file' = entries
  /\ entries' = <<>>
  /\ root' = zeroHash
  /\ UNCHANGED <<unstored, stored, published, restarts>>

WriteJSON ==
  /\ file' = entries
  /\ UNCHANGED <<entries, root, unstored, stored, published, restarts>>

prefix(s, t) == Len(s) <= Len(t) /\ \A i \in DOMAIN s : s[i] = t[i]

\* One record of an export is changed on disk, and the hashes of the entries
\* from there to entry j are made to fit (j < i: none is).
AlterFile ==
  /\ prefix(file, entries)
  /\ \E i, j \in DOMAIN file, what \in Records :
       LET said == [m \in DOMAIN file |->
                      IF m = i THEN [seq |-> i, at |-> file[i].row.at, what |-> what] ELSE file[m].row]
       IN  file' = [m \in DOMAIN file |->
                      [row |-> said[m],
                       prev |-> IF m \in i..(j + 1) THEN SubSeq(said, 1, m - 1) ELSE file[m].prev,
                       hash |-> IF m \in i..j THEN SubSeq(said, 1, m) ELSE file[m].hash]]
  /\ UNCHANGED <<entries, root, unstored, stored, published, restarts>>

\* Mutant: the root outlives the entries.
RestartKeepingRoot ==
  /\ restarts < MaxRestarts
  /\ restarts' = restarts + 1
  /\ entries' = <<>>
  /\ unstored' = [w \in Writers |-> none]
  /\ UNCHANGED <<root, stored, published, file>>

\* The process ends, at any point, and starts again: New() and SetStore on the same backend.
Restart ==
  /\ restarts < MaxRestarts
  /\ restarts' = restarts + 1
  /\ entries' = <<>>
  /\ root' = zeroHash
  /\ unstored' = [w \in Writers |-> none]
  /\ UNCHANGED <<stored, published, file>>

Next ==
  \/ \E w \in Writers, what \in Records : appendEntry(w, what)
  \/ \E w \in Writers : Store(w)
  \/ Publish
  \/ WriteJSON
  \/ AlterFile
  \/ Restart

Spec == Init /\ [][Next]_vars

-----------------------------------------------------------------------------
\* The loop that Verify and VerifyFile share
chained(log) ==
  \A i \in DOMAIN log :
    /\ log[i].prev = IF i = 1 THEN zeroHash ELSE log[i - 1].hash
    /\ log[i].hash = hashEntry(log[i].row, log[i].prev)

lastHash(log) == IF log = <<>> THEN zeroHash ELSE log[Len(log)].hash

Verify == chained(entries) /\ root = lastHash(entries)

\* VerifyFile: does the file check, and with which root
VerifyFile(f, r) == chained(f) /\ r = lastHash(f)

first(s, n) == SubSeq(s, 1, IF n < Len(s) THEN n ELSE Len(s))

\* The backend's AuditLatest: from the last key (bbolt) or the end of the list (redis) on
latestKey(i) == CHOOSE k \in DOMAIN stored : Cardinality({x \in DOMAIN stored : x >= k}) = i
AuditLatest(n) == first([i \in 1..Cardinality(DOMAIN stored) |-> stored[latestKey(i)]], n)

\* What Recent may answer: the backend's rows, or those in memory when the backend has
\* none or fails
Recent(n) ==
  LET inMemory == first([i \in DOMAIN entries |-> entries[Len(entries) + 1 - i].row], n)
  IN  IF stored = <<>> THEN {inMemory} ELSE {AuditLatest(n), inMemory}

-----------------------------------------------------------------------------
\* Verify() finds the log of a running node intact, whatever writers append
\* concurrently: every entry links to the one before it and root is the last.
ChainIntact == Verify

\* A root given to the outside stays the hash of a prefix of the log, until the
\* node restarts: what was published at one time commits the node to everything
\* logged up to then.
PublishedRootStands ==
  published.at = restarts =>
    published.root = zeroHash \/ \E i \in DOMAIN entries : entries[i].hash = published.root

\* An export that VerifyFile accepts with a root published since the last restart
\* is the log itself up to that root: an entry changed on disk is caught, even if
\* rehashed, and so is the export of an earlier run of the node.
VerifiedExportIsTheLog ==
  published.at = restarts /\ VerifyFile(file, published.root) => prefix(file, entries)

\* The backend never loses or rewrites a row it has stored.
StoredRowsStay ==
  [][\A i \in DOMAIN stored : \E j \in DOMAIN stored' : stored'[j] = stored[i]]_stored

\* GET /api/v1/audit/latest shows no row twice, and none of an earlier run of the node
\* above one of a later run, however the writers of a run overtake each other.
LatestRunFirst ==
  \A n \in 1..(MaxEntries + 1) : \A rows \in Recent(n) : \A i, j \in DOMAIN rows :
    i < j => rows[i].at >= rows[j].at /\ rows[i] # rows[j]
=============================================================================
