--------------------------- MODULE AuditLogProofs ---------------------------
(***************************************************************************)
(* The audit log, for any number of writers, any records and through any   *)
(* number of restarts.                                                     *)
(*                                                                         *)
(* The chain is intact at every moment: ChainIntact is inductive with the  *)
(* type of the state, because appendEntry reads root and extends entries   *)
(* under one lock, so root is the hash of the last entry when the next one *)
(* is linked to it.  Until the node restarts, a root it has published      *)
(* stays the hash of one of its entries, and an export that verifies with  *)
(* it is the log up to there: a hash says the whole history before it      *)
(* (HashIsHistory, by induction over the length of the log).               *)
(*                                                                         *)
(* The redis backend: StoreInv says that the rows on their way and the     *)
(* rows in the list are different rows, those on their way all of this     *)
(* run, and the list in the order of runs; so no row is lost or repeated   *)
(* and a reader sees the latest run first.  The bbolt backend keys rows by *)
(* Seq, which starts again with the node, and has neither property.        *)
(***************************************************************************)
EXTENDS AuditLog, FiniteSetTheorems, WellFoundedInduction, TLAPS

\* A set of naturals that is not empty has a least member.
LEMMA LeastNatural == ASSUME NEW T \in SUBSET Nat, T # {}
                      PROVE  \E x \in T : \A y \in T : x <= y
<1> DEFINE R == OpToRel(<, Nat)
<1>1. IsWellFoundedOn(R, Nat)
  BY NatLessThanWellFounded
<1>2. \A a, b \in Nat : <<a, b>> \in R <=> a < b
  BY DEF OpToRel
<1> HIDE DEF R
<1>3. PICK x \in T : \A y \in T : ~ (<<y, x>> \in R)
  BY <1>1, WFMin, Zenon
<1>4. \A y \in T : y \in Nat /\ ~(y < x)
  BY <1>2, <1>3, Zenon
<1>5. \A y \in T : x <= y
  BY <1>4
<1> QED
  BY <1>5

\* A set with 0 that is closed under successor contains every natural.
LEMMA SetInduction == ASSUME NEW S, 0 \in S, \A n \in Nat : n \in S => n + 1 \in S
                      PROVE  \A n \in Nat : n \in S
<1> SUFFICES ASSUME Nat \ S # {} PROVE FALSE
  OBVIOUS
<1>1. PICK x \in Nat \ S : \A y \in Nat \ S : x <= y
  BY LeastNatural, Zenon
<1>2. x # 0 /\ x - 1 \in Nat /\ x - 1 \in S
  BY <1>1
<1> QED
  BY <1>1, <1>2

-----------------------------------------------------------------------------
LogType ==
  /\ entries \in Seq(Entries)
  /\ root \in Hashes
  /\ published \in [root: Hashes, at: 0..restarts]
  /\ file \in Seq(Entries)
  /\ restarts \in Nat

LogInv == LogType /\ ChainIntact

\* hashEntry adds one row to a hash, and the result is a hash.
LEMMA HashType == ASSUME NEW row \in Rows, NEW prev \in Hashes
                  PROVE  hashEntry(row, prev) \in Hashes
  BY DEF hashEntry, Hashes

\* A log that verifies still does when an entry linked to its last hash is
\* added, and the hash of that entry is then its last (the step of appendEntry).
LEMMA AppendChained ==
  ASSUME NEW log \in Seq(Entries), chained(log), NEW row \in Rows,
         NEW e \in Entries,
         e = [row |-> row, prev |-> lastHash(log), hash |-> hashEntry(row, lastHash(log))]
  PROVE  chained(Append(log, e)) /\ lastHash(Append(log, e)) = hashEntry(row, lastHash(log))
<1> DEFINE new == Append(log, e)
<1>1. new \in Seq(Entries) /\ Len(new) = Len(log) + 1 /\ Len(log) \in Nat
  OBVIOUS
<1>2. new[Len(new)] = e /\ \A i \in 1..Len(log) : new[i] = log[i]
  OBVIOUS
<1>3. DOMAIN new = 1..Len(new) /\ DOMAIN log = 1..Len(log)
  OBVIOUS
<1>4. lastHash(new) = hashEntry(row, lastHash(log))
  <2>1. new # <<>> /\ new[Len(new)].hash = hashEntry(row, lastHash(log))
    BY <1>1, <1>2
  <2> QED
    BY <2>1, Zenon DEF lastHash
<1>5. ASSUME NEW i \in DOMAIN new
      PROVE  /\ new[i].prev = IF i = 1 THEN zeroHash ELSE new[i - 1].hash
             /\ new[i].hash = hashEntry(new[i].row, new[i].prev)
  <2>1. CASE i \in 1..Len(log)
    BY <1>1, <1>2, <1>3, <2>1 DEF chained
  <2>2. CASE i = Len(new)
    <3>1. new[i] = e
      BY <1>2, <2>2
    <3>2. e.prev = IF i = 1 THEN zeroHash ELSE new[i - 1].hash
      <4>1. CASE Len(log) = 0
        BY <1>1, <2>2, <4>1 DEF lastHash
      <4>2. CASE Len(log) # 0
        <5>1. log # <<>> /\ Len(log) \in 1..Len(log) /\ i - 1 = Len(log)
          BY <1>1, <2>2, <4>2
        <5> QED
          BY <1>1, <1>2, <2>2, <5>1 DEF lastHash
      <4> QED
        BY <4>1, <4>2
    <3> QED
      BY <3>1, <3>2
  <2> QED
    BY <1>1, <1>3, <1>5, <2>1, <2>2
<1> QED
  BY <1>4, <1>5 DEF chained

\* What AlterFile leaves on disk still has the form of an export.
LEMMA AlterType == ASSUME file \in Seq(Entries), AlterFile PROVE file' \in Seq(Entries)
<1>1. PICK i \in DOMAIN file, j \in DOMAIN file, what \in Records :
        LET said == [m \in DOMAIN file |->
                       IF m = i THEN [seq |-> i, at |-> file[i].row.at, what |-> what] ELSE file[m].row]
        IN  file' = [m \in DOMAIN file |->
                       [row |-> said[m],
                        prev |-> IF m \in i..(j + 1) THEN SubSeq(said, 1, m - 1) ELSE file[m].prev,
                        hash |-> IF m \in i..j THEN SubSeq(said, 1, m) ELSE file[m].hash]]
  BY Zenon DEF AlterFile
<1> DEFINE said == [m \in DOMAIN file |->
                      IF m = i THEN [seq |-> i, at |-> file[i].row.at, what |-> what] ELSE file[m].row]
<1>2. DOMAIN file = 1..Len(file) /\ Len(file) \in Nat
  OBVIOUS
<1>3. \A m \in DOMAIN file : file[m].row \in Rows /\ file[m].prev \in Hashes /\ file[m].hash \in Hashes
  <2>1. \A m \in DOMAIN file : file[m] \in Entries
    BY <1>2
  <2> QED
    BY <2>1 DEF Entries
<1>4. [seq |-> i, at |-> file[i].row.at, what |-> what] \in Rows
  BY <1>2, <1>3 DEF Rows
<1>5. said \in Seq(Rows) /\ Len(said) = Len(file)
  BY <1>2, <1>3, <1>4
<1>6. \A m \in DOMAIN file : SubSeq(said, 1, m - 1) \in Hashes /\ SubSeq(said, 1, m) \in Hashes
  <2> HIDE DEF said
  <2> QED
    BY <1>2, <1>5 DEF Hashes
<1>7. \A m \in DOMAIN file : said[m] \in Rows
  BY <1>3, <1>4
<1> HIDE DEF said
<1> DEFINE new(m) == [row |-> said[m],
                      prev |-> IF m \in i..(j + 1) THEN SubSeq(said, 1, m - 1) ELSE file[m].prev,
                      hash |-> IF m \in i..j THEN SubSeq(said, 1, m) ELSE file[m].hash]
<1>8. \A m \in DOMAIN file : new(m) \in Entries
  BY <1>3, <1>6, <1>7 DEF Entries
<1>9. file' = [m \in DOMAIN file |-> new(m)]
  BY <1>1, Zenon DEF said
<1> HIDE DEF new
<1>10. file' \in [1..Len(file) -> Entries]
  BY <1>2, <1>8, <1>9
<1> QED
  BY <1>2, <1>10

\* The log keeps its type and its chain through every step of appendEntry, of the
\* backend, of an export and of a restart.
THEOREM LogInvariant == Spec => []LogInv
<1> USE BoundsAssumption
<1>1. Init => LogInv
  BY DEF Init, LogInv, LogType, ChainIntact, Verify, chained, lastHash, zeroHash, Hashes
<1>2. LogInv /\ [Next]_vars => LogInv'
  <2> SUFFICES ASSUME LogInv, [Next]_vars PROVE LogInv'
    OBVIOUS
  <2> USE DEF LogInv, LogType
  <2>1. ASSUME NEW w \in Writers, NEW what \in Records, appendEntry(w, what) PROVE LogInv'
    <3> DEFINE row == [seq |-> Len(entries) + 1, at |-> restarts, what |-> what]
               e == [row |-> row, prev |-> root, hash |-> hashEntry(row, root)]
    <3>1. row \in Rows
      BY DEF Rows
    <3>2. hashEntry(row, root) \in Hashes
      BY <3>1, HashType
    <3>3. e \in Entries
      BY <3>1, <3>2 DEF Entries
    <3>4. entries' = Append(entries, e) /\ root' = hashEntry(row, root)
          /\ UNCHANGED <<published, file, restarts>>
      BY <2>1 DEF appendEntry
    <3>5. chained(entries) /\ root = lastHash(entries)
      BY DEF ChainIntact, Verify
    <3> HIDE DEF row
    <3>6. chained(Append(entries, e)) /\ lastHash(Append(entries, e)) = hashEntry(row, root)
      BY <3>1, <3>3, <3>5, AppendChained
    <3>7. ChainIntact'
      BY <3>4, <3>6, Zenon DEF ChainIntact, Verify, chained, lastHash
    <3> QED
      BY <3>2, <3>3, <3>4, <3>7
  <2>2. ASSUME NEW w \in Writers, Store(w) PROVE LogInv'
    BY <2>2 DEF Store, ChainIntact, Verify, chained, lastHash
  <2>3. CASE Publish
    BY <2>3 DEF Publish, ChainIntact, Verify, chained, lastHash
  <2>4. CASE WriteJSON
    BY <2>4 DEF WriteJSON, ChainIntact, Verify, chained, lastHash
  <2>5. CASE AlterFile
    <3>1. file' \in Seq(Entries)
      BY <2>5, AlterType
    <3> QED
      BY <2>5, <3>1 DEF AlterFile, ChainIntact, Verify, chained, lastHash
  <2>6. CASE Restart
    BY <2>6 DEF Restart, ChainIntact, Verify, chained, lastHash, zeroHash, Hashes
  <2>7. CASE UNCHANGED vars
    BY <2>7 DEF vars, ChainIntact, Verify, chained, lastHash
  <2> QED
    BY <2>1, <2>2, <2>3, <2>4, <2>5, <2>6, <2>7 DEF Next
<1> QED
  BY <1>1, <1>2, PTL DEF Spec

\* Verify() succeeds at every moment of every run of the node, with concurrent
\* writers, a failing backend and restarts (audit/log.go: appendEntry, Verify).
THEOREM ChainAlwaysIntact == Spec => []ChainIntact
<1>1. LogInv => ChainIntact
  BY DEF LogInv
<1> QED
  BY <1>1, LogInvariant, PTL

\* A root that the node has handed out (RootHash) stays the hash of one of its
\* entries until it restarts: appendEntry only adds entries.
THEOREM PublishedRootAlwaysStands == Spec => []PublishedRootStands
<1>1. Init => PublishedRootStands
  BY DEF Init, PublishedRootStands
<1>2. LogInv /\ PublishedRootStands /\ [Next]_vars => PublishedRootStands'
  <2> SUFFICES ASSUME LogInv, PublishedRootStands, [Next]_vars PROVE PublishedRootStands'
    OBVIOUS
  <2> USE DEF LogInv, LogType
  <2>1. ASSUME NEW w \in Writers, NEW what \in Records, appendEntry(w, what) PROVE PublishedRootStands'
    <3>1. PICK e : entries' = Append(entries, e) /\ published' = published /\ restarts' = restarts
      BY <2>1 DEF appendEntry
    <3>2. \A i \in DOMAIN entries : i \in DOMAIN entries' /\ entries'[i] = entries[i]
      BY <3>1
    <3> QED
      BY <3>1, <3>2 DEF PublishedRootStands, zeroHash
  <2>2. CASE Publish
    <3>1. root = zeroHash \/ (entries # <<>> /\ root = entries[Len(entries)].hash)
      BY DEF ChainIntact, Verify, lastHash
    <3>2. entries # <<>> => Len(entries) \in DOMAIN entries
      OBVIOUS
    <3> QED
      BY <2>2, <3>1, <3>2 DEF Publish, PublishedRootStands, zeroHash
  <2>3. CASE Restart
    <3>1. published.at \in 0..restarts
      OBVIOUS
    <3>2. published' = published /\ restarts' = restarts + 1
      BY <2>3 DEF Restart
    <3>3. published'.at # restarts'
      BY <3>1, <3>2
    <3> QED
      BY <3>3 DEF PublishedRootStands
  <2>4. CASE UNCHANGED <<entries, published, restarts>>
    BY <2>4 DEF PublishedRootStands, zeroHash
  <2> QED
    BY <2>1, <2>2, <2>3, <2>4 DEF Next, Store, WriteJSON, AlterFile, vars
<1> QED
  BY <1>1, <1>2, LogInvariant, PTL DEF Spec

\* In a chain that verifies, the hash of entry n stands for all rows up to n.
LEMMA HashIsHistory ==
  ASSUME NEW log \in Seq(Entries), chained(log)
  PROVE  \A n \in DOMAIN log : log[n].hash = [m \in 1..n |-> log[m].row]
<1> DEFINE S == {n \in Nat : n \in DOMAIN log => log[n].hash = [m \in 1..n |-> log[m].row]}
<1>1. DOMAIN log = 1..Len(log) /\ Len(log) \in Nat
  OBVIOUS
<1>2. 0 \in S
  BY <1>1
<1>3. ASSUME NEW n \in Nat, n \in S PROVE n + 1 \in S
  <2> SUFFICES ASSUME n + 1 \in DOMAIN log
               PROVE  log[n + 1].hash = [m \in 1..(n + 1) |-> log[m].row]
    OBVIOUS
  <2>1. log[n + 1].hash = Append(log[n + 1].prev, log[n + 1].row)
    BY DEF chained, hashEntry
  <2>2. log[n + 1].prev = [m \in 1..n |-> log[m].row]
    <3>1. CASE n = 0
      BY <3>1 DEF chained, zeroHash
    <3>2. CASE n # 0
      <4>1. n \in DOMAIN log
        BY <1>1, <3>2
      <4>2. log[n + 1].prev = log[n].hash
        BY <1>1, <3>2 DEF chained
      <4> QED
        BY <1>3, <4>1, <4>2
    <3> QED
      BY <3>1, <3>2
  <2>3. [m \in 1..n |-> log[m].row] \in Seq(Rows)
    <3>1. \A m \in 1..n : log[m] \in Entries
      BY <1>1
    <3>2. \A m \in 1..n : log[m].row \in Rows
      BY <3>1 DEF Entries
    <3> QED
      BY <3>2
  <2>4. log[n + 1].row \in Rows
    <3>1. log[n + 1] \in Entries
      BY <1>1
    <3> QED
      BY <3>1 DEF Entries
  <2> QED
    BY <2>1, <2>2, <2>3, <2>4
<1>4. \A n \in Nat : n \in S
  <2> HIDE DEF S
  <2> QED
    BY <1>2, <1>3, SetInduction
<1> QED
  BY <1>1, <1>4

\* Two chains that verify, one ending in the hash of entry n of the other, are
\* the same up to there: the hashes commit to the rows, the rows to the entries.
LEMMA SameHashSameEntries ==
  ASSUME NEW f \in Seq(Entries), chained(f), NEW log \in Seq(Entries), chained(log),
         f # <<>>, NEW n \in DOMAIN log, lastHash(f) = log[n].hash
  PROVE  prefix(f, log)
<1>1. /\ Len(f) \in Nat /\ DOMAIN f = 1..Len(f) /\ Len(f) \in DOMAIN f
      /\ Len(log) \in Nat /\ DOMAIN log = 1..Len(log)
  OBVIOUS
<1>2. [m \in 1..Len(f) |-> f[m].row] = [m \in 1..n |-> log[m].row]
  <2>1. f[Len(f)].hash = log[n].hash
    BY DEF lastHash
  <2>2. f[Len(f)].hash = [m \in 1..Len(f) |-> f[m].row]
    BY <1>1, HashIsHistory
  <2>3. log[n].hash = [m \in 1..n |-> log[m].row]
    BY HashIsHistory
  <2> QED
    BY <2>1, <2>2, <2>3, Zenon
<1>3. Len(f) = n /\ \A m \in 1..n : f[m].row = log[m].row
  <2>1. 1..Len(f) = 1..n
    BY <1>2
  <2>2. Len(f) = n
    BY <1>1, <2>1
  <2> QED
    BY <1>2, <2>2
<1>4. ASSUME NEW m \in 1..n PROVE f[m] = log[m]
  <2>1. ASSUME NEW k \in 1..n PROVE f[k].hash = log[k].hash
    <3>1. f[k].hash = [i \in 1..k |-> f[i].row]
      BY <1>1, <1>3, HashIsHistory
    <3>2. log[k].hash = [i \in 1..k |-> log[i].row]
      BY <1>1, HashIsHistory
    <3>3. [i \in 1..k |-> f[i].row] = [i \in 1..k |-> log[i].row]
      BY <1>1, <1>3
    <3> QED
      BY <3>1, <3>2, <3>3
  <2>2. f[m].prev = log[m].prev
    BY <1>1, <1>3, <2>1 DEF chained
  <2>3. f[m] \in Entries /\ log[m] \in Entries
    BY <1>1, <1>3
  <2> QED
    BY <1>3, <2>1, <2>2, <2>3 DEF Entries
<1>5. Len(f) <= Len(log)
  BY <1>1, <1>3
<1>6. SubSeq(f, 1, Len(f)) = SubSeq(log, 1, Len(f))
  BY <1>1, <1>3, <1>4, <1>5
<1> QED
  BY <1>5, <1>6 DEF prefix

\* An export that VerifyFile accepts with a root the node published since its
\* last restart is the node's own log up to that root, whatever happened to the file on disk.
THEOREM VerifiedExportAlwaysTheLog == Spec => []VerifiedExportIsTheLog
<1>1. LogInv /\ PublishedRootStands => VerifiedExportIsTheLog
  <2> SUFFICES ASSUME LogInv, PublishedRootStands, published.at = restarts, VerifyFile(file, published.root)
               PROVE  prefix(file, entries)
    BY DEF VerifiedExportIsTheLog
  <2> USE DEF LogInv, LogType
  <2>1. chained(file) /\ published.root = lastHash(file) /\ chained(entries)
    BY DEF VerifyFile, ChainIntact, Verify
  <2>2. CASE file = <<>>
    BY <2>2 DEF prefix
  <2>3. CASE file # <<>>
    <3>1. lastHash(file) # zeroHash
      <4>1. Len(file) \in DOMAIN file
        BY <2>3
      <4>2. file[Len(file)].hash = hashEntry(file[Len(file)].row, file[Len(file)].prev)
        BY <2>1, <4>1 DEF chained
      <4>3. file[Len(file)] \in Entries
        BY <4>1
      <4>4. file[Len(file)].prev \in Seq(Rows) /\ file[Len(file)].row \in Rows
        BY <4>3 DEF Entries, Hashes
      <4>5. \A s \in Seq(Rows), r \in Rows : Append(s, r) # <<>>
        OBVIOUS
      <4> QED
        BY <2>3, <4>2, <4>4, <4>5, Zenon DEF lastHash, zeroHash, hashEntry
    <3>2. PICK n \in DOMAIN entries : entries[n].hash = lastHash(file)
      BY <2>1, <3>1 DEF PublishedRootStands
    <3> QED
      BY <2>1, <2>3, <3>2, SameHashSameEntries
  <2> QED
    BY <2>2, <2>3
<1> QED
  BY <1>1, LogInvariant, PublishedRootAlwaysStands, PTL
-----------------------------------------------------------------------------
\* Every row is of one Seq and one run of the node.  A row that has yet to reach the
\* backend is of this run, and one of this run in the backend is an entry of the log.
UnstoredInv ==
  /\ unstored \in [Writers -> Rows \cup {none}]
  /\ \A i \in 1..Len(entries) : entries[i].row.seq = i /\ entries[i].row.at = restarts
  /\ \A w \in Writers : unstored[w] # none => unstored[w].at = restarts /\ unstored[w].seq <= Len(entries)
  /\ \A v, w \in Writers : unstored[v] # none /\ unstored[v] = unstored[w] => v = w

\* The list of the redis backend: runs in order, no row twice, and none that a writer
\* has yet to add.
ListInv ==
  /\ stored \in Seq(Rows)
  /\ \A i \in 1..Len(stored) : /\ stored[i].at <= restarts
                               /\ stored[i].at = restarts => stored[i].seq <= Len(entries)
                               /\ \A w \in Writers : unstored[w] # stored[i]
  /\ \A i, j \in 1..Len(stored) : i < j => stored[i].at <= stored[j].at /\ stored[i] # stored[j]

StoreInv == UnstoredInv /\ ListInv
-----------------------------------------------------------------------------
\* A writer with nothing to store has no row.
LEMMA NoneIsNoRow == none \notin Rows
BY NoneAssumption DEF Rows

\* The Seq and the run of a row are numbers.
LEMMA RowFields == ASSUME NEW r \in Rows PROVE r.seq \in Nat /\ r.at \in Nat
BY DEF Rows

\* appendEntry gives its row a Seq of this run that no other row has.
LEMMA AppendStoreKeeps ==
  ASSUME LogInv, StoreInv, NEW w \in Writers, NEW what \in Records, appendEntry(w, what)
  PROVE  StoreInv'
<1> DEFINE n == Len(entries)
           row == [seq |-> n + 1, at |-> restarts, what |-> what]
           e == [row |-> row, prev |-> root, hash |-> hashEntry(row, root)]
<1>1. /\ entries \in Seq(Entries) /\ n \in Nat /\ restarts \in Nat /\ root \in Hashes
      /\ unstored \in [Writers -> Rows \cup {none}] /\ stored \in Seq(Rows)
  BY DEF LogInv, LogType, StoreInv, UnstoredInv, ListInv
<1>2. row \in Rows /\ row.seq = n + 1 /\ row.at = restarts /\ row # none
  <2>1. row \in Rows
    BY <1>1 DEF Rows
  <2> QED
    BY <2>1, NoneIsNoRow
<1>3. e \in Entries /\ e.row = row
  <2>1. hashEntry(row, root) \in Hashes
    BY <1>1, <1>2, HashType
  <2> QED
    BY <1>1, <1>2, <2>1 DEF Entries
<1>4. /\ entries' = Append(entries, e) /\ unstored' = [unstored EXCEPT ![w] = row]
      /\ UNCHANGED <<stored, restarts>>
  BY DEF appendEntry
<1> HIDE DEF row, e
<1>5. /\ Len(entries') = n + 1 /\ entries'[n + 1] = e /\ \A i \in 1..n : entries'[i] = entries[i]
  BY <1>1, <1>3, <1>4
<1>6. \A v \in Writers : unstored'[v] = IF v = w THEN row ELSE unstored[v]
  BY <1>1, <1>4
<1>7. \A v \in Writers : unstored[v] # row
  <2> SUFFICES ASSUME NEW v \in Writers, unstored[v] = row PROVE FALSE
    OBVIOUS
  <2>1. row.seq <= n
    BY <1>2 DEF StoreInv, UnstoredInv
  <2> QED
    BY <1>1, <1>2, <2>1
<1>8. \A i \in 1..Len(stored) : stored[i] # row
  <2> SUFFICES ASSUME NEW i \in 1..Len(stored), stored[i] = row PROVE FALSE
    OBVIOUS
  <2>1. row.seq <= n
    BY <1>2 DEF StoreInv, ListInv
  <2> QED
    BY <1>1, <1>2, <2>1
<1>9. \A s \in Nat : s <= n => s <= n + 1
  BY <1>1
<1>10. UnstoredInv'
  <2>1. unstored' \in [Writers -> Rows \cup {none}]
    BY <1>1, <1>2, <1>4
  <2>2. ASSUME NEW i \in 1..Len(entries') PROVE entries'[i].row.seq = i /\ entries'[i].row.at = restarts
    <3>1. i \in 1..n \/ i = n + 1
      BY <1>1, <1>5
    <3> QED
      BY <1>2, <1>3, <1>5, <3>1 DEF StoreInv, UnstoredInv
  <2>3. ASSUME NEW v \in Writers, unstored'[v] # none
        PROVE  unstored'[v].at = restarts /\ unstored'[v].seq <= Len(entries')
    <3>1. CASE v = w
      BY <1>1, <1>2, <1>5, <1>6, <3>1
    <3>2. CASE v # w
      <4>1. unstored'[v] = unstored[v] /\ unstored[v] \in Rows
        BY <1>1, <1>6, <2>3, <3>2
      <4>2. unstored[v].at = restarts /\ unstored[v].seq <= n /\ unstored[v].seq \in Nat
        BY <2>3, <4>1, RowFields DEF StoreInv, UnstoredInv
      <4> QED
        BY <1>5, <1>9, <4>1, <4>2
    <3> QED
      BY <3>1, <3>2
  <2>4. \A u, v \in Writers : unstored'[u] # none /\ unstored'[u] = unstored'[v] => u = v
    BY <1>6, <1>7 DEF StoreInv, UnstoredInv
  <2> QED
    BY <1>4, <2>1, <2>2, <2>3, <2>4 DEF UnstoredInv
<1>11. ListInv'
  <2>1. ASSUME NEW i \in 1..Len(stored)
        PROVE  stored[i].at <= restarts /\ (stored[i].at = restarts => stored[i].seq <= n + 1)
    <3>1. stored[i].seq \in Nat
      BY <1>1, RowFields
    <3> QED
      BY <1>9, <3>1 DEF StoreInv, ListInv
  <2>2. \A i \in 1..Len(stored), v \in Writers : unstored'[v] # stored[i]
    BY <1>6, <1>8 DEF StoreInv, ListInv
  <2> QED
    BY <1>4, <1>5, <2>1, <2>2 DEF StoreInv, ListInv
<1> QED
  BY <1>10, <1>11 DEF StoreInv

\* Store adds the row of one writer at the end of the list, or loses it on an error.
LEMMA StoreKeeps ==
  ASSUME Backend = "redis", LogInv, StoreInv, NEW w \in Writers, Store(w)
  PROVE  StoreInv'
<1>1. /\ unstored \in [Writers -> Rows \cup {none}] /\ stored \in Seq(Rows) /\ unstored[w] # none
      /\ unstored' = [unstored EXCEPT ![w] = none] /\ UNCHANGED <<entries, restarts>>
      /\ stored' = Append(stored, unstored[w]) \/ stored' = stored
  BY DEF StoreInv, UnstoredInv, ListInv, Store, AuditAppend
<1>2. unstored[w] \in Rows /\ unstored[w].at = restarts /\ unstored[w].seq <= Len(entries)
  BY <1>1 DEF StoreInv, UnstoredInv
<1>3. \A v \in Writers : unstored'[v] = IF v = w THEN none ELSE unstored[v]
  BY <1>1
<1>4. UnstoredInv'
  <2>1. unstored' \in [Writers -> Rows \cup {none}]
    BY <1>1
  <2> QED
    BY <1>1, <1>3, <2>1 DEF StoreInv, UnstoredInv
<1>5. \A i \in 1..Len(stored) : stored[i] \in Rows /\ stored[i] # none
  BY <1>1, NoneIsNoRow
<1>6. CASE stored' = stored
  <2>1. \A i \in 1..Len(stored), v \in Writers : unstored'[v] # stored[i]
    BY <1>3, <1>5 DEF StoreInv, ListInv
  <2> QED
    BY <1>1, <1>4, <1>6, <2>1 DEF StoreInv, ListInv
<1>7. CASE stored' = Append(stored, unstored[w])
  <2>1. PICK n \in Nat, row \in Rows : n = Len(stored) /\ row = unstored[w]
    BY <1>1, <1>2
  <2>2. /\ stored' \in Seq(Rows) /\ Len(stored') = n + 1 /\ stored'[n + 1] = row
        /\ \A i \in 1..n : stored'[i] = stored[i]
    BY <1>1, <1>7, <2>1
  <2>3. \A i \in 1..(n + 1) : i \in 1..n \/ i = n + 1
    OBVIOUS
  <2>4. ASSUME NEW i \in 1..Len(stored')
        PROVE  /\ stored'[i].at <= restarts /\ (stored'[i].at = restarts => stored'[i].seq <= Len(entries))
               /\ \A v \in Writers : unstored'[v] # stored'[i]
    <3>1. CASE i \in 1..n
      BY <1>3, <1>5, <2>1, <2>2, <3>1 DEF StoreInv, ListInv
    <3>2. CASE i = n + 1
      <4>1. stored'[i] = row /\ row.at = restarts /\ row.seq <= Len(entries) /\ restarts \in Nat
        BY <1>2, <2>1, <2>2, <3>2 DEF LogInv, LogType
      <4>2. \A v \in Writers : unstored'[v] # row
        BY <1>1, <1>3, <2>1, NoneIsNoRow DEF StoreInv, UnstoredInv
      <4> QED
        BY <4>1, <4>2
    <3> QED
      BY <2>2, <2>3, <3>1, <3>2
  <2>5. ASSUME NEW i \in 1..Len(stored'), NEW j \in 1..Len(stored'), i < j
        PROVE  stored'[i].at <= stored'[j].at /\ stored'[i] # stored'[j]
    <3>1. i \in 1..n
      BY <2>1, <2>2, <2>5
    <3>2. CASE j \in 1..n
      BY <2>1, <2>2, <2>5, <3>1, <3>2 DEF StoreInv, ListInv
    <3>3. CASE j = n + 1
      BY <1>2, <2>1, <2>2, <3>1, <3>3 DEF StoreInv, ListInv
    <3> QED
      BY <2>2, <2>3, <3>2, <3>3
  <2> QED
    BY <1>1, <1>4, <2>2, <2>4, <2>5 DEF StoreInv, ListInv
<1> QED
  BY <1>1, <1>6, <1>7

\* After a restart every row of the list is of an earlier run, and none is on its way.
LEMMA RestartStoreKeeps ==
  ASSUME LogInv, StoreInv, Restart
  PROVE  StoreInv'
<1>1. /\ restarts' = restarts + 1 /\ entries' = <<>> /\ unstored' = [w \in Writers |-> none] /\ stored' = stored
      /\ restarts \in Nat /\ stored \in Seq(Rows)
  BY DEF Restart, LogInv, LogType, StoreInv, ListInv
<1>2. UnstoredInv'
  BY <1>1 DEF UnstoredInv
<1>3. ASSUME NEW i \in 1..Len(stored)
      PROVE  stored[i].at <= restarts + 1 /\ stored[i].at # restarts + 1 /\ \A w \in Writers : unstored'[w] # stored[i]
  <2>1. stored[i] \in Rows /\ stored[i].at \in Nat /\ stored[i].at <= restarts
    BY <1>1, RowFields DEF StoreInv, ListInv
  <2> QED
    BY <1>1, <2>1, NoneIsNoRow
<1>4. ListInv'
  BY <1>1, <1>3 DEF StoreInv, ListInv
<1> QED
  BY <1>2, <1>4 DEF StoreInv

\* Rows reach the list of the redis backend in the order of runs, and once each.
THEOREM StoreInvariant == ASSUME Backend = "redis" PROVE Spec => []StoreInv
<1>1. Init => StoreInv
  BY NoneIsNoRow DEF Init, StoreInv, UnstoredInv, ListInv
<1>2. LogInv /\ StoreInv /\ [Next]_vars => StoreInv'
  <2> SUFFICES ASSUME LogInv, StoreInv, [Next]_vars PROVE StoreInv'
    OBVIOUS
  <2>1. ASSUME NEW w \in Writers, NEW what \in Records, appendEntry(w, what) PROVE StoreInv'
    BY <2>1, AppendStoreKeeps
  <2>2. ASSUME NEW w \in Writers, Store(w) PROVE StoreInv'
    BY <2>2, StoreKeeps
  <2>3. CASE Restart
    BY <2>3, RestartStoreKeeps
  <2>4. CASE UNCHANGED <<entries, unstored, stored, restarts>>
    BY <2>4 DEF StoreInv, UnstoredInv, ListInv
  <2> QED
    BY <2>1, <2>2, <2>3, <2>4 DEF Next, Publish, WriteJSON, AlterFile, vars
<1> QED
  BY <1>1, <1>2, LogInvariant, PTL DEF Spec

\* No row that the redis backend has is lost or rewritten: StoredRowsStay.
THEOREM StoredRowsAlwaysStay == ASSUME Backend = "redis" PROVE Spec => StoredRowsStay
<1>1. StoreInv /\ [Next]_vars => [\A i \in DOMAIN stored : \E j \in DOMAIN stored' : stored'[j] = stored[i]]_stored
  <2> SUFFICES ASSUME StoreInv, [Next]_vars, stored' # stored
               PROVE  \A i \in DOMAIN stored : \E j \in DOMAIN stored' : stored'[j] = stored[i]
    OBVIOUS
  <2>1. PICK w \in Writers : Store(w)
    BY Zenon DEF Next, appendEntry, Publish, WriteJSON, AlterFile, Restart, vars
  <2>2. stored' = Append(stored, unstored[w]) /\ unstored[w] \in Rows /\ stored \in Seq(Rows)
    BY <2>1 DEF Store, AuditAppend, StoreInv, UnstoredInv, ListInv
  <2>3. \A i \in DOMAIN stored : i \in DOMAIN stored' /\ stored'[i] = stored[i]
    BY <2>2
  <2> QED
    BY <2>3
<1> QED
  BY <1>1, StoreInvariant, PTL DEF Spec, StoredRowsStay
-----------------------------------------------------------------------------
\* The keys of a list, from its end on
LEMMA LatestKey ==
  ASSUME stored \in Seq(Rows), NEW i \in 1..Len(stored)
  PROVE  latestKey(i) = Len(stored) + 1 - i
<1> DEFINE D == DOMAIN stored
           P(k) == Cardinality({x \in D : x >= k}) = i
<1>1. PICK n \in Nat : n = Len(stored) /\ D = 1..n
  OBVIOUS
<1>2. ASSUME NEW k \in D PROVE P(k) <=> k = n + 1 - i
  <2>1. {x \in D : x >= k} = k..n
    BY <1>1
  <2>2. Cardinality(k..n) = n - k + 1 /\ k \in 1..n
    BY <1>1, FS_Interval
  <2>3. \A a, b, c \in Nat : b - a + 1 = c <=> a = b + 1 - c
    OBVIOUS
  <2>4. i \in Nat /\ k \in Nat
    BY <1>1, <2>2
  <2>5. P(k) <=> n - k + 1 = i
    BY <2>1, <2>2, Zenon
  <2> HIDE DEF P
  <2> QED
    BY <1>1, <2>3, <2>4, <2>5
<1>3. n + 1 - i \in D
  BY <1>1
<1>4. \E k \in D : P(k)
  BY <1>2, <1>3
<1>5. latestKey(i) = CHOOSE k \in D : P(k)
  BY Zenon DEF latestKey
<1> HIDE DEF D, P
<1>6. latestKey(i) \in D /\ P(latestKey(i))
  BY <1>4, <1>5
<1> QED
  BY <1>1, <1>2, <1>6

\* What Recent answers has the latest run first, and no row twice, however the writers
\* of a run overtake each other on the way to the backend: LatestRunFirst.
THEOREM LatestRunAlwaysFirst == ASSUME Backend = "redis" PROVE Spec => []LatestRunFirst
<1> DEFINE InOrder(s) == \A i, j \in 1..Len(s) : i < j => s[i].at >= s[j].at /\ s[i] # s[j]
<1>1. ASSUME NEW s \in Seq(Rows), InOrder(s), NEW n \in Nat
      PROVE  \A i, j \in DOMAIN first(s, n) : i < j => first(s, n)[i].at >= first(s, n)[j].at /\ first(s, n)[i] # first(s, n)[j]
  <2>1. PICK m \in Nat : m <= Len(s) /\ first(s, n) = SubSeq(s, 1, m)
    BY DEF first
  <2>2. DOMAIN first(s, n) = 1..m /\ \A i \in 1..m : first(s, n)[i] = s[i] /\ i \in 1..Len(s)
    BY <2>1
  <2> QED
    BY <1>1, <2>2
<1>2. LogInv /\ StoreInv => LatestRunFirst
  <2> SUFFICES ASSUME LogInv, StoreInv, NEW n \in Nat, NEW rows \in Recent(n)
               PROVE  \A i, j \in DOMAIN rows : i < j => rows[i].at >= rows[j].at /\ rows[i] # rows[j]
    BY BoundsAssumption DEF LatestRunFirst
  <2> DEFINE memory == [i \in DOMAIN entries |-> entries[Len(entries) + 1 - i].row]
             latest == [i \in 1..Cardinality(DOMAIN stored) |-> stored[latestKey(i)]]
  <2>1. rows = first(memory, n) \/ rows = first(latest, n)
    BY DEF Recent, AuditLatest
  <2>2. memory \in Seq(Rows) /\ InOrder(memory)
    <3>1. PICK k \in Nat : k = Len(entries) /\ DOMAIN entries = 1..k
      BY DEF LogInv, LogType
    <3>2. \A i \in 1..k : entries[i].row \in Rows /\ entries[i].row.seq = i /\ entries[i].row.at = restarts
      <4>1. \A i \in 1..k : entries[i] \in Entries
        BY <3>1 DEF LogInv, LogType
      <4>2. \A x \in Entries : x.row \in Rows
        BY DEF Entries
      <4> QED
        BY <3>1, <4>1, <4>2 DEF StoreInv, UnstoredInv
    <3>3. \A i \in 1..k : k + 1 - i \in 1..k
      OBVIOUS
    <3>4. memory \in Seq(Rows) /\ Len(memory) = k /\ \A i \in 1..k : memory[i] = entries[k + 1 - i].row
      BY <3>1, <3>2, <3>3
    <3> HIDE DEF memory
    <3>5. \A i \in 1..k : memory[i].seq = k + 1 - i /\ memory[i].at = restarts
      BY <3>2, <3>3, <3>4
    <3> QED
      BY <3>4, <3>5 DEF LogInv, LogType
  <2>3. latest \in Seq(Rows) /\ InOrder(latest)
    <3>1. PICK k \in Nat : k = Len(stored) /\ DOMAIN stored = 1..k /\ stored \in Seq(Rows)
      BY DEF StoreInv, ListInv
    <3>2. Cardinality(DOMAIN stored) = k
      <4>1. Cardinality(1..k) = k - 1 + 1
        BY FS_Interval
      <4> QED
        BY <3>1, <4>1
    <3>3. latest = [i \in 1..k |-> stored[k + 1 - i]]
      BY <3>1, <3>2, LatestKey
    <3>4. \A i \in 1..k : k + 1 - i \in 1..k
      OBVIOUS
    <3> HIDE DEF latest
    <3>5. latest \in Seq(Rows) /\ Len(latest) = k /\ \A i \in 1..k : latest[i] = stored[k + 1 - i]
      BY <3>1, <3>3, <3>4
    <3>6. ASSUME NEW i \in 1..k, NEW j \in 1..k, i < j PROVE latest[i].at >= latest[j].at /\ latest[i] # latest[j]
      <4>1. k + 1 - j < k + 1 - i
        BY <3>6
      <4>2. stored[k + 1 - j].at <= stored[k + 1 - i].at /\ stored[k + 1 - j] # stored[k + 1 - i]
        BY <3>1, <3>4, <4>1 DEF StoreInv, ListInv
      <4>3. stored[k + 1 - j].at \in Nat /\ stored[k + 1 - i].at \in Nat
        BY <3>1, <3>4, RowFields
      <4> QED
        BY <3>5, <4>2, <4>3
    <3> QED
      BY <3>5, <3>6
  <2> HIDE DEF memory, latest, InOrder
  <2> QED
    BY <1>1, <2>1, <2>2, <2>3
<1> QED
  BY <1>2, LogInvariant, StoreInvariant, PTL
=============================================================================
