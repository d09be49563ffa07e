---------------------------- MODULE ConfigReload ----------------------------
(***************************************************************************)
(* The configuration while the node runs: an operator edits the file, the  *)
(* watcher (internal/hotreload/watcher.go) polls its modification time,    *)
(* POST config/reload and PUT config bring configurations of their own,    *)
(* and all of them end in Engine.Reload.  The gateway keeps the            *)
(* configuration of the start for the audit rows that it writes itself.    *)
(*                                                                         *)
(* A save may truncate the file before it writes it (an empty file is a    *)
(* valid one), and two saves may bear the same modification time.          *)
(***************************************************************************)
EXTENDS ConfigFile

CONSTANTS Files,       \* what an operator writes: [parses, raw]
          StartFile,   \* what the node was started with
          PutConfigs,  \* bodies of PUT config
          Admins,      \* goroutines of the HTTP server with such a request
          MaxSaves, MaxRequests, MaxFailures

ASSUME ReloadAssumption == StartFile \in Files /\ Loads(StartFile)

\* What Load makes of each file, and the files that it accepts
loaded == [f \in Files |-> configOf(f.raw)]
loadable == {f \in Files : Loads(f)}

VARIABLES disk,      \* the file: its modification time, what it holds, and the number of the save
          lastMod,   \* Watch: the modification time seen last, 0 for time.Time{}
          watcher,   \* Watch: what it is about to do
          admin,     \* for each request, what it is about to do
          engineCfg, \* Engine.cfg
          startCfg,  \* Gateway.cfg, and the cfg of the HTTP handlers
          source,    \* what engineCfg was made from
          installed, \* has Engine.Reload stored a configuration
          requests,  \* how many requests have brought a configuration
          failures,  \* how often the file could not be read
          due,       \* is the file one that the watcher has yet to bring into force
          trail      \* the versions of the two rows of an envelope, of the last one to get both

reloadVars == <<disk, lastMod, watcher, admin, engineCfg, startCfg, source, installed, requests, failures, due, trail>>

resting == [pc |-> "rest"]
noRows == [engine |-> "", gateway |-> ""]

Steps == {resting, [pc |-> "load"]} \cup [pc: {"install"}, file: Files]

ReloadTypeOK ==
  /\ disk \in [mtime: 1..(MaxSaves + 1), file: Files, save: 0..MaxSaves]
  /\ lastMod \in 0..disk.mtime
  /\ watcher \in Steps
  /\ admin \in [Admins -> Steps]
  /\ Validates(engineCfg)
  /\ requests \in 0..MaxRequests /\ failures \in 0..MaxFailures

\* Mutant: the gateway is made with the preset of the profile.
ReloadInitPreset ==
  /\ disk = [mtime |-> 1, file |-> StartFile, save |-> 0]
  /\ lastMod = 0
  /\ watcher = resting
  /\ admin = [a \in Admins |-> resting]
  /\ engineCfg = loaded[StartFile]
  /\ startCfg = DefaultConfigForProfile(profileName(StartFile.raw))
  /\ source = StartFile
  /\ installed = FALSE
  /\ requests = 0
  /\ failures = 0
  /\ due = FALSE
  /\ trail = noRows

ReloadInit ==
  /\ disk = [mtime |-> 1, file |-> StartFile, save |-> 0]
  /\ lastMod = 0
  /\ watcher = resting
  /\ admin = [a \in Admins |-> resting]
  /\ engineCfg = loaded[StartFile]
  /\ startCfg = loaded[StartFile]
  /\ source = StartFile
  /\ installed = FALSE
  /\ requests = 0
  /\ failures = 0
  /\ due = FALSE
  /\ trail = noRows

noRequest == \A a \in Admins : admin[a] = resting

\* An operator, or an editor that truncates and then writes, saves the file.
Save(f, m) ==
  /\ disk.save < MaxSaves
  /\ disk' = [mtime |-> m, file |-> f, save |-> disk.save + 1]
  /\ due' = (lastMod \notin {0, m} /\ f \in loadable /\ noRequest)
  /\ UNCHANGED <<lastMod, watcher, admin, engineCfg, startCfg, source, installed, requests, failures, trail>>

\* Mutant: a reload puts the values of the file over the active configuration.
ReloadOver(file) ==
  /\ engineCfg' = apply(file.raw, engineCfg)
  /\ source' = file
  /\ installed' = TRUE

\* Engine.Reload with what Load made of the file
ReloadFile(file) ==
  /\ engineCfg' = loaded[file]
  /\ source' = file
  /\ installed' = TRUE

(* A tick of Watch: the first one only notes the modification time, others
   look for a change.  lastMod is set before the file is read.             *)
FirstTick ==
  /\ watcher = resting /\ lastMod = 0
  /\ lastMod' = disk.mtime
  /\ UNCHANGED <<disk, watcher, admin, engineCfg, startCfg, source, installed, requests, failures, due, trail>>

LaterTick ==
  /\ watcher = resting /\ lastMod \notin {0, disk.mtime}
  /\ lastMod' = disk.mtime
  /\ watcher' = [pc |-> "load"]
  /\ UNCHANGED <<disk, admin, engineCfg, startCfg, source, installed, requests, failures, due, trail>>

\* Mutant: a file that parses is not validated.
WatchLoadUnvalidated ==
  /\ watcher.pc = "load"
  /\ watcher' = IF disk.file.parses THEN [pc |-> "install", file |-> disk.file] ELSE resting
  /\ UNCHANGED <<disk, lastMod, admin, engineCfg, startCfg, source, installed, requests, failures, due, trail>>

\* config.Load in Watch: a file that does not load is left at that
WatchLoad ==
  /\ watcher.pc = "load"
  /\ watcher' = IF disk.file \in loadable THEN [pc |-> "install", file |-> disk.file] ELSE resting
  /\ UNCHANGED <<disk, lastMod, admin, engineCfg, startCfg, source, installed, requests, failures, due, trail>>

\* The file cannot be opened or read just then.
WatchLoadFails ==
  /\ watcher.pc = "load"
  /\ failures < MaxFailures
  /\ failures' = failures + 1
  /\ due' = FALSE
  /\ watcher' = resting
  /\ UNCHANGED <<disk, lastMod, admin, engineCfg, startCfg, source, installed, requests, trail>>

\* Mutant: the modification time is noted again, once the file is in force.
WatchInstallAndNote ==
  /\ watcher.pc = "install"
  /\ ReloadFile(watcher.file)
  /\ watcher' = resting
  /\ lastMod' = disk.mtime
  /\ UNCHANGED <<disk, admin, startCfg, requests, failures, due, trail>>

\* onChange
WatchInstall ==
  /\ watcher.pc = "install"
  /\ ReloadFile(watcher.file)
  /\ watcher' = resting
  /\ UNCHANGED <<disk, lastMod, admin, startCfg, requests, failures, due, trail>>

\* POST config/reload: onReload reads the file, then stores what it read
PostReload(a) ==
  /\ admin[a] = resting
  /\ requests < MaxRequests
  /\ requests' = requests + 1
  /\ due' = FALSE
  /\ disk.file \in loadable
  /\ admin' = [admin EXCEPT ![a] = [pc |-> "install", file |-> disk.file]]
  /\ UNCHANGED <<disk, lastMod, watcher, engineCfg, startCfg, source, installed, failures, trail>>

PostInstall(a) ==
  /\ admin[a].pc = "install"
  /\ ReloadFile(admin[a].file)
  /\ admin' = [admin EXCEPT ![a] = resting]
  /\ UNCHANGED <<disk, lastMod, watcher, startCfg, requests, failures, due, trail>>

\* PUT config: onConfigSave stores the body, and does not write it to the file
PutConfig(a, c) ==
  /\ admin[a] = resting
  /\ requests < MaxRequests
  /\ requests' = requests + 1
  /\ due' = FALSE
  /\ Validates(c)
  /\ engineCfg' = c
  /\ source' = [parses |-> FALSE, raw |-> << >>]
  /\ installed' = TRUE
  /\ UNCHANGED <<disk, lastMod, watcher, admin, startCfg, failures, trail>>

\* The row that Evaluate appends for an envelope, with the active version
EvaluateRow ==
  /\ trail' = [engine |-> engineCfg.PolicyVersion, gateway |-> ""]
  /\ UNCHANGED <<disk, lastMod, watcher, admin, engineCfg, startCfg, source, installed, requests, failures, due>>

\* The row that SendEnvelope appends for it afterwards, with the version of g.cfg
GatewayRow ==
  /\ trail # noRows /\ trail.gateway = ""
  /\ trail' = [trail EXCEPT !.gateway = startCfg.PolicyVersion]
  /\ UNCHANGED <<disk, lastMod, watcher, admin, engineCfg, startCfg, source, installed, requests, failures, due>>

ReloadNext ==
  \/ \E f \in Files, m \in {disk.mtime, disk.mtime + 1} : Save(f, m)
  \/ FirstTick
  \/ LaterTick
  \/ WatchLoad
  \/ WatchLoadFails
  \/ WatchInstall
  \/ \E a \in Admins : PostReload(a) \/ PostInstall(a)
  \/ \E a \in Admins, c \in PutConfigs : PutConfig(a, c)
  \/ EvaluateRow
  \/ GatewayRow

Watch == FirstTick \/ LaterTick \/ WatchLoad \/ WatchLoadFails \/ WatchInstall

ReloadSpec == ReloadInit /\ [][ReloadNext]_reloadVars /\ WF_reloadVars(Watch)
-----------------------------------------------------------------------------
\* A reload forgets: what the node runs with after reading a file is what a node
\* started with that file would run with, whatever was active before, PUT or not.
ReloadForgets == source.parses => engineCfg = loaded[source]

\* A save that the watcher can notice ends up active: if its modification time
\* differs from the one noted, and no request holds a configuration read before,
\* the file is in force in the end, unless it is saved again, cannot be read, or
\* a request brings another configuration.
FileWins == due ~> (~due \/ engineCfg = loaded[disk.file])

\* The two rows of an envelope differ in their version only if a configuration
\* was stored since the start, and then the gateway's is that of the start.
RowsDifferOnlyAfterReload ==
  trail.gateway \notin {"", trail.engine} => installed /\ trail.gateway = startCfg.PolicyVersion
=============================================================================
