------------------------------ MODULE ChessBots -------------------------------
(***************************************************************************)
(* The bot manager of `serve chess` (BotManager in chess_bot.rs): requests *)
(* list, install, select and remove engine builds, an install thread       *)
(* downloads one, and all of them share the status map, behind a mutex,    *)
(* and the manifest bots.json, behind nothing: it is loaded, changed and   *)
(* written back, and a write truncates the file before it fills it.        *)
(*                                                                         *)
(* One bot (the catalog has one).  Its engine builds are the managed       *)
(* download "ntc" and the packages of ntpkg.  The phases Downloading,      *)
(* Extracting and Verifying are one, "installing".  Reading the manifest   *)
(* and looking for the binaries it names is one step.                      *)
(***************************************************************************)
EXTENDS Naturals, FiniteSets

CONSTANTS Requests,     \* request threads
          Installers,   \* install threads
          Packages,     \* engine builds that ntpkg may have installed
          NoBot,
          MaxCrashes,   \* bound: restarts of the server
          MaxOps        \* bound: operations started

Engines == {"ntc"} \cup Packages
ASSUME NamesAssumption == "ntc" \notin Packages /\ NoBot \notin Engines
ASSUME BotsBoundAssumption == MaxCrashes \in Nat /\ MaxOps \in Nat

VARIABLES
    binary,    \* the managed engine is in its directory
    packages,  \* packages ntpkg has installed
    file,      \* bots.json: [ntc, selected], or Torn while a write is under way
    status,    \* the shared status: phase, engines on offer, engine chosen
    thread,    \* thread[t]: what a request or an install thread is doing
    crashes, ops
botsVars == <<binary, packages, file, status, thread, crashes, ops>>
bounds == <<crashes, ops>>
disk   == <<binary, packages, file>>

Threads == Requests \cup Installers
Torn  == [torn |-> TRUE]
Empty == [ntc |-> FALSE, selected |-> NoBot]
Manifest == [ntc : BOOLEAN, selected : Engines \cup {NoBot}]

(* load_manifest: what cannot be parsed counts as an empty manifest.        *)
Loaded == IF file = Torn THEN Empty ELSE file

(* discover_engines: the download if its record and its binary are there.   *)
Discovered == packages \cup (IF Loaded.ntc /\ binary THEN {"ntc"} ELSE {})

BotsIdle == [at |-> "idle"]
NoEngine == [phase |-> "notInstalled", engines |-> {}, engine |-> NoBot]

(* rescan, under the lock: the choice of the manifest if it is on offer,    *)
(* else the default order: the download, then a package.                   *)
Choices(engines, selected) ==
    IF selected \in engines THEN {selected}
    ELSE IF "ntc" \in engines THEN {"ntc"} ELSE engines
RescannedClears(old, engines, selected) ==
    IF old.phase = "installing" THEN {old}
    ELSE IF engines = {} THEN {NoEngine}
    ELSE {[phase |-> "ready", engines |-> engines, engine |-> e] :
              e \in Choices(engines, selected)}
Rescanned(old, engines, selected) ==
    IF old.phase = "installing" THEN {old}
    ELSE IF engines = {}
    THEN {[NoEngine EXCEPT !.phase = IF old.phase = "error" THEN "error" ELSE @]}
    ELSE {[phase |-> "ready", engines |-> engines, engine |-> e] :
              e \in Choices(engines, selected)}

BotsInit == /\ binary = FALSE /\ packages \in SUBSET Packages /\ file = Empty
            /\ status \in Rescanned(NoEngine, packages, NoBot)
            /\ thread = [t \in Threads |-> BotsIdle]
            /\ crashes = 0 /\ ops = 0

BotsGo(t, r) == thread' = [thread EXCEPT ![t] = r]
At(t, pc) == thread[t].at = pc
Begin(t, r) == /\ At(t, "idle") /\ t \in Requests
               /\ ops < MaxOps /\ ops' = ops + 1
               /\ BotsGo(t, r) /\ UNCHANGED crashes

-------------------------------------------------------------------------------
(* rescan: the disk is read before the lock is taken                       *)

List(t) == Begin(t, [at |-> "rescan"]) /\ UNCHANGED <<disk, status>>

RescanRead(t) ==
    /\ At(t, "rescan")
    /\ BotsGo(t, [at |-> "apply", engines |-> Discovered, selected |-> Loaded.selected])
    /\ UNCHANGED <<disk, status, bounds>>
RescanApply(t) ==
    /\ At(t, "apply")
    /\ status' \in Rescanned(status, thread[t].engines, thread[t].selected)
    /\ BotsGo(t, BotsIdle)
    /\ UNCHANGED <<disk, bounds>>

(* save_manifest: fs::write truncates, then writes.  If another writer has   *)
(* filled the file in between, the longer content may stick out behind.     *)
SaveBegin(t) ==
    /\ At(t, "save")
    /\ file' = Torn
    /\ BotsGo(t, [thread[t] EXCEPT !.at = "saving"])
    /\ UNCHANGED <<binary, packages, status, bounds>>
SaveEnd(t) ==
    /\ At(t, "saving")
    /\ file' \in {thread[t].man} \cup (IF file = Torn THEN {} ELSE {Torn})
    /\ BotsGo(t, [at |-> thread[t].next])
    /\ UNCHANGED <<binary, packages, status, bounds>>

Saving(man, next) == [at |-> "save", man |-> man, next |-> next]

-------------------------------------------------------------------------------
(* select and uninstall: a check under the lock, then the manifest          *)

Select(t) ==
    \E e \in status.engines :
        Begin(t, [at |-> "select", engine |-> e]) /\ UNCHANGED <<disk, status>>
SelectLoad(t) ==
    /\ At(t, "select")
    /\ LET e == thread[t].engine
       IN  BotsGo(t, Saving([Loaded EXCEPT !.selected = e], "rescan"))
    /\ UNCHANGED <<disk, status, bounds>>

Uninstall(t) ==
    /\ status.phase # "installing"
    /\ "ntc" \in status.engines
    /\ Begin(t, [at |-> "remove"])
    /\ UNCHANGED <<disk, status>>
RemoveDir(t) ==
    /\ At(t, "remove")
    /\ binary' = FALSE
    /\ BotsGo(t, [at |-> "removed"])
    /\ UNCHANGED <<packages, file, status, bounds>>
RemoveFails(t) ==
    /\ At(t, "remove")
    /\ BotsGo(t, BotsIdle)
    /\ UNCHANGED <<disk, status, bounds>>
UninstallLoad(t) ==
    /\ At(t, "removed")
    /\ LET ntcPicked == Loaded.selected = "ntc"
       IN  BotsGo(t, Saving([ntc |-> FALSE,
                         selected |-> IF ntcPicked THEN NoBot ELSE Loaded.selected],
                        "rescan"))
    /\ UNCHANGED <<disk, status, bounds>>

-------------------------------------------------------------------------------
(* install, and the install thread                                         *)

Install(t, i) ==
    /\ status.phase \notin {"installing", "ready"}
    /\ At(i, "idle")
    /\ At(t, "idle") /\ ops < MaxOps /\ ops' = ops + 1
    /\ status' = [status EXCEPT !.phase = "installing"]
    /\ thread' = [thread EXCEPT ![t] = [at |-> "rescan"], ![i] = [at |-> "download"]]
    /\ UNCHANGED <<disk, crashes>>

(* Downloaded, extracted, smoke-tested and moved into its directory.        *)
Place(i) ==
    /\ At(i, "download")
    /\ binary' = TRUE
    /\ BotsGo(i, [at |-> "record"])
    /\ UNCHANGED <<packages, file, status, bounds>>
Record(i) ==
    /\ At(i, "record")
    /\ BotsGo(i, Saving([Loaded EXCEPT !.ntc = TRUE], "setReady"))
    /\ UNCHANGED <<disk, status, bounds>>
SetReady(i) ==
    /\ At(i, "setReady")
    /\ status' = [status EXCEPT !.phase = "ready"]
    /\ BotsGo(i, [at |-> "default"])
    /\ UNCHANGED <<disk, bounds>>
(* "A fresh download becomes the user's engine unless they picked another." *)
DefaultLoad(i) ==
    /\ At(i, "default")
    /\ BotsGo(i, IF Loaded.selected = NoBot
             THEN Saving([Loaded EXCEPT !.selected = "ntc"], "rescan")
             ELSE [at |-> "rescan"])
    /\ UNCHANGED <<disk, status, bounds>>
InstallFailsSilently(i) ==
    /\ At(i, "download") \/ At(i, "record")
    /\ BotsGo(i, BotsIdle)
    /\ UNCHANGED <<disk, status, bounds>>
InstallFails(i) ==
    /\ At(i, "download") \/ At(i, "record")
    /\ status' = [status EXCEPT !.phase = "error"]
    /\ BotsGo(i, BotsIdle)
    /\ UNCHANGED <<disk, bounds>>

-------------------------------------------------------------------------------
(* ntpkg, outside this process, and a restart of the server                *)

Ntpkg == /\ packages' \in SUBSET Packages
         /\ UNCHANGED <<binary, file, status, thread, bounds>>

Restart == /\ crashes < MaxCrashes /\ crashes' = crashes + 1
           /\ thread' = [t \in Threads |-> BotsIdle]
           /\ status' \in Rescanned(NoEngine, Discovered, Loaded.selected)
           /\ UNCHANGED <<disk, ops>>

Request(t) == List(t) \/ Select(t) \/ Uninstall(t) \/ \E i \in Installers : Install(t, i)
Proceed(t) == \/ RescanRead(t) \/ RescanApply(t) \/ SaveBegin(t) \/ SaveEnd(t)
              \/ SelectLoad(t) \/ RemoveDir(t) \/ RemoveFails(t) \/ UninstallLoad(t)
              \/ Place(t) \/ Record(t) \/ SetReady(t) \/ DefaultLoad(t) \/ InstallFails(t)

BotsNext == \/ \E t \in Requests : Request(t)
            \/ \E t \in Threads : Proceed(t)
            \/ Ntpkg \/ Restart

BotsSpec == BotsInit /\ [][BotsNext]_botsVars

-------------------------------------------------------------------------------
(* Properties *)

BotsTypeOK ==
    /\ binary \in BOOLEAN /\ packages \subseteq Packages
    /\ file \in Manifest \cup {Torn}
    /\ status.phase \in {"notInstalled", "installing", "ready", "error"}
    /\ status.engines \subseteq Engines /\ status.engine \in Engines \cup {NoBot}
    /\ crashes \in 0..MaxCrashes /\ ops \in 0..MaxOps

(* The phase "installing" refuses installs and removals, and rescan leaves  *)
(* it alone: it never outlives the thread that ends it.                     *)
BusyMeansInstalling ==
    status.phase = "installing" =>
        \E i \in Installers : thread[i].at \in {"download", "record", "save", "saving", "setReady"}

(* Every poll of the page rescans: the error of a failed install stays in    *)
(* view until a new attempt, an engine to play with, or a restart.          *)
ErrorStays == [][ (status.phase = "error" /\ crashes' = crashes) =>
                      \/ status'.phase \in {"error", "installing"}
                      \/ status'.engines # {} ]_botsVars

(* "Only one install thread per bot can run at a time" (chess_bot.rs:4).     *)
(* It does not hold: a rescan applies what it read before the download was   *)
(* recorded, and the next install starts (README, known divergences).       *)
OneInstaller == Cardinality({i \in Installers : ~At(i, "idle")}) <= 1
===============================================================================
