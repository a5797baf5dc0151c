---------------------------- MODULE ProjectBackup ------------------------------
(***************************************************************************)
(* The `backup` command of the shell (utils/backup.rs): snapshots of a      *)
(* project directory, restores that can be undone, restores of the deleted  *)
(* files only, and the clearing of either store.                            *)
(*                                                                         *)
(* One shell runs one command at a time, file by file; the user goes on     *)
(* editing the project in other programs, also while the shell waits at a   *)
(* prompt; a copy can fail, and the process can be killed anywhere.  A file *)
(* is its content: Absent when it is not there, Torn when a copy into it    *)
(* was cut short.                                                          *)
(***************************************************************************)
EXTENDS Naturals, FiniteSets, FiniteSetsExt, Functions

CONSTANTS Files, Contents,
          Large,              \* files above MAX_BACKUP_FILE_SIZE
          Reports,            \* ignore.txt and .manifest.json in the project's root
          Absent, Torn, None,
          MaxNumber,          \* bound: backups made
          MaxEdits,           \* bound: changes by the user
          MaxFaults           \* bound: failed copies and kills

ASSUME FilesAssumption  == /\ IsFiniteSet(Files)
                           /\ Large \subseteq Files /\ Reports \subseteq Files
ASSUME ValuesAssumption == Absent \notin Contents \cup {Torn} /\ Torn \notin Contents
ASSUME BoundAssumption  == MaxNumber \in Nat /\ MaxEdits \in Nat /\ MaxFaults \in Nat

Content   == Contents \cup {Torn}
Copies    == UNION {[D -> Content] : D \in SUBSET Files}
Snapshots == [manifest : Copies \cup {None}, data : Copies]
States    == [overwritten : SUBSET Files, created : SUBSET Files, deleted : SUBSET Files]
Debts     == [before : [Files -> Content \cup {Absent}], num : (1..MaxNumber) \cup {None},
              warned : SUBSET Files, touched : SUBSET Files, changing : SUBSET Files,
              unseen : SUBSET Files]
ASSUME NoneAssumption ==
    /\ None \notin Debts \cup States \cup Copies \cup Nat
    /\ Torn \notin States

VARIABLES project,   \* project[f]: content of f in the project
          ignored,   \* files the configuration leaves out of every walk
          backups,   \* backups[n]: manifest and files of bkup_n
          dir,       \* does the project's backup directory exist?
          index,     \* numbers index.json lists for the project, or Torn
          undo,      \* the undo directory: saved files and state.json
          cmd,       \* the running command and where it is
          owed,      \* what an undo has to bring back (history)
          doomed,    \* backups whose deletion was begun (history)
          edits, faults
history == <<owed, doomed>>
vars == <<project, ignored, backups, dir, index, undo, cmd, history, edits, faults>>

Present(f) == project[f] # Absent
Walked     == {f \in Files : Present(f) /\ f \notin ignored}
NoUndo     == [files |-> <<>>, deleted |-> <<>>, state |-> None]
Idle       == [at |-> "idle"]
Busy(s)    == cmd.at = s
Goto(s)    == cmd' = [cmd EXCEPT !.at = s]
Ticked(f)  == cmd' = [cmd EXCEPT !.todo = @ \ {f}]
FailedOn(f) == cmd' = [cmd EXCEPT !.todo = @ \ {f}, !.failed = TRUE]
Fault      == faults < MaxFaults /\ faults' = faults + 1
With(fn, f, v) == [g \in DOMAIN fn \cup {f} |-> IF g = f THEN v ELSE fn[g]]

Init == /\ project \in [Files -> Contents \cup {Absent}]
        /\ ignored = {} /\ backups = <<>> /\ dir = FALSE /\ index = {}
        /\ undo = NoUndo /\ cmd = Idle
        /\ owed = None /\ doomed = {}
        /\ edits = 0 /\ faults = 0

-------------------------------------------------------------------------------
(* The user, in other programs and through the configuration commands      *)

Edit(f) ==
    /\ edits < MaxEdits
    /\ \E v \in (Contents \cup {Absent}) \ {project[f]} :
           project' = [project EXCEPT ![f] = v]
    /\ owed' = IF owed = None THEN None ELSE [owed EXCEPT !.touched = @ \cup {f}]
    /\ edits' = edits + 1
    /\ UNCHANGED <<ignored, backups, dir, index, undo, cmd, doomed, faults>>

Configure ==
    /\ Busy("idle")
    /\ edits < MaxEdits
    /\ \E f \in Files : ignored' = IF f \in ignored THEN ignored \ {f} ELSE ignored \cup {f}
    /\ edits' = edits + 1
    /\ UNCHANGED <<project, backups, dir, index, undo, cmd, history, faults>>

-------------------------------------------------------------------------------
(* create_backup                                                           *)

NextNumber == 1 + Max({0} \cup DOMAIN backups)

(* The walk; then .tmp_bkup_N is made anew.                                 *)
StartCopying ==
    /\ NextNumber <= MaxNumber
    /\ cmd' = [at |-> "copying", num |-> NextNumber, todo |-> Walked \ Large,
               manifest |-> <<>>, data |-> <<>>]
    /\ dir' = TRUE

Create ==
    /\ Busy("idle")
    /\ StartCopying
    /\ UNCHANGED <<project, ignored, backups, index, undo, history, edits, faults>>

CopyIn(f) ==
    /\ Busy("copying") /\ f \in cmd.todo /\ Present(f)
    /\ cmd' = [cmd EXCEPT !.todo = @ \ {f},
                          !.manifest = With(@, f, project[f]),
                          !.data = With(@, f, project[f])]
    /\ UNCHANGED <<project, ignored, backups, dir, index, undo, history, edits, faults>>

(* Mutant: a copy that broke off is recorded like a good one.                *)
CopyInFailsRecorded(f) ==
    /\ Busy("copying") /\ f \in cmd.todo
    /\ \/ /\ ~Present(f) /\ Ticked(f)
          /\ UNCHANGED faults
       \/ /\ Present(f) /\ Fault
          /\ cmd' = [cmd EXCEPT !.todo = @ \ {f}, !.data = With(@, f, Torn),
                                !.manifest = With(@, f, project[f])]
    /\ UNCHANGED <<project, ignored, backups, dir, index, undo, history, edits>>

(* The file vanished since the walk, or the copy broke off: a warning, and   *)
(* the backup goes on without it.                                          *)
CopyInFails(f) ==
    /\ Busy("copying") /\ f \in cmd.todo
    /\ \/ /\ ~Present(f) /\ Ticked(f)
          /\ UNCHANGED faults
       \/ /\ Fault
          /\ \/ Ticked(f)
             \/ cmd' = [cmd EXCEPT !.todo = @ \ {f}, !.data = With(@, f, Torn)]
    /\ UNCHANGED <<project, ignored, backups, dir, index, undo, history, edits>>

(* The manifest and its report go into the directory of the copied files,    *)
(* over a file of the project that has such a name; the manifest keeps what  *)
(* it recorded of that file.                                               *)
Labelled(data) == {[f \in DOMAIN data \cup Reports |-> IF f \in Reports THEN text[f] ELSE data[f]] :
                   text \in [Reports -> Contents]}
PutInPlace == \E data \in Labelled(cmd.data) :
                 backups' = With(backups, cmd.num, [manifest |-> cmd.manifest, data |-> data])

(* Mutant: the index is updated although the rename failed.                  *)
PublishUnchecked ==
    /\ Busy("copying") /\ cmd.todo = {}
    /\ \/ /\ PutInPlace
          /\ doomed' = doomed \ {cmd.num}
          /\ UNCHANGED faults
       \/ Fault /\ UNCHANGED <<backups, doomed>>
    /\ cmd' = [at |-> "listing", num |-> cmd.num]
    /\ UNCHANGED <<project, ignored, dir, index, undo, owed, edits>>

(* Manifest and report into the temporary directory, then the rename.       *)
Publish ==
    /\ Busy("copying") /\ cmd.todo = {}
    /\ PutInPlace
    /\ doomed' = doomed \ {cmd.num}
    /\ cmd' = [at |-> "listing", num |-> cmd.num]
    /\ UNCHANGED <<project, ignored, dir, index, undo, owed, edits, faults>>

(* update_global_index: read, truncate, write.  What cannot be parsed counts *)
(* as empty.                                                               *)
Listed == IF index = Torn THEN {} ELSE index
BeginIndex(s, entries) ==
    /\ index' = Torn
    /\ cmd' = [at |-> "indexing", entries |-> entries, recreate |-> s]
EndIndex ==
    /\ Busy("indexing")
    /\ index' = cmd.entries
    /\ cmd' = IF cmd.recreate THEN [at |-> "recreating"] ELSE Idle
    /\ UNCHANGED <<project, ignored, backups, dir, undo, history, edits, faults>>

List ==
    /\ Busy("listing")
    /\ BeginIndex(FALSE, Listed \cup {cmd.num})
    /\ UNCHANGED <<project, ignored, backups, dir, undo, history, edits, faults>>

-------------------------------------------------------------------------------
(* clear_backups and recreate                                              *)

(* No directory: a warning and nothing else, whatever the index says.       *)
Clear(recreate) ==
    /\ Busy("idle")
    /\ dir /\ index # Torn
    /\ cmd' = [at |-> "clearing", recreate |-> recreate]
    /\ doomed' = doomed \cup DOMAIN backups
    /\ owed' = IF owed = None THEN None ELSE [owed EXCEPT !.num = None]
    /\ UNCHANGED <<project, ignored, backups, dir, index, undo, edits, faults>>

RemoveBackups ==
    /\ Busy("clearing")
    /\ backups' = <<>> /\ dir' = FALSE
    /\ cmd' = [at |-> "scrubbing", recreate |-> cmd.recreate]
    /\ UNCHANGED <<project, ignored, index, undo, history, edits, faults>>

Scrub ==
    /\ Busy("scrubbing")
    /\ BeginIndex(cmd.recreate, {})
    /\ UNCHANGED <<project, ignored, backups, dir, undo, history, edits, faults>>

RecreateNothingToClear ==
    /\ Busy("idle") /\ ~dir
    /\ cmd' = [at |-> "recreating"]
    /\ UNCHANGED <<project, ignored, backups, dir, index, undo, history, edits, faults>>

(* clear_undo_history, then a fresh backup.                                 *)
Recreate ==
    /\ Busy("recreating")
    /\ undo' = NoUndo /\ owed' = None
    /\ StartCopying
    /\ UNCHANGED <<project, ignored, backups, index, doomed, edits, faults>>

ClearUndo ==
    /\ Busy("idle")
    /\ undo' = NoUndo /\ owed' = None
    /\ UNCHANGED <<project, ignored, backups, dir, index, cmd, doomed, edits, faults>>

-------------------------------------------------------------------------------
(* restore_backup and restore_deleted_only                                 *)

Restorable(n) == n \in DOMAIN backups /\ backups[n].manifest # None
InBackup(n)   == DOMAIN backups[n].manifest

(* Mutant: the files to save are looked up among the walked ones.            *)
PlanWalkedOnly(n) ==
    [writes      |-> InBackup(n),
     overwritten |-> {f \in InBackup(n) \cap Walked : project[f] # backups[n].manifest[f]},
     created     |-> {f \in InBackup(n) : ~Present(f)},
     deleted     |-> Walked \ InBackup(n)]

(* What the restore is about to do, decided before the prompt: files to      *)
(* write, and the lists it will leave for the undo.                         *)
Plan(n) ==
    [writes      |-> InBackup(n),
     overwritten |-> {f \in InBackup(n) : Present(f) /\ project[f] # backups[n].manifest[f]},
     created     |-> {f \in InBackup(n) : ~Present(f)},
     deleted     |-> Walked \ InBackup(n)]
PlanDeleted(n) ==
    [writes |-> InBackup(n) \ Walked, overwritten |-> {},
     created |-> InBackup(n) \ Walked, deleted |-> {}]

Ask(n, only, plan) ==
    cmd' = [at |-> "asking", num |-> n, only |-> only, plan |-> plan, seen |-> project]
Restore(n) ==
    /\ Busy("idle") /\ Restorable(n)
    /\ Ask(n, "all", Plan(n))
    /\ UNCHANGED <<project, ignored, backups, dir, index, undo, history, edits, faults>>
RestoreDeleted(n) ==
    /\ Busy("idle") /\ Restorable(n)
    /\ InBackup(n) \ Walked # {}
    /\ Ask(n, "deleted", PlanDeleted(n))
    /\ UNCHANGED <<project, ignored, backups, dir, index, undo, history, edits, faults>>

Decline ==
    /\ Busy("asking")
    /\ cmd' = Idle
    /\ UNCHANGED <<project, ignored, backups, dir, index, undo, history, edits, faults>>

(* Yes: the previous undo goes, whether used or not.                        *)
Accept ==
    /\ Busy("asking")
    /\ undo' = NoUndo
    /\ owed' = [before |-> cmd.seen, num |-> cmd.num, warned |-> {},
                touched |-> {f \in Files : project[f] # cmd.seen[f]},
                changing |-> cmd.plan.overwritten \cup cmd.plan.created \cup cmd.plan.deleted,
                unseen |-> IF cmd.only = "deleted" THEN ignored ELSE {}]
    /\ cmd' = [at |-> "saving", num |-> cmd.num, only |-> cmd.only, plan |-> cmd.plan,
               failed |-> FALSE, todo |-> cmd.plan.overwritten \cup cmd.plan.deleted]
    /\ UNCHANGED <<project, ignored, backups, dir, index, doomed, edits, faults>>

Saved(f, v) == IF f \in cmd.plan.overwritten
               THEN [undo EXCEPT !.files = With(@, f, v)]
               ELSE [undo EXCEPT !.deleted = With(@, f, v)]

Save(f) ==
    /\ Busy("saving") /\ f \in cmd.todo /\ Present(f)
    /\ undo' = Saved(f, project[f])
    /\ Ticked(f)
    /\ UNCHANGED <<project, ignored, backups, dir, index, history, edits, faults>>

(* A failed copy is warned about, and the restore goes on.                  *)
SaveFails(f) ==
    /\ Busy("saving") /\ f \in cmd.todo
    /\ \/ ~Present(f) /\ UNCHANGED <<undo, faults>>
       \/ Fault /\ undo' \in {undo, Saved(f, Torn)}
    /\ owed' = [owed EXCEPT !.warned = @ \cup {f}]
    /\ Ticked(f)
    /\ UNCHANGED <<project, ignored, backups, dir, index, doomed, edits>>

(* state.json; then the files of the backup, also the unchanged ones.       *)
WriteState ==
    /\ Busy("saving") /\ cmd.todo = {}
    /\ undo' = [undo EXCEPT !.state = [overwritten |-> cmd.plan.overwritten,
                                       created |-> cmd.plan.created,
                                       deleted |-> cmd.plan.deleted]]
    /\ cmd' = [cmd EXCEPT !.at = "writing", !.todo = cmd.plan.writes]
    /\ UNCHANGED <<project, ignored, backups, dir, index, history, edits, faults>>

Write(f) ==
    /\ Busy("writing") /\ f \in cmd.todo
    /\ f \in DOMAIN backups[cmd.num].data
    /\ project' = [project EXCEPT ![f] = backups[cmd.num].data[f]]
    /\ Ticked(f)
    /\ UNCHANGED <<ignored, backups, dir, index, undo, history, edits, faults>>

(* Mutant: a failed copy into the project is not counted.                   *)
WriteFailsSilently(f) ==
    /\ Busy("writing") /\ f \in cmd.todo
    /\ \/ f \notin DOMAIN backups[cmd.num].data /\ UNCHANGED <<project, faults>>
       \/ /\ f \in DOMAIN backups[cmd.num].data
          /\ Fault
          /\ project' \in {project, [project EXCEPT ![f] = Torn]}
    /\ Ticked(f)
    /\ UNCHANGED <<ignored, backups, dir, index, undo, history, edits>>

WriteFails(f) ==
    /\ Busy("writing") /\ f \in cmd.todo
    /\ \/ f \notin DOMAIN backups[cmd.num].data /\ UNCHANGED <<project, faults>>
       \/ /\ f \in DOMAIN backups[cmd.num].data
          /\ Fault
          /\ project' \in {project, [project EXCEPT ![f] = Torn]}
    /\ FailedOn(f)
    /\ UNCHANGED <<ignored, backups, dir, index, undo, history, edits>>

StartRemoving ==
    /\ Busy("writing") /\ cmd.todo = {}
    /\ cmd' = [cmd EXCEPT !.at = "removing", !.todo = cmd.plan.deleted]
    /\ UNCHANGED <<project, ignored, backups, dir, index, undo, history, edits, faults>>

Remove(f) ==
    /\ Busy("removing") /\ f \in cmd.todo
    /\ \/ /\ project' = [project EXCEPT ![f] = Absent]
          /\ Ticked(f) /\ UNCHANGED faults
       \/ /\ Present(f) /\ Fault
          /\ FailedOn(f) /\ UNCHANGED project
    /\ UNCHANGED <<ignored, backups, dir, index, undo, history, edits>>

EndRestore ==
    /\ Busy("removing") /\ cmd.todo = {}
    /\ cmd' = Idle
    /\ UNCHANGED <<project, ignored, backups, dir, index, undo, history, edits, faults>>

-------------------------------------------------------------------------------
(* undo_last_restore                                                       *)

StateRead == undo.state \notin {None, Torn}
Lists(s)  == s.overwritten \cup s.created \cup s.deleted
StartUndo ==
    /\ Busy("idle") /\ StateRead
    /\ cmd' = [at |-> "undoing", todo |-> Lists(undo.state), failed |-> FALSE]
    /\ UNCHANGED <<project, ignored, backups, dir, index, undo, history, edits, faults>>

(* The overwritten files come back first, then the created ones go, then     *)
(* the deleted ones come back.                                             *)
InTurn == LET Left(s) == cmd.todo \cap s
          IN  IF Left(undo.state.overwritten) # {} THEN Left(undo.state.overwritten)
              ELSE IF Left(undo.state.created) # {} THEN Left(undo.state.created)
              ELSE Left(undo.state.deleted)
Copy(f) == IF f \in undo.state.overwritten THEN undo.files ELSE undo.deleted

BringBack(f) ==
    /\ Busy("undoing") /\ f \in InTurn \ undo.state.created
    /\ f \in DOMAIN Copy(f)
    /\ project' = [project EXCEPT ![f] = Copy(f)[f]]
    /\ Ticked(f)
    /\ UNCHANGED <<ignored, backups, dir, index, undo, history, edits, faults>>

BringBackFails(f) ==
    /\ Busy("undoing") /\ f \in InTurn \ undo.state.created
    /\ \/ f \notin DOMAIN Copy(f) /\ UNCHANGED <<project, faults>>
       \/ /\ f \in DOMAIN Copy(f) /\ Copy(f)[f] # project[f]
          /\ Fault
          /\ project' \in {project, [project EXCEPT ![f] = Torn]}
    /\ FailedOn(f)
    /\ UNCHANGED <<ignored, backups, dir, index, undo, history, edits>>

TakeAway(f) ==
    /\ Busy("undoing") /\ f \in InTurn \cap undo.state.created
    /\ \/ /\ project' = [project EXCEPT ![f] = Absent]
          /\ Ticked(f) /\ UNCHANGED faults
       \/ /\ Present(f) /\ Fault
          /\ FailedOn(f) /\ UNCHANGED project
    /\ UNCHANGED <<ignored, backups, dir, index, undo, history, edits>>

(* Mutant: the undo directory goes whatever happened.                        *)
EndUndoAlways ==
    /\ Busy("undoing") /\ cmd.todo = {}
    /\ cmd' = Idle
    /\ undo' = NoUndo /\ owed' = None
    /\ UNCHANGED <<project, ignored, backups, dir, index, doomed, edits, faults>>

(* The undo directory goes only when nothing failed.                        *)
EndUndo ==
    /\ Busy("undoing") /\ cmd.todo = {}
    /\ cmd' = Idle
    /\ IF cmd.failed THEN UNCHANGED <<undo, owed>> ELSE undo' = NoUndo /\ owed' = None
    /\ UNCHANGED <<project, ignored, backups, dir, index, doomed, edits, faults>>

-------------------------------------------------------------------------------
(* The process is killed.  A directory that was being removed keeps some of  *)
(* what it held, files that were being written are cut short.               *)

PartOf(fn) == {Restrict(fn, kept) : kept \in SUBSET DOMAIN fn}
UndoLeft   == [files : PartOf(undo.files), deleted : PartOf(undo.deleted),
               state : {undo.state, None}]
(* remove_dir_all goes from directory to directory: some are gone, one is    *)
(* half gone, the others whole.                                            *)
SomeBackupsLeft ==
    \E kept \in SUBSET DOMAIN backups :
        \/ backups' = Restrict(backups, kept)
        \/ \E n \in kept :
              \E m \in {backups[n].manifest, None}, part \in PartOf(backups[n].data) :
                  backups' = With(Restrict(backups, kept), n, [manifest |-> m, data |-> part])
(* Copies run in parallel: any of those left may be half done.              *)
ProjectTorn(open) == {[f \in Files |-> IF f \in half THEN Torn ELSE project[f]] :
                      half \in SUBSET open}
Unfinished == {f \in InTurn \ undo.state.created :
               f \in DOMAIN Copy(f) /\ Copy(f)[f] # project[f]}

KilledClearing ==
    /\ Busy("clearing") /\ SomeBackupsLeft
    /\ UNCHANGED <<project, undo, owed>>
KilledDroppingUndo ==
    /\ \/ Busy("asking")
       \/ Busy("recreating")
       \/ Busy("undoing") /\ cmd.todo = {} /\ ~cmd.failed
    /\ undo' \in UndoLeft /\ owed' = None
    /\ UNCHANGED <<project, backups>>
KilledWritingState ==
    /\ Busy("saving") /\ cmd.todo = {}
    /\ undo' = [undo EXCEPT !.state = Torn]
    /\ UNCHANGED <<project, backups, owed>>
KilledCopying ==
    /\ \/ Busy("writing") /\ project' \in ProjectTorn(cmd.todo \cap DOMAIN backups[cmd.num].data)
       \/ Busy("undoing") /\ project' \in ProjectTorn(Unfinished)
    /\ UNCHANGED <<backups, undo, owed>>
KilledElsewhere ==
    /\ cmd.at \in {"copying", "listing", "indexing", "scrubbing", "recreating",
                   "asking", "saving", "removing"}
    /\ UNCHANGED <<project, backups, undo, owed>>
Killed ==
    /\ Fault
    /\ KilledClearing \/ KilledDroppingUndo \/ KilledWritingState \/ KilledCopying \/ KilledElsewhere
    /\ cmd' = Idle
    /\ UNCHANGED <<ignored, dir, index, doomed, edits>>

Next ==
    \/ \E f \in Files : \/ Edit(f)
                        \/ CopyIn(f) \/ CopyInFails(f)
                        \/ Save(f) \/ SaveFails(f)
                        \/ Write(f) \/ WriteFails(f) \/ Remove(f)
                        \/ BringBack(f) \/ BringBackFails(f) \/ TakeAway(f)
    \/ \E n \in DOMAIN backups : Restore(n) \/ RestoreDeleted(n)
    \/ Configure
    \/ Create \/ Publish \/ List \/ EndIndex
    \/ \E recreate \in BOOLEAN : Clear(recreate)
    \/ RemoveBackups \/ Scrub \/ RecreateNothingToClear \/ Recreate \/ ClearUndo
    \/ Decline \/ Accept \/ WriteState \/ StartRemoving \/ EndRestore
    \/ StartUndo \/ EndUndo
    \/ Killed

Spec == Init /\ [][Next]_vars

-------------------------------------------------------------------------------
(* Properties                                                              *)

Plans    == [writes : SUBSET Files, overwritten : SUBSET Files,
             created : SUBSET Files, deleted : SUBSET Files]
Commands ==
    [at : {"idle", "recreating"}]
    \cup [at : {"copying"}, num : 1..MaxNumber, todo : SUBSET Files,
          manifest : Copies, data : Copies]
    \cup [at : {"listing"}, num : 1..MaxNumber]
    \cup [at : {"indexing"}, entries : SUBSET (1..MaxNumber), recreate : BOOLEAN]
    \cup [at : {"clearing", "scrubbing"}, recreate : BOOLEAN]
    \cup [at : {"asking"}, num : 1..MaxNumber, only : {"all", "deleted"}, plan : Plans,
          seen : [Files -> Content \cup {Absent}]]
    \cup [at : {"saving", "writing", "removing"}, num : 1..MaxNumber,
          only : {"all", "deleted"}, plan : Plans, failed : BOOLEAN, todo : SUBSET Files]
    \cup [at : {"undoing"}, todo : SUBSET Files, failed : BOOLEAN]

(* Every variable has its type: backup.rs's files, manifests and state.     *)
TypeOK ==
    /\ project \in [Files -> Content \cup {Absent}]
    /\ ignored \subseteq Files
    /\ DOMAIN backups \subseteq 1..MaxNumber
    /\ \A n \in DOMAIN backups : backups[n] \in Snapshots
    /\ dir \in BOOLEAN
    /\ index = Torn \/ index \subseteq 1..MaxNumber
    /\ undo \in [files : Copies, deleted : Copies, state : States \cup {None, Torn}]
    /\ cmd \in Commands
    /\ owed \in Debts \cup {None} /\ doomed \subseteq 1..MaxNumber
    /\ edits \in 0..MaxEdits /\ faults \in 0..MaxFaults

(* What the manifest of a backup says is what the backup holds, whatever was *)
(* edited, failed or killed while it was made: create_backup's temporary     *)
(* directory and rename.  Backups whose clearing was begun are exempt, and   *)
(* of the files those the backup's own manifest and report overwrite.       *)
BackupsTrue ==
    \A n \in DOMAIN backups \ doomed :
        /\ backups[n].manifest # None
        /\ \A f \in InBackup(n) \ Reports : /\ f \in DOMAIN backups[n].data
                                 /\ backups[n].data[f] = backups[n].manifest[f]

(* A listed backup is there, unless its clearing was begun: the index is     *)
(* written after the rename in create_backup.                              *)
ListedExist == index # Torn => index \ doomed \subseteq DOMAIN backups

(* The files an undo answers for: not those the user changed since the       *)
(* restore looked, nor those whose saving failed with a warning, nor, when   *)
(* only deleted files were restored, those the configuration ignores, nor    *)
(* those whose copy in the backup is the backup's own report.               *)
Answered == Files \ (Reports \cup owed.touched \cup owed.warned \cup owed.unseen)
InUndo(f) ==
    /\ StateRead
    /\ \/ /\ f \in undo.state.overwritten \cap DOMAIN undo.files
          /\ undo.files[f] = owed.before[f]
       \/ /\ f \in undo.state.deleted \cap DOMAIN undo.deleted
          /\ undo.deleted[f] = owed.before[f]
       \/ f \in undo.state.created /\ owed.before[f] = Absent
InItsBackup(f) == /\ owed.num # None
                  /\ f \in DOMAIN backups[owed.num].data
                  /\ backups[owed.num].data[f] = owed.before[f]

(* From the user's yes to the end of the undo, through kills, failures and   *)
(* half-done undos, what a file was before the restore is in the project, in *)
(* the undo directory, or, for a file equal to its backup, in the backup.   *)
Recoverable ==
    owed # None => \A f \in Answered :
        \/ project[f] = owed.before[f]
        \/ InUndo(f)
        \/ f \notin owed.changing /\ (owed.num = None \/ InItsBackup(f))

(* A restore that reports no failure has made the project the backup: its    *)
(* files as recorded, and no other file but ignored ones; but for files that *)
(* the backup's report has taken the place of.                             *)
Restored == Busy("removing") /\ cmd.todo = {} /\ ~cmd.failed /\ cmd.only = "all"
AsRecorded(f) == IF f \in InBackup(cmd.num) THEN project[f] = backups[cmd.num].manifest[f]
                 ELSE Present(f) => f \in ignored
RestoreExact == Restored => \A f \in Files \ (Reports \cup owed.touched) : AsRecorded(f)

(* "So the project matches the backup snapshot exactly" (backup.rs:485), said *)
(* of every file.  It does not hold of a root ignore.txt or .manifest.json.  *)
MatchesSnapshot == Restored => \A f \in Files \ owed.touched : AsRecorded(f)

(* An undo that ends by dropping the undo directory has brought back every   *)
(* file the restore set out to change.                                     *)
UndoEnds == Busy("undoing") /\ owed # None /\ owed' = None
UndoBringsBack ==
    [][UndoEnds => \A f \in Answered \cap owed.changing : project'[f] = owed.before[f]]_vars

(* The stronger reading of "fully reversible" (backup.rs:487): such an undo   *)
(* has brought back every file it answers for.  It does not hold: a file     *)
(* equal to its backup is copied without a saved original, and a kill in     *)
(* that copy leaves it torn (README, known divergences).                    *)
UndoExact ==
    [][UndoEnds => \A f \in Answered : project'[f] = owed.before[f]]_vars

================================================================================
