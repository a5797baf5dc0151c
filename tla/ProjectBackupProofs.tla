-------------------------- MODULE ProjectBackupProofs --------------------------
(***************************************************************************)
(* Theorems about `backup` (ProjectBackup), for all sets of files and      *)
(* contents and every number of backups, edits and faults: type            *)
(* correctness, backups and listings that are what they say, restores that *)
(* are exact, and undos that lose nothing.                                 *)
(***************************************************************************)
EXTENDS ProjectBackup, FiniteSetTheorems, WellFoundedInduction, TLAPS

(* While a restore is asked about and done, its backup is there and the undo  *)
(* owes something.                                                         *)
Restoring == {"saving", "writing", "removing"}
PhaseOK ==
    /\ cmd.at \in {"asking", "saving", "writing", "removing"} => Restorable(cmd.num)
    /\ cmd.at \in {"saving", "writing", "removing"} => owed # None

TypeInv == TypeOK /\ PhaseOK

(* A manifest and the files it is about, but for those it is written over.    *)
Agree(manifest, data) ==
    \A f \in (DOMAIN manifest \cap DOMAIN data) \ Reports : data[f] = manifest[f]

(* The store of backups: what is listed or about to be listed is there, a    *)
(* manifest never contradicts its files, also half removed, and a backup     *)
(* in the making has the files recorded so far, none of which is copied      *)
(* again.                                                                  *)
StoreInv ==
    /\ ListedExist
    /\ Busy("listing")  => cmd.num \in DOMAIN backups
    /\ Busy("indexing") => cmd.entries \ doomed \subseteq DOMAIN backups
    /\ Busy("clearing") => DOMAIN backups \subseteq doomed
    /\ \A n \in DOMAIN backups :
           backups[n].manifest # None => Agree(backups[n].manifest, backups[n].data)
    /\ \A n \in DOMAIN backups \ doomed :
           backups[n].manifest # None /\ InBackup(n) \subseteq DOMAIN backups[n].data
    /\ Busy("copying") => /\ DOMAIN cmd.manifest \subseteq DOMAIN cmd.data
                          /\ Agree(cmd.manifest, cmd.data)
                          /\ cmd.todo \cap DOMAIN cmd.manifest = {}

(* What a restore planned, of files that were `before` when it looked: its   *)
(* lists are disjoint, a file it writes over without saving it equals its    *)
(* backup, a file it creates was not there, and a full restore leaves out    *)
(* no file but the absent and the ignored.                                  *)
Disjoint(s) == s.overwritten \cap (s.created \cup s.deleted) = {} /\ s.created \cap s.deleted = {}
PlanOK(before) ==
    /\ Disjoint(cmd.plan)
    /\ cmd.plan.writes \subseteq InBackup(cmd.num)
    /\ cmd.plan.writes \cap cmd.plan.deleted = {}
    /\ \A f \in cmd.plan.writes \ (cmd.plan.overwritten \cup cmd.plan.created) :
           before[f] = backups[cmd.num].manifest[f]
    /\ \A f \in cmd.plan.created :
           before[f] = Absent \/ (cmd.only = "deleted" /\ f \in ignored)
    /\ cmd.only = "all" =>
           /\ cmd.plan.writes = InBackup(cmd.num)
           /\ \A f \in Files \ (cmd.plan.writes \cup cmd.plan.deleted) :
                  before[f] # Absent => f \in ignored

(* A restore under way keeps the debt it took on, and plans by it.           *)
Planned ==
    /\ Busy("asking") => PlanOK(cmd.seen)
    /\ cmd.at \in Restoring =>
           /\ PlanOK(owed.before)
           /\ owed.num = cmd.num
           /\ owed.changing = Lists(cmd.plan)
           /\ cmd.only = "deleted" => owed.unseen = ignored

(* How far the restore is: the untouched files it did not reach are as        *)
(* before, those it reached without a failure are as planned.               *)
Reached ==
    /\ Busy("saving") =>
           /\ cmd.todo \subseteq cmd.plan.overwritten \cup cmd.plan.deleted
           /\ \A f \in Files \ owed.touched : project[f] = owed.before[f]
    /\ Busy("writing") => cmd.todo \subseteq cmd.plan.writes
    /\ Busy("removing") => cmd.todo \subseteq cmd.plan.deleted
    /\ cmd.at \in {"writing", "removing"} => \A f \in Files \ owed.touched :
           /\ f \notin cmd.plan.writes \cup cmd.plan.deleted => project[f] = owed.before[f]
           /\ ~cmd.failed /\ f \in cmd.plan.writes \ Reports /\ (Busy("writing") => f \notin cmd.todo) =>
                  project[f] = backups[cmd.num].manifest[f]
           /\ Busy("removing") /\ ~cmd.failed /\ f \in cmd.plan.deleted \ cmd.todo =>
                  project[f] = Absent

(* What was saved so far is what was before.                                *)
SavedSoFar ==
    Busy("saving") => \A f \in Answered \ cmd.todo :
        /\ f \in cmd.plan.overwritten =>
               f \in DOMAIN undo.files /\ undo.files[f] = owed.before[f]
        /\ f \in cmd.plan.deleted =>
               f \in DOMAIN undo.deleted /\ undo.deleted[f] = owed.before[f]

(* The debt can be paid: until state.json can be read nothing was changed,   *)
(* from then on the undo directory holds every file to change, and the      *)
(* backup every other one.                                                 *)
Payable ==
    owed # None =>
        /\ owed.num # None => owed.num \in DOMAIN backups /\ ~Busy("clearing")
        /\ IF StateRead
           THEN /\ Lists(undo.state) = owed.changing /\ Disjoint(undo.state)
                /\ \A f \in Answered \cap owed.changing : InUndo(f)
           ELSE \A f \in Answered : project[f] = owed.before[f]
        /\ \A f \in Answered \ owed.changing :
               project[f] = owed.before[f] \/ owed.num = None \/ InItsBackup(f)

(* Where the steps of a restore, an undo and a backup stand.                 *)
Standing ==
    /\ Busy("saving") => undo.state = None
    /\ cmd.at \in {"writing", "removing", "undoing"} => StateRead
    /\ Busy("undoing") => cmd.todo \subseteq Lists(undo.state)
    /\ Busy("undoing") /\ owed # None /\ ~cmd.failed =>
           \A f \in (Answered \cap owed.changing) \ cmd.todo : project[f] = owed.before[f]
    /\ Busy("copying") => cmd.num \notin DOMAIN backups

RestoreInv == Planned /\ Reached
DebtInv    == SavedSoFar /\ Payable /\ Standing

-------------------------------------------------------------------------------
(* Helpers on functions                                                    *)

(* What the manifest and its report leave of the copied files.              *)
LEMMA LabelledCopies ==
    ASSUME NEW files \in Copies, NEW data \in Labelled(files)
    PROVE  /\ data \in Copies /\ DOMAIN files \subseteq DOMAIN data
           /\ \A f \in DOMAIN files \ Reports : data[f] = files[f]
<1>1. PICK text \in [Reports -> Contents] :
          data = [f \in DOMAIN files \cup Reports |-> IF f \in Reports THEN text[f] ELSE files[f]]
  BY DEF Labelled
<1>2. PICK D \in SUBSET Files : files \in [D -> Content] BY DEF Copies
<1>3. D \cup Reports \in SUBSET Files /\ DOMAIN files = D BY <1>2, FilesAssumption
<1>4. data \in [D \cup Reports -> Content] BY <1>1, <1>2, <1>3 DEF Content
<1> QED BY <1>1, <1>3, <1>4 DEF Copies

LEMMA CopiesDef ==
    \A fn : fn \in Copies <=> DOMAIN fn \subseteq Files /\ fn \in [DOMAIN fn -> Content]
BY DEF Copies

LEMMA NoCopies == <<>> \in Copies /\ DOMAIN <<>> = {}
<1>1. DOMAIN <<>> = {} OBVIOUS
<1>2. <<>> = [x \in {} |-> x] OBVIOUS
<1> QED BY <1>1, <1>2, CopiesDef

LEMMA WithCopy ==
    ASSUME NEW fn \in Copies, NEW f \in Files, NEW v \in Content
    PROVE  With(fn, f, v) \in Copies
<1>1. DOMAIN fn \subseteq Files /\ fn \in [DOMAIN fn -> Content] BY CopiesDef
<1>2. With(fn, f, v) \in [DOMAIN fn \cup {f} -> Content] BY <1>1 DEF With
<1> QED BY <1>1, <1>2 DEF Copies

LEMMA PartCopy ==
    ASSUME NEW fn \in Copies, NEW part \in PartOf(fn)
    PROVE  /\ part \in Copies /\ DOMAIN part \subseteq DOMAIN fn
           /\ \A f \in DOMAIN part : part[f] = fn[f]
<1>1. DOMAIN fn \subseteq Files /\ fn \in [DOMAIN fn -> Content] BY CopiesDef
<1>2. PICK kept \in SUBSET DOMAIN fn : part = [x \in kept |-> fn[x]]
  BY DEF PartOf, Restrict
<1> QED BY <1>1, <1>2, CopiesDef

LEMMA WholePart == \A fn \in Copies : fn \in PartOf(fn)
<1> SUFFICES ASSUME NEW fn \in Copies PROVE fn \in PartOf(fn) OBVIOUS
<1>1. fn = Restrict(fn, DOMAIN fn) BY CopiesDef DEF Restrict
<1> QED BY <1>1 DEF PartOf

(* The next number is one above the highest there is.                       *)
LEMMA NextNumberNat ==
    ASSUME DOMAIN backups \subseteq 1..MaxNumber
    PROVE  NextNumber \in Nat \ {0} /\ NextNumber \notin DOMAIN backups
<1> DEFINE S == {0} \cup DOMAIN backups
           Above(n) == {m \in S : m > n}
           Less == StrictSubsetOrdering(0..MaxNumber)
           Tops == {Above(n) : n \in S}
<1>1. S \subseteq 0..MaxNumber /\ MaxNumber \in Nat BY BoundAssumption
<1>2. PICK low \in Tops : \A other \in Tops : <<other, low>> \notin Less
  <2>1. IsFiniteSet(0..MaxNumber) BY <1>1, FS_Interval
  <2>2. IsWellFoundedOn(Less, SUBSET (0..MaxNumber))
    BY <2>1, FS_StrictSubsetOrderingWellFounded, FS_FiniteSubsetsOfFinite
  <2>3. Tops \subseteq SUBSET (0..MaxNumber) /\ Tops # {} BY <1>1
  <2> HIDE DEF Tops, Less
  <2> QED BY <2>2, <2>3, WFMin
<1>3. PICK top \in S : \A n \in S : top >= n
  <2>1. PICK top \in S : low = Above(top) OBVIOUS
  <2>2. \A n \in S : n > top => Above(n) \subseteq Above(top) /\ Above(n) # Above(top)
    BY <1>1
  <2>3. ASSUME NEW n \in S, n > top PROVE FALSE
    <3>1. Above(n) \in SUBSET (0..MaxNumber) /\ Above(top) \in SUBSET (0..MaxNumber)
      BY <1>1
    <3>2. Above(n) \in Tops OBVIOUS
    <3> HIDE DEF Above, Tops
    <3>3. <<Above(n), Above(top)>> \in Less BY <2>2, <2>3, <3>1 DEF StrictSubsetOrdering
    <3> QED BY <1>2, <2>1, <3>2, <3>3
  <2> QED BY <1>1, <2>3
<1>4. Max(S) \in S /\ \A n \in S : Max(S) >= n
  <2> HIDE DEF S
  <2> QED BY <1>3 DEF Max
<1> QED BY <1>1, <1>4 DEF NextNumber

(* The fields of the command, phase by phase.                                *)
LEMMA Phases ==
    ASSUME cmd \in Commands
    PROVE  /\ Busy("copying") =>
                 cmd \in [at : {"copying"}, num : 1..MaxNumber, todo : SUBSET Files,
                         manifest : Copies, data : Copies]
           /\ Busy("listing") => cmd \in [at : {"listing"}, num : 1..MaxNumber]
           /\ Busy("indexing") =>
                 cmd \in [at : {"indexing"}, entries : SUBSET (1..MaxNumber), recreate : BOOLEAN]
           /\ Busy("clearing") => cmd \in [at : {"clearing"}, recreate : BOOLEAN]
           /\ Busy("scrubbing") => cmd \in [at : {"scrubbing"}, recreate : BOOLEAN]
           /\ Busy("asking") =>
                 cmd \in [at : {"asking"}, num : 1..MaxNumber, only : {"all", "deleted"},
                         plan : Plans, seen : [Files -> Content \cup {Absent}]]
           /\ \A s \in {"saving", "writing", "removing"} : Busy(s) =>
                 cmd \in [at : {s}, num : 1..MaxNumber, only : {"all", "deleted"},
                         plan : Plans, failed : BOOLEAN, todo : SUBSET Files]
           /\ Busy("undoing") =>
                 cmd \in [at : {"undoing"}, todo : SUBSET Files, failed : BOOLEAN]
BY DEF Commands, Busy

(* The commands the actions put in place.                                   *)
LEMMA CommandKinds ==
    /\ [at : {"idle", "recreating"}] \subseteq Commands
    /\ [at : {"copying"}, num : 1..MaxNumber, todo : SUBSET Files,
        manifest : Copies, data : Copies] \subseteq Commands
    /\ [at : {"listing"}, num : 1..MaxNumber] \subseteq Commands
    /\ [at : {"indexing"}, entries : SUBSET (1..MaxNumber), recreate : BOOLEAN]
           \subseteq Commands
    /\ [at : {"clearing", "scrubbing"}, recreate : BOOLEAN] \subseteq Commands
    /\ [at : {"asking"}, num : 1..MaxNumber, only : {"all", "deleted"}, plan : Plans,
        seen : [Files -> Content \cup {Absent}]] \subseteq Commands
    /\ [at : {"saving", "writing", "removing"}, num : 1..MaxNumber,
        only : {"all", "deleted"}, plan : Plans, failed : BOOLEAN, todo : SUBSET Files]
           \subseteq Commands
    /\ [at : {"undoing"}, todo : SUBSET Files, failed : BOOLEAN] \subseteq Commands
BY DEF Commands

LEMMA IdleCommand == Idle \in Commands /\ Idle.at = "idle"
BY CommandKinds DEF Idle

(* A step over one file leaves the command what it is.                      *)
LEMMA TickedCommand ==
    ASSUME cmd \in Commands, NEW f, Ticked(f) \/ FailedOn(f),
           cmd.at \in Restoring \cup {"undoing"}
    PROVE  /\ cmd' \in Commands /\ cmd'.at = cmd.at
           /\ cmd'.todo = cmd.todo \ {f}
           /\ cmd.failed => cmd'.failed
           /\ Ticked(f) => cmd'.failed = cmd.failed
           /\ FailedOn(f) => cmd'.failed
           /\ cmd.at \in Restoring =>
                 cmd'.num = cmd.num /\ cmd'.plan = cmd.plan /\ cmd'.only = cmd.only
<1>1. CASE cmd.at \in Restoring
  <2>1. cmd \in [at : {"saving", "writing", "removing"}, num : 1..MaxNumber,
                only : {"all", "deleted"}, plan : Plans, failed : BOOLEAN, todo : SUBSET Files]
    BY <1>1, Phases DEF Restoring, Busy
  <2>2. cmd' \in [at : {"saving", "writing", "removing"}, num : 1..MaxNumber,
                only : {"all", "deleted"}, plan : Plans, failed : BOOLEAN, todo : SUBSET Files]
    BY <2>1 DEF Ticked, FailedOn
  <2> QED BY <2>1, <2>2, CommandKinds DEF Ticked, FailedOn
<1>2. CASE cmd.at = "undoing"
  <2>1. cmd \in [at : {"undoing"}, todo : SUBSET Files, failed : BOOLEAN]
    BY <1>2, Phases DEF Busy
  <2>2. cmd' \in [at : {"undoing"}, todo : SUBSET Files, failed : BOOLEAN]
    BY <2>1 DEF Ticked, FailedOn
  <2> QED BY <1>2, <2>1, <2>2, CommandKinds DEF Ticked, FailedOn, Restoring
<1> QED BY <1>1, <1>2

LEMMA CopyTicked ==
    ASSUME cmd \in Commands, Busy("copying"), NEW f, Ticked(f)
    PROVE  /\ cmd' \in Commands /\ cmd'.at = "copying" /\ cmd'.num = cmd.num
           /\ cmd'.todo = cmd.todo \ {f}
           /\ cmd'.manifest = cmd.manifest /\ cmd'.data = cmd.data
<1>1. cmd \in [at : {"copying"}, num : 1..MaxNumber, todo : SUBSET Files,
              manifest : Copies, data : Copies]
  BY Phases
<1>2. cmd' \in [at : {"copying"}, num : 1..MaxNumber, todo : SUBSET Files,
               manifest : Copies, data : Copies]
  BY <1>1 DEF Ticked
<1> QED BY <1>1, <1>2, CommandKinds DEF Ticked

LEMMA StartCopyingCommand ==
    ASSUME DOMAIN backups \subseteq 1..MaxNumber, StartCopying
    PROVE  /\ cmd' \in Commands /\ cmd'.at = "copying" /\ cmd'.num = NextNumber
           /\ cmd'.todo = Walked \ Large
           /\ cmd'.manifest = <<>> /\ cmd'.data = <<>>
<1>1. NextNumber \in 1..MaxNumber
  BY NextNumberNat, BoundAssumption DEF StartCopying
<1>2. Walked \ Large \subseteq Files BY DEF Walked
<1>3. cmd' \in [at : {"copying"}, num : 1..MaxNumber, todo : SUBSET Files,
               manifest : Copies, data : Copies]
  BY <1>1, <1>2, NoCopies DEF StartCopying
<1> QED BY <1>3, CommandKinds DEF StartCopying

LEMMA EmptyUndo ==
    NoUndo \in [files : Copies, deleted : Copies, state : States \cup {None, Torn}]
BY NoCopies DEF NoUndo

LEMMA PartUndo ==
    ASSUME TypeOK, undo' \in UndoLeft
    PROVE  /\ undo' \in [files : Copies, deleted : Copies, state : States \cup {None, Torn}]
           /\ undo'.state \in {undo.state, None}
           /\ undo'.files \in PartOf(undo.files) /\ undo'.deleted \in PartOf(undo.deleted)
<1>1. /\ undo' \in [files : PartOf(undo.files), deleted : PartOf(undo.deleted),
                   state : {undo.state, None}]
      /\ undo.files \in Copies /\ undo.deleted \in Copies
      /\ undo.state \in States \cup {None, Torn}
  BY DEF UndoLeft, TypeOK
<1> QED BY <1>1, PartCopy

LEMMA PartBackups ==
    ASSUME TypeOK, SomeBackupsLeft
    PROVE  /\ DOMAIN backups' \subseteq DOMAIN backups
           /\ \A n \in DOMAIN backups' :
                 /\ backups'[n] \in Snapshots
                 /\ backups'[n].manifest \in {backups[n].manifest, None}
                 /\ backups'[n].data \in PartOf(backups[n].data)
<1>1. PICK kept \in SUBSET DOMAIN backups :
         \/ backups' = Restrict(backups, kept)
         \/ \E n \in kept :
               \E m \in {backups[n].manifest, None}, part \in PartOf(backups[n].data) :
                   backups' = With(Restrict(backups, kept), n, [manifest |-> m, data |-> part])
  BY DEF SomeBackupsLeft
<1>2. \A n \in DOMAIN backups : backups[n] \in Snapshots BY DEF TypeOK
<1>3. \A n \in DOMAIN backups : backups[n].data \in PartOf(backups[n].data)
  BY <1>2, WholePart DEF Snapshots
<1>4. CASE backups' = Restrict(backups, kept)
  <2>1. DOMAIN backups' = kept /\ \A n \in kept : backups'[n] = backups[n]
    BY <1>4 DEF Restrict
  <2> QED BY <1>2, <1>3, <2>1
<1>5. ASSUME NEW n \in kept, NEW m \in {backups[n].manifest, None},
             NEW part \in PartOf(backups[n].data),
             backups' = With(Restrict(backups, kept), n, [manifest |-> m, data |-> part])
      PROVE  /\ DOMAIN backups' = kept
             /\ \A k \in kept : /\ backups'[k] \in Snapshots
                               /\ backups'[k].manifest \in {backups[k].manifest, None}
                               /\ backups'[k].data \in PartOf(backups[k].data)
  <2>1. backups[n] \in Snapshots BY <1>2
  <2>2. [manifest |-> m, data |-> part] \in Snapshots
    BY <2>1, PartCopy DEF Snapshots
  <2>3. DOMAIN Restrict(backups, kept) = kept
        /\ \A k \in kept : Restrict(backups, kept)[k] = backups[k]
    BY DEF Restrict
  <2>4. /\ DOMAIN backups' = kept /\ backups'[n] = [manifest |-> m, data |-> part]
        /\ \A k \in kept \ {n} : backups'[k] = backups[k]
    BY <1>5, <2>3 DEF With
  <2> QED BY <1>2, <1>3, <2>2, <2>4
<1> QED BY <1>1, <1>4, <1>5

LEMMA PlanTypes ==
    ASSUME TypeOK, NEW n, Restorable(n)
    PROVE  /\ n \in 1..MaxNumber
           /\ backups[n].manifest \in Copies /\ backups[n].data \in Copies
           /\ InBackup(n) \subseteq Files
           /\ Plan(n) \in Plans /\ PlanDeleted(n) \in Plans
<1>1. n \in DOMAIN backups /\ backups[n] \in Snapshots /\ backups[n].manifest # None
  BY DEF Restorable, TypeOK
<1>2. backups[n].manifest \in Copies /\ backups[n].data \in Copies BY <1>1 DEF Snapshots
<1>3. InBackup(n) \subseteq Files BY <1>2, CopiesDef DEF InBackup
<1>4. Plan(n) \in Plans /\ PlanDeleted(n) \in Plans
  BY <1>3 DEF Plan, PlanDeleted, Plans, Walked
<1> QED BY <1>1, <1>2, <1>3, <1>4 DEF TypeOK

LEMMA SavedType ==
    ASSUME TypeOK, NEW f \in Files, NEW v \in Content
    PROVE  Saved(f, v) \in [files : Copies, deleted : Copies, state : States \cup {None, Torn}]
<1>1. undo \in [files : Copies, deleted : Copies, state : States \cup {None, Torn}]
  BY DEF TypeOK
<1>2. With(undo.files, f, v) \in Copies /\ With(undo.deleted, f, v) \in Copies
  BY <1>1, WithCopy
<1> HIDE DEF States
<1> QED BY <1>1, <1>2 DEF Saved

-------------------------------------------------------------------------------
(* Type correctness                                                        *)

Faulted == faults' \in 0..MaxFaults
LEMMA FaultType == TypeOK /\ (Fault \/ UNCHANGED faults) => Faulted
BY BoundAssumption DEF TypeOK, Fault, Faulted

(* The steps of the user, who may touch what an undo owes.                    *)
LEMMA TouchedDebt ==
    ASSUME NEW debt \in Debts, NEW f \in Files
    PROVE  [debt EXCEPT !.touched = @ \cup {f}] \in Debts
BY DEF Debts

LEMMA EditType ==
    ASSUME TypeInv, NEW f \in Files, Edit(f) PROVE TypeInv'
<1> USE DEF TypeInv, TypeOK
<1>1. project' \in [Files -> Content \cup {Absent}]
  BY DEF Edit, Content
<1>2. owed' \in Debts \cup {None} /\ (owed # None => owed' # None)
  <2>1. CASE owed = None BY <2>1 DEF Edit
  <2>2. CASE owed # None
    <3>1. owed \in Debts /\ owed' = [owed EXCEPT !.touched = @ \cup {f}]
      BY <2>2 DEF Edit
    <3>2. owed' \in Debts
      <4> HIDE DEF TypeInv, TypeOK
      <4> QED BY <3>1, TouchedDebt
    <3> QED BY <3>2, NoneAssumption
  <2> QED BY <2>1, <2>2
<1>3. edits' \in 0..MaxEdits BY BoundAssumption DEF Edit
<1>4. UNCHANGED <<ignored, backups, dir, index, undo, cmd, doomed, faults>> BY DEF Edit
<1> QED BY <1>1, <1>2, <1>3, <1>4 DEF PhaseOK, Restorable

LEMMA ConfigureType == TypeInv /\ Configure => TypeInv'
BY BoundAssumption DEF TypeInv, TypeOK, PhaseOK, Restorable, Configure, history

(* Backups, the index, and clearing either store.                           *)
LEMMA BackupType ==
    ASSUME TypeInv,
           \/ \E f \in Files : CopyIn(f) \/ CopyInFails(f)
           \/ Create \/ Publish \/ List \/ EndIndex
           \/ RemoveBackups \/ Scrub \/ RecreateNothingToClear \/ Recreate \/ ClearUndo
           \/ \E recreate \in BOOLEAN : Clear(recreate)
    PROVE  TypeInv'
<1> USE DEF TypeInv, TypeOK, history
<1>idle. cmd'.at \notin {"asking", "saving", "writing", "removing"} => PhaseOK'
  BY DEF PhaseOK
<1>fault. Faulted => faults' \in 0..MaxFaults BY DEF Faulted
<1>1. ASSUME NEW f \in Files, CopyIn(f) PROVE TypeInv'
  <2>1. cmd \in [at : {"copying"}, num : 1..MaxNumber, todo : SUBSET Files,
                manifest : Copies, data : Copies]
    BY <1>1, Phases DEF CopyIn
  <2>2. project[f] \in Content BY <1>1 DEF CopyIn, Present
  <2>3. cmd' \in [at : {"copying"}, num : 1..MaxNumber, todo : SUBSET Files,
                 manifest : Copies, data : Copies]
    BY <1>1, <2>1, <2>2, WithCopy DEF CopyIn
  <2>4. cmd' \in Commands BY <2>3, CommandKinds
  <2> QED BY <1>1, <1>idle, <2>3, <2>4 DEF CopyIn
<1>2. ASSUME NEW f \in Files, CopyInFails(f) PROVE TypeInv'
  <2>1. cmd' \in Commands /\ cmd'.at = "copying"
    <3>1. CASE Ticked(f) BY <1>2, <3>1, CopyTicked DEF CopyInFails
    <3>2. CASE cmd' = [cmd EXCEPT !.todo = @ \ {f}, !.data = With(@, f, Torn)]
      <4>1. cmd \in [at : {"copying"}, num : 1..MaxNumber, todo : SUBSET Files,
                    manifest : Copies, data : Copies]
        BY <1>2, Phases DEF CopyInFails
      <4>2. With(cmd.data, f, Torn) \in Copies BY <4>1, WithCopy DEF Content
      <4>3. cmd' \in [at : {"copying"}, num : 1..MaxNumber, todo : SUBSET Files,
                     manifest : Copies, data : Copies]
        BY <3>2, <4>1, <4>2
      <4> QED BY <4>3, CommandKinds
    <3> QED BY <1>2, <3>1, <3>2 DEF CopyInFails
  <2>2. Faulted BY <1>2, FaultType DEF CopyInFails
  <2> QED BY <1>2, <1>idle, <1>fault, <2>1, <2>2 DEF CopyInFails
<1>3. CASE Create
  BY <1>3, <1>idle, StartCopyingCommand DEF Create, StartCopying
<1>4. CASE Publish
  <2>1. cmd \in [at : {"copying"}, num : 1..MaxNumber, todo : SUBSET Files,
                manifest : Copies, data : Copies]
    BY <1>4, Phases DEF Publish
  <2>2. cmd' \in [at : {"listing"}, num : 1..MaxNumber] BY <1>4, <2>1 DEF Publish
  <2>3. cmd' \in Commands BY <2>2, CommandKinds
  <2>4. \A data \in Labelled(cmd.data) : [manifest |-> cmd.manifest, data |-> data] \in Snapshots
    BY <2>1, LabelledCopies DEF Snapshots
  <2>5. DOMAIN backups' \subseteq 1..MaxNumber /\ \A n \in DOMAIN backups' : backups'[n] \in Snapshots
    BY <1>4, <2>1, <2>4 DEF Publish, PutInPlace, With
  <2> QED BY <1>4, <1>idle, <2>2, <2>3, <2>5 DEF Publish
<1>5. CASE List
  <2>1. cmd \in [at : {"listing"}, num : 1..MaxNumber] BY <1>5, Phases DEF List
  <2>2. Listed \cup {cmd.num} \subseteq 1..MaxNumber BY <2>1 DEF Listed
  <2>3. cmd' \in [at : {"indexing"}, entries : SUBSET (1..MaxNumber), recreate : BOOLEAN]
    BY <1>5, <2>2 DEF List, BeginIndex
  <2>4. cmd' \in Commands BY <2>3, CommandKinds
  <2> QED BY <1>5, <1>idle, <2>3, <2>4 DEF List, BeginIndex
<1>6. CASE EndIndex
  <2>1. cmd \in [at : {"indexing"}, entries : SUBSET (1..MaxNumber), recreate : BOOLEAN]
    BY <1>6, Phases DEF EndIndex
  <2>2. cmd' \in [at : {"idle", "recreating"}] BY <1>6 DEF EndIndex, Idle
  <2>3. cmd' \in Commands BY <2>2, CommandKinds
  <2> QED BY <1>6, <1>idle, <2>1, <2>2, <2>3 DEF EndIndex
<1>7. CASE RemoveBackups
  <2>1. cmd \in [at : {"clearing"}, recreate : BOOLEAN] BY <1>7, Phases DEF RemoveBackups
  <2>2. cmd' \in [at : {"clearing", "scrubbing"}, recreate : BOOLEAN] /\ cmd'.at = "scrubbing"
    BY <1>7, <2>1 DEF RemoveBackups
  <2>3. cmd' \in Commands BY <2>2, CommandKinds
  <2>4. DOMAIN backups' = {} BY <1>7, NoCopies DEF RemoveBackups
  <2> QED BY <1>7, <1>idle, <2>2, <2>3, <2>4 DEF RemoveBackups
<1>8. CASE Scrub
  <2>1. cmd \in [at : {"scrubbing"}, recreate : BOOLEAN] BY <1>8, Phases DEF Scrub
  <2>2. cmd' \in [at : {"indexing"}, entries : SUBSET (1..MaxNumber), recreate : BOOLEAN]
    BY <1>8, <2>1 DEF Scrub, BeginIndex
  <2>3. cmd' \in Commands BY <2>2, CommandKinds
  <2> QED BY <1>8, <1>idle, <2>2, <2>3 DEF Scrub, BeginIndex
<1>9. CASE RecreateNothingToClear
  <2>1. cmd' \in Commands /\ cmd'.at = "recreating"
    BY <1>9, CommandKinds DEF RecreateNothingToClear
  <2> QED BY <1>9, <1>idle, <2>1 DEF RecreateNothingToClear
<1>10. CASE Recreate
  BY <1>10, <1>idle, StartCopyingCommand, EmptyUndo DEF Recreate, StartCopying
<1>11. CASE ClearUndo
  BY <1>11, <1>idle, EmptyUndo DEF ClearUndo, Busy
<1>12. ASSUME NEW recreate \in BOOLEAN, Clear(recreate) PROVE TypeInv'
  <2>1. cmd' \in [at : {"clearing", "scrubbing"}, recreate : BOOLEAN] /\ cmd'.at = "clearing"
    BY <1>12 DEF Clear
  <2>2. cmd' \in Commands BY <2>1, CommandKinds
  <2>3. owed' \in Debts \cup {None} BY <1>12 DEF Clear, Debts
  <2> QED BY <1>12, <1>idle, <2>1, <2>2, <2>3 DEF Clear
<1> QED BY <1>1, <1>2, <1>3, <1>4, <1>5, <1>6, <1>7, <1>8, <1>9, <1>10, <1>11, <1>12

(* Restores: the question, the saving, the writing, the removing.           *)
RestoringCommand ==
    [at : {"saving", "writing", "removing"}, num : 1..MaxNumber,
     only : {"all", "deleted"}, plan : Plans, failed : BOOLEAN, todo : SUBSET Files]

LEMMA RestoreType ==
    ASSUME TypeInv,
           \/ \E n \in DOMAIN backups : Restore(n) \/ RestoreDeleted(n)
           \/ Decline \/ Accept \/ WriteState \/ StartRemoving \/ EndRestore
           \/ \E f \in Files : \/ Save(f) \/ SaveFails(f)
                              \/ Write(f) \/ WriteFails(f) \/ Remove(f)
    PROVE  TypeInv'
<1> USE DEF TypeInv, TypeOK, history
<1>idle. cmd'.at = "idle" => PhaseOK' BY DEF PhaseOK
<1>fault. Faulted => faults' \in 0..MaxFaults BY DEF Faulted
<1>phase. ASSUME cmd.at \in Restoring, cmd'.at \in Restoring, cmd'.num = cmd.num,
                 UNCHANGED <<backups, owed>>
          PROVE  PhaseOK'
  BY <1>phase DEF PhaseOK, Restorable, Restoring
<1>restoring. cmd.at \in Restoring => cmd \in RestoringCommand
  BY Phases DEF Restoring, Busy, RestoringCommand
<1>1. ASSUME NEW n, Restorable(n), NEW only \in {"all", "deleted"}, NEW plan \in Plans,
             Ask(n, only, plan),
             UNCHANGED <<project, ignored, backups, dir, index, undo, history, edits, faults>>
      PROVE  TypeInv'
  <2>1. n \in 1..MaxNumber BY <1>1, PlanTypes
  <2>2. cmd' \in [at : {"asking"}, num : 1..MaxNumber, only : {"all", "deleted"}, plan : Plans,
                 seen : [Files -> Content \cup {Absent}]]
    BY <1>1, <2>1 DEF Ask
  <2>3. cmd' \in Commands BY <2>2, CommandKinds
  <2>4. PhaseOK' BY <1>1 DEF Ask, PhaseOK, Restorable
  <2> QED BY <1>1, <2>3, <2>4
<1>2. ASSUME NEW n \in DOMAIN backups, Restore(n) \/ RestoreDeleted(n) PROVE TypeInv'
  BY <1>1, <1>2, PlanTypes DEF Restore, RestoreDeleted
<1>3. CASE Decline BY <1>3, <1>idle, IdleCommand DEF Decline
<1>4. CASE Accept
  <2>1. cmd \in [at : {"asking"}, num : 1..MaxNumber, only : {"all", "deleted"}, plan : Plans,
                seen : [Files -> Content \cup {Absent}]]
    BY <1>4, Phases DEF Accept
  <2>2. cmd' \in RestoringCommand /\ cmd'.at = "saving" /\ cmd'.num = cmd.num
    BY <1>4, <2>1 DEF Accept, Plans, RestoringCommand
  <2>3. cmd' \in Commands BY <2>2, CommandKinds DEF RestoringCommand
  <2>4. owed' \in Debts BY <1>4, <2>1 DEF Accept, Plans, Debts
  <2>5. PhaseOK' BY <1>4, <2>2, <2>4, NoneAssumption DEF PhaseOK, Restorable, Accept, Busy
  <2> QED BY <1>4, <2>3, <2>4, <2>5, EmptyUndo DEF Accept
<1>5. CASE WriteState
  <2>1. cmd \in RestoringCommand BY <1>5, <1>restoring DEF WriteState, Busy, Restoring
  <2>2. cmd' \in RestoringCommand /\ cmd'.at = "writing" /\ cmd'.num = cmd.num
    BY <1>5, <2>1 DEF WriteState, Plans, RestoringCommand
  <2>3. cmd' \in Commands BY <2>2, CommandKinds DEF RestoringCommand
  <2>4. [overwritten |-> cmd.plan.overwritten, created |-> cmd.plan.created,
         deleted |-> cmd.plan.deleted] \in States
    BY <2>1 DEF RestoringCommand, Plans, States
  <2>5. undo' \in [files : Copies, deleted : Copies, state : States \cup {None, Torn}]
    <3> HIDE DEF States
    <3> QED BY <1>5, <2>4 DEF WriteState
  <2>6. PhaseOK' BY <1>5, <1>phase, <2>2 DEF WriteState, Busy, Restoring
  <2> QED BY <1>5, <2>3, <2>5, <2>6 DEF WriteState
<1>6. CASE StartRemoving
  <2>1. cmd \in RestoringCommand BY <1>6, <1>restoring DEF StartRemoving, Busy, Restoring
  <2>2. cmd' \in RestoringCommand /\ cmd'.at = "removing" /\ cmd'.num = cmd.num
    BY <1>6, <2>1 DEF StartRemoving, Plans, RestoringCommand
  <2>3. cmd' \in Commands BY <2>2, CommandKinds DEF RestoringCommand
  <2>4. PhaseOK' BY <1>6, <1>phase, <2>2 DEF StartRemoving, Busy, Restoring
  <2> QED BY <1>6, <2>3, <2>4 DEF StartRemoving
<1>7. CASE EndRestore BY <1>7, <1>idle, IdleCommand DEF EndRestore
<1>file. ASSUME NEW f \in Files, cmd.at \in Restoring, Ticked(f) \/ FailedOn(f)
         PROVE  cmd' \in Commands /\ (UNCHANGED <<backups, owed>> => PhaseOK')
  BY <1>file, <1>phase, TickedCommand DEF Restoring
<1>8. ASSUME NEW f \in Files, Save(f) PROVE TypeInv'
  <2>1. Saved(f, project[f]) \in [files : Copies, deleted : Copies, state : States \cup {None, Torn}]
    BY <1>8, SavedType DEF Save, Present
  <2> QED BY <1>8, <1>file, <2>1 DEF Save, Busy, Restoring
<1>9. ASSUME NEW f \in Files, SaveFails(f) PROVE TypeInv'
  <2>1. undo' \in [files : Copies, deleted : Copies, state : States \cup {None, Torn}]
    BY <1>9, SavedType DEF SaveFails, Content
  <2>2. owed \in Debts BY <1>9 DEF PhaseOK, SaveFails, Busy
  <2>3. owed' \in Debts BY <1>9, <2>2 DEF SaveFails, Debts
  <2>4. cmd' \in Commands /\ cmd'.num = cmd.num
    BY <1>9, TickedCommand DEF SaveFails, Busy, Restoring
  <2>5. PhaseOK'
    BY <1>9, <2>3, <2>4, NoneAssumption DEF PhaseOK, SaveFails, Busy, Restorable
  <2>6. Faulted BY <1>9, FaultType DEF SaveFails
  <2> QED BY <1>9, <1>fault, <2>1, <2>3, <2>4, <2>5, <2>6 DEF SaveFails
<1>10. ASSUME NEW f \in Files, Write(f) PROVE TypeInv'
  <2>1. backups[cmd.num].data \in Copies
    BY <1>10, PlanTypes DEF Write, Busy, PhaseOK
  <2>2. backups[cmd.num].data[f] \in Content BY <1>10, <2>1, CopiesDef DEF Write
  <2> QED BY <1>10, <1>file, <2>2 DEF Write, Busy, Restoring
<1>11. ASSUME NEW f \in Files, WriteFails(f) PROVE TypeInv'
  <2>1. project' \in [Files -> Content \cup {Absent}] BY <1>11 DEF WriteFails, Content
  <2>2. Faulted BY <1>11, FaultType DEF WriteFails
  <2> QED BY <1>11, <1>fault, <1>file, <2>1, <2>2 DEF WriteFails, Busy, Restoring
<1>12. ASSUME NEW f \in Files, Remove(f) PROVE TypeInv'
  <2>1. Faulted BY <1>12, FaultType DEF Remove
  <2> QED BY <1>12, <1>fault, <1>file, <2>1 DEF Remove, Busy, Restoring
<1> QED BY <1>2, <1>3, <1>4, <1>5, <1>6, <1>7, <1>8, <1>9, <1>10, <1>11, <1>12

(* The undo of a restore.                                                   *)
LEMMA UndoType ==
    ASSUME TypeInv,
           \/ StartUndo \/ EndUndo
           \/ \E f \in Files : BringBack(f) \/ BringBackFails(f) \/ TakeAway(f)
    PROVE  TypeInv'
<1> USE DEF TypeInv, TypeOK, history
<1>fault. Faulted => faults' \in 0..MaxFaults BY DEF Faulted
<1>away. cmd'.at \notin {"asking", "saving", "writing", "removing"} => PhaseOK'
  BY DEF PhaseOK
<1>file. ASSUME NEW f \in Files, Busy("undoing"), Ticked(f) \/ FailedOn(f)
         PROVE  cmd' \in Commands /\ PhaseOK'
  BY <1>file, <1>away, TickedCommand DEF Busy
<1>1. CASE StartUndo
  <2>1. undo.state \in States BY <1>1 DEF StartUndo, StateRead
  <2>2. cmd' \in [at : {"undoing"}, todo : SUBSET Files, failed : BOOLEAN]
    BY <1>1, <2>1 DEF StartUndo, Lists, States
  <2>3. cmd' \in Commands BY <2>2, CommandKinds
  <2> QED BY <1>1, <1>away, <2>2, <2>3 DEF StartUndo
<1>2. CASE EndUndo
  BY <1>2, <1>away, IdleCommand, EmptyUndo DEF EndUndo
<1>3. ASSUME NEW f \in Files, BringBack(f) PROVE TypeInv'
  <2>1. Copy(f) \in Copies BY DEF Copy
  <2>2. Copy(f)[f] \in Content BY <1>3, <2>1, CopiesDef DEF BringBack
  <2> QED BY <1>3, <1>file, <2>2 DEF BringBack
<1>4. ASSUME NEW f \in Files, BringBackFails(f) PROVE TypeInv'
  <2>1. project' \in [Files -> Content \cup {Absent}] BY <1>4 DEF BringBackFails, Content
  <2>2. Faulted BY <1>4, FaultType DEF BringBackFails
  <2> QED BY <1>4, <1>fault, <1>file, <2>1, <2>2 DEF BringBackFails
<1>5. ASSUME NEW f \in Files, TakeAway(f) PROVE TypeInv'
  <2>1. Faulted BY <1>5, FaultType DEF TakeAway
  <2> QED BY <1>5, <1>fault, <1>file, <2>1 DEF TakeAway
<1> QED BY <1>1, <1>2, <1>3, <1>4, <1>5

LEMMA KilledType == ASSUME TypeInv, Killed PROVE TypeInv'
<1> USE DEF TypeInv, TypeOK, history
<1>1. Faulted /\ cmd' \in Commands /\ PhaseOK'
  BY FaultType, IdleCommand DEF Killed, PhaseOK
<1>torn. \A open : project' \in ProjectTorn(open) =>
            project' \in [Files -> Content \cup {Absent}]
  BY DEF ProjectTorn, Content
<1>2. CASE KilledClearing
  BY <1>1, <1>2, PartBackups DEF Killed, KilledClearing, Faulted
<1>3. CASE KilledDroppingUndo
  BY <1>1, <1>3, PartUndo DEF Killed, KilledDroppingUndo, Faulted
<1>4. CASE KilledWritingState
  <2>1. undo' \in [files : Copies, deleted : Copies, state : States \cup {None, Torn}]
    <3> HIDE DEF States
    <3> QED BY <1>4 DEF KilledWritingState
  <2> QED BY <1>1, <1>4, <2>1 DEF Killed, KilledWritingState, Faulted
<1>5. CASE KilledCopying
  BY <1>1, <1>5, <1>torn DEF Killed, KilledCopying, Faulted
<1>6. CASE KilledElsewhere
  BY <1>1, <1>6 DEF Killed, KilledElsewhere, Faulted
<1> QED BY <1>2, <1>3, <1>4, <1>5, <1>6 DEF Killed

LEMMA TypeStep == TypeInv /\ [Next]_vars => TypeInv'
<1> SUFFICES ASSUME TypeInv, [Next]_vars PROVE TypeInv' OBVIOUS
<1>1. CASE Next
  BY <1>1, EditType, ConfigureType, BackupType, RestoreType, UndoType, KilledType DEF Next
<1>2. CASE UNCHANGED vars
  BY <1>2 DEF vars, history, TypeInv, TypeOK, PhaseOK, Restorable
<1> QED BY <1>1, <1>2

LEMMA TypeInit == Init => TypeInv
<1> SUFFICES ASSUME Init PROVE TypeInv OBVIOUS
<1>1. project \in [Files -> Content \cup {Absent}] BY DEF Init, Content
<1>2. DOMAIN backups = {} BY NoCopies DEF Init
<1>3. undo \in [files : Copies, deleted : Copies, state : States \cup {None, Torn}]
  BY EmptyUndo DEF Init
<1>4. cmd \in Commands /\ PhaseOK BY IdleCommand DEF Init, PhaseOK
<1>5. edits \in 0..MaxEdits /\ faults \in 0..MaxFaults BY BoundAssumption DEF Init
<1> QED BY <1>1, <1>2, <1>3, <1>4, <1>5 DEF Init, TypeInv, TypeOK

LEMMA Types == Spec => []TypeInv
BY TypeInit, TypeStep, PTL DEF Spec

(* Every variable keeps its type: the files, manifests, lists and commands  *)
(* of backup.rs, through every failure and kill.                            *)
THEOREM TypeCorrect == Spec => []TypeOK
BY Types, PTL DEF TypeInv

-------------------------------------------------------------------------------
(* The store of backups                                                    *)

LEMMA StoreQuiet ==
    ASSUME StoreInv, UNCHANGED <<backups, index, doomed>>,
           cmd' = cmd \/ cmd'.at \notin {"copying", "listing", "indexing", "clearing"}
    PROVE  StoreInv'
BY DEF StoreInv, ListedExist, Busy, InBackup

LEMMA CopyInStore ==
    ASSUME TypeInv, StoreInv, NEW f \in Files, CopyIn(f) \/ CopyInFails(f)
    PROVE  StoreInv'
<1> DEFINE Copying == [at : {"copying"}, num : 1..MaxNumber, todo : SUBSET Files,
                       manifest : Copies, data : Copies]
<1>1. cmd \in Copying /\ Busy("copying")
  BY Phases DEF TypeInv, TypeOK, CopyIn, CopyInFails
<1>2. UNCHANGED <<backups, index, doomed>> BY DEF CopyIn, CopyInFails, history
<1>3. ASSUME NEW v, cmd'.at = "copying", cmd'.todo = cmd.todo \ {f},
             \/ cmd'.manifest = With(cmd.manifest, f, v) /\ cmd'.data = With(cmd.data, f, v)
             \/ cmd'.manifest = cmd.manifest /\ cmd'.data \in {cmd.data, With(cmd.data, f, v)},
             f \in cmd.todo
      PROVE  StoreInv'
  <2>1. /\ DOMAIN cmd.manifest \subseteq DOMAIN cmd.data /\ Agree(cmd.manifest, cmd.data)
        /\ cmd.todo \cap DOMAIN cmd.manifest = {}
    BY <1>1 DEF StoreInv
  <2>2. /\ DOMAIN cmd'.manifest \subseteq DOMAIN cmd'.data
        /\ Agree(cmd'.manifest, cmd'.data)
        /\ cmd'.todo \cap DOMAIN cmd'.manifest = {}
    BY <1>3, <2>1 DEF Agree, With
  <2> QED BY <1>2, <1>3, <2>2 DEF StoreInv, ListedExist, Busy, InBackup
<1>4. CASE CopyIn(f) BY <1>1, <1>3, <1>4 DEF CopyIn
<1>5. CASE CopyInFails(f)
  BY <1>1, <1>3, <1>5 DEF CopyInFails, Ticked
<1> QED BY <1>4, <1>5

LEMMA PublishStore == ASSUME TypeInv, StoreInv, Publish PROVE StoreInv'
<1>1. cmd \in [at : {"copying"}, num : 1..MaxNumber, todo : SUBSET Files,
              manifest : Copies, data : Copies]
  BY Phases DEF TypeInv, TypeOK, Publish
<1>2. /\ DOMAIN cmd.manifest \subseteq DOMAIN cmd.data /\ Agree(cmd.manifest, cmd.data)
  BY DEF StoreInv, Publish
<1>3. PICK data \in Labelled(cmd.data) :
               backups' = With(backups, cmd.num, [manifest |-> cmd.manifest, data |-> data])
  BY DEF Publish, PutInPlace
<1>5. DOMAIN cmd.manifest \subseteq DOMAIN data /\ Agree(cmd.manifest, data)
  BY <1>1, <1>2, <1>3, LabelledCopies DEF Agree
<1>6. /\ DOMAIN backups' = DOMAIN backups \cup {cmd.num}
      /\ backups'[cmd.num] = [manifest |-> cmd.manifest, data |-> data]
      /\ \A n \in DOMAIN backups \ {cmd.num} : backups'[n] = backups[n]
      /\ doomed' = doomed \ {cmd.num} /\ index' = index
      /\ cmd'.at = "listing" /\ cmd'.num = cmd.num
  BY <1>3 DEF Publish, With
<1>4. cmd.manifest # None BY <1>1, NoneAssumption
<1> QED BY <1>5, <1>6, <1>4 DEF StoreInv, ListedExist, Busy, InBackup

LEMMA StoreStep == TypeInv /\ StoreInv /\ [Next]_vars => StoreInv'
<1> SUFFICES ASSUME TypeInv, StoreInv, [Next]_vars PROVE StoreInv' OBVIOUS
<1> USE DEF history
<1>types. cmd \in Commands BY DEF TypeInv, TypeOK
<1>file. ASSUME NEW f, Ticked(f) \/ FailedOn(f), cmd.at \in Restoring \cup {"undoing"},
                UNCHANGED <<backups, index, doomed>>
         PROVE  StoreInv'
  BY <1>file, <1>types, TickedCommand, StoreQuiet DEF Restoring
<1>1. ASSUME NEW f \in Files, Edit(f) PROVE StoreInv'
  BY <1>1, StoreQuiet DEF Edit
<1>2. ASSUME NEW f \in Files, CopyIn(f) \/ CopyInFails(f) PROVE StoreInv'
  BY <1>2, CopyInStore
<1>3. ASSUME NEW f \in Files,
             \/ Save(f) \/ SaveFails(f) \/ Write(f) \/ WriteFails(f) \/ Remove(f)
             \/ BringBack(f) \/ BringBackFails(f) \/ TakeAway(f)
      PROVE  StoreInv'
  BY <1>3, <1>file DEF Save, SaveFails, Write, WriteFails, Remove, BringBack, BringBackFails,
                       TakeAway, Restoring, Busy
<1>4. ASSUME NEW n, Restore(n) \/ RestoreDeleted(n) PROVE StoreInv'
  BY <1>4, StoreQuiet DEF Restore, RestoreDeleted, Ask
<1>5. CASE Configure BY <1>5, StoreQuiet DEF Configure
<1>6. CASE Create \/ Recreate
  <2>1. DOMAIN backups \subseteq 1..MaxNumber BY DEF TypeInv, TypeOK
  <2>2. /\ cmd'.at = "copying" /\ cmd'.manifest = <<>> /\ cmd'.data = <<>>
        /\ UNCHANGED <<backups, index, doomed>>
    BY <1>6, <2>1, StartCopyingCommand DEF Create, Recreate
  <2> QED BY <2>2, NoCopies DEF StoreInv, ListedExist, Busy, InBackup, Agree
<1>7. CASE Publish BY <1>7, PublishStore
<1>8. CASE List
  <2>1. /\ index' = Torn /\ cmd'.at = "indexing" /\ cmd'.entries = Listed \cup {cmd.num}
        /\ UNCHANGED <<backups, doomed>>
    BY <1>8 DEF List, BeginIndex
  <2>2. (Listed \cup {cmd.num}) \ doomed \subseteq DOMAIN backups
    BY <1>8 DEF List, Listed, StoreInv, ListedExist
  <2> QED BY <2>1, <2>2 DEF StoreInv, ListedExist, Busy, InBackup
<1>9. CASE EndIndex
  <2>1. /\ index' = cmd.entries /\ cmd'.at \in {"idle", "recreating"}
        /\ UNCHANGED <<backups, doomed>>
    BY <1>9 DEF EndIndex, Idle
  <2> QED BY <1>9, <2>1 DEF EndIndex, StoreInv, ListedExist, Busy, InBackup
<1>10. ASSUME NEW recreate \in BOOLEAN, Clear(recreate) PROVE StoreInv'
  BY <1>10 DEF Clear, StoreInv, ListedExist, Busy, InBackup
<1>11. CASE RemoveBackups
  <2>1. DOMAIN backups' = {} /\ cmd'.at = "scrubbing" /\ UNCHANGED <<index, doomed>>
    BY <1>11, NoCopies DEF RemoveBackups
  <2> QED BY <1>11, <2>1 DEF RemoveBackups, StoreInv, ListedExist, Busy, InBackup
<1>12. CASE Scrub
  BY <1>12 DEF Scrub, BeginIndex, StoreInv, ListedExist, Busy, InBackup
<1>13. CASE RecreateNothingToClear BY <1>13, StoreQuiet DEF RecreateNothingToClear
<1>14. CASE ClearUndo BY <1>14, StoreQuiet DEF ClearUndo
<1>15. CASE Decline \/ EndRestore \/ EndUndo
  BY <1>15, StoreQuiet, IdleCommand DEF Decline, EndRestore, EndUndo
<1>16. CASE Accept BY <1>16, StoreQuiet DEF Accept
<1>17. CASE WriteState \/ StartRemoving
  <2>1. cmd \in RestoringCommand
    BY <1>17, <1>types, Phases DEF WriteState, StartRemoving, Busy, RestoringCommand
  <2> QED BY <1>17, <2>1, StoreQuiet DEF WriteState, StartRemoving, RestoringCommand
<1>18. CASE StartUndo BY <1>18, StoreQuiet DEF StartUndo
<1>19. CASE Killed
  <2>1. cmd'.at = "idle" /\ UNCHANGED <<index, doomed>>
    BY <1>19, IdleCommand DEF Killed
  <2>2. CASE KilledClearing
    <3>1. DOMAIN backups \subseteq doomed BY <2>2 DEF KilledClearing, StoreInv
    <3>2. DOMAIN backups' \subseteq DOMAIN backups
      BY <2>2, PartBackups DEF KilledClearing, TypeInv
    <3>3. \A n \in DOMAIN backups' :
            backups'[n].manifest # None => Agree(backups'[n].manifest, backups'[n].data)
      <4> SUFFICES ASSUME NEW n \in DOMAIN backups', backups'[n].manifest # None
                   PROVE  Agree(backups'[n].manifest, backups'[n].data)
        OBVIOUS
      <4>1. /\ backups'[n].manifest = backups[n].manifest
            /\ backups'[n].data \in PartOf(backups[n].data)
        BY <2>2, <3>2, PartBackups DEF KilledClearing, TypeInv
      <4>2. backups[n].data \in Copies BY <3>2 DEF TypeInv, TypeOK, Snapshots
      <4>3. Agree(backups[n].manifest, backups[n].data) BY <3>2, <4>1 DEF StoreInv
      <4> QED BY <4>1, <4>2, <4>3, PartCopy DEF Agree
    <3> QED BY <2>1, <3>1, <3>2, <3>3 DEF StoreInv, ListedExist, Busy
  <2>3. CASE ~KilledClearing
    BY <1>19, <2>1, <2>3, StoreQuiet
    DEF Killed, KilledDroppingUndo, KilledWritingState, KilledCopying, KilledElsewhere
  <2> QED BY <2>2, <2>3
<1>20. CASE UNCHANGED vars BY <1>20, StoreQuiet DEF vars
<1> QED
  BY <1>1, <1>2, <1>3, <1>4, <1>5, <1>6, <1>7, <1>8, <1>9, <1>10, <1>11, <1>12, <1>13, <1>14,
     <1>15, <1>16, <1>17, <1>18, <1>19, <1>20 DEF Next

LEMMA Store == Spec => []StoreInv
<1>1. Init => StoreInv
  BY NoCopies, IdleCommand DEF Init, StoreInv, ListedExist, Busy
<1> QED BY <1>1, Types, StoreStep, PTL DEF Spec

(* What the index lists is there: the index is written after the rename.     *)
THEOREM ListedAreThere == Spec => []ListedExist
BY Store, PTL DEF StoreInv

(* Every backup holds what its manifest says, whatever was edited, failed or *)
(* killed while it was made: the temporary directory and the rename.  A root *)
(* ignore.txt is the exception: save_ignore_txt writes over its copy.        *)
THEOREM BackupsAreTrue == Spec => []BackupsTrue
<1>1. StoreInv => BackupsTrue
  BY DEF StoreInv, BackupsTrue, Agree, InBackup
<1> QED BY <1>1, Store, PTL

-------------------------------------------------------------------------------
(* Restores                                                                *)

LEMMA RestoreQuiet ==
    ASSUME cmd'.at \notin {"asking", "saving", "writing", "removing"} PROVE RestoreInv'
BY DEF RestoreInv, Planned, Reached, Restoring, Busy

LEMMA EditRestore ==
    ASSUME TypeInv, RestoreInv, NEW f \in Files, Edit(f) PROVE RestoreInv'
<1>1. CASE cmd.at \in Restoring
  <2>1. owed \in Debts /\ owed # None
    BY <1>1 DEF TypeInv, TypeOK, PhaseOK, Restoring
  <2>2. /\ owed'.before = owed.before /\ owed'.num = owed.num
        /\ owed'.changing = owed.changing /\ owed'.unseen = owed.unseen
        /\ owed'.touched = owed.touched \cup {f}
    BY <2>1 DEF Edit, Debts
  <2>3. UNCHANGED <<ignored, backups, cmd>> /\ \A g \in Files \ {f} : project'[g] = project[g]
    BY DEF Edit, TypeInv, TypeOK
  <2>4. Planned' BY <1>1, <2>2, <2>3 DEF RestoreInv, Planned, PlanOK, Busy, InBackup, Restoring
  <2>5. Reached' BY <1>1, <2>2, <2>3 DEF RestoreInv, Reached, Busy, Restoring
  <2> QED BY <2>4, <2>5 DEF RestoreInv
<1>2. CASE cmd.at \notin Restoring
  BY <1>2 DEF Edit, RestoreInv, Planned, Reached, PlanOK, Busy, InBackup, Restoring
<1> QED BY <1>1, <1>2

LEMMA AskRestore ==
    ASSUME TypeInv, NEW n \in DOMAIN backups, Restore(n) \/ RestoreDeleted(n)
    PROVE  RestoreInv'
<1>1. /\ cmd'.at = "asking" /\ cmd'.num = n /\ cmd'.seen = project
      /\ \/ cmd'.only = "all" /\ cmd'.plan = Plan(n)
         \/ cmd'.only = "deleted" /\ cmd'.plan = PlanDeleted(n)
      /\ UNCHANGED <<ignored, backups>>
  BY DEF Restore, RestoreDeleted, Ask
<1>2. InBackup(n) \subseteq Files BY PlanTypes DEF Restore, RestoreDeleted, TypeInv
<1>3. PlanOK(cmd.seen)'
  <2>1. CASE cmd'.only = "all" /\ cmd'.plan = Plan(n)
    BY <1>1, <1>2, <2>1 DEF PlanOK, Plan, Disjoint, InBackup, Walked, Present
  <2>2. CASE cmd'.only = "deleted" /\ cmd'.plan = PlanDeleted(n)
    BY <1>1, <1>2, <2>2 DEF PlanOK, PlanDeleted, Disjoint, InBackup, Walked, Present
  <2> QED BY <1>1, <2>1, <2>2
<1> QED BY <1>1, <1>3 DEF RestoreInv, Planned, Reached, Busy, Restoring

LEMMA AcceptRestore == ASSUME TypeInv, RestoreInv, Accept PROVE RestoreInv'
<1>1. cmd \in [at : {"asking"}, num : 1..MaxNumber, only : {"all", "deleted"}, plan : Plans,
              seen : [Files -> Content \cup {Absent}]]
  BY Phases DEF Accept, TypeInv, TypeOK
<1>2. /\ cmd'.at = "saving" /\ cmd'.num = cmd.num /\ cmd'.plan = cmd.plan
      /\ cmd'.only = cmd.only /\ cmd'.todo = cmd.plan.overwritten \cup cmd.plan.deleted
      /\ owed'.before = cmd.seen /\ owed'.num = cmd.num
      /\ owed'.changing = Lists(cmd.plan)
      /\ owed'.touched = {f \in Files : project[f] # cmd.seen[f]}
      /\ cmd.only = "deleted" => owed'.unseen = ignored
      /\ UNCHANGED <<project, ignored, backups>>
  BY DEF Accept, Lists
<1>3. PlanOK(cmd.seen) BY DEF RestoreInv, Planned, Accept
<1>4. PlanOK(owed.before)' BY <1>2, <1>3 DEF PlanOK, InBackup
<1>5. Planned' BY <1>2, <1>4 DEF Planned, Busy, Lists
<1>6. Reached' BY <1>2 DEF Reached, Busy
<1> QED BY <1>5, <1>6 DEF RestoreInv

(* A restore goes on by its plan.                                           *)
LEMMA PlannedKept ==
    ASSUME Planned, cmd.at \in Restoring, cmd'.at \in Restoring,
           cmd'.num = cmd.num, cmd'.plan = cmd.plan, cmd'.only = cmd.only,
           UNCHANGED <<ignored, backups>>,
           owed'.before = owed.before, owed'.num = owed.num,
           owed'.changing = owed.changing, owed'.unseen = owed.unseen
    PROVE  Planned'
BY DEF Planned, PlanOK, InBackup, Lists, Restoring, Busy

LEMMA SaveRestore ==
    ASSUME TypeInv, RestoreInv, NEW f \in Files, Save(f) \/ SaveFails(f) PROVE RestoreInv'
<1>1. /\ cmd.at = "saving" /\ cmd'.at = "saving" /\ cmd'.num = cmd.num
      /\ cmd'.plan = cmd.plan /\ cmd'.only = cmd.only /\ cmd'.todo = cmd.todo \ {f}
  BY TickedCommand DEF Save, SaveFails, TypeInv, TypeOK, Busy, Restoring
<1>2. owed \in Debts BY <1>1 DEF TypeInv, TypeOK, PhaseOK, Restoring
<1>3. /\ owed'.before = owed.before /\ owed'.num = owed.num /\ owed'.touched = owed.touched
      /\ owed'.changing = owed.changing /\ owed'.unseen = owed.unseen
      /\ UNCHANGED <<project, ignored, backups>>
  BY <1>2 DEF Save, SaveFails, Debts, history
<1>4. Planned' BY <1>1, <1>3, PlannedKept DEF RestoreInv, Restoring
<1>5. Reached' BY <1>1, <1>3 DEF RestoreInv, Reached, Busy
<1> QED BY <1>4, <1>5 DEF RestoreInv

LEMMA TurnRestore ==
    ASSUME TypeInv, RestoreInv, WriteState \/ StartRemoving PROVE RestoreInv'
<1>1. cmd \in RestoringCommand
  BY Phases DEF WriteState, StartRemoving, TypeInv, TypeOK, Busy, RestoringCommand
<1>2. UNCHANGED <<project, ignored, backups, owed>>
  BY DEF WriteState, StartRemoving, history
<1>3. CASE WriteState
  <2>1. /\ cmd'.at = "writing" /\ cmd'.num = cmd.num /\ cmd'.plan = cmd.plan
        /\ cmd'.only = cmd.only /\ cmd'.failed = cmd.failed /\ cmd'.todo = cmd.plan.writes
    BY <1>1, <1>3 DEF WriteState, RestoringCommand
  <2>2. Planned' BY <1>2, <1>3, <2>1, PlannedKept DEF RestoreInv, Restoring, WriteState, Busy
  <2>3. Reached' BY <1>2, <1>3, <2>1 DEF RestoreInv, Reached, WriteState, Busy
  <2> QED BY <2>2, <2>3 DEF RestoreInv
<1>4. CASE StartRemoving
  <2>1. /\ cmd'.at = "removing" /\ cmd'.num = cmd.num /\ cmd'.plan = cmd.plan
        /\ cmd'.only = cmd.only /\ cmd'.failed = cmd.failed /\ cmd'.todo = cmd.plan.deleted
    BY <1>1, <1>4 DEF StartRemoving, RestoringCommand
  <2>2. Planned' BY <1>2, <1>4, <2>1, PlannedKept DEF RestoreInv, Restoring, StartRemoving, Busy
  <2>3. Reached' BY <1>2, <1>4, <2>1 DEF RestoreInv, Reached, StartRemoving, Busy
  <2> QED BY <2>2, <2>3 DEF RestoreInv
<1> QED BY <1>3, <1>4

LEMMA WriteRestore ==
    ASSUME TypeInv, StoreInv, RestoreInv, NEW f \in Files, Write(f) \/ WriteFails(f)
    PROVE  RestoreInv'
<1>1. /\ cmd.at = "writing" /\ cmd'.at = "writing" /\ cmd'.num = cmd.num
      /\ cmd'.plan = cmd.plan /\ cmd'.only = cmd.only /\ cmd'.todo = cmd.todo \ {f}
      /\ cmd.failed => cmd'.failed
      /\ WriteFails(f) => cmd'.failed
  BY TickedCommand DEF Write, WriteFails, TypeInv, TypeOK, Busy, Restoring
<1>2. UNCHANGED <<ignored, backups, owed>> /\ f \in cmd.todo
  BY DEF Write, WriteFails, history
<1>3. /\ project' \in [Files -> Content \cup {Absent}]
      /\ \A g \in Files \ {f} : project'[g] = project[g]
      /\ Write(f) => f \in DOMAIN backups[cmd.num].data
                     /\ project'[f] = backups[cmd.num].data[f]
  <2>1. TypeInv' BY RestoreType
  <2>2. project \in [Files -> Content \cup {Absent}] /\ project' \in [Files -> Content \cup {Absent}]
    BY <2>1 DEF TypeInv, TypeOK
  <2> QED BY <2>2 DEF Write, WriteFails
<1>4. Planned' BY <1>1, <1>2, PlannedKept DEF RestoreInv, Restoring
<1>5. Agree(backups[cmd.num].manifest, backups[cmd.num].data)
  BY <1>1 DEF TypeInv, PhaseOK, Restorable, StoreInv
<1>6. f \in cmd.plan.writes /\ cmd.plan.writes \subseteq InBackup(cmd.num)
  BY <1>1, <1>2 DEF RestoreInv, Reached, Planned, PlanOK, Busy, Restoring
<1>7. Write(f) /\ f \notin Reports => project'[f] = backups[cmd.num].manifest[f]
  BY <1>3, <1>5, <1>6 DEF Agree, InBackup
<1>8. Reached' BY <1>1, <1>2, <1>3, <1>6, <1>7 DEF RestoreInv, Reached, Busy
<1> QED BY <1>4, <1>8 DEF RestoreInv

LEMMA RemoveRestore ==
    ASSUME TypeInv, RestoreInv, NEW f \in Files, Remove(f) PROVE RestoreInv'
<1>1. /\ cmd.at = "removing" /\ cmd'.at = "removing" /\ cmd'.num = cmd.num
      /\ cmd'.plan = cmd.plan /\ cmd'.only = cmd.only /\ cmd'.todo = cmd.todo \ {f}
      /\ cmd.failed => cmd'.failed
  BY TickedCommand DEF Remove, TypeInv, TypeOK, Busy, Restoring
<1>2. UNCHANGED <<ignored, backups, owed>> /\ f \in cmd.todo
  BY DEF Remove, history
<1>3. /\ \A g \in Files \ {f} : project'[g] = project[g]
      /\ project'[f] = Absent \/ cmd'.failed
  BY TickedCommand DEF Remove, TypeInv, TypeOK, Busy, Restoring
<1>4. Planned' BY <1>1, <1>2, PlannedKept DEF RestoreInv, Restoring
<1>5. f \in cmd.plan.deleted /\ f \notin cmd.plan.writes
  BY <1>1, <1>2 DEF RestoreInv, Reached, Planned, PlanOK, Busy, Restoring
<1>6. Reached' BY <1>1, <1>2, <1>3, <1>5 DEF RestoreInv, Reached, Busy
<1> QED BY <1>4, <1>6 DEF RestoreInv

LEMMA RestoreStep == TypeInv /\ StoreInv /\ RestoreInv /\ [Next]_vars => RestoreInv'
<1> SUFFICES ASSUME TypeInv, StoreInv, RestoreInv, [Next]_vars PROVE RestoreInv' OBVIOUS
<1>types. cmd \in Commands /\ DOMAIN backups \subseteq 1..MaxNumber BY DEF TypeInv, TypeOK
<1>1. ASSUME NEW f \in Files,
             \/ Edit(f) \/ Save(f) \/ SaveFails(f) \/ Write(f) \/ WriteFails(f) \/ Remove(f)
      PROVE  RestoreInv'
  BY <1>1, EditRestore, SaveRestore, WriteRestore, RemoveRestore
<1>2. ASSUME NEW f \in Files, CopyIn(f) \/ CopyInFails(f) PROVE RestoreInv'
  <2>1. cmd \in [at : {"copying"}, num : 1..MaxNumber, todo : SUBSET Files,
                manifest : Copies, data : Copies]
    BY <1>2, <1>types, Phases DEF CopyIn, CopyInFails
  <2>2. cmd'.at = "copying" BY <1>2, <2>1 DEF CopyIn, CopyInFails, Ticked
  <2> QED BY <2>2, RestoreQuiet
<1>3. ASSUME NEW f \in Files, BringBack(f) \/ BringBackFails(f) \/ TakeAway(f)
      PROVE  RestoreInv'
  BY <1>3, <1>types, TickedCommand, RestoreQuiet DEF BringBack, BringBackFails, TakeAway, Busy
<1>4. ASSUME NEW n \in DOMAIN backups, Restore(n) \/ RestoreDeleted(n) PROVE RestoreInv'
  BY <1>4, AskRestore
<1>5. CASE Accept \/ WriteState \/ StartRemoving
  BY <1>5, AcceptRestore, TurnRestore
<1>6. CASE Configure \/ ClearUndo
  BY <1>6, RestoreQuiet DEF Configure, ClearUndo, Busy
<1>7. CASE Create \/ Recreate
  BY <1>7, <1>types, StartCopyingCommand, RestoreQuiet DEF Create, Recreate
<1>8. CASE Publish \/ List \/ EndIndex \/ RemoveBackups \/ Scrub \/ RecreateNothingToClear
  BY <1>8, RestoreQuiet
  DEF Publish, List, EndIndex, RemoveBackups, Scrub, RecreateNothingToClear, BeginIndex, Idle
<1>9. ASSUME NEW recreate \in BOOLEAN, Clear(recreate) PROVE RestoreInv'
  BY <1>9, RestoreQuiet DEF Clear
<1>10. CASE Decline \/ EndRestore \/ EndUndo \/ Killed
  BY <1>10, IdleCommand, RestoreQuiet DEF Decline, EndRestore, EndUndo, Killed
<1>11. CASE StartUndo BY <1>11, RestoreQuiet DEF StartUndo
<1>12. CASE UNCHANGED vars
  BY <1>12 DEF vars, history, RestoreInv, Planned, Reached, PlanOK, InBackup, Busy
<1> QED
  BY <1>1, <1>2, <1>3, <1>4, <1>5, <1>6, <1>7, <1>8, <1>9, <1>10, <1>11, <1>12 DEF Next

LEMMA Restores == Spec => []RestoreInv
<1>1. Init => RestoreInv
  BY IdleCommand DEF Init, RestoreInv, Planned, Reached, Restoring, Busy
<1> QED BY <1>1, Types, Store, RestoreStep, PTL DEF Spec

(* A restore that reports no failure has made the project the backup: every  *)
(* file the user left alone is as recorded, and the others are gone or       *)
(* ignored (restore_backup), but for those that the backup's own report has  *)
(* taken the place of.                                                     *)
THEOREM RestoresAreExact == Spec => []RestoreExact
<1>1. TypeInv /\ RestoreInv => RestoreExact
  <2> SUFFICES ASSUME TypeInv, RestoreInv, Busy("removing"), cmd.todo = {}, ~cmd.failed,
                      cmd.only = "all", NEW f \in Files \ (Reports \cup owed.touched)
               PROVE  AsRecorded(f)
    BY DEF RestoreExact, Restored
  <2>1. PlanOK(owed.before) BY DEF RestoreInv, Planned, Restoring, Busy
  <2>2. CASE f \in InBackup(cmd.num)
    BY <2>1, <2>2 DEF PlanOK, RestoreInv, Reached, Busy, AsRecorded
  <2>3. CASE f \notin InBackup(cmd.num)
    BY <2>1, <2>3 DEF PlanOK, RestoreInv, Reached, Busy, Present, AsRecorded
  <2> QED BY <2>2, <2>3
<1> QED BY <1>1, Types, Restores, PTL
-------------------------------------------------------------------------------
(* Undos                                                                   *)

LEMMA DebtQuiet ==
    ASSUME DebtInv, UNCHANGED <<project, backups, undo, owed>>,
           \/ cmd' = cmd
           \/ /\ cmd'.at \notin Restoring \cup {"undoing", "clearing"}
              /\ cmd'.at = "copying" => cmd'.num \notin DOMAIN backups
    PROVE  DebtInv'
BY DEF DebtInv, SavedSoFar, Payable, Standing, Answered, InUndo, InItsBackup, StateRead, Busy,
       Restoring

(* No debt, and no step of a restore or an undo.                             *)
LEMMA DebtNone ==
    ASSUME owed' = None, cmd'.at \notin Restoring \cup {"undoing"},
           cmd'.at = "copying" => cmd'.num \notin DOMAIN backups'
    PROVE  DebtInv'
BY DEF DebtInv, SavedSoFar, Payable, Standing, Busy, Restoring

LEMMA EditDebt == ASSUME TypeInv, DebtInv, NEW f \in Files, Edit(f) PROVE DebtInv'
<1>1. /\ UNCHANGED <<backups, undo, cmd>>
      /\ \A g \in Files \ {f} : project'[g] = project[g]
  BY DEF Edit, TypeInv, TypeOK
<1>2. CASE owed = None
  <2>1. owed' = None /\ cmd.at \notin Restoring
    BY <1>2 DEF Edit, TypeInv, PhaseOK, Restoring
  <2> QED BY <1>1, <1>2, <2>1
          DEF DebtInv, SavedSoFar, Payable, Standing, StateRead, Busy, Restoring
<1>3. CASE owed # None
  <2>1. owed \in Debts BY <1>3 DEF TypeInv, TypeOK
  <2>2. /\ owed'.before = owed.before /\ owed'.num = owed.num
        /\ owed'.changing = owed.changing /\ Answered' = Answered \ {f}
    BY <1>3, <2>1 DEF Edit, Debts, Answered
  <2>3. \A g \in Files : InUndo(g)' = InUndo(g) /\ InItsBackup(g)' = InItsBackup(g)
    BY <1>1, <2>2 DEF InUndo, InItsBackup, StateRead
  <2>4. Answered \subseteq Files BY DEF Answered
  <2>5. SavedSoFar' BY <1>1, <2>2 DEF DebtInv, SavedSoFar, Busy
  <2>6. Payable' BY <1>1, <1>3, <2>2, <2>3, <2>4 DEF DebtInv, Payable, StateRead, Busy
  <2>7. Standing' BY <1>1, <1>3, <2>2, <2>4 DEF DebtInv, Standing, StateRead, Busy
  <2> QED BY <2>5, <2>6, <2>7 DEF DebtInv
<1> QED BY <1>2, <1>3

LEMMA PublishDebt == ASSUME TypeInv, DebtInv, Publish PROVE DebtInv'
<1>1. cmd.num \notin DOMAIN backups BY DEF DebtInv, Standing, Publish
<1>2. /\ DOMAIN backups' = DOMAIN backups \cup {cmd.num}
      /\ \A n \in DOMAIN backups : backups'[n] = backups[n]
      /\ UNCHANGED <<project, undo, owed>> /\ cmd'.at = "listing"
  BY <1>1 DEF Publish, PutInPlace, With
<1>3. owed # None => \A f \in Files : InItsBackup(f) => InItsBackup(f)'
  BY <1>2 DEF DebtInv, Payable, InItsBackup
<1>4. Payable'
  BY <1>2, <1>3 DEF DebtInv, Payable, Answered, InUndo, StateRead, Busy
<1> QED BY <1>2, <1>4 DEF DebtInv, SavedSoFar, Standing, Busy

LEMMA ClearDebt ==
    ASSUME TypeInv, DebtInv, (\E recreate \in BOOLEAN : Clear(recreate)) \/ RemoveBackups
    PROVE  DebtInv'
<1>1. /\ UNCHANGED <<project, undo>> /\ cmd'.at \in {"clearing", "scrubbing"}
      /\ owed = None => owed' = None
  BY DEF Clear, RemoveBackups, history
<1>2. owed # None => /\ owed'.num = None /\ owed'.before = owed.before
                     /\ owed'.changing = owed.changing /\ Answered' = Answered
  <2>1. ASSUME owed # None, NEW recreate, Clear(recreate)
        PROVE  /\ owed'.num = None /\ owed'.before = owed.before
               /\ owed'.changing = owed.changing /\ Answered' = Answered
    <3>1. owed \in Debts BY <2>1 DEF TypeInv, TypeOK
    <3> QED BY <2>1, <3>1 DEF Clear, Debts, Answered
  <2>2. CASE RemoveBackups
    BY <2>2 DEF RemoveBackups, history, DebtInv, Payable, Answered
  <2> QED BY <2>1, <2>2
<1>3. Payable'
  <2>1. CASE owed = None BY <1>1, <2>1 DEF Payable
  <2>2. CASE owed # None
    <3>1. \A f \in Files : InUndo(f)' = InUndo(f)
      BY <1>1, <1>2, <2>2 DEF InUndo, StateRead
    <3>2. Answered \subseteq Files BY DEF Answered
    <3> QED BY <1>1, <1>2, <2>2, <3>1, <3>2 DEF DebtInv, Payable, StateRead, Busy
  <2> QED BY <2>1, <2>2
<1> QED BY <1>1, <1>3 DEF DebtInv, SavedSoFar, Standing, Busy
LEMMA AcceptDebt == ASSUME TypeInv, Accept PROVE DebtInv'
<1>1. /\ cmd'.at = "saving" /\ cmd'.todo = cmd.plan.overwritten \cup cmd.plan.deleted
      /\ cmd'.plan = cmd.plan /\ undo'.state = None
      /\ owed'.before = cmd.seen /\ owed'.num = cmd.num
      /\ owed'.touched = {f \in Files : project[f] # cmd.seen[f]}
      /\ UNCHANGED <<project, backups>>
  BY DEF Accept, NoUndo
<1>2. cmd.num \in DOMAIN backups BY DEF Accept, TypeInv, PhaseOK, Restorable, Busy
<1>3. \A f \in Answered' : f \in Files /\ project'[f] = owed'.before[f]
  BY <1>1 DEF Answered
<1>4. SavedSoFar' BY <1>1 DEF SavedSoFar
<1>5. Payable' BY <1>1, <1>2, <1>3 DEF Payable, StateRead, Busy
<1>6. Standing' BY <1>1 DEF Standing, Busy
<1> QED BY <1>4, <1>5, <1>6 DEF DebtInv

(* Saving one file touches no other one's copy.                              *)
LEMMA SavedKeeps ==
    ASSUME TypeOK, NEW f \in Files, NEW v, undo' = Saved(f, v)
    PROVE  /\ undo'.state = undo.state
           /\ \A g \in DOMAIN undo.files \ {f} :
                  g \in DOMAIN undo'.files /\ undo'.files[g] = undo.files[g]
           /\ \A g \in DOMAIN undo.deleted \ {f} :
                  g \in DOMAIN undo'.deleted /\ undo'.deleted[g] = undo.deleted[g]
           /\ f \in cmd.plan.overwritten => f \in DOMAIN undo'.files /\ undo'.files[f] = v
           /\ f \notin cmd.plan.overwritten => f \in DOMAIN undo'.deleted /\ undo'.deleted[f] = v
<1>1. undo \in [files : Copies, deleted : Copies, state : States \cup {None, Torn}]
  BY DEF TypeOK
<1> HIDE DEF States, Copies
<1>2. CASE f \in cmd.plan.overwritten
  <2>1. undo' = [undo EXCEPT !.files = With(@, f, v)] BY <1>2 DEF Saved
  <2>2. /\ undo'.files = With(undo.files, f, v) /\ undo'.deleted = undo.deleted
        /\ undo'.state = undo.state
    BY <1>1, <2>1
  <2> QED BY <1>2, <2>2 DEF With
<1>3. CASE f \notin cmd.plan.overwritten
  <2>1. undo' = [undo EXCEPT !.deleted = With(@, f, v)] BY <1>3 DEF Saved
  <2>2. /\ undo'.deleted = With(undo.deleted, f, v) /\ undo'.files = undo.files
        /\ undo'.state = undo.state
    BY <1>1, <2>1
  <2> QED BY <1>3, <2>2 DEF With
<1> QED BY <1>2, <1>3

LEMMA SaveDebt ==
    ASSUME TypeInv, RestoreInv, DebtInv, NEW f \in Files, Save(f) \/ SaveFails(f)
    PROVE  DebtInv'
<1>1. /\ cmd.at = "saving" /\ cmd'.at = "saving" /\ cmd'.plan = cmd.plan
      /\ cmd'.todo = cmd.todo \ {f}
  BY TickedCommand DEF Save, SaveFails, TypeInv, TypeOK, Busy, Restoring
<1>2. /\ UNCHANGED <<project, backups>>
      /\ owed # None /\ owed \in Debts /\ undo.state = None
  BY <1>1 DEF Save, SaveFails, TypeInv, TypeOK, PhaseOK, DebtInv, Standing, Busy
<1>3. /\ owed'.before = owed.before /\ owed'.num = owed.num
      /\ owed'.changing = owed.changing
      /\ Answered' \subseteq Answered
      /\ SaveFails(f) => f \notin Answered'
  BY <1>2 DEF Save, SaveFails, Debts, Answered, history
<1>4. f \in cmd.plan.overwritten \cup cmd.plan.deleted
  BY <1>1 DEF Save, SaveFails, RestoreInv, Reached, Busy
<1>5. Disjoint(cmd.plan) BY <1>1 DEF RestoreInv, Planned, PlanOK, Restoring
<1>6. f \in Answered => project[f] = owed.before[f]
  BY <1>1 DEF RestoreInv, Reached, Answered, Busy
<1>7. undo'.state = None /\ SavedSoFar'
  <2>1. CASE undo' = undo /\ f \notin Answered'
    BY <1>1, <1>2, <1>3, <2>1 DEF DebtInv, SavedSoFar, Busy
  <2>2. ASSUME NEW v, undo' = Saved(f, v), v = project[f] \/ f \notin Answered'
        PROVE  undo'.state = None /\ SavedSoFar'
    <3>1. /\ undo'.state = undo.state
          /\ \A g \in DOMAIN undo.files \ {f} :
                 g \in DOMAIN undo'.files /\ undo'.files[g] = undo.files[g]
          /\ \A g \in DOMAIN undo.deleted \ {f} :
                 g \in DOMAIN undo'.deleted /\ undo'.deleted[g] = undo.deleted[g]
          /\ f \in cmd.plan.overwritten => f \in DOMAIN undo'.files /\ undo'.files[f] = v
          /\ f \notin cmd.plan.overwritten => f \in DOMAIN undo'.deleted /\ undo'.deleted[f] = v
      BY <2>2, SavedKeeps DEF TypeInv
    <3> SUFFICES ASSUME NEW g \in Answered' \ cmd'.todo
                 PROVE  /\ g \in cmd.plan.overwritten =>
                               g \in DOMAIN undo'.files /\ undo'.files[g] = owed.before[g]
                        /\ g \in cmd.plan.deleted =>
                               g \in DOMAIN undo'.deleted /\ undo'.deleted[g] = owed.before[g]
      BY <1>1, <1>2, <1>3, <3>1 DEF SavedSoFar, Busy
    <3>2. CASE g = f
      BY <1>3, <1>5, <1>6, <2>2, <3>1, <3>2 DEF Disjoint
    <3>3. CASE g # f
      <4>1. g \in Answered \ cmd.todo BY <1>1, <1>3, <3>3
      <4>2. /\ g \in cmd.plan.overwritten =>
                   g \in DOMAIN undo.files /\ undo.files[g] = owed.before[g]
            /\ g \in cmd.plan.deleted =>
                   g \in DOMAIN undo.deleted /\ undo.deleted[g] = owed.before[g]
        BY <1>1, <4>1 DEF DebtInv, SavedSoFar, Busy
      <4> QED BY <3>1, <3>3, <4>2
    <3> QED BY <3>2, <3>3
  <2> QED BY <1>3, <2>1, <2>2 DEF Save, SaveFails
<1>8. Payable' BY <1>1, <1>2, <1>3, <1>7 DEF DebtInv, Payable, StateRead, Busy
<1>9. Standing' BY <1>1, <1>7 DEF Standing, Busy
<1> QED BY <1>7, <1>8, <1>9 DEF DebtInv

LEMMA WriteStateDebt == ASSUME TypeInv, RestoreInv, DebtInv, WriteState PROVE DebtInv'
<1>1. cmd \in RestoringCommand /\ cmd.at = "saving" /\ cmd.todo = {}
  BY Phases DEF WriteState, TypeInv, TypeOK, Busy, RestoringCommand
<1>2. cmd'.at = "writing" /\ UNCHANGED <<project, backups, owed>>
  BY <1>1 DEF WriteState, RestoringCommand, history
<1>3. /\ undo'.files = undo.files /\ undo'.deleted = undo.deleted
      /\ undo'.state = [overwritten |-> cmd.plan.overwritten, created |-> cmd.plan.created,
                        deleted |-> cmd.plan.deleted]
  <2>1. undo \in [files : Copies, deleted : Copies, state : States \cup {None, Torn}]
    BY DEF TypeInv, TypeOK
  <2> HIDE DEF States, Copies
  <2> QED BY <2>1 DEF WriteState
<1>4. undo'.state \in States BY <1>1, <1>3 DEF RestoringCommand, Plans, States
<1>5. StateRead' BY <1>4, NoneAssumption DEF StateRead
<1>6. owed # None BY <1>1 DEF TypeInv, PhaseOK, Restoring
<1>7. /\ PlanOK(owed.before) /\ owed.changing = Lists(cmd.plan)
      /\ cmd.only = "deleted" => owed.unseen = ignored
  BY <1>1 DEF RestoreInv, Planned, Restoring
<1>8. ~StateRead BY <1>1 DEF DebtInv, Standing, StateRead, Busy
<1>9. \A f \in Answered : project[f] = owed.before[f]
  BY <1>6, <1>8 DEF DebtInv, Payable
<1>10. ASSUME NEW f \in Answered \cap owed.changing PROVE InUndo(f)'
  <2>1. /\ f \in cmd.plan.overwritten =>
               f \in DOMAIN undo.files /\ undo.files[f] = owed.before[f]
        /\ f \in cmd.plan.deleted =>
               f \in DOMAIN undo.deleted /\ undo.deleted[f] = owed.before[f]
    BY <1>1, <1>10 DEF DebtInv, SavedSoFar, Busy
  <2>2. f \in cmd.plan.created => owed.before[f] = Absent
    BY <1>7, <1>10 DEF PlanOK, Answered
  <2>3. f \in cmd.plan.overwritten \/ f \in cmd.plan.created \/ f \in cmd.plan.deleted
    BY <1>7, <1>10 DEF Lists
  <2> QED BY <1>2, <1>3, <1>5, <2>1, <2>2, <2>3 DEF InUndo
<1>11. Lists(undo.state)' = owed.changing /\ Disjoint(undo.state)'
  BY <1>3, <1>7 DEF Lists, Disjoint, PlanOK
<1>12. Answered' = Answered BY <1>2 DEF Answered
<1>13. Payable'
  BY <1>2, <1>5, <1>6, <1>9, <1>10, <1>11, <1>12, <1>1 DEF DebtInv, Payable, Busy
<1>14. SavedSoFar' /\ Standing' BY <1>2, <1>5 DEF SavedSoFar, Standing, Busy
<1> QED BY <1>13, <1>14 DEF DebtInv

(* What changes in the project while the undo directory is whole: files the   *)
(* undo answers for by its copies, and files the backup holds.               *)
LEMMA PayableKept ==
    ASSUME DebtInv, StateRead, UNCHANGED <<backups, undo, owed>>, cmd'.at # "clearing",
           \A f \in Files : \/ project'[f] = project[f]
                            \/ (owed # None /\ f \notin Reports => f \in owed.changing \/ InItsBackup(f))
    PROVE  Payable'
<1>1. /\ Answered' = Answered /\ Answered \subseteq Files \ Reports /\ StateRead'
      /\ \A f \in Files : InUndo(f)' = InUndo(f) /\ InItsBackup(f)' = InItsBackup(f)
  BY DEF Answered, StateRead, InUndo, InItsBackup
<1> QED BY <1>1 DEF DebtInv, Payable, Busy

LEMMA WritingDebt ==
    ASSUME TypeInv, StoreInv, RestoreInv, DebtInv, Busy("writing"),
           UNCHANGED <<backups, undo, owed>>, cmd'.at \in {"writing", "idle"},
           \A f \in Files : \/ project'[f] = project[f]
                            \/ f \in cmd.todo \cap DOMAIN backups[cmd.num].data
    PROVE  DebtInv'
<1>1. StateRead /\ owed # None /\ Restorable(cmd.num)
  BY DEF DebtInv, Standing, TypeInv, PhaseOK, Busy
<1>2. PlanOK(owed.before) /\ owed.num = cmd.num /\ owed.changing = Lists(cmd.plan)
  BY DEF RestoreInv, Planned, Restoring, Busy
<1>3. Agree(backups[cmd.num].manifest, backups[cmd.num].data) /\ owed.num # None
  <2>1. cmd.num \in 1..MaxNumber BY <1>1, PlanTypes DEF TypeInv
  <2> QED BY <1>1, <1>2, <2>1, NoneAssumption, BoundAssumption DEF StoreInv, Restorable
<1>4. ASSUME NEW f \in Files, project'[f] # project[f]
      PROVE  f \in owed.changing \/ InItsBackup(f) \/ f \in Reports
  <2>1. /\ f \in cmd.plan.writes /\ f \in InBackup(cmd.num)
        /\ f \in DOMAIN backups[cmd.num].data
    BY <1>2, <1>4 DEF RestoreInv, Reached, PlanOK
  <2>2. CASE f \in cmd.plan.overwritten \cup cmd.plan.created
    BY <1>2, <2>2 DEF Lists
  <2>3. CASE f \notin Reports \cup cmd.plan.overwritten \cup cmd.plan.created
    <3>1. owed.before[f] = backups[cmd.num].manifest[f] BY <1>2, <2>1, <2>3 DEF PlanOK
    <3>2. backups[cmd.num].data[f] = backups[cmd.num].manifest[f]
      BY <1>3, <2>1, <2>3 DEF Agree, InBackup
    <3> QED BY <1>2, <1>3, <2>1, <3>1, <3>2 DEF InItsBackup
  <2> QED BY <2>2, <2>3
<1>5. Payable'
  <2>1. /\ cmd'.at # "clearing"
        /\ \A f \in Files : \/ project'[f] = project[f]
                            \/ (owed # None /\ f \notin Reports => f \in owed.changing \/ InItsBackup(f))
    BY <1>4
  <2> QED BY ONLY DebtInv, <1>1, <2>1, UNCHANGED <<backups, undo, owed>>, PayableKept
<1>6. SavedSoFar' /\ Standing' BY <1>1 DEF SavedSoFar, Standing, StateRead, Busy
<1> QED BY <1>5, <1>6 DEF DebtInv

LEMMA RemovingDebt ==
    ASSUME TypeInv, RestoreInv, DebtInv, StartRemoving \/ \E f \in Files : Remove(f)
    PROVE  DebtInv'
<1>1. StateRead BY DEF DebtInv, Standing, StartRemoving, Remove, Busy
<1>2. UNCHANGED <<backups, undo, owed>> /\ cmd'.at = "removing"
  <2>1. CASE StartRemoving
    <3>1. cmd \in RestoringCommand
      BY <2>1, Phases DEF StartRemoving, TypeInv, TypeOK, Busy, RestoringCommand
    <3> QED BY <2>1, <3>1 DEF StartRemoving, RestoringCommand, history
  <2>2. ASSUME NEW f \in Files, Remove(f)
        PROVE  UNCHANGED <<backups, undo, owed>> /\ cmd'.at = "removing"
    BY <2>2, TickedCommand DEF Remove, TypeInv, TypeOK, Busy, Restoring, history
  <2> QED BY <2>1, <2>2
<1>3. \A f \in Files : project'[f] = project[f] \/ f \in owed.changing
  <2>1. CASE StartRemoving BY <2>1 DEF StartRemoving
  <2>2. ASSUME NEW f \in Files, Remove(f)
        PROVE  \A g \in Files : project'[g] = project[g] \/ g \in owed.changing
    <3>1. f \in cmd.plan.deleted /\ owed.changing = Lists(cmd.plan)
      BY <2>2 DEF Remove, RestoreInv, Reached, Planned, Busy, Restoring
    <3>2. f \in owed.changing BY <3>1 DEF Lists
    <3>3. \A g \in Files \ {f} : project'[g] = project[g]
      BY <2>2 DEF Remove, TypeInv, TypeOK
    <3> QED BY <3>2, <3>3
  <2> QED BY <2>1, <2>2
<1>4. Payable'
  <2>1. /\ cmd'.at # "clearing"
        /\ \A f \in Files : \/ project'[f] = project[f]
                            \/ (owed # None /\ f \notin Reports => f \in owed.changing \/ InItsBackup(f))
    BY <1>2, <1>3
  <2> QED BY ONLY DebtInv, <1>1, <1>2, <2>1, PayableKept
<1>5. SavedSoFar' /\ Standing' BY <1>1, <1>2 DEF SavedSoFar, Standing, StateRead, Busy
<1> QED BY <1>4, <1>5 DEF DebtInv

(* A file the undo turns to is on its lists, and comes back as it was.       *)
LEMMA TurnedTo ==
    ASSUME TypeInv, DebtInv, Busy("undoing"), NEW f \in InTurn
    PROVE  /\ f \in cmd.todo /\ f \in Lists(undo.state)
           /\ owed # None => f \in owed.changing
           /\ owed # None /\ f \in Answered => InUndo(f) /\ Disjoint(undo.state)
<1>1. f \in cmd.todo BY DEF InTurn
<1>2. StateRead /\ cmd.todo \subseteq Lists(undo.state)
  BY DEF DebtInv, Standing, Busy
<1> QED BY <1>1, <1>2 DEF DebtInv, Payable

LEMMA UndoingDebt ==
    ASSUME TypeInv, DebtInv, NEW f \in Files,
           BringBack(f) \/ BringBackFails(f) \/ TakeAway(f)
    PROVE  DebtInv'
<1>1. Busy("undoing") /\ f \in InTurn /\ UNCHANGED <<backups, undo, owed>>
  BY DEF BringBack, BringBackFails, TakeAway, history
<1>2. /\ cmd'.at = "undoing" /\ cmd'.todo = cmd.todo \ {f}
      /\ cmd.failed => cmd'.failed
      /\ FailedOn(f) => cmd'.failed
  BY TickedCommand DEF BringBack, BringBackFails, TakeAway, TypeInv, TypeOK, Busy
<1>3. StateRead /\ cmd.todo \subseteq Lists(undo.state)
  BY <1>1 DEF DebtInv, Standing, Busy
<1>4. \A g \in Files \ {f} : project'[g] = project[g]
  BY DEF BringBack, BringBackFails, TakeAway, TypeInv, TypeOK
<1>5. Payable'
  <2>1. /\ cmd'.at # "clearing"
        /\ \A g \in Files : \/ project'[g] = project[g]
                            \/ (owed # None => g \in owed.changing \/ InItsBackup(g))
    BY <1>1, <1>2, <1>4, TurnedTo
  <2> QED BY ONLY DebtInv, <1>1, <1>3, <2>1, PayableKept
<1>6. ASSUME owed # None, ~cmd'.failed, f \in Answered PROVE project'[f] = owed.before[f]
  <2>1. InUndo(f) /\ Disjoint(undo.state) BY <1>1, <1>6, TurnedTo
  <2>2. project \in [Files -> Content \cup {Absent}] BY DEF TypeInv, TypeOK
  <2>3. CASE BringBack(f)
    <3>1. project'[f] = Copy(f)[f] /\ f \notin undo.state.created
      BY <2>2, <2>3 DEF BringBack
    <3> QED BY <2>1, <3>1 DEF InUndo, Disjoint, Copy
  <2>4. CASE TakeAway(f)
    <3>1. project'[f] = Absent /\ f \in undo.state.created
      BY <1>2, <1>6, <2>2, <2>4 DEF TakeAway
    <3> QED BY <2>1, <3>1 DEF InUndo, Disjoint
  <2>5. ~BringBackFails(f) BY <1>2, <1>6 DEF BringBackFails
  <2> QED BY <2>3, <2>4, <2>5
<1>7. Standing'
  <2>1. StateRead' /\ Lists(undo.state)' = Lists(undo.state) /\ Answered' = Answered
        /\ Answered \subseteq Files
    BY <1>1, <1>3 DEF StateRead, Lists, Answered
  <2>2. owed # None /\ ~cmd'.failed =>
          \A g \in (Answered \cap owed.changing) \ cmd'.todo : project'[g] = owed.before[g]
    BY <1>1, <1>2, <1>4, <1>6, <2>1 DEF DebtInv, Standing
  <2> QED BY <1>1, <1>2, <1>3, <2>1, <2>2 DEF Standing, Busy
<1>8. SavedSoFar' BY <1>2 DEF SavedSoFar, Busy
<1> QED BY <1>5, <1>7, <1>8 DEF DebtInv

LEMMA StartUndoDebt == ASSUME TypeInv, DebtInv, StartUndo PROVE DebtInv'
<1>1. /\ cmd'.at = "undoing" /\ cmd'.todo = Lists(undo.state) /\ StateRead
      /\ UNCHANGED <<project, backups, undo, owed>>
  BY DEF StartUndo, history
<1>2. Payable' BY <1>1 DEF DebtInv, Payable, Answered, InUndo, InItsBackup, StateRead, Busy
<1>3. Standing' BY <1>1 DEF DebtInv, Standing, Payable, Answered, StateRead, Busy
<1> QED BY <1>1, <1>2, <1>3 DEF DebtInv, SavedSoFar, Busy

LEMMA KilledDebt ==
    ASSUME TypeInv, StoreInv, RestoreInv, DebtInv, Killed PROVE DebtInv'
<1>1. cmd'.at = "idle" BY IdleCommand DEF Killed
<1>2. CASE KilledClearing
  <2>1. UNCHANGED <<project, undo, owed>> /\ (owed # None => owed.num = None)
    BY <1>2 DEF KilledClearing, DebtInv, Payable
  <2>2. Payable'
    BY <1>1, <2>1 DEF DebtInv, Payable, Answered, InUndo, StateRead, Busy
  <2> QED BY <1>1, <2>2 DEF DebtInv, SavedSoFar, Standing, Busy
<1>3. CASE KilledDroppingUndo
  BY <1>1, <1>3, DebtNone DEF KilledDroppingUndo, Restoring
<1>4. CASE KilledWritingState
  <2>1. undo'.state = Torn /\ UNCHANGED <<project, backups, owed>>
    <3>1. undo \in [files : Copies, deleted : Copies, state : States \cup {None, Torn}]
      BY DEF TypeInv, TypeOK
    <3> HIDE DEF States, Copies
    <3> QED BY <1>4, <3>1 DEF KilledWritingState
  <2>2. ~StateRead /\ ~StateRead'
    BY <1>4, <2>1 DEF KilledWritingState, StateRead, DebtInv, Standing
  <2>3. Answered' = Answered BY <2>1 DEF Answered
  <2>4. Payable' BY <1>1, <2>1, <2>2, <2>3 DEF DebtInv, Payable, InItsBackup, Busy
  <2> QED BY <1>1, <2>4 DEF DebtInv, SavedSoFar, Standing, Busy
<1>5. CASE KilledCopying
  <2>1. UNCHANGED <<backups, undo, owed>> BY <1>5 DEF KilledCopying
  <2>2. CASE Busy("writing") /\ project' \in ProjectTorn(cmd.todo \cap DOMAIN backups[cmd.num].data)
    <3>1. \A f \in Files : \/ project'[f] = project[f]
                          \/ f \in cmd.todo \cap DOMAIN backups[cmd.num].data
      BY <2>2 DEF ProjectTorn
    <3> QED BY <1>1, <2>1, <2>2, <3>1, WritingDebt
  <2>3. CASE Busy("undoing") /\ project' \in ProjectTorn(Unfinished)
    <3>1. \A f \in Files : project'[f] = project[f] \/ f \in InTurn
      BY <2>3 DEF ProjectTorn, Unfinished
    <3>2. StateRead BY <2>3 DEF DebtInv, Standing, Busy
    <3>3. /\ cmd'.at # "clearing"
          /\ \A f \in Files : \/ project'[f] = project[f]
                              \/ (owed # None /\ f \notin Reports => f \in owed.changing \/ InItsBackup(f))
      BY <1>1, <2>3, <3>1, TurnedTo
    <3>4. Payable' BY ONLY DebtInv, <2>1, <3>2, <3>3, PayableKept
    <3> QED BY <1>1, <3>4 DEF DebtInv, SavedSoFar, Standing, Busy
  <2> QED BY <1>5, <2>2, <2>3 DEF KilledCopying
<1>6. CASE KilledElsewhere
  BY <1>1, <1>6, DebtQuiet DEF KilledElsewhere, Restoring
<1> QED BY <1>2, <1>3, <1>4, <1>5, <1>6 DEF Killed

LEMMA DebtStep == TypeInv /\ StoreInv /\ RestoreInv /\ DebtInv /\ [Next]_vars => DebtInv'
<1> SUFFICES ASSUME TypeInv, StoreInv, RestoreInv, DebtInv, [Next]_vars PROVE DebtInv' OBVIOUS
<1> USE DEF history
<1>types. cmd \in Commands /\ DOMAIN backups \subseteq 1..MaxNumber BY DEF TypeInv, TypeOK
<1>1. ASSUME NEW f \in Files, Edit(f) \/ Save(f) \/ SaveFails(f) PROVE DebtInv'
  BY <1>1, EditDebt, SaveDebt
<1>2. ASSUME NEW f \in Files, CopyIn(f) \/ CopyInFails(f) PROVE DebtInv'
  <2>1. cmd \in [at : {"copying"}, num : 1..MaxNumber, todo : SUBSET Files,
                manifest : Copies, data : Copies]
    BY <1>2, <1>types, Phases DEF CopyIn, CopyInFails
  <2>2. cmd'.at = "copying" /\ cmd'.num = cmd.num
    BY <1>2, <2>1 DEF CopyIn, CopyInFails, Ticked
  <2>3. cmd.num \notin DOMAIN backups BY <2>1 DEF DebtInv, Standing, Busy
  <2> QED BY <1>2, <2>2, <2>3, DebtQuiet DEF CopyIn, CopyInFails, Restoring
<1>3. ASSUME NEW f \in Files, Write(f) \/ WriteFails(f) PROVE DebtInv'
  <2>1. cmd'.at = "writing"
    BY <1>3, <1>types, TickedCommand DEF Write, WriteFails, Busy, Restoring
  <2>2. \A g \in Files : \/ project'[g] = project[g]
                        \/ g \in cmd.todo \cap DOMAIN backups[cmd.num].data
    BY <1>3 DEF Write, WriteFails, TypeInv, TypeOK
  <2> QED BY <1>3, <2>1, <2>2, WritingDebt DEF Write, WriteFails
<1>4. ASSUME NEW f \in Files, Remove(f) PROVE DebtInv'
  BY <1>4, RemovingDebt
<1>5. ASSUME NEW f \in Files, BringBack(f) \/ BringBackFails(f) \/ TakeAway(f) PROVE DebtInv'
  BY <1>5, UndoingDebt
<1>6. ASSUME NEW n \in DOMAIN backups, Restore(n) \/ RestoreDeleted(n) PROVE DebtInv'
  BY <1>6, DebtQuiet DEF Restore, RestoreDeleted, Ask, Restoring
<1>7. CASE Configure BY <1>7, DebtQuiet DEF Configure
<1>8. CASE Create
  BY <1>8, <1>types, StartCopyingCommand, NextNumberNat, DebtQuiet DEF Create, Restoring
<1>9. CASE Recreate
  BY <1>9, <1>types, StartCopyingCommand, NextNumberNat, DebtNone DEF Recreate, Restoring
<1>10. CASE Publish BY <1>10, PublishDebt
<1>11. CASE List \/ EndIndex \/ Scrub \/ RecreateNothingToClear
  BY <1>11, DebtQuiet
  DEF List, EndIndex, Scrub, RecreateNothingToClear, BeginIndex, Idle, Restoring
<1>12. CASE (\E recreate \in BOOLEAN : Clear(recreate)) \/ RemoveBackups
  BY <1>12, ClearDebt
<1>13. CASE ClearUndo
  BY <1>13, DebtNone DEF ClearUndo, Busy, Restoring
<1>14. CASE Accept BY <1>14, AcceptDebt
<1>15. CASE WriteState BY <1>15, WriteStateDebt
<1>16. CASE StartRemoving BY <1>16, RemovingDebt
<1>17. CASE Decline \/ EndRestore
  BY <1>17, IdleCommand, DebtQuiet DEF Decline, EndRestore, Restoring
<1>18. CASE StartUndo BY <1>18, StartUndoDebt
<1>19. CASE EndUndo
  BY <1>19, IdleCommand, DebtQuiet, DebtNone DEF EndUndo, Restoring
<1>20. CASE Killed BY <1>20, KilledDebt
<1>21. CASE UNCHANGED vars BY <1>21, DebtQuiet DEF vars
<1> QED
  BY <1>1, <1>2, <1>3, <1>4, <1>5, <1>6, <1>7, <1>8, <1>9, <1>10, <1>11, <1>12, <1>13, <1>14,
     <1>15, <1>16, <1>17, <1>18, <1>19, <1>20, <1>21 DEF Next

LEMMA Debt == Spec => []DebtInv
<1>1. Init => DebtInv
  BY IdleCommand DEF Init, DebtInv, SavedSoFar, Payable, Standing, Busy
<1> QED BY <1>1, Types, Store, Restores, DebtStep, PTL DEF Spec

(* From the user's yes to the end of the undo, through every failure and      *)
(* kill, what a file was before the restore is in the project, in the undo   *)
(* directory or in the backup (restore_backup, undo_last_restore); a file    *)
(* under the name of the backup's own report is not answered for.            *)
THEOREM NothingIsLost == Spec => []Recoverable
<1>1. DebtInv => Recoverable
  BY DEF DebtInv, Payable, Recoverable
<1> QED BY <1>1, Debt, PTL

(* An undo that drops the undo directory has brought back every file the      *)
(* restore set out to change (undo_last_restore keeps it after a failure).   *)
THEOREM UndosBringBack == Spec => UndoBringsBack
<1>1. TypeInv /\ DebtInv /\ [Next]_vars /\ UndoEnds =>
        \A f \in Answered \cap owed.changing : project'[f] = owed.before[f]
  <2> SUFFICES ASSUME TypeInv, DebtInv, [Next]_vars, Busy("undoing"), owed # None, owed' = None
               PROVE  \A f \in Answered \cap owed.changing : project'[f] = owed.before[f]
    BY DEF UndoEnds
  <2> USE DEF Busy
  <2>1. EndUndo \/ KilledDroppingUndo
    <3>1. owed' # owed OBVIOUS
    <3>2. ASSUME NEW f \in Files, Edit(f) PROVE FALSE
      <4>1. owed \in Debts BY DEF TypeInv, TypeOK
      <4>2. owed' = [owed EXCEPT !.touched = @ \cup {f}] /\ f \in Files BY <3>2 DEF Edit
      <4>3. owed' \in Debts BY <4>1, <4>2, TouchedDebt
      <4> QED BY <4>3, NoneAssumption
    <3>3. ASSUME NEW f \in Files,
                 \/ CopyIn(f) \/ CopyInFails(f) \/ Save(f) \/ SaveFails(f) \/ Write(f)
                 \/ WriteFails(f) \/ Remove(f)
                 \/ BringBack(f) \/ BringBackFails(f) \/ TakeAway(f)
          PROVE  FALSE
      BY <3>1, <3>3 DEF CopyIn, CopyInFails, Save, SaveFails, Write, WriteFails, Remove,
                        BringBack, BringBackFails, TakeAway, history
    <3>4. ASSUME NEW n, Restore(n) \/ RestoreDeleted(n) PROVE FALSE
      BY <3>4 DEF Restore, RestoreDeleted
    <3>5. ~(Configure \/ Create \/ Publish \/ List \/ EndIndex \/ RemoveBackups \/ Scrub)
      BY DEF Configure, Create, Publish, List, EndIndex, RemoveBackups, Scrub
    <3>6. ~(RecreateNothingToClear \/ Recreate \/ ClearUndo \/ Decline \/ Accept)
      BY DEF RecreateNothingToClear, Recreate, ClearUndo, Decline, Accept
    <3>7. ~(WriteState \/ StartRemoving \/ EndRestore \/ StartUndo)
      BY DEF WriteState, StartRemoving, EndRestore, StartUndo
    <3>8. \A recreate : ~Clear(recreate) BY DEF Clear
    <3>9. Killed => KilledDroppingUndo
      BY <3>1 DEF Killed, KilledClearing, KilledWritingState, KilledCopying, KilledElsewhere
    <3>10. Next BY <3>1 DEF vars, history
    <3> QED BY <3>2, <3>3, <3>4, <3>5, <3>6, <3>7, <3>8, <3>9, <3>10 DEF Next
  <2>2. cmd.todo = {} /\ ~cmd.failed /\ UNCHANGED project
    BY <2>1 DEF EndUndo, KilledDroppingUndo
  <2> QED BY <2>2 DEF DebtInv, Standing
<1> QED BY <1>1, Types, Debt, PTL DEF Spec, UndoBringsBack
===============================================================================
