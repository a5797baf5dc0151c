----------------------------- MODULE EditorBuffers -----------------------------
(***************************************************************************)
(* The text editor's buffers (src/src/editor): one live buffer, tabs that  *)
(* hold copies of the others, undo and redo, the files on disk, the crash   *)
(* recovery snapshots, saving by hand, automatically and on closing, other  *)
(* programs that write or delete the files, failing writes, and kills.     *)
(*                                                                         *)
(* A text is a value that remembers the file it was written for; cursors,   *)
(* rendering, encodings and modes are left out, and what is typed between    *)
(* two undo snapshots is one edit.  The editor knows a file by the path it    *)
(* was opened with: here a buffer's path is the file that this path names    *)
(* now, and what makes two names of one file, or one name another file, is   *)
(* an action of its own.  The live buffer is                                *)
(* authoritative: the tab of the active buffer is brought up to date only   *)
(* when save_active_tab runs, and an editor may have no tab for it at all.  *)
(***************************************************************************)
EXTENDS Naturals, Sequences, SequencesExt

CONSTANTS Files, Scratch,   \* files, and the welcome buffer's file
          Worked,           \* bound: the files the user types in and saves
          Absent, None,
          MaxTabs,          \* editor.toml max_tabs
          SnapEvery,        \* 30 in the code: edits between snapshots
          UndoDepth,        \* editor.toml undo_depth
          MaxTexts,         \* bound: edits, renames, and changes by other programs
          MaxFaults         \* bound: steps in which writes fail

ASSUME ScratchAssumption == Scratch \notin Files
ASSUME WorkedAssumption == Worked \subseteq Files \cup {Scratch}
ASSUME MarkAssumption ==
    /\ Absent \notin [of : Files \cup {Scratch}, n : Nat]
    /\ None \notin [of : Files \cup {Scratch}, n : Nat]
ASSUME SizeAssumption == /\ MaxTabs \in Nat \ {0} /\ SnapEvery \in Nat \ {0}
                         /\ UndoDepth \in Nat \ {0}
                         /\ MaxTexts \in Nat /\ MaxFaults \in Nat

VARIABLES running,   \* an editor process is up
          ed,        \* its state; Shut while none is
          disk,      \* disk[p]: the text in file p, or Absent
          rec,       \* rec[p]: the readable recovery snapshot of p, or None
          autoSave,  \* editor.toml auto_save
          texts,     \* texts made and files renamed so far
          faults,    \* steps in which writes failed so far
          mishaps    \* history: what put the buffers out of step (below)
vars == <<running, ed, disk, rec, autoSave, texts, faults, mishaps>>

(* After a save that failed inside close_all_tabs the live buffer has another  *)
(* file's undo stack; after a file was opened with a full tab bar it has no  *)
(* tab of its own.  A file asked for by another spelling of its path is open *)
(* twice; after :cd a relative path names another file; and a file can be    *)
(* renamed to the name of another open buffer.                             *)
Mishaps == {"close all", "full bar", "spelling", "cd", "rename"}
Paths == Files \cup {Scratch}
Text == [of : Paths, n : Nat]
Blank(p) == [of |-> p, n |-> 0]      \* empty, or cut short by a failed write
Original(p) == [of |-> p, n |-> 1]
NewText(p) == [of |-> p, n |-> texts + 1]

Buffer == [path : Paths, text : Text, dirty : BOOLEAN, undo : Seq(Text), redo : Seq(Text),
           count : 0..(SnapEvery - 1)]
Guards == {<<"none">>} \cup ({"tab"} \X Nat) \cup ({"open"} \X Paths)
NoGuard == <<"none">>
Editor == [buf : Buffer, tabs : Seq(Buffer), active : Nat, guard : Guards,
           agrees : BOOLEAN]   \* disk_fingerprint is that of the live file
World == [ed |-> ed, disk |-> disk, rec |-> rec]

(* A buffer just loaded; count (edit_count modulo SnapEvery) is not reset.  *)
Fresh(p, t, c) == [path |-> p, text |-> t, dirty |-> FALSE, undo |-> <<>>, redo |-> <<>>,
                   count |-> c]
(* What is left of the active buffer's tab until save_active_tab fills it: only *)
(* its path is ever read.                                                  *)
Stale(p) == Fresh(p, Blank(p), 0)
Shut == [buf |-> Fresh(Scratch, Blank(Scratch), 0), tabs |-> <<>>, active |-> 1,
         guard |-> NoGuard, agrees |-> TRUE]
OnDisk(d, p) == IF d[p] = Absent THEN Blank(p) ELSE d[p]

Init == /\ running = FALSE /\ ed = Shut
        /\ disk = [p \in Paths |-> Original(p)]
        /\ rec = [p \in Paths |-> None]
        /\ autoSave \in BOOLEAN
        /\ texts = 1 /\ faults = 0 /\ mishaps = {}

-------------------------------------------------------------------------------
(* Pure steps on the editor's state e with the files d                      *)

TabOf(e, p) == {i \in DOMAIN e.tabs : e.tabs[i].path = p}
SaveActive(e) == IF e.active \in DOMAIN e.tabs THEN [e EXCEPT !.tabs[e.active] = e.buf] ELSE e
Shown(e, i) == IF i \in DOMAIN e.tabs
               THEN [e EXCEPT !.active = i, !.buf = e.tabs[i], !.tabs[i] = Stale(@.path)]
               ELSE [e EXCEPT !.active = i]

(* unsaved_guard: the first attempt only warns, repeating it goes through.  *)
Blocked(e, what) == e.buf.dirty /\ e.guard # what
SwitchTab(e, d, i) ==
    IF i = e.active \/ i \notin DOMAIN e.tabs THEN e
    ELSE IF Blocked(e, <<"tab", i>>) THEN [e EXCEPT !.guard = <<"tab", i>>]
    ELSE [Shown(SaveActive(e), i) EXCEPT !.guard = NoGuard, !.agrees = TRUE]

LoadedKeepsUndo(e, d, p) ==
    [e EXCEPT !.buf = [Fresh(p, OnDisk(d, p), e.buf.count) EXCEPT !.undo = e.buf.undo],
              !.guard = IF p = e.buf.path THEN @ ELSE NoGuard, !.agrees = TRUE]
Loaded(e, d, p) ==
    [e EXCEPT !.buf = Fresh(p, OnDisk(d, p), e.buf.count),
              !.guard = IF p = e.buf.path THEN @ ELSE NoGuard, !.agrees = TRUE]
Pushed(e) == IF Len(e.tabs) >= MaxTabs THEN e
             ELSE [e EXCEPT !.tabs = Append(@, Stale(e.buf.path)), !.active = Len(e.tabs) + 1]
OpenFileAgain(e, d, p) ==
    IF e.buf.path # p /\ Blocked(e, <<"open", p>>)
    THEN [SaveActive(e) EXCEPT !.guard = <<"open", p>>]
    ELSE Pushed(Loaded(SaveActive(e), d, p))
OpenFile(e, d, p) ==
    IF TabOf(e, p) # {} THEN SwitchTab(e, d, CHOOSE i \in TabOf(e, p) : TRUE)
    ELSE IF e.buf.path # p /\ Blocked(e, <<"open", p>>)
    THEN [SaveActive(e) EXCEPT !.guard = <<"open", p>>]
    ELSE Pushed(Loaded(SaveActive(e), d, p))

(* check_file_changed, in every round of the main loop.                     *)
Checked(e, d) ==
    LET p == e.buf.path IN
    IF p = Scratch \/ e.agrees THEN e
    ELSE IF d[p] = Absent \/ d[p] = e.buf.text \/ e.buf.dirty THEN [e EXCEPT !.agrees = TRUE]
    ELSE [e EXCEPT !.buf = Fresh(p, d[p], e.buf.count), !.agrees = TRUE]

(* A write goes through, is refused, or is cut short after the file was     *)
(* truncated.                                                              *)
Outcomes == {"ok", "refused", "cut"}
Written(d, b, o) == [d EXCEPT ![b.path] = CASE o = "ok" -> b.text
                                            [] o = "cut" -> Blank(b.path)
                                            [] OTHER -> @]
SavedForgets(w, o) ==
    LET b == w.ed.buf IN
    [w EXCEPT !.disk = Written(w.disk, b, o), !.rec[b.path] = None,
              !.ed.buf.dirty = @ /\ o # "ok", !.ed.agrees = (@ /\ o # "cut") \/ o = "ok"]
Saved(w, o) ==
    LET b == w.ed.buf  d == Written(w.disk, b, o) IN
    IF o = "ok"
    THEN [ed   |-> [w.ed EXCEPT !.buf.dirty = FALSE, !.agrees = TRUE],
          disk |-> d,
          rec  |-> [w.rec EXCEPT ![b.path] = None]]
    ELSE [w EXCEPT !.disk = d, !.ed.agrees = @ /\ o # "cut"]

(* close_tab: unsaved text is saved first, and a save that fails keeps the   *)
(* tab.  The last tab makes room for the welcome buffer.                   *)
CloseActive(w, o) ==
    LET s == IF w.ed.buf.dirty THEN Saved(w, o) ELSE w
        i == s.ed.active
        left == [s.ed EXCEPT !.tabs = RemoveAt(@, i)]
        swapped == LET n == OpenFile(s.ed, s.disk, Scratch) IN [n EXCEPT !.tabs = RemoveAt(@, 1)]
    IN IF Len(w.ed.tabs) = 1 /\ w.ed.buf.path = Scratch THEN w
       ELSE IF s.ed.buf.dirty THEN s
       ELSE IF Len(s.ed.tabs) = 1 THEN [s EXCEPT !.ed = Shown(swapped, 1)]
       ELSE [s EXCEPT !.ed = Shown([left EXCEPT !.agrees = FALSE],
                                   IF i > Len(left.tabs) THEN i - 1 ELSE i)]
CloseBackground(w, i, o) ==
    LET b == w.ed.tabs[i]
        saves == b.dirty /\ b.path # Scratch
        d == IF saves THEN Written(w.disk, b, o) ELSE w.disk
    IN IF saves /\ o # "ok" THEN [w EXCEPT !.disk = d]
       ELSE [w EXCEPT !.disk = d, !.ed.tabs = RemoveAt(@, i),
                      !.ed.active = IF i < @ THEN @ - 1 ELSE @]
CloseUnsaved(w, i, o) == IF i = w.ed.active THEN CloseActive(w, o)
                         ELSE [w EXCEPT !.ed.tabs = RemoveAt(@, i),
                                        !.ed.active = IF i < @ THEN @ - 1 ELSE @]
CloseTabAt(w, i, o) == IF i = w.ed.active THEN CloseActive(w, o) ELSE CloseBackground(w, i, o)

-------------------------------------------------------------------------------
(* Actions of the user in a running editor                                 *)

Spend(o) == /\ o = "ok" \/ faults < MaxFaults
            /\ faults' = IF o = "ok" THEN faults ELSE faults + 1
Become(w) == ed' = w.ed /\ disk' = w.disk /\ rec' = w.rec

(* snapshot, the edit, save_if_auto.  Every SnapEvery-th edit first puts the  *)
(* text before it into the recovery file.                                  *)
Trim(s) == IF Len(s) > UndoDepth THEN Tail(s) ELSE s
Edited(b, t) ==
    [b EXCEPT !.text = t, !.dirty = TRUE, !.undo = Trim(Append(@, b.text)), !.redo = <<>>,
              !.count = (@ + 1) % SnapEvery]
SnapshotDue(b) == (b.count + 1) % SnapEvery = 0
Snapped(r, b, s) ==   \* fs::write truncates the old snapshot; its error is dropped
    IF SnapshotDue(b) /\ s # "refused"
    THEN [r EXCEPT ![b.path] = IF s = "ok" THEN b.text ELSE None]
    ELSE r
Typed(s) == [World EXCEPT !.ed.buf = Edited(ed.buf, NewText(ed.buf.path)),
                          !.rec = Snapped(rec, ed.buf, s)]
Types(s) == /\ running /\ texts < MaxTexts /\ ed.buf.path \in Worked
            /\ s = "ok" \/ SnapshotDue(ed.buf)
            /\ texts' = texts + 1
            /\ UNCHANGED <<running, autoSave, mishaps>>
(* Most edits end in save_if_auto; deleting a selection does not.            *)
Edit(s) == Types(s) /\ Spend(s) /\ Become(Typed(s))
EditSaving(s, o) == /\ Types(s) /\ autoSave /\ ed.buf.path # Scratch
                    /\ Spend(IF s = "ok" THEN o ELSE s)
                    /\ Become(Saved(Typed(s), o))

Quiet == UNCHANGED <<running, autoSave, texts, mishaps>>
Unspent == UNCHANGED <<disk, rec, faults>>
Undo == /\ running /\ ed.buf.undo # <<>>
        /\ ed' = [ed EXCEPT !.buf.text = Last(ed.buf.undo), !.buf.undo = Front(@),
                            !.buf.redo = Append(@, ed.buf.text), !.buf.dirty = TRUE]
        /\ Quiet /\ Unspent
Redo == /\ running /\ ed.buf.redo # <<>>
        /\ ed' = [ed EXCEPT !.buf.text = Last(ed.buf.redo), !.buf.redo = Front(@),
                            !.buf.undo = Append(@, ed.buf.text), !.buf.dirty = TRUE]
        /\ Quiet /\ Unspent
Save(o) == running /\ ed.buf.path \in Worked /\ Become(Saved(World, o)) /\ Spend(o) /\ Quiet
(* :e!                                                                      *)
Reload == /\ running /\ disk[ed.buf.path] # Absent
          /\ ed' = [ed EXCEPT !.buf = Fresh(@.path, disk[@.path], @.count),
                              !.agrees = TRUE]
          /\ Unspent /\ UNCHANGED <<running, autoSave, texts, mishaps>>
Poll == running /\ ed' = Checked(ed, disk) /\ Quiet /\ Unspent
Switch(i) == running /\ ed' = SwitchTab(ed, disk, i) /\ Quiet /\ Unspent

(* Open from the prompt, the finder or the side bar; touch creates the file.  *)
(* Going ahead over unsaved text was asked for by repeating the command.   *)
Touched(p) == IF disk[p] = Absent THEN [disk EXCEPT ![p] = Blank(p)] ELSE disk
Open(p) ==
    LET d == Touched(p) IN
    /\ running
    /\ disk' = d
    /\ ed' = OpenFile([ed EXCEPT !.agrees = @ /\ (ed.buf.path = p => d = disk)], d, p)
    /\ mishaps' = IF Len(ed.tabs) >= MaxTabs /\ TabOf(ed, ed'.buf.path) = {}
                  THEN mishaps \cup {"full bar"} ELSE mishaps
    /\ UNCHANGED <<running, rec, autoSave, texts, faults>>
(* A file that is open, asked for by another spelling of its path.           *)
IsOpen(p) == ed.buf.path = p \/ TabOf(ed, p) # {}
OpenSpelled(p) ==
    LET e == SaveActive([ed EXCEPT !.agrees = @ /\ (ed.buf.path = p => disk[p] # Absent)]) IN
    /\ running /\ IsOpen(p)
    /\ disk' = Touched(p)
    /\ ed' = IF Blocked(e, <<"open", p>>) THEN [e EXCEPT !.guard = <<"open", p>>]
             ELSE Pushed(Loaded(e, Touched(p), p))
    /\ mishaps' = mishaps \cup {"spelling"}
    /\ UNCHANGED <<running, rec, autoSave, texts, faults>>

(* :cd moves the process: the relative path of a buffer names another file.  *)
PathMoved(b, p, q) == IF b.path = p THEN [b EXCEPT !.path = q] ELSE b
ChangeDir(p, q) ==
    /\ running /\ IsOpen(p) /\ p # q
    /\ ed' = [ed EXCEPT !.buf = PathMoved(ed.buf, p, q),
                        !.tabs = [i \in DOMAIN ed.tabs |-> PathMoved(ed.tabs[i], p, q)],
                        !.agrees = @ /\ ed.buf.path # p]
    /\ mishaps' = mishaps \cup {"cd"}
    /\ UNCHANGED <<running, disk, rec, autoSave, texts, faults>>

(* Renaming a file in the side bar: its tabs follow, with the texts written   *)
(* for it, unless they were opened by another spelling.  The snapshot stays   *)
(* under the old name.                                                     *)
Moved(t, p, q) == IF t.of = p THEN [t EXCEPT !.of = q] ELSE t
AllMoved(s, p, q) == [i \in DOMAIN s |-> Moved(s[i], p, q)]
Renamed(b, p, q) == IF b.path = p
                    THEN [b EXCEPT !.path = q, !.text = Moved(b.text, p, q),
                                   !.undo = AllMoved(b.undo, p, q),
                                   !.redo = AllMoved(b.redo, p, q)]
                    ELSE b
Followed(e, p, q, a) == [e EXCEPT !.buf = Renamed(e.buf, p, q),
                                  !.tabs = [i \in DOMAIN e.tabs |-> Renamed(e.tabs[i], p, q)],
                                  !.agrees = a]
Rename(p, q) ==
    /\ running /\ p # q /\ disk[p] # Absent /\ disk[q] = Absent
    /\ texts < MaxTexts /\ texts' = texts + 1
    /\ disk' = [disk EXCEPT ![p] = Absent, ![q] = Moved(disk[p], p, q)]
    /\ \/ /\ ed' = Followed(ed, p, q, ed.agrees /\ ed.buf.path # q)
          /\ mishaps' = IF IsOpen(p) /\ IsOpen(q) THEN mishaps \cup {"rename"} ELSE mishaps
       \/ /\ ed' = [ed EXCEPT !.agrees = @ /\ ed.buf.path \notin {p, q}]
          /\ UNCHANGED mishaps
    /\ UNCHANGED <<running, rec, autoSave, faults>>

CloseTab(i, o) ==
    /\ running /\ i \in DOMAIN ed.tabs
    /\ o # "ok" => IF i = ed.active THEN ed.buf.dirty
                   ELSE ed.tabs[i].dirty /\ ed.tabs[i].path # Scratch
    /\ Spend(o) /\ Become(CloseTabAt(World, i, o))
    /\ Quiet

(* close_all_tabs: the tabs' texts pass through the live buffer to be saved,  *)
(* whatever becomes of the saves; the live buffer's undo stack stays.       *)
CloseAll(failed, o) ==
    LET e == SaveActive(ed)
        D == {i \in DOMAIN e.tabs : e.tabs[i].dirty /\ e.tabs[i].path # Scratch}
        At(p) == {i \in D : e.tabs[i].path = p}
        last == e.tabs[Max(D)]
        d == [p \in Paths |->
                IF At(p) = {} THEN disk[p]
                ELSE Written(disk, e.tabs[Max(At(p))],
                             IF Max(At(p)) \in failed THEN o ELSE "ok")[p]]
        live == IF D = {} THEN e
                ELSE [e EXCEPT !.buf.path = last.path, !.buf.text = last.text,
                               !.buf.dirty = Max(D) \in failed,
                               !.agrees = Max(D) \notin failed]
    IN /\ running /\ (failed = {} <=> o = "ok") /\ Spend(o)
       /\ failed \subseteq D /\ \A i, j \in failed : i = j
       /\ disk' = d
       /\ rec' = [p \in Paths |-> IF At(p) \ failed # {} THEN None ELSE rec[p]]
       /\ ed' = OpenFile([live EXCEPT !.tabs = <<>>], d, Scratch)
       /\ mishaps' = IF failed = {} THEN mishaps ELSE mishaps \cup {"close all"}
       /\ UNCHANGED <<running, autoSave, texts>>

(* Deleting a file in the side bar: refused over unsaved edits, and its tab   *)
(* closes without a save.                                                  *)
Delete(p) ==
    LET e == SaveActive(ed)
        w == [World EXCEPT !.ed = e]
        closed == IF TabOf(e, p) = {} THEN w
                  ELSE CloseTabAt(w, CHOOSE i \in TabOf(e, p) : TRUE, "ok")
        open == IF closed.ed.tabs = <<>> THEN OpenFile(closed.ed, disk, Scratch) ELSE closed.ed
    IN /\ running /\ disk[p] # Absent
       /\ IF \E i \in TabOf(e, p) : e.tabs[i].dirty
          THEN ed' = e /\ UNCHANGED disk
          ELSE ed' = [open EXCEPT !.agrees = @ /\ open.buf.path # p] /\ disk' = [disk EXCEPT ![p] = Absent]
       /\ UNCHANGED <<rec, faults>> /\ Quiet

SetAuto == running /\ autoSave' = ~autoSave
           /\ UNCHANGED <<running, ed, disk, rec, texts, faults, mishaps>>

(* exit_flow asks about the live buffer and removes every tab's snapshot.     *)
Stopped == running' = FALSE /\ ed' = Shut
SnapshotsOf(e) == {e.buf.path} \cup {e.tabs[i].path : i \in DOMAIN e.tabs}
Removed(r, ps) == [p \in Paths |-> IF p \in ps THEN None ELSE r[p]]
ExitScratch == /\ running /\ ed.buf.path = Scratch
               /\ Stopped /\ rec' = Removed(rec, {Scratch})
               /\ UNCHANGED <<disk, autoSave, texts, faults, mishaps>>
ExitClean == /\ running /\ ed.buf.path # Scratch /\ ~ed.buf.dirty
             /\ Stopped /\ rec' = Removed(rec, SnapshotsOf(ed))
             /\ UNCHANGED <<disk, autoSave, texts, faults, mishaps>>
ExitSaving(o) ==
    LET w == Saved(World, o) IN
    /\ running /\ ed.buf.path # Scratch /\ ed.buf.dirty
    /\ disk' = w.disk
    /\ IF o = "ok" THEN Stopped /\ rec' = Removed(w.rec, SnapshotsOf(ed))
       ELSE UNCHANGED <<running, ed, rec>>
    /\ Spend(o) /\ UNCHANGED <<autoSave, texts, mishaps>>
ExitDiscarding == /\ running /\ ed.buf.path # Scratch /\ ed.buf.dirty /\ ~autoSave
                  /\ Stopped /\ rec' = Removed(rec, SnapshotsOf(ed))
                          /\ UNCHANGED <<disk, autoSave, texts, faults, mishaps>>

-------------------------------------------------------------------------------
(* Kills, other programs, and the next start                               *)

Kill == /\ running /\ Stopped
        /\ UNCHANGED <<disk, rec, autoSave, texts, faults, mishaps>>
KillInSave == /\ running /\ ed.buf.path \in Worked /\ Stopped
              /\ disk' = Written(disk, ed.buf, "cut")
              /\ UNCHANGED <<rec, autoSave, texts, faults, mishaps>>
KillInSnapshot == /\ running /\ texts < MaxTexts /\ ed.buf.path \in Worked
                  /\ SnapshotDue(ed.buf) /\ Stopped
                  /\ rec' = [rec EXCEPT ![ed.buf.path] = None]
                  /\ UNCHANGED <<disk, autoSave, texts, faults, mishaps>>

Others(p) == /\ texts < MaxTexts /\ texts' = texts + 1
             /\ \E t \in {NewText(p), Absent} : disk[p] # t /\ disk' = [disk EXCEPT ![p] = t]
             /\ ed' = IF running /\ ed.buf.path = p THEN [ed EXCEPT !.agrees = FALSE] ELSE ed
             /\ UNCHANGED <<running, rec, autoSave, faults, mishaps>>

(* edit_file: with a readable snapshot the user is asked first.  Recovering  *)
(* writes it over the file, ignores a failing write, and drops the snapshot; *)
(* the recovered buffer counts as modified, its tab does not.             *)
Recover(p, o) ==
    LET d == Written(disk, [path |-> p, text |-> rec[p]], o)
        b == Fresh(p, OnDisk(d, p), 0)
    IN /\ ~running /\ rec[p] \in Text
       /\ running' = TRUE /\ disk' = d /\ rec' = Removed(rec, {p})
       /\ ed' = [Shut EXCEPT !.buf = [b EXCEPT !.dirty = TRUE], !.tabs = <<Stale(p)>>]
       /\ Spend(o) /\ UNCHANGED <<autoSave, texts, mishaps>>

(* Otherwise the file is loaded, and the tabs of the stored session, if there  *)
(* are any, in their order with the asked file last unless it is among them. *)
(* Without a stored session there is no tab at all.                        *)
Sessions == {<<>>} \cup {<<p>> : p \in Paths} \cup
            {s \in Paths \X Paths : s[1] # s[2]}
(* (other: by another spelling than the session's, so once more.)           *)
StartTabs(s, p, other) == IF s = <<>> \/ (p \in ToSet(s) /\ ~other) \/ Len(s) >= MaxTabs
                          THEN s ELSE Append(s, p)
Start(p, s, other) ==
    LET tabs == StartTabs(s, p, other)
        Tab(q) == Fresh(q, OnDisk(disk, q), 0)
        at == {i \in DOMAIN tabs : tabs[i] = p}
        active == IF at # {} /\ ~other THEN CHOOSE i \in at : TRUE
                  ELSE IF tabs = <<>> THEN 1 ELSE Len(tabs)
    IN /\ ~running
       /\ Len(s) <= MaxTabs /\ \A i \in DOMAIN s : disk[s[i]] # Absent
       /\ other => p \in ToSet(s)
       /\ running' = TRUE
       /\ ed' = [Shut EXCEPT !.buf = Tab(p), !.active = active,
                             !.tabs = [i \in DOMAIN tabs |-> IF i = active THEN Stale(tabs[i])
                                                            ELSE Tab(tabs[i])]]
       /\ rec' = IF rec[p] \in Text THEN Removed(rec, {p}) ELSE rec
       /\ mishaps' = IF other THEN mishaps \cup {"spelling"}
                     ELSE IF s # <<>> /\ at = {} THEN mishaps \cup {"full bar"} ELSE mishaps
       /\ UNCHANGED <<disk, autoSave, texts, faults>>

Next == \/ \E o \in Outcomes : \/ Edit(o) \/ Save(o) \/ ExitSaving(o)
                               \/ \E s \in Outcomes : EditSaving(s, o)
                               \/ \E i \in 1..MaxTabs : CloseTab(i, o)
                               \/ \E failed \in SUBSET (1..MaxTabs) : CloseAll(failed, o)
                               \/ \E p \in Paths : Recover(p, o)
        \/ Undo \/ Redo \/ Reload \/ Poll \/ SetAuto
        \/ \E i \in 1..MaxTabs : Switch(i)
        \/ \E p \in Paths : Open(p) \/ OpenSpelled(p)
        \/ \E p \in Files : Delete(p) \/ Others(p)
        \/ \E p, q \in Files : ChangeDir(p, q) \/ Rename(p, q)
        \/ ExitScratch \/ ExitClean \/ ExitDiscarding
        \/ Kill \/ KillInSave \/ KillInSnapshot
        \/ \E p \in Paths, s \in Sessions, other \in BOOLEAN : Start(p, s, other)

Spec == Init /\ [][Next]_vars

-------------------------------------------------------------------------------
(* Properties *)

TypeOK == /\ running \in BOOLEAN /\ ed \in Editor /\ ed.active >= 1
          /\ disk \in [Paths -> Text \cup {Absent}]
          /\ rec \in [Paths -> Text \cup {None}]
          /\ autoSave \in BOOLEAN /\ mishaps \subseteq Mishaps
          /\ texts \in 1..(MaxTexts + 1) /\ faults \in 0..MaxFaults

(* The editor's buffers: the live one and the tabs that are not a stale copy. *)
Current(e) == {e.buf} \cup {e.tabs[i] : i \in DOMAIN e.tabs \ {e.active}}
Tabbed(e) == {b \in Current(e) : TabOf(e, b.path) # {}}
TextsOf(b) == {b.text} \cup ToSet(b.undo) \cup ToSet(b.redo)

(* Texts move between files, tabs, undo stacks and snapshots, and the same     *)
(* live buffer shows one file after another; no file, buffer, undo stack or  *)
(* snapshot ever holds a text written for another file.  (A save that fails  *)
(* inside close_all_tabs leaves one file's text with another's undo stack.) *)
OwnTexts(b) == \A t \in TextsOf(b) : t.of = b.path
FilesDoNotMix ==
    mishaps = {} =>
        /\ \A p \in Paths : /\ disk[p] # Absent => disk[p].of = p
                            /\ rec[p] \in Text => rec[p].of = p
        /\ OwnTexts(ed.buf) /\ \A i \in DOMAIN ed.tabs : OwnTexts(ed.tabs[i])

(* One file is never open in two tabs, where the one saved last would win:    *)
(* not by opening it twice, with a full tab bar, or through the stale tab   *)
(* that save_active_tab overwrites.                                        *)
OneTabPerFile ==
    LET e == SaveActive(ed) IN
    mishaps = {} =>
    \A i, j \in DOMAIN e.tabs : e.tabs[i].path = e.tabs[j].path => i = j
(* The live buffer, the tabs and the files fit together.                      *)
Consistent == TypeOK /\ OneTabPerFile

(* While the editor runs, unsaved text of a buffer that has a tab stays in a   *)
(* buffer, its undo stack or its file, whatever is switched, opened, closed, *)
(* deleted, renamed or polled and whichever write fails, unless the user      *)
(* asked to reload the file.  With its file a text takes the new name.       *)
Unsaved(e) == {b.text : b \in {c \in Tabbed(e) : c.dirty /\ c.path # Scratch}}
Held(e, d) == (UNION {TextsOf(b) : b \in Current(e)}) \cup {d[p] : p \in Paths}
GivenUp == IF Reload THEN {ed.buf.text} ELSE {}
Carried(t) == \E p, q \in Files : Rename(p, q) /\ Moved(t, p, q) \in Held(ed', disk')
KeptWhileOpen ==
    [][running /\ running' /\ mishaps' = {}
        => \A t \in Unsaved(ed) : t \in Held(ed', disk') \cup GivenUp \/ Carried(t)]_vars

(* A snapshot is what is left after a kill: while the editor runs it goes away  *)
(* only once the file holds a text of its buffer, also when a save on the     *)
(* way out of a tab fails; or when the write of the next snapshot, which       *)
(* truncates it, is cut short under the edit.                              *)
Torn(p) == /\ p = ed.buf.path
           /\ Edit("cut") \/ \E o \in Outcomes : EditSaving("cut", o)
SnapshotOutlivesEdits ==
    [][running /\ running' /\ mishaps' = {} =>
         \A p \in Paths : rec[p] \in Text /\ rec'[p] = None
            => Torn(p) \/ \E b \in Current(ed) \cup Current(ed') :
                              b.path = p /\ disk'[p] \in TextsOf(b)]_vars
===============================================================================
