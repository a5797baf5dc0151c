------------------------------ MODULE Downloads ------------------------------
(***************************************************************************)
(* `dl` (src/src/shell/commands/downloader.rs): ntc processes that fetch      *)
(* URLs into files, share one list of records (downloads.json, read, changed *)
(* and written whole) and the staging files `<stem>.part`, and stop, cancel  *)
(* and resume each other's transfers.  Any process can be killed at any point, *)
(* any call to the file system can fail, and most failures are not looked at.  *)
(* All processes work in one directory, where a name is one file.             *)
(*                                                                         *)
(* A file's content is a sequence of blocks <<url, version, k>>: the server   *)
(* may publish another version.  A process is known by its pid; an idle one  *)
(* is a shell doing other things, or no process at all.  Sizes and times in  *)
(* the records are only displayed and are left out.                         *)
(***************************************************************************)
EXTENDS Integers, Sequences, FiniteSets

CONSTANTS Procs, Urls, Files, None,
          Jobs,          \* <<url, file>>: what users ask for, by -o or the URL's name
          PartOf,        \* file -> the name with the extension replaced by "part"
          Blocks,        \* blocks of a whole file
          MaxVersions,   \* bound: versions a URL ever has
          MaxFaults      \* bound: renames that fail

ASSUME JobsAssumption == Jobs \subseteq Urls \X Files
ASSUME BlocksAssumption == Blocks \in Nat \ {0}
ASSUME PartAssumption == \A f \in Files : PartOf[f] \in Files => PartOf[PartOf[f]] = PartOf[f]
ASSUME NoneAssumption == None \notin Procs \cup Urls \cup Files \cup {PartOf[f] : f \in Files}
ASSUME BoundsAssumption == MaxVersions \in Nat \ {0} /\ MaxFaults \in Nat

VARIABLES records,   \* downloads.json
          disk,      \* place -> its content, or Absent
          run,       \* what each process is doing
          serves,    \* URL -> the version the server has
          faults,
          mishaps    \* history: what the code does not guard against
vars == <<records, disk, run, serves, faults, mishaps>>

Mishaps == {"shared",      \* a staging file opened while another transfer uses it
            "mixed",       \* a transfer resumed on bytes that are not its own
            "removed",     \* a staging file cancelled under a transfer
            "taken",       \* a staging file that has the name of a file of its own
            "short",       \* a body that ends early and is not told from a whole one
            "shifted",     \* a stop that marks another record than the one picked
            "late stop",   \* a stop of a transfer that is over
            "late end",    \* an end recorded over the claim of a newer transfer
            "lost update", \* a record list saved over a newer one
            "cut",         \* a kill while the record list is written
            "unsaved",     \* a record list that could not be written
            "misread",     \* a record list that could not be read, and passes for an empty one
            "unkilled",    \* a stop whose signal did not end the transfer
            "rename"}      \* a rename that fails

Part(f) == PartOf[f]        \* x.part is its own staging file
Dest(f) == f
Absent == << <<"absent">> >>
Block == Urls \X (1..MaxVersions) \X (1..Blocks)
Hole == <<None, 0, 0>>
Prefix(u, v, n) == [k \in 1..n |-> <<u, v, k>>]
Whole(u, v) == Prefix(u, v, Blocks)

Statuses == {"downloading", "completed", "failed", "stopped"}
Idle == [at |-> "idle", url |-> None, file |-> None, out |-> None, append |-> FALSE,
         from |-> 0, ver |-> 0, say |-> None, copy |-> <<>>, stale |-> FALSE, pid |-> None]
Holding == {"claim", "claiming", "reading", "again"}   \* the staging file is open, or moved
SavesAt == {"claiming", "ending", "listing"}
Places == Holding \cup SavesAt \cup {"idle", "asking", "end", "choosing"}

Init == /\ records = <<>>
        /\ disk = [x \in {Part(f) : f \in Files} \cup {Dest(f) : f \in Files} |-> Absent]
        /\ run = [p \in Procs |-> Idle]
        /\ serves = [u \in Urls |-> 1] /\ faults = 0 /\ mishaps = {}

-------------------------------------------------------------------------------
(* The record list                                                          *)

IndexOf(rs, u, f) == {i \in DOMAIN rs : rs[i].url = u /\ rs[i].file = f}
UpdatedKeepsPid(rs, u, f, status, p) == \* mutant: the pid is set when the record is made
    IF IndexOf(rs, u, f) = {} THEN Append(rs, [url |-> u, file |-> f, status |-> status, pid |-> p])
    ELSE [i \in DOMAIN rs |-> IF i \in IndexOf(rs, u, f) THEN [rs[i] EXCEPT !.status = status] ELSE rs[i]]
Updated(rs, u, f, status, p) ==
    LET row == [url |-> u, file |-> f, status |-> status, pid |-> p] IN
    IF IndexOf(rs, u, f) = {} THEN Append(rs, row)
    ELSE [i \in DOMAIN rs |-> IF i \in IndexOf(rs, u, f) THEN row ELSE rs[i]]
Removed(rs, i) == SubSeq(rs, 1, i - 1) \o SubSeq(rs, i + 1, Len(rs))

(* What load_records returns: a list that cannot be read is an empty one.     *)
Loaded == {records, <<>>}
Misread(list) == IF list = records THEN {} ELSE {"misread"}

Goes(p, state) == run' = [run EXCEPT ![p] = state]
(* A save makes what the other processes have loaded out of date.            *)
Saves(p, state) ==
    run' = [o \in Procs |-> IF o = p THEN state
                            ELSE IF run[o].at \in SavesAt THEN [run[o] EXCEPT !.stale = TRUE]
                            ELSE run[o]]

-------------------------------------------------------------------------------
(* do_download                                                              *)

Start(p, u, f, resume) ==
    /\ run[p].at = "idle"
    /\ Goes(p, [Idle EXCEPT !.at = "asking", !.url = u, !.file = f,
                  !.from = IF resume /\ disk[Part(f)] # Absent THEN Len(disk[Part(f)]) ELSE 0])
    /\ UNCHANGED <<records, disk, serves, faults, mishaps>>

(* No connection, an HTTP error, and 416 when the part has all the bytes: the  *)
(* records stay as they are.                                                *)
Refused(p) ==
    /\ run[p].at = "asking" /\ Goes(p, Idle)
    /\ UNCHANGED <<records, disk, serves, faults, mishaps>>

OthersOn(p, f) == {o \in Procs \ {p} : run[o].at \in Holding /\ Part(run[o].file) = Part(f)}
Takes(f) == IF Part(f) \in Files THEN {"taken"} ELSE {}
Slips(p, start) ==
    LET r == run[p] IN
    Takes(r.file) \cup (IF OthersOn(p, r.file) # {} THEN {"shared"} ELSE {})
    \cup (IF start > 0 /\ disk[Part(r.file)] # Prefix(r.url, serves[r.url], start) THEN {"mixed"}
          ELSE {})

(* 206 continues the part, 200 starts it again.                             *)
Opened(p, start) ==
    /\ run[p].at = "asking"
    /\ Goes(p, [run[p] EXCEPT !.at = "claim", !.out = Part(run[p].file), !.from = start,
                              !.append = start > 0, !.ver = serves[run[p].url]])
    /\ mishaps' = mishaps \cup Slips(p, start)
    /\ UNCHANGED <<records, serves, faults>>
AnsweredRest(p) ==
    /\ run[p].from \in 1..(Blocks - 1) /\ disk[Part(run[p].file)] # Absent
    /\ Opened(p, run[p].from) /\ UNCHANGED disk
Truncates(p) == disk' = [disk EXCEPT ![Part(run[p].file)] = <<>>]
AnsweredWhole(p) == Opened(p, 0) /\ Truncates(p)
(* The part was cancelled after its size was read.                          *)
PartGone(p) ==
    /\ run[p].at = "asking" /\ run[p].from > 0 /\ disk[Part(run[p].file)] = Absent /\ Goes(p, Idle)
    /\ UNCHANGED <<records, disk, serves, faults, mishaps>>

(* set_record: load, change, and save in a second step.                      *)
Claim(p, list) ==
    /\ run[p].at = "claim"
    /\ Goes(p, [run[p] EXCEPT !.at = "claiming",
                  !.copy = Updated(list, run[p].url, run[p].file, "downloading", p)])
    /\ mishaps' = mishaps \cup Misread(list)
    /\ UNCHANGED <<records, disk, serves, faults>>
LateEnd(p) ==
    IF \E i \in IndexOf(records, run[p].url, run[p].file) : records[i].pid \notin {p, None}
    THEN {"late end"} ELSE {}
End(p, list) ==
    /\ run[p].at = "end"
    /\ Goes(p, [run[p] EXCEPT !.at = "ending",
                  !.copy = Updated(list, run[p].url, run[p].file, run[p].say, None)])
    /\ mishaps' = mishaps \cup LateEnd(p) \cup Misread(list)
    /\ UNCHANGED <<records, disk, serves, faults>>
AfterSave(p) == IF run[p].at = "claiming"
                THEN [run[p] EXCEPT !.at = "reading", !.copy = <<>>, !.stale = FALSE] ELSE Idle
Save(p) ==
    /\ run[p].at \in SavesAt
    /\ records' = run[p].copy
    /\ Saves(p, AfterSave(p))
    /\ mishaps' = IF run[p].stale THEN mishaps \cup {"lost update"} ELSE mishaps
    /\ UNCHANGED <<disk, serves, faults>>
(* The error is dropped; the list is the old one, or one cut short, which nobody can read.  *)
SaveFails(p) ==
    /\ run[p].at \in SavesAt
    /\ records' \in Loaded
    /\ Saves(p, AfterSave(p))
    /\ mishaps' = mishaps \cup {"unsaved"}
    /\ UNCHANGED <<disk, serves, faults>>

(* A block goes to the end of the file, or to the writer's own position.     *)
Written(text, r) ==
    LET b == <<r.url, r.ver, r.from + 1>> IN
    IF r.append THEN Append(text, b)
    ELSE [k \in 1..(IF Len(text) > r.from THEN Len(text) ELSE r.from + 1) |->
            IF k = r.from + 1 THEN b ELSE IF k <= Len(text) THEN text[k] ELSE Hole]
Receive(p) ==
    LET r == run[p] IN
    /\ r.at = "reading" /\ r.from < Blocks
    /\ disk' = IF r.out = None THEN disk ELSE [disk EXCEPT ![r.out] = Written(@, r)]
    /\ Goes(p, [r EXCEPT !.from = @ + 1])
    /\ UNCHANGED <<records, serves, faults, mishaps>>

Ends(r, status) == [Idle EXCEPT !.at = "end", !.url = r.url, !.file = r.file, !.say = status]
(* Open handles follow the file they are of: moved, and gone with its name.  *)
Follow(o, from, to) == IF run[o].out = from THEN [run[o] EXCEPT !.out = to]
                       ELSE IF run[o].out = to THEN [run[o] EXCEPT !.out = None] ELSE run[o]
Moves(p, state) ==
    LET from == Part(run[p].file)  to == Dest(run[p].file) IN
    \/ from = to /\ Goes(p, state) /\ UNCHANGED disk
    \/ /\ from # to
       /\ disk' = [disk EXCEPT ![to] = disk[from], ![from] = Absent]
       /\ run' = [o \in Procs |-> IF o = p THEN state ELSE Follow(o, from, to)]
Unlinks(x, p, state) ==
    /\ disk' = [disk EXCEPT ![x] = Absent]
    /\ run' = [o \in Procs |-> IF o = p THEN state
                               ELSE IF run[o].out = x THEN [run[o] EXCEPT !.out = None] ELSE run[o]]
(* remove_file whose error is dropped.                                      *)
Cleans(x, p, state) == Unlinks(x, p, state) \/ (Goes(p, state) /\ UNCHANGED disk)

TransferFailsMoves(p) ==                 \* mutant: the error is not looked at before the rename
    /\ run[p].at = "reading" /\ Moves(p, Ends(run[p], "completed"))
    /\ UNCHANGED <<records, serves, faults, mishaps>>
TransferFails(p) ==
    /\ run[p].at = "reading" /\ Goes(p, Ends(run[p], "failed"))
    /\ UNCHANGED <<records, disk, serves, faults, mishaps>>

(* The stream has ended: how much was to come is never compared with what came.  *)
Received(p) == run[p].at = "reading"
Short(p) == IF run[p].from < Blocks THEN {"short"} ELSE {}
(* The handle is closed; finalize_part: when the rename fails, for whatever reason, what is at the   *)
(* destination is removed and the rename tried again.                       *)
PartThere(p) == disk[Part(run[p].file)] # Absent
FinalizeRemovesFirst(p) ==               \* mutant: the old file always goes first
    /\ Received(p) /\ PartThere(p)
    /\ Unlinks(Dest(run[p].file), p, [run[p] EXCEPT !.at = "again", !.out = None])
    /\ mishaps' = mishaps \cup Short(p)
    /\ UNCHANGED <<records, serves, faults>>
Finalize(p) ==
    /\ Received(p) /\ PartThere(p)
    /\ Moves(p, Ends(run[p], "completed"))
    /\ mishaps' = mishaps \cup Short(p)
    /\ UNCHANGED <<records, serves, faults>>
FinalizeFails(p) ==
    /\ Received(p)
    /\ PartThere(p) => faults < MaxFaults
    /\ Cleans(Dest(run[p].file), p, [run[p] EXCEPT !.at = "again", !.out = None])
    /\ faults' = IF PartThere(p) THEN faults + 1 ELSE faults
    /\ mishaps' = mishaps \cup Short(p) \cup (IF PartThere(p) THEN {"rename"} ELSE {})
    /\ UNCHANGED <<records, serves>>
Again(p) ==
    /\ run[p].at = "again" /\ PartThere(p)
    /\ Moves(p, Ends(run[p], "completed"))
    /\ UNCHANGED <<records, serves, faults, mishaps>>
AgainFails(p) ==
    /\ run[p].at = "again" /\ Goes(p, Idle)
    /\ UNCHANGED <<records, disk, serves, faults, mishaps>>

-------------------------------------------------------------------------------
(* dl --stop: the user picks from a list, and the answer is applied by index    *)
(* to the list as it is then.                                               *)

StopList(q, i) ==
    /\ run[q].at = "idle" /\ i \in DOMAIN records /\ records[i].status = "downloading"
    /\ Goes(q, [Idle EXCEPT !.at = "choosing", !.url = records[i].url, !.file = records[i].file,
                            !.from = i, !.pid = records[i].pid])
    /\ UNCHANGED <<records, disk, serves, faults, mishaps>>

Marked(rs, i) == IF i \in DOMAIN rs THEN [rs EXCEPT ![i].status = "stopped", ![i].pid = None] ELSE rs
OnIt(p, r) == run[p].at \in Holding /\ run[p].url = r.url /\ run[p].file = r.file
StopSlips(q) ==
    LET r == run[q] IN
    IF r.from \notin IndexOf(records, r.url, r.file) THEN {"shifted"}
    ELSE IF records[r.from].status = "downloading" /\ records[r.from].pid = r.pid
            /\ (r.pid \in Procs => run[r.pid].at = "idle" \/ OnIt(r.pid, r)) THEN {}
    ELSE {"late stop"}
VictimOwn(q) == {run[q].pid} \cap {q}    \* mutant: the filter is the wrong way round
Victim(q) == {run[q].pid} \ {None, q}
(* Who the signal ended is told the user; the record is marked all the same.     *)
StopPick(q, ended, list) ==
    /\ run[q].at = "choosing"
    /\ run' = [o \in Procs |->
                 IF o = q THEN [run[q] EXCEPT !.at = "listing", !.copy = Marked(list, run[q].from)]
                 ELSE IF o \in ended THEN Idle ELSE run[o]]
    /\ mishaps' = mishaps \cup StopSlips(q) \cup Misread(list)
                  \cup (IF ended = Victim(q) THEN {} ELSE {"unkilled"})
    /\ UNCHANGED <<records, disk, serves, faults>>

(* dl --cancel: the record and the staging file go, the process is not told.  *)
Cancel(q, i) ==
    /\ run[q].at = "idle" /\ i \in DOMAIN records
    /\ LET f == records[i].file IN
       /\ Cleans(Part(f), q, [Idle EXCEPT !.at = "listing", !.copy = Removed(records, i)])
       /\ mishaps' = mishaps \cup Takes(f) \cup (IF OthersOn(q, f) = {} THEN {} ELSE {"removed"})
    /\ UNCHANGED <<records, serves, faults>>

-------------------------------------------------------------------------------
(* Ctrl-C, a crash, a signal: the records and the files stay as they are, but   *)
(* a list that was being written is empty when it is read next.             *)
Kill(p) ==
    /\ run[p].at # "idle" /\ Goes(p, Idle)
    /\ UNCHANGED <<records, disk, serves, faults, mishaps>>
KillInSave(p) ==
    /\ run[p].at \in SavesAt
    /\ records' = <<>> /\ Saves(p, Idle) /\ mishaps' = mishaps \cup {"cut"}
    /\ UNCHANGED <<disk, serves, faults>>

(* The server's file changes.                                               *)
Publish(u) ==
    /\ serves[u] < MaxVersions /\ serves' = [serves EXCEPT ![u] = @ + 1]
    /\ UNCHANGED <<records, disk, run, faults, mishaps>>

Next ==
    \/ \E p \in Procs :
         \/ \E job \in Jobs, resume \in BOOLEAN : Start(p, job[1], job[2], resume)
         \/ Refused(p) \/ AnsweredRest(p) \/ AnsweredWhole(p) \/ PartGone(p)
         \/ \E list \in Loaded : Claim(p, list) \/ End(p, list)
         \/ Save(p) \/ SaveFails(p)
         \/ Receive(p) \/ TransferFails(p)
         \/ Finalize(p) \/ FinalizeFails(p) \/ Again(p) \/ AgainFails(p)
         \/ \E i \in DOMAIN records : StopList(p, i) \/ Cancel(p, i)
         \/ \E ended \in {Victim(p), {}}, list \in Loaded : StopPick(p, ended, list)
         \/ Kill(p) \/ KillInSave(p)
    \/ \E u \in Urls : Publish(u)

Spec == Init /\ [][Next]_vars

-------------------------------------------------------------------------------
(* Properties *)

Record == [url : Urls, file : Files, status : Statuses, pid : Procs \cup {None}]
IsList(rs) == \A i \in DOMAIN rs : rs[i] \in Record
TypeOK == /\ IsList(records)
          /\ \A x \in DOMAIN disk : disk[x] # Absent =>
                 \A k \in DOMAIN disk[x] : disk[x][k] \in Block \cup {Hole}
          /\ \A p \in Procs : /\ run[p].at \in Places /\ IsList(run[p].copy)
                              /\ run[p].out \in DOMAIN disk \cup {None}
                              /\ run[p].out # None => disk[run[p].out] # Absent
          /\ serves \in [Urls -> 1..MaxVersions] /\ faults \in 0..MaxFaults
          /\ mishaps \subseteq Mishaps

(* A transfer has one record, whatever two processes save over each other.     *)
OneRecord == \A i, j \in DOMAIN records :
    records[i].url = records[j].url /\ records[i].file = records[j].file => i = j

(* "The transfer is written here and renamed into place only once it completes"  *)
(* (downloader.rs:57): what has the file's name is all of one version.       *)
Clear(slips) == mishaps \cap slips = {}
Unmixed == Clear({"shared", "removed", "taken", "mixed", "short"})
WholeFiles == Unmixed =>
    \A f \in Files : disk[Dest(f)] = Absent
                     \/ \E u \in Urls, v \in 1..MaxVersions : disk[Dest(f)] = Whole(u, v)

(* A running transfer is one that --stop can find and end.                   *)
Unmarked == Clear({"shared", "removed", "taken", "shifted", "late stop", "late end", "lost update",
                   "cut", "unsaved", "misread", "unkilled"})
Claimed == Unmarked => \A p \in Procs : run[p].at \in {"reading", "again"} =>
    \E i \in IndexOf(records, run[p].url, run[p].file) :
        records[i].status = "downloading" /\ records[i].pid = p

(* A transfer that is marked stopped is not still running.                   *)
StoppedStays == Unmarked => \A i \in DOMAIN records : records[i].status = "stopped" =>
    \A p \in Procs : ~(OnIt(p, records[i]) /\ run[p].at = "reading")

(* A file that is there stays there, whatever is downloaded over it.         *)
Unlost == Clear({"shared", "removed", "taken", "rename"})
NeverLost == [][\A f \in Files : disk[Dest(f)] # Absent /\ disk'[Dest(f)] = Absent => ~Unlost']_vars

(* What is marked completed is there.                                       *)
CompletedThere == Unlost =>
    \A i \in DOMAIN records : records[i].status = "completed" => disk[Dest(records[i].file)] # Absent

(* The record list, which any process overwrites with its own copy, agrees with   *)
(* the transfers that run and the files that are there.                        *)
Consistent == TypeOK /\ OneRecord /\ Claimed /\ CompletedThere

(* "an interrupted download stays resumable under its real name"              *)
(* (downloader.rs:227-228): a server that honours Range has bytes left to send. *)
StaysResumable == \A i \in DOMAIN records :
    /\ records[i].status # "completed" /\ disk[Part(records[i].file)] # Absent
    /\ \A p \in Procs : run[p].at = "idle"
    => Len(disk[Part(records[i].file)]) < Blocks
===============================================================================
