----------------------------- MODULE ServeCatalog -----------------------------
(***************************************************************************)
(* The file list of `serve files` (src/src/shell/commands/serve.rs): rows of  *)
(* an SQLite table, each with the folder's path and its name, the files they  *)
(* stand for in serve/files, and the request threads.  A handler that changes *)
(* the table holds the database mutex from its first statement to its last;   *)
(* statements commit one by one, files are written and streamed without the   *)
(* mutex, statements and removals can fail, and the process can die.         *)
(*                                                                         *)
(* A path is a sequence of names, and a disk name the number of the upload    *)
(* that made the file.  Requests that only read the list, and those refused   *)
(* for their form, change nothing and are left out.  A query that fails is    *)
(* taken by the handlers for one that found nothing (unwrap_or, Err(_) =>    *)
(* vec![]), and they go on.                                                *)
(***************************************************************************)
EXTENDS Integers, Sequences, FiniteSets

CONSTANTS Threads,
          Names,
          Alike,      \* <<n, m>>: LIKE takes m for n (letter case, _ and %)
          None,
          MaxDepth,   \* bound: folders within folders
          MaxRows,    \* bound: rows ever inserted
          MaxParts,   \* bound: files in one upload
          MaxCrashes,
          MaxFaults   \* bound: statements, queries and removals that fail

ASSUME AlikeAssumption == Alike \subseteq Names \X Names
ASSUME NoneAssumption == None \notin Nat
ASSUME BoundsAssumption == {MaxDepth, MaxRows, MaxParts, MaxCrashes, MaxFaults} \subseteq Nat

VARIABLES rows,     \* id -> row of the table
          nextId,   \* AUTOINCREMENT
          files,    \* disk names present in serve/files
          made,     \* disk names given out
          th,       \* the request each thread is handling
          tokens,   \* download tokens: file ids, with the file meant (history)
          crashes, faults,
          strays,   \* history: files nothing will ever remove
          torn,     \* history: files removed for rows that then stayed
          mishaps   \* history: what the handlers do not guard against
bounds == <<crashes, faults>>
vars == <<rows, nextId, files, made, th, tokens, bounds, strays, torn, mishaps>>

Mishaps == {"no folder",   \* something was put where no folder is
            "same name",   \* a file and a folder of one name in one place
            "alike",       \* LIKE matched another folder's content
            "misread",     \* a query failed and was taken for an empty one
            "cut"}         \* a rename or a delete stopped half way
Ids == 1..MaxRows
Paths == UNION {[1..n -> Names] : n \in 0..MaxDepth}
Row == [name : Names, path : Seq(Names), dir : BOOLEAN, disk : Ids \cup {None}]
NoRows == <<>>

Idle == [at |-> "idle", path |-> <<>>, name |-> None, dir |-> FALSE, parts |-> <<>>,
         left |-> {}, was |-> NoRows]
Locking == {"inserting", "unlinking", "dropRows", "dropFolder", "moving"}
Places == Locking \cup {"idle", "insert"}

Init == /\ rows = NoRows /\ nextId = 1 /\ files = {} /\ made = 0
        /\ th = [c \in Threads |-> Idle] /\ tokens = {}
        /\ crashes = 0 /\ faults = 0 /\ strays = {} /\ torn = {} /\ mishaps = {}

-------------------------------------------------------------------------------
(* The queries, over a table r                                             *)

Full(row) == Append(row.path, row.name)
Under(r, p) == {i \in DOMAIN r : r[i].path = p}
At(r, p, n) == {i \in Under(r, p) : r[i].name = n}
Folder(r, p) == p = <<>> \/ \E i \in DOMAIN r : r[i].dir /\ Full(r[i]) = p
First(S) == CHOOSE i \in S : \A j \in S : i <= j

IsPrefixOf(p, q) == Len(p) <= Len(q) /\ SubSeq(q, 1, Len(p)) = p
LikeName(n, m) == n = m \/ <<n, m>> \in Alike
(* path = ?1 OR path LIKE '?1/%'                                            *)
MatchesDirect(p, q) == q = p
Matches(p, q) == q = p \/ (Len(q) > Len(p) /\ \A k \in DOMAIN p : LikeName(p[k], q[k]))
Below(r, p) == {i \in DOMAIN r : Matches(p, r[i].path)}
BelowExactly(r, p) == {i \in DOMAIN r : IsPrefixOf(p, r[i].path)}

(* replacen(old, new, 1): the first occurrence, wherever it is              *)
Occurs(p, q) == {k \in 0..(Len(q) - Len(p)) : SubSeq(q, k + 1, k + Len(p)) = p}
Replaced(q, p, n) == IF Occurs(p, q) = {} THEN q
                     ELSE [q EXCEPT ![First(Occurs(p, q)) + Len(p)] = n]

DisksOf(r, S) == {r[i].disk : i \in S} \ {None}
Without(r, S) == [i \in DOMAIN r \ S |-> r[i]]
With(r, i, row) == [j \in DOMAIN r \cup {i} |-> IF j = i THEN row ELSE r[j]]

Free(c) == \A o \in Threads \ {c} : th[o].at \notin Locking
Goes(c, state) == th' = [th EXCEPT ![c] = state]
Fault == faults < MaxFaults /\ faults' = faults + 1 /\ UNCHANGED crashes
NextIdReused == IF rows = NoRows THEN 1
                ELSE 1 + CHOOSE i \in DOMAIN rows : \A j \in DOMAIN rows : i >= j
NextId == nextId

(* A row arrives: what the handlers do not look at is remembered.           *)
Slips(row) ==
    (IF Folder(rows, row.path) THEN {} ELSE {"no folder"})
    \cup (IF \E i \in At(rows, row.path, row.name) : rows[i].dir # row.dir THEN {"same name"}
          ELSE {})
Added(row) == /\ nextId <= MaxRows
              /\ rows' = With(rows, NextId, row) /\ nextId' = NextId + 1
              /\ mishaps' = mishaps \cup Slips(row)

-------------------------------------------------------------------------------
(* api_upload: the files are on the disk before the mutex is taken          *)

Disk(k) == made + k
Upload(c, p, names) ==
    LET n == Len(names)
        parts == [k \in 1..n |-> [name |-> names[k], disk |-> Disk(k)]]
    IN /\ th[c].at = "idle" /\ made + n <= MaxRows
       /\ made' = made + n /\ files' = files \cup {Disk(k) : k \in 1..n}
       /\ Goes(c, [Idle EXCEPT !.at = "insert", !.path = p, !.parts = parts])
       /\ UNCHANGED <<rows, nextId, tokens, bounds, strays, torn, mishaps>>

(* Writing a part fails: the parts before it are removed, and it stays.       *)
UploadFails(c) ==
    /\ th[c].at = "idle" /\ made < MaxRows /\ Fault
    /\ made' = made + 1 /\ files' = files \cup {made'} /\ strays' = strays \cup {made'}
    /\ UNCHANGED <<rows, nextId, th, tokens, torn, mishaps>>

Inserting(c) == th[c].at \in {"insert", "inserting"} /\ Free(c)
Insert(c) ==
    LET part == Head(th[c].parts) IN
    /\ Inserting(c)
    /\ Added([name |-> part.name, path |-> th[c].path, dir |-> FALSE, disk |-> part.disk])
    /\ Goes(c, IF Len(th[c].parts) = 1 THEN Idle
               ELSE [th[c] EXCEPT !.at = "inserting", !.parts = Tail(@)])
    /\ UNCHANGED <<files, made, tokens, bounds, strays, torn>>

(* The answer is 500; the files after the failing one stay behind.          *)
InsertFails(c) ==
    /\ Inserting(c) /\ Fault
    /\ files' = files \ {Head(th[c].parts).disk}
    /\ strays' = strays \cup {th[c].parts[k].disk : k \in 2..Len(th[c].parts)}
    /\ Goes(c, Idle)
    /\ UNCHANGED <<rows, nextId, made, tokens, torn, mishaps>>

FolderThere(p, n) == \E i \in At(rows, p, n) : rows[i].dir
CreateFolder(c, p, n) ==
    /\ th[c].at = "idle" /\ Free(c)
    /\ ~FolderThere(p, n)
    /\ Added([name |-> n, path |-> p, dir |-> TRUE, disk |-> None])
    /\ UNCHANGED <<files, made, th, tokens, bounds, strays, torn>>

(* The COUNT fails and counts as 0.                                         *)
Misread == mishaps' = mishaps \cup {"misread"}
CreateFolderMisread(c, p, n) ==
    /\ th[c].at = "idle" /\ Free(c) /\ nextId <= MaxRows /\ Fault
    /\ FolderThere(p, n)
    /\ rows' = With(rows, NextId, [name |-> n, path |-> p, dir |-> TRUE, disk |-> None])
    /\ nextId' = NextId + 1 /\ Misread
    /\ UNCHANGED <<files, made, th, tokens, strays, torn>>

-------------------------------------------------------------------------------
(* api_delete: the first row of that name tells whether it is a folder.  The  *)
(* files go first, then the rows below, then the folder's own.              *)

DisksNamedFirst(p, n) == DisksOf(rows, {First(At(rows, p, n))})
DisksNamed(p, n) == DisksOf(rows, At(rows, p, n))

Delete(c, p, n) ==
    /\ th[c].at = "idle" /\ Free(c) /\ At(rows, p, n) # {}
    /\ LET dir == rows[First(At(rows, p, n))].dir
           below == Below(rows, Append(p, n))
       IN /\ Goes(c, [Idle EXCEPT !.at = "unlinking", !.path = p, !.name = n, !.dir = dir,
                        !.left = IF dir THEN DisksOf(rows, below) ELSE DisksNamed(p, n)])
          /\ mishaps' = IF dir /\ below # BelowExactly(rows, Append(p, n))
                        THEN mishaps \cup {"alike"} ELSE mishaps
    /\ UNCHANGED <<rows, nextId, files, made, tokens, bounds, strays, torn>>

(* What is_dir fails to read is deleted like a file; when the folder's content *)
(* cannot be asked for, the folder's own row goes all the same.              *)
DeleteMisread(c, p, n) ==
    /\ th[c].at = "idle" /\ Free(c) /\ At(rows, p, n) # {} /\ Fault
    /\ rows[First(At(rows, p, n))].dir
    /\ \/ Goes(c, [Idle EXCEPT !.at = "unlinking", !.path = p, !.name = n, !.dir = FALSE,
                            !.left = DisksNamed(p, n)])
       \/ Goes(c, [Idle EXCEPT !.at = "dropFolder", !.path = p, !.name = n, !.dir = TRUE])
    /\ Misread
    /\ UNCHANGED <<rows, nextId, files, made, tokens, strays, torn>>

Unlink(c, f) ==
    /\ th[c].at = "unlinking" /\ f \in th[c].left
    /\ files' = files \ {f}
    /\ Goes(c, [th[c] EXCEPT !.left = @ \ {f}])
    /\ UNCHANGED <<rows, nextId, made, tokens, bounds, strays, torn, mishaps>>
(* A file cannot be removed, or the names of some cannot be read.           *)
UnlinkFails(c, S) ==
    /\ th[c].at = "unlinking" /\ S # {} /\ S \subseteq th[c].left \cap files /\ Fault
    /\ strays' = strays \cup S
    /\ Goes(c, [th[c] EXCEPT !.left = @ \ S])
    /\ UNCHANGED <<rows, nextId, files, made, tokens, torn, mishaps>>

(* The rows of the file, or those below the folder.                        *)
DoomedDirect(t) == IF t.dir THEN Under(rows, Append(t.path, t.name)) ELSE At(rows, t.path, t.name)
Doomed(t) == IF t.dir THEN Below(rows, Append(t.path, t.name)) ELSE At(rows, t.path, t.name)
AfterRows(t) == IF t.dir THEN [t EXCEPT !.at = "dropFolder"] ELSE Idle
Dropping(c) == th[c].at = "unlinking" /\ th[c].left = {}
DropRows(c) ==
    /\ Dropping(c)
    /\ rows' = Without(rows, Doomed(th[c]))
    /\ Goes(c, AfterRows(th[c]))
    /\ UNCHANGED <<nextId, files, made, tokens, bounds, strays, torn, mishaps>>
DropRowsFails(c) ==
    /\ Dropping(c) /\ Fault
    /\ torn' = torn \cup (DisksOf(rows, Doomed(th[c])) \ files)
    /\ mishaps' = mishaps \cup {"cut"}
    /\ Goes(c, AfterRows(th[c]))
    /\ UNCHANGED <<rows, nextId, files, made, tokens, strays>>
DropFolder(c) ==
    /\ th[c].at = "dropFolder"
    /\ rows' = Without(rows, {i \in At(rows, th[c].path, th[c].name) : rows[i].dir})
    /\ Goes(c, Idle)
    /\ UNCHANGED <<nextId, files, made, tokens, bounds, strays, torn, mishaps>>
DropFolderFails(c) ==
    /\ th[c].at = "dropFolder" /\ Fault /\ Goes(c, Idle)
    /\ UNCHANGED <<rows, nextId, files, made, tokens, strays, torn, mishaps>>

-------------------------------------------------------------------------------
(* api_rename: the rows of that name in one statement, then, if the first of   *)
(* them is a folder, the paths below it one by one.                         *)

Renamed(p, n, m) == [i \in DOMAIN rows |-> IF i \in At(rows, p, n) THEN [rows[i] EXCEPT !.name = m]
                                           ELSE rows[i]]
TakenByFile(p, m) == \E i \in At(rows, p, m) : ~rows[i].dir
Taken(p, m) == At(rows, p, m) # {}
ToMove(p, n) == IF rows[First(At(rows, p, n))].dir THEN Below(rows, Append(p, n)) ELSE {}
Moving(p, n, m) == IF ToMove(p, n) = {} THEN Idle
                   ELSE [Idle EXCEPT !.at = "moving", !.path = Append(p, n), !.name = m,
                                     !.left = ToMove(p, n), !.was = rows]
Rename(c, p, n, m) ==
    /\ th[c].at = "idle" /\ Free(c)
    /\ At(rows, p, n) # {} /\ ~Taken(p, m)
    /\ rows' = Renamed(p, n, m)
    /\ Goes(c, Moving(p, n, m))
    /\ LET old == Append(p, n)
           strangers == ToMove(p, n) \ BelowExactly(rows, old)
       IN mishaps' = IF \E i \in strangers : Occurs(old, rows[i].path) # {}
                     THEN mishaps \cup {"alike"} ELSE mishaps
    /\ UNCHANGED <<nextId, files, made, tokens, bounds, strays, torn>>

(* The COUNT fails and the new name counts as free, or the rows below cannot  *)
(* be asked for and keep their paths.                                       *)
RenameMisread(c, p, n, m) ==
    /\ th[c].at = "idle" /\ Free(c) /\ At(rows, p, n) # {} /\ Fault
    /\ rows' = Renamed(p, n, m)
    /\ \/ Taken(p, m) /\ Goes(c, Moving(p, n, m))
       \/ ~Taken(p, m) /\ ToMove(p, n) # {} /\ Goes(c, Idle)
    /\ Misread
    /\ UNCHANGED <<nextId, files, made, tokens, strays, torn>>

Moved(c) == LET left == th[c].left \ {First(th[c].left)} IN
            Goes(c, IF left = {} THEN Idle ELSE [th[c] EXCEPT !.left = left])
Move(c) ==
    /\ th[c].at = "moving"
    /\ rows' = [rows EXCEPT ![First(th[c].left)].path = Replaced(@, th[c].path, th[c].name)]
    /\ Moved(c)
    /\ UNCHANGED <<nextId, files, made, tokens, bounds, strays, torn, mishaps>>
MoveFails(c) ==
    /\ th[c].at = "moving" /\ Fault
    /\ Moved(c) /\ mishaps' = mishaps \cup {"cut"}
    /\ UNCHANGED <<rows, nextId, files, made, tokens, strays, torn>>

-------------------------------------------------------------------------------
(* Download tokens name a row by its id.                                    *)

MintToken(c, i) ==
    /\ th[c].at = "idle" /\ Free(c) /\ i \in DOMAIN rows /\ ~rows[i].dir
    /\ tokens' = tokens \cup {[id |-> i, disk |-> rows[i].disk]}
    /\ UNCHANGED <<rows, nextId, files, made, th, bounds, strays, torn, mishaps>>
TokenExpires(t) ==
    /\ tokens' = tokens \ {t}
    /\ UNCHANGED <<rows, nextId, files, made, th, bounds, strays, torn, mishaps>>

-------------------------------------------------------------------------------
(* The process dies and is started again: the table and the files stay.      *)
Uploads(c) == {th[c].parts[k].disk : k \in DOMAIN th[c].parts}
Crash ==
    /\ crashes < MaxCrashes /\ crashes' = crashes + 1
    /\ \E c \in Threads : th[c].at # "idle"
    /\ th' = [c \in Threads |-> Idle] /\ tokens' = {}
    /\ strays' = strays \cup UNION {Uploads(c) : c \in Threads}
    /\ torn' = torn \cup (DisksOf(rows, DOMAIN rows) \ files)
    /\ mishaps' = IF \E c \in Threads : th[c].at = "moving" THEN mishaps \cup {"cut"} ELSE mishaps
    /\ UNCHANGED <<rows, nextId, files, made, faults>>

Next ==
    \/ \E c \in Threads :
         \/ \E p \in Paths : \E k \in 1..MaxParts : \E names \in [1..k -> Names] : Upload(c, p, names)
         \/ UploadFails(c) \/ Insert(c) \/ InsertFails(c)
         \/ \E p \in Paths, n \in Names :
              \/ CreateFolder(c, p, n) \/ Delete(c, p, n)
              \/ CreateFolderMisread(c, p, n) \/ DeleteMisread(c, p, n)
              \/ \E m \in Names : Rename(c, p, n, m) \/ RenameMisread(c, p, n, m)
         \/ \E f \in th[c].left : Unlink(c, f)
         \/ \E S \in SUBSET (th[c].left \cap files) : UnlinkFails(c, S)
         \/ DropRows(c) \/ DropRowsFails(c) \/ DropFolder(c) \/ DropFolderFails(c)
         \/ Move(c) \/ MoveFails(c)
         \/ \E i \in Ids : MintToken(c, i)
    \/ \E t \in tokens : TokenExpires(t)
    \/ Crash

Spec == Init /\ [][Next]_vars

-------------------------------------------------------------------------------
(* Properties *)

TypeOK == /\ DOMAIN rows \subseteq 1..(nextId - 1) /\ \A i \in DOMAIN rows : rows[i] \in Row
          /\ nextId \in 1..(MaxRows + 1) /\ made \in 0..MaxRows /\ files \subseteq 1..made
          /\ \A c \in Threads : /\ th[c].at \in Places /\ th[c].path \in Seq(Names)
                               /\ th[c].name \in Names \cup {None} /\ th[c].dir \in BOOLEAN
                               /\ th[c].parts \in Seq([name : Names, disk : Ids])
                               /\ th[c].left \subseteq Ids
          /\ tokens \subseteq [id : Ids, disk : Ids] /\ mishaps \subseteq Mishaps
          /\ strays \subseteq 1..made /\ torn \subseteq 1..made
          /\ crashes \in 0..MaxCrashes /\ faults \in 0..MaxFaults

(* A listed file can be downloaded: its row never outlives its file, except    *)
(* while the delete that removed it goes on, or after one that was cut off.  *)
Deleting(c) == IF th[c].at = "unlinking" THEN DisksOf(rows, Doomed(th[c])) ELSE {}
RowsBacked ==
    \A i \in DOMAIN rows :
        ~rows[i].dir => rows[i].disk \in files \cup torn \cup UNION {Deleting(c) : c \in Threads}

(* "so re-uploading the same name and deleting never leaves orphans"            *)
(* (serve.rs:2194): every file in serve/files is a listed one's or a running *)
(* upload's, but for uploads cut off and removals that failed.              *)
FilesOwned ==
    files \subseteq DisksOf(rows, DOMAIN rows) \cup strays \cup UNION {Uploads(c) : c \in Threads}

(* A download token means the file it was made for, whatever was deleted,       *)
(* uploaded and renamed since.                                             *)
TokenServes ==
    \A t \in tokens : t.id \in DOMAIN rows => rows[t.id].disk = t.disk

(* Until a client does what the handlers do not guard against, every row is in  *)
(* a folder that is listed too, and no two folders have one path.           *)
Settled == mishaps = {} /\ \A c \in Threads : th[c].at # "moving"
EveryRowHasAFolder ==
    Settled => \A i \in DOMAIN rows : Folder(rows, rows[i].path)
OneFolderPerPath ==
    Settled => \A i, j \in DOMAIN rows :
                  rows[i].dir /\ rows[j].dir /\ Full(rows[i]) = Full(rows[j]) => i = j
(* The table, the disk and the request threads agree in types and in folders.   *)
Consistent == TypeOK /\ EveryRowHasAFolder /\ OneFolderPerPath

(* The table, whose folders are strings rewritten row by row, is a tree of      *)
(* folders: moving a subtree is one step, and nothing outside it is touched. *)
FolderOf(r, p) == IF p = <<>> THEN 0 ELSE CHOOSE i \in DOMAIN r : r[i].dir /\ Full(r[i]) = p
TreeOf(r) == {[id |-> i, name |-> r[i].name, dir |-> r[i].dir, file |-> r[i].disk,
               under |-> FolderOf(r, r[i].path)] : i \in DOMAIN r}
Shown == IF \E c \in Threads : th[c].at = "moving"
         THEN th[CHOOSE c \in Threads : th[c].at = "moving"].was ELSE rows
Tree == INSTANCE FileTree WITH tree <- TreeOf(Shown), tidy <- mishaps = {}
IsATree == Tree!Spec
===============================================================================
