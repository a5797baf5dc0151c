-------------------------- MODULE ServeCatalogProofs --------------------------
(***************************************************************************)
(* Theorems about the file list of `serve files`, for any number of threads,  *)
(* rows and folders: a listed file is there, a file that is there is listed,  *)
(* a download token means one file for good, and the table is at all times a   *)
(* tree of folders that changes as FileTree says - through failures and kills, *)
(* except where the history variables say otherwise.                        *)
(*                                                                         *)
(* The argument: one thread at a time holds the mutex (Mutex), no disk name    *)
(* belongs to two rows or uploads (Table, Uploading), and a delete knows       *)
(* between its steps which of its files are still there (Deletes).  For the    *)
(* tree: with no rename under way every row has all the folders its path names *)
(* and shares its place with files only (Tidy); half way through one, each row *)
(* is either as it was in the tidy table before or as it will be (Midway).     *)
(***************************************************************************)
EXTENDS ServeCatalog, SequenceTheorems, WellFoundedInduction, TLAPS

Fields == {"at", "path", "name", "dir", "parts", "left", "was"}
PartsOK(parts) == /\ parts \in Seq([name : Names, disk : Nat])
                  /\ \A k, l \in DOMAIN parts : parts[k].disk = parts[l].disk => k = l
Ups(parts) == {parts[k].disk : k \in DOMAIN parts}
Uploads1(at) == at \in {"insert", "inserting"}
Shape == /\ DOMAIN th = Threads
         /\ \A c \in Threads : DOMAIN th[c] = Fields /\ PartsOK(th[c].parts)
         /\ nextId \in Nat /\ made \in Nat /\ files \subseteq 1..made

Listed == DisksOf(rows, DOMAIN rows)
Table == /\ \A i \in DOMAIN rows :
              /\ i \in Nat /\ i < nextId
              /\ DOMAIN rows[i] = {"name", "path", "dir", "disk"}
              /\ rows[i].dir <=> rows[i].disk = None
              /\ rows[i].disk # None => rows[i].disk \in 1..made
         /\ \A i, j \in DOMAIN rows : rows[i].disk = rows[j].disk => i = j \/ rows[i].disk = None

Uploading ==
    /\ \A c \in Threads : /\ Uploads1(th[c].at) <=> th[c].parts # <<>>
                          /\ Ups(th[c].parts) \subseteq files \ Listed
    /\ \A c, d \in Threads : c # d => Ups(th[c].parts) \cap Ups(th[d].parts) = {}

Mutex == \A c, d \in Threads : th[c].at \in Locking /\ th[d].at \in Locking => c = d

(* What is still to be unlinked is of the rows to be dropped, and what of them  *)
(* is there is still to be unlinked, or never will be.                       *)
Going(c) == DisksOf(rows, Doomed(th[c]))
Deletes == \A c \in Threads : th[c].at = "unlinking" =>
               th[c].left \subseteq Going(c) /\ Going(c) \cap files \subseteq th[c].left \cup strays

Tokens == \A t \in tokens : t.id \in Nat /\ t.id < nextId
Inv == /\ Shape /\ Table /\ Uploading /\ Mutex /\ Deletes
       /\ Tokens /\ TokenServes /\ RowsBacked /\ FilesOwned

-------------------------------------------------------------------------------
LEMMA UpsIs == \A c : Uploads(c) = Ups(th[c].parts) BY DEF Uploads, Ups

LEMMA IdleParts == DOMAIN Idle = Fields /\ Idle.parts = <<>> /\ Idle.at = "idle"
                   /\ PartsOK(<<>>) /\ Ups(<<>>) = {}
BY DEF Idle, Fields, PartsOK, Ups

(* The next part of an upload, and those after it.                           *)
LEMMA NextPart ==
    ASSUME NEW parts, PartsOK(parts), parts # <<>>
    PROVE  /\ Head(parts).disk \in Ups(parts) /\ Head(parts).disk \in Nat
           /\ PartsOK(Tail(parts)) /\ Ups(Tail(parts)) = Ups(parts) \ {Head(parts).disk}
           /\ Len(parts) = 1 <=> Tail(parts) = <<>>
<1> DEFINE P == [name : Names, disk : Nat]
<1>1. parts \in Seq(P) /\ Len(parts) \in Nat \ {0} /\ DOMAIN parts = 1..Len(parts)
  BY EmptySeq DEF PartsOK
<1>2. Head(parts) = parts[1] /\ 1 \in DOMAIN parts BY <1>1
<1>3. parts[1] \in P BY <1>1, <1>2, ElementOfSeq
<1>4. /\ Tail(parts) \in Seq(P) /\ Len(Tail(parts)) = Len(parts) - 1
      /\ \A k \in 1..(Len(parts) - 1) : Tail(parts)[k] = parts[k + 1]
  BY <1>1, HeadTailProperties
<1>5. DOMAIN Tail(parts) = 1..(Len(parts) - 1) BY <1>4
<1>6. PartsOK(Tail(parts))
  <2> SUFFICES ASSUME NEW k \in DOMAIN Tail(parts), NEW l \in DOMAIN Tail(parts),
                      Tail(parts)[k].disk = Tail(parts)[l].disk
               PROVE  k = l
    BY <1>4 DEF PartsOK
  <2>1. k + 1 \in DOMAIN parts /\ l + 1 \in DOMAIN parts /\ k \in Nat /\ l \in Nat BY <1>1, <1>5
  <2>2. k + 1 = l + 1 BY <1>4, <1>5, <2>1 DEF PartsOK
  <2> QED BY <2>1, <2>2
<1>7. Ups(Tail(parts)) \subseteq Ups(parts) \ {Head(parts).disk}
  <2> SUFFICES ASSUME NEW k \in DOMAIN Tail(parts)
               PROVE  Tail(parts)[k].disk \in Ups(parts) \ {Head(parts).disk}
    BY DEF Ups
  <2>1. k + 1 \in DOMAIN parts /\ k + 1 # 1 /\ Tail(parts)[k] = parts[k + 1] BY <1>1, <1>4, <1>5
  <2> QED BY <1>2, <2>1 DEF Ups, PartsOK
<1>8. Ups(parts) \ {Head(parts).disk} \subseteq Ups(Tail(parts))
  <2> SUFFICES ASSUME NEW k \in DOMAIN parts, parts[k].disk # Head(parts).disk
               PROVE  parts[k].disk \in Ups(Tail(parts))
    BY DEF Ups
  <2>0. k \in Nat /\ k # 1 /\ k - 1 \in 1..(Len(parts) - 1) /\ (k - 1) + 1 = k BY <1>1, <1>2
  <2>1. k - 1 \in DOMAIN Tail(parts) /\ Tail(parts)[k - 1] = parts[k] BY <1>4, <1>5, <2>0
  <2> QED BY <2>1 DEF Ups
<1>9. Len(parts) = 1 <=> Tail(parts) = <<>>
  <2>1. Len(Tail(parts)) = 0 <=> Tail(parts) = <<>> BY <1>4, EmptySeq
  <2> QED BY <1>1, <1>4, <2>1
<1> QED BY <1>2, <1>3, <1>6, <1>7, <1>8, <1>9 DEF Ups

-------------------------------------------------------------------------------
(* The steps that leave the table alone, or change no disk name in it: c's       *)
(* request goes on without parts of its own.                                 *)
SameDisks == /\ DOMAIN rows' = DOMAIN rows
             /\ \A i \in DOMAIN rows : /\ DOMAIN rows'[i] = DOMAIN rows[i]
                                       /\ rows'[i].disk = rows[i].disk /\ rows'[i].dir = rows[i].dir
LEMMA SameListed == ASSUME SameDisks PROVE Listed' = Listed BY DEF SameDisks, Listed, DisksOf

(* The request of c goes on, and touches no part of an upload.                *)
Works(c, s) == /\ th' = [th EXCEPT ![c] = s] /\ DOMAIN s = Fields
               /\ s.parts = th[c].parts /\ (Uploads1(s.at) <=> Uploads1(th[c].at))

LEMMA WorksOn ==
    ASSUME Inv, NEW c \in Threads, NEW s, Works(c, s)
    PROVE  /\ DOMAIN th' = Threads /\ th'[c] = s /\ \A o \in Threads \ {c} : th'[o] = th[o]
           /\ \A o \in Threads : /\ DOMAIN th'[o] = Fields /\ th'[o].parts = th[o].parts
                                 /\ Uploads1(th'[o].at) <=> Uploads1(th[o].at)
                                 /\ Uploads(o)' = Uploads(o)
BY UpsIs DEF Works, Inv, Shape, Uploads

LEMMA MutexKept ==
    ASSUME Inv, NEW c \in Threads, \A o \in Threads \ {c} : th'[o] = th[o],
           th'[c].at \in Locking => th[c].at \in Locking \/ Free(c)
    PROVE  Mutex'
BY DEF Inv, Mutex, Free

LEMMA UploadingKept ==
    ASSUME Inv, NEW c \in Threads, NEW s, Works(c, s), Listed' \subseteq Listed,
           \A o \in Threads : Ups(th[o].parts) \subseteq files'
    PROVE  Uploading'
<1>1. \A o \in Threads : th'[o].parts = th[o].parts /\ (Uploads1(th'[o].at) <=> Uploads1(th[o].at))
  BY WorksOn
<1>2. \A o \in Threads : Ups(th[o].parts) \cap Listed = {} BY DEF Inv, Uploading
<1> QED BY <1>1, <1>2 DEF Inv, Uploading

(* While c holds the mutex no other thread deletes.                           *)
LEMMA OnlyDeleter ==
    ASSUME Inv, NEW c \in Threads, Free(c) \/ th[c].at \in Locking
    PROVE  \A o \in Threads \ {c} : th[o].at # "unlinking"
BY DEF Inv, Mutex, Free, Locking

LEMMA LockedQuiet ==
    ASSUME Inv, NEW c \in Threads, NEW s, Works(c, s), Free(c) \/ th[c].at \in Locking,
           SameDisks, nextId' = nextId, made' = made, files' = files, tokens' = tokens,
           strays \subseteq strays', torn \subseteq torn',
           s.at # "unlinking",
           th[c].at = "unlinking" => Going(c) \subseteq files \cup torn'
    PROVE  Inv'
<1>1. Listed' = Listed BY SameListed
<1>2. Shape' BY WorksOn DEF Inv, Shape
<1>3. Table' BY DEF Inv, Table, SameDisks
<1>4. Uploading'
  <2>1. \A o \in Threads : Ups(th[o].parts) \subseteq files BY DEF Inv, Uploading
  <2> QED BY <1>1, <2>1, UploadingKept
<1>5. Mutex' BY WorksOn, MutexKept DEF Works
<1>6. \A o \in Threads : th'[o].at # "unlinking" BY OnlyDeleter, WorksOn
<1>7. Tokens' BY DEF Inv, Tokens
<1>8. TokenServes' BY DEF Inv, TokenServes, SameDisks
<1>9. RowsBacked'
  <2> SUFFICES ASSUME NEW i \in DOMAIN rows, ~rows[i].dir PROVE rows[i].disk \in files \cup torn'
    BY DEF RowsBacked, SameDisks
  <2>1. ASSUME NEW o \in Threads PROVE Deleting(o) \subseteq files \cup torn'
    <3>1. CASE o = c BY <3>1 DEF Deleting, Going
    <3>2. CASE o # c
      <4>1. th[o].at # "unlinking" BY <3>2, OnlyDeleter
      <4> QED BY <4>1 DEF Deleting
    <3> QED BY <3>1, <3>2
  <2> QED BY <2>1 DEF Inv, RowsBacked
<1>10. FilesOwned'
  <2>1. \A o \in Threads : Uploads(o)' = Uploads(o) BY WorksOn
  <2> QED BY <1>1, <2>1 DEF Inv, FilesOwned, Listed
<1> QED BY <1>2, <1>3, <1>4, <1>5, <1>6, <1>7, <1>8, <1>9, <1>10 DEF Inv, Deletes

LEMMA IdleWorks ==
    ASSUME Inv, NEW c \in Threads, NEW s, th' = [th EXCEPT ![c] = s], DOMAIN s = Fields,
           ~Uploads1(th[c].at), ~Uploads1(s.at), s.parts = <<>>
    PROVE  Works(c, s)
<1>1. th[c].parts = <<>> BY DEF Inv, Uploading
<1> QED BY <1>1 DEF Works

LEMMA MoveKept == ASSUME Inv, NEW c \in Threads, Move(c) \/ MoveFails(c) PROVE Inv'
<1> DEFINE left == th[c].left \ {First(th[c].left)}
           s == IF left = {} THEN Idle ELSE [th[c] EXCEPT !.left = left]
<1>1. th[c].at = "moving" /\ DOMAIN th[c] = Fields /\ th[c].parts = <<>>
  BY DEF Move, MoveFails, Inv, Shape, Uploading, Uploads1
<1>2. th' = [th EXCEPT ![c] = s] BY DEF Move, MoveFails, Moved, Goes
<1>3. DOMAIN s = Fields /\ s.parts = <<>> /\ s.at \in {"idle", "moving"}
  BY <1>1, IdleParts DEF Fields
<1>4. SameDisks
  <2>1. CASE MoveFails(c) BY <2>1 DEF MoveFails, SameDisks
  <2>2. CASE Move(c)
    <3> DEFINE x == First(th[c].left)
    <3>1. rows' = [rows EXCEPT ![x].path = Replaced(@, th[c].path, th[c].name)] BY <2>2 DEF Move
    <3>2. \A i \in DOMAIN rows : DOMAIN rows[i] = {"name", "path", "dir", "disk"} BY DEF Inv, Table
    <3> HIDE DEF x
    <3> QED BY <3>1, <3>2 DEF SameDisks
  <2> QED BY <2>1, <2>2
<1>5. UNCHANGED <<nextId, made, files, tokens, strays, torn>> BY DEF Move, MoveFails
<1> HIDE DEF s
<1>6. Works(c, s) BY <1>1, <1>2, <1>3, IdleWorks DEF Uploads1
<1> QED BY <1>1, <1>3, <1>4, <1>5, <1>6, LockedQuiet DEF Locking

LEMMA RenameKept ==
    ASSUME Inv, NEW c \in Threads, NEW p, NEW n, NEW m, Rename(c, p, n, m) \/ RenameMisread(c, p, n, m)
    PROVE  Inv'
<1>1. th[c].at = "idle" /\ Free(c) /\ UNCHANGED <<nextId, made, files, tokens, strays, torn>>
  BY DEF Rename, RenameMisread
<1>2. PICK s : th' = [th EXCEPT ![c] = s] /\ DOMAIN s = Fields /\ s.parts = <<>> 
             /\ s.at \in {"idle", "moving"}
  <2> DEFINE old == Append(p, n)
             below == IF rows[First(At(rows, p, n))].dir THEN Below(rows, old) ELSE {}
             s == [Idle EXCEPT !.at = "moving", !.path = old, !.name = m, !.left = below, !.was = rows]
  <2>1. DOMAIN s = Fields /\ s.parts = <<>> /\ s.at = "moving" BY DEF Idle, Fields
  <2>2. th' = [th EXCEPT ![c] = Idle] \/ th' = [th EXCEPT ![c] = s]
    BY DEF Rename, RenameMisread, Moving, ToMove, Goes
  <2> HIDE DEF s
  <2> QED BY <2>1, <2>2, IdleParts
<1>3. SameDisks
  <2>1. rows' = Renamed(p, n, m) BY DEF Rename, RenameMisread
  <2>2. \A i \in DOMAIN rows : DOMAIN rows[i] = {"name", "path", "dir", "disk"} BY DEF Inv, Table
  <2> QED BY <2>1, <2>2 DEF SameDisks, Renamed
<1>4. Works(c, s) BY <1>1, <1>2, IdleWorks DEF Uploads1
<1> QED BY <1>1, <1>2, <1>3, <1>4, LockedQuiet

LEMMA DropFolderFailsKept == ASSUME Inv, NEW c \in Threads, DropFolderFails(c) \/ DropRowsFails(c) PROVE Inv'
<1> DEFINE s == IF th[c].at = "unlinking" THEN AfterRows(th[c]) ELSE Idle
<1>1. th[c].at \in {"dropFolder", "unlinking"} /\ DOMAIN th[c] = Fields /\ th[c].parts = <<>>
  BY DEF DropFolderFails, DropRowsFails, Dropping, Inv, Shape, Uploading, Uploads1
<1>2. th' = [th EXCEPT ![c] = s] BY DEF DropFolderFails, DropRowsFails, Dropping, Goes
<1>3. DOMAIN s = Fields /\ s.parts = <<>> /\ s.at \in {"idle", "dropFolder"}
  BY <1>1, IdleParts DEF AfterRows, Fields
<1>4. UNCHANGED <<rows, nextId, made, files, tokens, strays>> /\ torn \subseteq torn'
      /\ (th[c].at = "unlinking" => Going(c) \subseteq files \cup torn')
  BY DEF DropFolderFails, DropRowsFails, Going
<1>5. SameDisks BY <1>4 DEF SameDisks
<1> HIDE DEF s
<1>6. Works(c, s) BY <1>1, <1>2, <1>3, IdleWorks DEF Uploads1
<1> QED BY <1>1, <1>3, <1>4, <1>5, <1>6, LockedQuiet DEF Locking

-------------------------------------------------------------------------------
(* Deletes                                                                  *)

LEMMA GoingListed == ASSUME NEW c PROVE Going(c) \subseteq Listed
BY DEF Going, Listed, DisksOf, Doomed, At, Under, Below

(* Delete, and what it does when it cannot tell that it is a folder.           *)
DoomedAt(p, n, dir) == IF dir THEN DisksOf(rows, Below(rows, Append(p, n))) ELSE DisksNamed(p, n)
DeleteTask(p, n, dir) ==
    [Idle EXCEPT !.at = "unlinking", !.path = p, !.name = n, !.dir = dir, !.left = DoomedAt(p, n, dir)]
StartsDelete(c, p, n, dir) ==
    /\ th[c].at = "idle" /\ Free(c) /\ At(rows, p, n) # {} /\ Goes(c, DeleteTask(p, n, dir))
    /\ UNCHANGED <<rows, nextId, files, made, tokens, strays, torn>>
LEMMA DeleteKept ==
    ASSUME Inv, NEW c \in Threads, NEW p, NEW n, NEW dir, StartsDelete(c, p, n, dir) PROVE Inv'
<1> DEFINE left == DoomedAt(p, n, dir)  s == DeleteTask(p, n, dir)
<1>1. th[c].at = "idle" /\ Free(c) /\ th' = [th EXCEPT ![c] = s]
      /\ UNCHANGED <<rows, nextId, files, made, tokens, strays, torn>>
  BY DEF StartsDelete, Goes
<1>2. DOMAIN s = Fields /\ s.parts = <<>> /\ s.at = "unlinking" /\ s.left = left
      /\ s.path = p /\ s.name = n /\ s.dir = dir
  BY DEF Idle, Fields, DeleteTask
<1> HIDE DEF s
<1>3. DisksOf(rows, Doomed(s)) = left BY <1>2 DEF Doomed, DisksNamed, DoomedAt
<1> HIDE DEF left
<1>4. Works(c, s) BY <1>1, <1>2, IdleWorks DEF Uploads1
<1>5. th'[c] = s /\ \A o \in Threads \ {c} : th'[o] = th[o] /\ th[o].at # "unlinking"
  BY <1>1, <1>4, WorksOn, OnlyDeleter
<1>6. Shape' BY <1>1, <1>4, WorksOn DEF Inv, Shape
<1>7. Table' /\ Listed' = Listed BY <1>1 DEF Inv, Table, Listed
<1>8. Uploading'
  <2>1. \A o \in Threads : Ups(th[o].parts) \subseteq files BY DEF Inv, Uploading
  <2> QED BY <1>1, <1>4, <1>7, <2>1, UploadingKept
<1>9. Mutex' BY <1>1, <1>5, MutexKept
<1>10. Deletes' BY <1>1, <1>2, <1>3, <1>5 DEF Deletes, Going, Doomed
<1>11. Tokens' /\ TokenServes' BY <1>1 DEF Inv, Tokens, TokenServes
<1>12. RowsBacked'
  <2>1. \A o \in Threads : Deleting(o) = {} BY <1>1, <1>5 DEF Deleting
  <2> QED BY <1>1, <2>1 DEF Inv, RowsBacked
<1>13. FilesOwned'
  <2>1. \A o \in Threads : Uploads(o)' = Uploads(o) BY <1>4, WorksOn
  <2> QED BY <1>1, <2>1 DEF Inv, FilesOwned
<1> QED BY <1>6, <1>7, <1>8, <1>9, <1>10, <1>11, <1>12, <1>13 DEF Inv

LEMMA DeletesStart ==
    ASSUME NEW c, NEW p, NEW n
    PROVE  /\ Delete(c, p, n) => StartsDelete(c, p, n, rows[First(At(rows, p, n))].dir)
           /\ DeleteMisread(c, p, n) =>
                 \/ StartsDelete(c, p, n, FALSE)
                 \/ Goes(c, [Idle EXCEPT !.at = "dropFolder", !.path = p, !.name = n, !.dir = TRUE])
<1>1. Delete(c, p, n) => StartsDelete(c, p, n, rows[First(At(rows, p, n))].dir)
  BY DEF Delete, StartsDelete, DeleteTask, DoomedAt
<1>2. DeleteMisread(c, p, n) => StartsDelete(c, p, n, FALSE)
          \/ Goes(c, [Idle EXCEPT !.at = "dropFolder", !.path = p, !.name = n, !.dir = TRUE])
  BY DEF DeleteMisread, StartsDelete, DeleteTask, DoomedAt
<1> QED BY <1>1, <1>2

LEMMA DeleteMisreadKept == ASSUME Inv, NEW c \in Threads, NEW p, NEW n, DeleteMisread(c, p, n) PROVE Inv'
<1> DEFINE s == [Idle EXCEPT !.at = "dropFolder", !.path = p, !.name = n, !.dir = TRUE]
<1>1. CASE StartsDelete(c, p, n, FALSE) BY <1>1, DeleteKept
<1>2. CASE Goes(c, s)
  <2>0. th' = [th EXCEPT ![c] = s] BY <1>2 DEF Goes
  <2>1. th[c].at = "idle" /\ Free(c) /\ UNCHANGED <<rows, nextId, files, made, tokens, strays, torn>>
    BY DEF DeleteMisread
  <2>2. DOMAIN s = Fields /\ s.parts = <<>> /\ s.at = "dropFolder" BY DEF Idle, Fields
  <2> HIDE DEF s
  <2>3. Works(c, s) BY <2>0, <2>1, <2>2, IdleWorks DEF Uploads1
  <2>4. SameDisks BY <2>1 DEF SameDisks
  <2> QED BY <2>1, <2>2, <2>3, <2>4, LockedQuiet
<1> QED BY <1>1, <1>2, DeletesStart

(* Files of S are removed, or stay for good.                                 *)
Unlinks(c, S) ==
    /\ th[c].at = "unlinking" /\ Goes(c, [th[c] EXCEPT !.left = @ \ S]) /\ S \subseteq th[c].left
    /\ UNCHANGED <<rows, nextId, made, tokens, torn, mishaps>>
    /\ \/ files' = files \ S /\ UNCHANGED <<strays, bounds>>
       \/ files' = files /\ strays' = strays \cup S /\ S \subseteq files /\ Fault
LEMMA BothUnlink ==
    ASSUME NEW c
    PROVE  /\ \A f \in th[c].left : Unlink(c, f) => Unlinks(c, {f})
           /\ \A S : UnlinkFails(c, S) => Unlinks(c, S)
BY DEF Unlink, UnlinkFails, Unlinks

LEMMA UnlinkKept == ASSUME Inv, NEW c \in Threads, NEW S, Unlinks(c, S) PROVE Inv'
<1> DEFINE s == [th[c] EXCEPT !.left = @ \ S]
<1>1. th[c].at = "unlinking" /\ th' = [th EXCEPT ![c] = s] /\ UNCHANGED <<rows, nextId, made, tokens, torn>>
      /\ \/ files' = files \ S /\ strays' = strays
         \/ files' = files /\ strays' = strays \cup S
  BY DEF Unlinks, Goes
<1>2. DOMAIN s = Fields /\ s.parts = th[c].parts /\ s.at = th[c].at /\ s.left = th[c].left \ S
      /\ s.path = th[c].path /\ s.name = th[c].name /\ s.dir = th[c].dir
  BY DEF Inv, Shape, Fields
<1>3. S \subseteq Going(c) /\ S \subseteq Listed BY <1>1, GoingListed DEF Inv, Deletes, Unlinks
<1> HIDE DEF s
<1>4. Works(c, s) BY <1>1, <1>2 DEF Works
<1>5. th'[c] = s /\ \A o \in Threads \ {c} : th'[o] = th[o] /\ th[o].at # "unlinking"
  BY <1>1, <1>4, WorksOn, OnlyDeleter DEF Locking
<1>6. Shape' BY <1>1, <1>4, WorksOn DEF Inv, Shape
<1>7. Table' /\ Listed' = Listed BY <1>1 DEF Inv, Table, Listed
<1>8. Uploading'
  <2>1. \A o \in Threads : Ups(th[o].parts) \subseteq files' \ Listed
    <3>1. files \ S \subseteq files' BY <1>1
    <3> QED BY <1>3, <3>1 DEF Inv, Uploading
  <2> QED BY <1>4, <1>7, <2>1, UploadingKept
<1>9. Mutex' BY <1>1, <1>5, MutexKept DEF Locking
<1>10. Going(c)' = Going(c) BY <1>1, <1>2, <1>5 DEF Going, Doomed
<1>11. Deletes' BY <1>1, <1>2, <1>5, <1>10 DEF Inv, Deletes
<1>12. Tokens' /\ TokenServes' BY <1>1 DEF Inv, Tokens, TokenServes
<1>13. RowsBacked'
  <2>1. \A o \in Threads : Deleting(o) = IF o = c THEN Going(c) ELSE {} BY <1>1, <1>5 DEF Deleting, Going
  <2>2. Deleting(c)' = Going(c) BY <1>1, <1>2, <1>5, <1>10 DEF Deleting, Going
  <2> QED BY <1>1, <1>3, <2>1, <2>2 DEF Inv, RowsBacked
<1>14. FilesOwned'
  <2>1. \A o \in Threads : Uploads(o)' = Uploads(o) BY <1>4, WorksOn
  <2> QED BY <1>1, <2>1 DEF Inv, FilesOwned
<1> QED BY <1>6, <1>7, <1>8, <1>9, <1>11, <1>12, <1>13, <1>14 DEF Inv

(* Rows go, and with them what they stand for is gone or counted as stray.      *)
LEMMA GoneKept ==
    ASSUME Inv, NEW c \in Threads, NEW s, Works(c, s), th[c].at \in Locking, s.at # "unlinking",
           NEW gone, rows' = Without(rows, gone),
           DisksOf(rows, gone \cap DOMAIN rows) \cap files \subseteq strays,
           th[c].at = "unlinking" => Going(c) \subseteq DisksOf(rows, gone \cap DOMAIN rows),
           UNCHANGED <<nextId, files, made, tokens, bounds, strays, torn>>
    PROVE  Inv'
<1>1. DOMAIN rows' = DOMAIN rows \ gone /\ \A i \in DOMAIN rows' : rows'[i] = rows[i] BY DEF Without
<1>2. Listed' \subseteq Listed /\ Listed \subseteq Listed' \cup DisksOf(rows, gone \cap DOMAIN rows)
  BY <1>1 DEF Listed, DisksOf
<1>3. Shape' BY WorksOn DEF Inv, Shape
<1>4. Table' BY <1>1 DEF Inv, Table
<1>5. Uploading'
  <2>1. \A o \in Threads : Ups(th[o].parts) \subseteq files BY DEF Inv, Uploading
  <2> QED BY <1>2, <2>1, UploadingKept
<1>6. Mutex' BY WorksOn, MutexKept DEF Works
<1>7. \A o \in Threads \ {c} : th[o].at # "unlinking" BY OnlyDeleter
<1>8. Deletes' BY <1>7, WorksOn DEF Deletes
<1>9. Tokens' /\ TokenServes' BY <1>1 DEF Inv, Tokens, TokenServes
<1>10. RowsBacked'
  <2> SUFFICES ASSUME NEW i \in DOMAIN rows', ~rows'[i].dir PROVE rows'[i].disk \in files \cup torn
    BY DEF RowsBacked
  <2>1. i \in DOMAIN rows /\ i \notin gone /\ rows[i] = rows'[i] BY <1>1
  <2>2. ASSUME NEW o \in Threads, rows[i].disk \in Deleting(o) PROVE FALSE
    <3>1. o = c /\ th[c].at = "unlinking" /\ rows[i].disk \in Going(c) BY <1>7, <2>2 DEF Deleting, Going
    <3>2. PICK j \in gone \cap DOMAIN rows : rows[j].disk = rows[i].disk BY <3>1 DEF DisksOf
    <3> QED BY <2>1, <3>2 DEF Inv, Table
  <2> QED BY <2>1, <2>2 DEF Inv, RowsBacked
<1>11. FilesOwned'
  <2>1. \A o \in Threads : Uploads(o)' = Uploads(o) BY WorksOn
  <2> QED BY <1>2, <2>1 DEF Inv, FilesOwned, Listed
<1> QED BY <1>3, <1>4, <1>5, <1>6, <1>8, <1>9, <1>10, <1>11 DEF Inv

LEMMA DropRowsKept == ASSUME Inv, NEW c \in Threads, DropRows(c) PROVE Inv'
<1> DEFINE s == AfterRows(th[c])
<1>1. th[c].at = "unlinking" /\ th[c].left = {} /\ DOMAIN th[c] = Fields /\ th[c].parts = <<>>
  BY DEF DropRows, Dropping, Inv, Shape, Uploading, Uploads1
<1>2. th' = [th EXCEPT ![c] = s] /\ rows' = Without(rows, Doomed(th[c]))
      /\ UNCHANGED <<nextId, files, made, tokens, bounds, strays, torn>>
  BY DEF DropRows, Goes
<1>3. DOMAIN s = Fields /\ s.parts = <<>> /\ s.at \in {"idle", "dropFolder"}
  BY <1>1, IdleParts DEF AfterRows, Fields
<1>4. Doomed(th[c]) \cap DOMAIN rows = Doomed(th[c]) BY DEF Doomed, At, Under, Below
<1>5. Going(c) \cap files \subseteq strays BY <1>1 DEF Inv, Deletes
<1> HIDE DEF s
<1>6. Works(c, s) BY <1>1, <1>2, <1>3, IdleWorks DEF Uploads1
<1> QED BY <1>1, <1>2, <1>3, <1>4, <1>5, <1>6, GoneKept DEF Going, Locking

LEMMA DropFolderKept == ASSUME Inv, NEW c \in Threads, DropFolder(c) PROVE Inv'
<1> DEFINE gone == {i \in At(rows, th[c].path, th[c].name) : rows[i].dir}
<1>1. th[c].at = "dropFolder" /\ th' = [th EXCEPT ![c] = Idle] /\ rows' = Without(rows, gone)
      /\ UNCHANGED <<nextId, files, made, tokens, bounds, strays, torn>>
  BY DEF DropFolder, Goes
<1>2. DisksOf(rows, gone \cap DOMAIN rows) = {} BY DEF Inv, Table, DisksOf
<1> HIDE DEF gone
<1>3. Works(c, Idle) BY <1>1, IdleParts, IdleWorks DEF Uploads1
<1> QED BY <1>1, <1>2, <1>3, IdleParts, GoneKept DEF Locking

-------------------------------------------------------------------------------
(* Uploads                                                                  *)

LEMMA UploadKept ==
    ASSUME Inv, NEW c \in Threads, NEW p, NEW n \in Nat, NEW names \in [1..n -> Names], n > 0,
           Upload(c, p, names)
    PROVE  Inv'
<1> DEFINE parts == [k \in 1..n |-> [name |-> names[k], disk |-> made + k]]
           s == [Idle EXCEPT !.at = "insert", !.path = p, !.parts = parts]
           new == {made + k : k \in 1..n}
<1>0. Len(names) = n /\ made \in Nat BY DEF Inv, Shape
<1>1. th[c].at = "idle" /\ th' = [th EXCEPT ![c] = s] /\ made' = made + n /\ files' = files \cup new
      /\ UNCHANGED <<rows, nextId, tokens, bounds, strays, torn, mishaps>>
  BY <1>0 DEF Upload, Goes, Disk
<1>2. DOMAIN s = Fields /\ s.parts = parts /\ s.at = "insert" BY DEF Idle, Fields
<1>3. PartsOK(parts) /\ Ups(parts) = new /\ parts # <<>>
  <2> DEFINE Part == [name : Names, disk : Nat]  part(k) == [name |-> names[k], disk |-> made + k]
  <2>0. \A k \in 1..n : part(k) \in Part /\ part(k).disk = made + k BY <1>0
  <2>1. \A k \in 1..n : parts[k].disk = made + k BY <2>0
  <2>2. parts \in Seq(Part) /\ DOMAIN parts = 1..n
    <3>1. parts = [k \in 1..n |-> part(k)] OBVIOUS
    <3> HIDE DEF part, Part, parts
    <3> QED BY <2>0, <3>1
  <2>3. PartsOK(parts) BY <1>0, <2>1, <2>2 DEF PartsOK
  <2>4. Ups(parts) = new BY <2>1, <2>2 DEF Ups
  <2>5. parts # <<>> BY <2>2
  <2> QED BY <2>3, <2>4, <2>5
<1>4. new \cap (1..made) = {} /\ new \subseteq 1..made' /\ 1..made \subseteq 1..made' /\ made' \in Nat
  BY <1>0, <1>1
<1> HIDE DEF s, parts, new
<1>5. DOMAIN th' = Threads /\ th'[c] = s /\ \A o \in Threads \ {c} : th'[o] = th[o]
  BY <1>1 DEF Inv, Shape
<1>6. Ups(th[c].parts) = {} BY <1>1, IdleParts DEF Inv, Uploading, Uploads1
<1>7. Shape' BY <1>1, <1>2, <1>3, <1>4, <1>5 DEF Inv, Shape
<1>8. Table' /\ Listed' = Listed /\ Listed \subseteq 1..made
  BY <1>1, <1>4 DEF Inv, Table, Listed, DisksOf
<1>9. Uploading'
  <2>1. \A o \in Threads \ {c} : Ups(th[o].parts) \subseteq 1..made BY DEF Inv, Uploading, Shape
  <2>2. ASSUME NEW o \in Threads
        PROVE  (Uploads1(th'[o].at) <=> th'[o].parts # <<>>) /\ Ups(th'[o].parts) \subseteq files' \ Listed'
    <3>1. CASE o = c BY <1>1, <1>2, <1>3, <1>4, <1>5, <1>8, <3>1 DEF Uploads1
    <3>2. CASE o # c BY <1>1, <1>5, <1>8, <3>2 DEF Inv, Uploading
    <3> QED BY <3>1, <3>2
  <2>3. \A o, d \in Threads : o # d => Ups(th'[o].parts) \cap Ups(th'[d].parts) = {}
    BY <1>2, <1>3, <1>4, <1>5, <2>1 DEF Inv, Uploading
  <2> QED BY <2>2, <2>3 DEF Uploading
<1>10. Mutex' BY <1>2, <1>5, MutexKept DEF Locking
<1>11. Deletes'
  <2> SUFFICES ASSUME NEW o \in Threads, th'[o].at = "unlinking"
               PROVE  th'[o].left \subseteq Going(o)' /\ Going(o)' \cap files' \subseteq th'[o].left \cup strays'
    BY DEF Deletes
  <2>1. th'[o] = th[o] BY <1>2, <1>5
  <2>2. Going(o)' = Going(o) BY <1>1, <2>1 DEF Going, Doomed
  <2>3. Going(o) \subseteq 1..made BY <1>8, GoingListed
  <2> QED BY <1>1, <1>4, <2>1, <2>2, <2>3 DEF Inv, Deletes
<1>12. Tokens' /\ TokenServes' BY <1>1 DEF Inv, Tokens, TokenServes
<1>13. RowsBacked'
  <2>1. ASSUME NEW o \in Threads PROVE Deleting(o) \subseteq Deleting(o)'
    <3>1. CASE o = c BY <1>1, <3>1 DEF Deleting
    <3>2. CASE o # c BY <1>1, <1>5, <3>2 DEF Deleting, Doomed
    <3> QED BY <3>1, <3>2
  <2> QED BY <1>1, <2>1 DEF Inv, RowsBacked
<1>14. FilesOwned'
  <2>1. Uploads(c)' = new BY <1>2, <1>3, <1>5 DEF Uploads, Ups
  <2>2. \A o \in Threads : Uploads(o) \subseteq Uploads(o)' BY <1>5, <1>6, UpsIs DEF Uploads
  <2> QED BY <1>1, <2>1, <2>2 DEF Inv, FilesOwned
<1> QED BY <1>7, <1>8, <1>9, <1>10, <1>11, <1>12, <1>13, <1>14 DEF Inv

LEMMA UploadFailsKept == ASSUME Inv, NEW c \in Threads, UploadFails(c) PROVE Inv'
<1>1. made' = made + 1 /\ files' = files \cup {made'} /\ strays' = strays \cup {made'}
      /\ UNCHANGED <<rows, nextId, th, tokens, torn>> /\ made \in Nat
  BY DEF UploadFails, Inv, Shape
<1>2. Shape' BY <1>1 DEF Inv, Shape
<1>3. Table' /\ Listed' = Listed /\ Listed \subseteq 1..made BY <1>1 DEF Inv, Table, Listed, DisksOf
<1>4. Uploading' BY <1>1, <1>3 DEF Inv, Uploading
<1>5. Mutex' /\ Tokens' /\ TokenServes' BY <1>1 DEF Inv, Mutex, Tokens, TokenServes
<1>6. \A o \in Threads : Going(o)' = Going(o) /\ Uploads(o)' = Uploads(o) /\ Deleting(o)' = Deleting(o)
  BY <1>1 DEF Going, Doomed, Uploads, Deleting
<1>7. Deletes' BY <1>1, <1>6 DEF Inv, Deletes
<1>8. RowsBacked' BY <1>1, <1>6 DEF Inv, RowsBacked
<1>9. FilesOwned' BY <1>1, <1>6 DEF Inv, FilesOwned
<1> QED BY <1>2, <1>3, <1>4, <1>5, <1>7, <1>8, <1>9 DEF Inv

(* A row arrives: a folder's, or that of a part c has uploaded.                 *)
Arrives(c, row, s) ==
    /\ Free(c) /\ th[c].at # "unlinking" /\ s.at # "unlinking"
    /\ DOMAIN row = {"name", "path", "dir", "disk"} /\ (row.dir <=> row.disk = None)
    /\ row.disk # None => row.disk \in Ups(th[c].parts)
    /\ rows' = With(rows, NextId, row) /\ nextId' = NextId + 1
    /\ UNCHANGED <<files, made, tokens, strays, torn>>
    /\ DOMAIN th' = Threads /\ th'[c] = s /\ \A o \in Threads \ {c} : th'[o] = th[o]
    /\ DOMAIN s = Fields /\ PartsOK(s.parts) /\ (Uploads1(s.at) <=> s.parts # <<>>)
    /\ Ups(s.parts) = Ups(th[c].parts) \ {row.disk}
LEMMA AddedKept == ASSUME Inv, NEW c \in Threads, NEW row, NEW s, Arrives(c, row, s) PROVE Inv'
<1> USE DEF Arrives
<1>1. DOMAIN th' = Threads /\ th'[c] = s /\ \A o \in Threads \ {c} : th'[o] = th[o]
  OBVIOUS
<1>2. nextId \notin DOMAIN rows /\ rows' = With(rows, nextId, row) /\ nextId' = nextId + 1 /\ nextId \in Nat
  BY DEF NextId, Inv, Shape, Table
<1>3. /\ DOMAIN rows' = DOMAIN rows \cup {nextId} /\ rows'[nextId] = row
      /\ \A i \in DOMAIN rows : i # nextId /\ rows'[i] = rows[i]
  BY <1>2 DEF With
<1>4. Listed' = Listed \cup ({row.disk} \ {None}) BY <1>3 DEF Listed, DisksOf
<1>5. row.disk \notin Listed BY DEF Inv, Uploading, Listed, DisksOf
<1>6. Shape' BY <1>1, <1>2 DEF Inv, Shape
<1>7. Table'
  <2>1. row.disk # None => row.disk \in 1..made BY DEF Inv, Uploading, Shape
  <2>2. \A i \in DOMAIN rows : row.disk = rows[i].disk => row.disk = None
    BY <1>5 DEF Listed, DisksOf
  <2> QED BY <1>2, <1>3, <2>1, <2>2 DEF Inv, Table
<1>8. Uploading'
  <2>1. ASSUME NEW o \in Threads
        PROVE  (Uploads1(th'[o].at) <=> th'[o].parts # <<>>) /\ Ups(th'[o].parts) \subseteq files \ Listed'
    <3>1. CASE o = c BY <1>1, <1>4, <3>1 DEF Inv, Uploading
    <3>2. CASE o # c BY <1>1, <1>4, <3>2 DEF Inv, Uploading
    <3> QED BY <3>1, <3>2
  <2>2. ASSUME NEW o \in Threads, NEW d \in Threads, o # d
        PROVE  Ups(th'[o].parts) \cap Ups(th'[d].parts) = {}
    <3>1. Ups(th'[o].parts) \subseteq Ups(th[o].parts) /\ Ups(th'[d].parts) \subseteq Ups(th[d].parts)
      BY <1>1
    <3> QED BY <2>2, <3>1 DEF Inv, Uploading
  <2> QED BY <2>1, <2>2 DEF Uploading
<1>9. Mutex' BY <1>1, MutexKept
<1>10. \A o \in Threads : th'[o].at # "unlinking" /\ th[o].at # "unlinking" BY <1>1, OnlyDeleter
<1>11. Tokens' /\ TokenServes'
  <2> SUFFICES ASSUME NEW t \in tokens
               PROVE  t.id \in Nat /\ t.id < nextId' /\ (t.id \in DOMAIN rows' => rows'[t.id].disk = t.disk)
    BY DEF Tokens, TokenServes
  <2>1. t.id \in Nat /\ t.id < nextId BY DEF Inv, Tokens
  <2> QED BY <1>2, <1>3, <2>1 DEF Inv, TokenServes
<1>12. RowsBacked'
  <2> SUFFICES ASSUME NEW i \in DOMAIN rows', ~rows'[i].dir PROVE rows'[i].disk \in files \cup torn
    BY DEF RowsBacked
  <2>1. \A o \in Threads : Deleting(o) = {} BY <1>10 DEF Deleting
  <2>2. CASE i = nextId BY <1>3, <2>2 DEF Inv, Uploading
  <2>3. CASE i # nextId BY <1>3, <2>1, <2>3 DEF Inv, RowsBacked
  <2> QED BY <2>2, <2>3
<1>13. FilesOwned'
  <2>1. \A o \in Threads : Uploads(o) \subseteq Uploads(o)' \cup Listed'
    <3>1. Uploads(c) \subseteq Uploads(c)' \cup {row.disk} BY <1>1, UpsIs DEF Uploads, Ups
    <3>2. \A o \in Threads \ {c} : Uploads(o)' = Uploads(o) BY <1>1 DEF Uploads
    <3>3. None \notin Uploads(c)
      <4>1. Uploads(c) \subseteq 1..made BY UpsIs DEF Inv, Uploading, Shape
      <4> QED BY <4>1, NoneAssumption
    <3> QED BY <1>4, <3>1, <3>2, <3>3
  <2>2. files \subseteq Listed \cup strays \cup UNION {Uploads(o) : o \in Threads} BY DEF Inv, FilesOwned, Listed
  <2>3. files \subseteq Listed' \cup strays \cup UNION {Uploads(o)' : o \in Threads} BY <1>4, <2>1, <2>2
  <2> QED BY <2>3 DEF FilesOwned, Listed
<1> QED BY <1>6, <1>7, <1>8, <1>9, <1>10, <1>11, <1>12, <1>13 DEF Inv, Deletes

LEMMA InsertKept == ASSUME Inv, NEW c \in Threads, Insert(c) PROVE Inv'
<1> DEFINE part == Head(th[c].parts)
           row == [name |-> part.name, path |-> th[c].path, dir |-> FALSE, disk |-> part.disk]
           s == IF Len(th[c].parts) = 1 THEN Idle ELSE [th[c] EXCEPT !.at = "inserting", !.parts = Tail(@)]
<1>1. Uploads1(th[c].at) /\ Free(c) /\ th[c].at # "unlinking" BY DEF Insert, Inserting, Uploads1
<1>2. PartsOK(th[c].parts) /\ th[c].parts # <<>> /\ DOMAIN th[c] = Fields
  BY <1>1 DEF Inv, Shape, Uploading
<1>3. part.disk \in Ups(th[c].parts) /\ part.disk # None BY <1>2, NextPart, NoneAssumption
<1>4. /\ DOMAIN row = {"name", "path", "dir", "disk"} /\ row.disk = part.disk
      /\ row.dir <=> row.disk = None
  BY <1>3
<1>5. Added(row) /\ th' = [th EXCEPT ![c] = s] /\ UNCHANGED <<files, made, tokens, bounds, strays, torn>>
  BY DEF Insert, Goes
<1>6. /\ DOMAIN s = Fields /\ s.parts = Tail(th[c].parts) /\ s.at # "unlinking"
      /\ Uploads1(s.at) <=> s.parts # <<>>
  BY <1>2, NextPart, IdleParts DEF Fields, Uploads1
<1>7. PartsOK(s.parts) /\ Ups(s.parts) = Ups(th[c].parts) \ {row.disk} BY <1>2, <1>4, <1>6, NextPart
<1>8. DOMAIN th' = Threads /\ th'[c] = s /\ \A o \in Threads \ {c} : th'[o] = th[o]
  BY <1>5 DEF Inv, Shape
<1>9. row.disk # None => row.disk \in Ups(th[c].parts) BY <1>3, <1>4
<1> HIDE DEF s, row, part
<1>10. Arrives(c, row, s) BY <1>1, <1>4, <1>5, <1>6, <1>7, <1>8, <1>9 DEF Arrives, Added
<1> QED BY <1>10, AddedKept

LEMMA CreateFolderKept == ASSUME Inv, NEW c \in Threads, NEW p, NEW n,
                                  CreateFolder(c, p, n) \/ CreateFolderMisread(c, p, n)
                           PROVE  Inv'
<1> DEFINE row == [name |-> n, path |-> p, dir |-> TRUE, disk |-> None]
<1>1. th[c].at = "idle" /\ Free(c) /\ rows' = With(rows, NextId, row) /\ nextId' = NextId + 1 /\ th' = th
      /\ UNCHANGED <<files, made, tokens, strays, torn>>
  BY DEF CreateFolder, CreateFolderMisread, Added
<1>2. DOMAIN row = {"name", "path", "dir", "disk"} /\ row.dir /\ row.disk = None OBVIOUS
<1> HIDE DEF row
<1>3. DOMAIN th = Threads /\ DOMAIN th[c] = Fields /\ PartsOK(th[c].parts)
      /\ th[c].parts = <<>> /\ ~Uploads1(th[c].at)
  BY <1>1 DEF Inv, Shape, Uploading, Uploads1
<1>4. Ups(th[c].parts) = {} BY <1>3, IdleParts
<1>5. Arrives(c, row, th[c]) BY <1>1, <1>2, <1>3, <1>4 DEF Arrives
<1> QED BY <1>5, AddedKept

LEMMA InsertFailsKept == ASSUME Inv, NEW c \in Threads, InsertFails(c) PROVE Inv'
<1> DEFINE parts == th[c].parts
<1>1. Uploads1(th[c].at) /\ th[c].at # "unlinking" BY DEF InsertFails, Inserting, Uploads1
<1>2. PartsOK(parts) /\ parts # <<>> BY <1>1 DEF Inv, Shape, Uploading
<1>3. th' = [th EXCEPT ![c] = Idle] /\ files' = files \ {Head(parts).disk}
      /\ strays' = strays \cup {parts[k].disk : k \in 2..Len(parts)}
      /\ UNCHANGED <<rows, nextId, made, tokens, torn>>
  BY DEF InsertFails, Goes
<1>4. Head(parts).disk \in Ups(parts) /\ Ups(parts) \subseteq files \ Listed
  BY <1>2, NextPart DEF Inv, Uploading
<1>5. Ups(parts) \subseteq {Head(parts).disk} \cup strays'
  <2> SUFFICES ASSUME NEW k \in DOMAIN parts PROVE parts[k].disk \in {Head(parts).disk} \cup strays'
    BY DEF Ups
  <2>1. k = 1 \/ k \in 2..Len(parts) BY <1>2 DEF PartsOK
  <2>2. Head(parts) = parts[1] BY <1>2 DEF PartsOK
  <2> QED BY <1>3, <2>1, <2>2
<1>6. DOMAIN th' = Threads /\ th'[c] = Idle /\ \A o \in Threads \ {c} : th'[o] = th[o]
  BY <1>3 DEF Inv, Shape
<1> HIDE DEF parts
<1>7. Shape' BY <1>3, <1>6, IdleParts DEF Inv, Shape
<1>8. Table' /\ Listed' = Listed BY <1>3 DEF Inv, Table, Listed
<1>9. Uploading'
  <2>1. ASSUME NEW o \in Threads
        PROVE  (Uploads1(th'[o].at) <=> th'[o].parts # <<>>) /\ Ups(th'[o].parts) \subseteq files' \ Listed
    <3>1. CASE o = c BY <1>6, <3>1, IdleParts DEF Uploads1
    <3>2. CASE o # c
      <4>1. Head(parts).disk \notin Ups(th[o].parts) BY <1>4, <3>2 DEF Inv, Uploading, parts
      <4> QED BY <1>3, <1>6, <3>2, <4>1 DEF Inv, Uploading
    <3> QED BY <3>1, <3>2
  <2>2. \A o, d \in Threads : o # d => Ups(th'[o].parts) \cap Ups(th'[d].parts) = {}
    BY <1>6, IdleParts DEF Inv, Uploading
  <2> QED BY <1>8, <2>1, <2>2 DEF Uploading
<1>10. Mutex' BY <1>6, IdleParts, MutexKept DEF Locking
<1>11. ASSUME NEW o \in Threads, th'[o].at = "unlinking"
       PROVE  th'[o] = th[o] /\ Going(o)' = Going(o)
  <2>1. th'[o] = th[o] BY <1>6, <1>11, IdleParts
  <2> QED BY <1>3, <2>1 DEF Going, Doomed
<1>12. Deletes' BY <1>3, <1>11 DEF Inv, Deletes
<1>13. Tokens' /\ TokenServes' BY <1>3 DEF Inv, Tokens, TokenServes
<1>14. RowsBacked'
  <2>1. \A o \in Threads : Deleting(o) \subseteq Deleting(o)'
    <3> TAKE o \in Threads
    <3>1. CASE o = c BY <1>1, <3>1 DEF Deleting
    <3>2. CASE o # c BY <1>3, <1>6, <3>2 DEF Deleting, Doomed
    <3> QED BY <3>1, <3>2
  <2>2. ASSUME NEW i \in DOMAIN rows, ~rows[i].dir PROVE rows[i].disk # Head(parts).disk
    <3>1. rows[i].disk \in Listed BY <2>2 DEF Listed, DisksOf, Inv, Table
    <3> QED BY <1>4, <3>1
  <2> QED BY <1>3, <2>1, <2>2 DEF Inv, RowsBacked
<1>15. FilesOwned'
  <2>1. \A o \in Threads \ {c} : Uploads(o)' = Uploads(o) BY <1>6 DEF Uploads
  <2>2. Uploads(c) \subseteq {Head(parts).disk} \cup strays' BY <1>5, UpsIs DEF parts
  <2>3. files \subseteq Listed \cup strays \cup UNION {Uploads(o) : o \in Threads} BY DEF Inv, FilesOwned, Listed
  <2>4. files' \subseteq Listed \cup strays' \cup UNION {Uploads(o)' : o \in Threads}
    BY <1>3, <2>1, <2>2, <2>3
  <2> QED BY <1>8, <2>4 DEF FilesOwned, Listed
<1> QED BY <1>7, <1>8, <1>9, <1>10, <1>12, <1>13, <1>14, <1>15 DEF Inv

-------------------------------------------------------------------------------
(* Tokens and kills                                                         *)

LEMMA TokenKept ==
    ASSUME Inv, NEW x, UNCHANGED <<rows, nextId, files, made, th, bounds, strays, torn, mishaps>>,
           \/ tokens' = tokens \ {x}
           \/ \E i \in DOMAIN rows : tokens' = tokens \cup {[id |-> i, disk |-> rows[i].disk]}
    PROVE  Inv'
<1>1. Shape' /\ Table' /\ Uploading' /\ Mutex'
  BY DEF Inv, Shape, Table, Uploading, Mutex, Listed
<1>2. Deletes' BY DEF Inv, Deletes, Going, Doomed
<1>3. RowsBacked' /\ FilesOwned' BY DEF Inv, RowsBacked, FilesOwned, Deleting, Doomed, Uploads
<1>4. Tokens' /\ TokenServes'
  <2>1. CASE tokens' = tokens \ {x} BY <2>1 DEF Inv, Tokens, TokenServes
  <2>2. ASSUME NEW i \in DOMAIN rows, tokens' = tokens \cup {[id |-> i, disk |-> rows[i].disk]}
        PROVE  Tokens' /\ TokenServes'
    BY <2>2 DEF Inv, Tokens, TokenServes, Table
  <2> QED BY <2>1, <2>2
<1> QED BY <1>1, <1>2, <1>3, <1>4 DEF Inv

LEMMA CrashKept == ASSUME Inv, Crash PROVE Inv'
<1>1. th' = [c \in Threads |-> Idle] /\ tokens' = {} /\ UNCHANGED <<rows, nextId, files, made>>
      /\ strays' = strays \cup UNION {Uploads(c) : c \in Threads}
      /\ torn' = torn \cup (Listed \ files)
  BY DEF Crash, Listed
<1>2. \A c \in Threads : th'[c] = Idle BY <1>1
<1>3. Shape' BY <1>1, <1>2, IdleParts DEF Inv, Shape
<1>4. Table' /\ Listed' = Listed BY <1>1 DEF Inv, Table, Listed
<1>5. Uploading' BY <1>2, IdleParts DEF Uploading, Uploads1
<1>6. Mutex' /\ Deletes' /\ Tokens' /\ TokenServes'
  BY <1>1, <1>2, IdleParts DEF Mutex, Deletes, Tokens, TokenServes, Locking
<1>7. RowsBacked'
  <2> SUFFICES ASSUME NEW i \in DOMAIN rows, ~rows[i].dir PROVE rows[i].disk \in files \cup torn'
    BY <1>1 DEF RowsBacked
  <2>1. rows[i].disk \in Listed BY DEF Listed, DisksOf, Inv, Table
  <2> QED BY <1>1, <2>1
<1>8. FilesOwned'
  <2>1. files \subseteq Listed \cup strays' BY <1>1 DEF Inv, FilesOwned, Listed
  <2> QED BY <1>1, <1>4, <2>1 DEF FilesOwned, Listed
<1> QED BY <1>3, <1>4, <1>5, <1>6, <1>7, <1>8 DEF Inv

-------------------------------------------------------------------------------
(* The theorems                                                             *)

LEMMA InitInv == ASSUME Init PROVE Inv
<1>1. rows = <<>> /\ nextId = 1 /\ files = {} /\ made = 0 /\ tokens = {}
      /\ DOMAIN th = Threads /\ \A c \in Threads : th[c] = Idle
  BY DEF Init, NoRows
<1>2. DOMAIN rows = {} BY <1>1
<1>3. Shape /\ Table BY <1>1, <1>2, IdleParts DEF Shape, Table
<1>4. Uploading BY <1>1, IdleParts DEF Uploading, Uploads1
<1>5. Mutex /\ Deletes /\ Tokens /\ TokenServes
  BY <1>1, IdleParts DEF Mutex, Deletes, Tokens, TokenServes, Locking
<1>6. RowsBacked /\ FilesOwned BY <1>1, <1>2 DEF RowsBacked, FilesOwned
<1> QED BY <1>3, <1>4, <1>5, <1>6 DEF Inv

LEMMA StutterInv == ASSUME Inv, UNCHANGED vars PROVE Inv'
<1>1. Shape' /\ Table' /\ Uploading' /\ Mutex' /\ Tokens' /\ TokenServes'
  BY DEF Inv, Shape, Table, Uploading, Mutex, Listed, Tokens, TokenServes, vars
<1>2. Deletes' BY DEF Inv, Deletes, Going, Doomed, vars
<1>3. RowsBacked' /\ FilesOwned' BY DEF Inv, RowsBacked, FilesOwned, Deleting, Doomed, Uploads, vars
<1> QED BY <1>1, <1>2, <1>3 DEF Inv

LEMMA NextInv == ASSUME Inv, [Next]_vars PROVE Inv'
<1>1. CASE UNCHANGED vars BY <1>1, StutterInv
<1>2. ASSUME NEW c \in Threads, NEW p \in Paths, NEW k \in 1..MaxParts, NEW names \in [1..k -> Names],
             Upload(c, p, names)
      PROVE  Inv' BY <1>2, UploadKept, BoundsAssumption
<1>3. ASSUME NEW c \in Threads, NEW p \in Paths, NEW n \in Names,
             \/ CreateFolder(c, p, n) \/ Delete(c, p, n)
             \/ CreateFolderMisread(c, p, n) \/ DeleteMisread(c, p, n)
             \/ \E m \in Names : Rename(c, p, n, m) \/ RenameMisread(c, p, n, m)
      PROVE  Inv'
  <2>1. CASE Delete(c, p, n) BY <2>1, DeletesStart, DeleteKept
  <2> QED BY <1>3, <2>1, CreateFolderKept, DeleteMisreadKept, RenameKept
<1>4. ASSUME NEW c \in Threads,
             (\E f \in th[c].left : Unlink(c, f)) \/ (\E S : UnlinkFails(c, S))
      PROVE  Inv' BY <1>4, BothUnlink, UnlinkKept
<1>5. ASSUME NEW c \in Threads,
             \/ UploadFails(c) \/ Insert(c) \/ InsertFails(c)
             \/ DropRows(c) \/ DropRowsFails(c) \/ DropFolder(c) \/ DropFolderFails(c)
             \/ Move(c) \/ MoveFails(c)
      PROVE  Inv'
  BY <1>5, UploadFailsKept, InsertKept, InsertFailsKept, DropRowsKept, DropFolderFailsKept,
     DropFolderKept, MoveKept
<1>6. ASSUME NEW c \in Threads, NEW i \in Ids, MintToken(c, i) PROVE Inv'
  BY <1>6, TokenKept DEF MintToken
<1>7. ASSUME NEW t \in tokens, TokenExpires(t) PROVE Inv' BY <1>7, TokenKept DEF TokenExpires
<1>8. CASE Crash BY <1>8, CrashKept
<1> QED BY <1>1, <1>2, <1>3, <1>4, <1>5, <1>6, <1>7, <1>8 DEF Next

(* Inv is what every reachable state satisfies; the theorems follow from it.      *)
LEMMA SpecInv == Spec => []Inv
<1>1. Init => Inv BY InitInv
<1>2. Inv /\ [Next]_vars => Inv' BY NextInv
<1> QED BY <1>1, <1>2, PTL DEF Spec

(* A listed file can be downloaded: its row never outlives the file, but for    *)
(* the delete at work on it and deletes cut off (api_delete).                  *)
THEOREM ListedFilesAreThere == Spec => []RowsBacked
<1>1. Inv => RowsBacked BY DEF Inv
<1> QED BY <1>1, SpecInv, PTL

(* Every file in serve/files is a listed one's or an upload's under way, but     *)
(* for uploads cut off and removals that failed (api_upload, api_delete).      *)
THEOREM NoOrphans == Spec => []FilesOwned
<1>1. Inv => FilesOwned BY DEF Inv
<1> QED BY <1>1, SpecInv, PTL

(* A download token serves the file it was made for or none (the table's id is   *)
(* AUTOINCREMENT).                                                          *)
THEOREM TokensAreTrue == Spec => []TokenServes
<1>1. Inv => TokenServes BY DEF Inv
<1> QED BY <1>1, SpecInv, PTL

-------------------------------------------------------------------------------
(* Types                                                                    *)

LEMMA FirstIsIn == ASSUME NEW S \in SUBSET Nat, S # {} PROVE First(S) \in S /\ \A j \in S : First(S) <= j
<1>1. \E i \in S : \A j \in S : ~(<<j, i>> \in OpToRel(<, Nat)) BY WFMin, NatLessThanWellFounded
<1>2. PICK i \in S : \A j \in S : ~(<<j, i>> \in OpToRel(<, Nat)) BY <1>1
<1>3. \A j \in S : i <= j
  <2> TAKE j \in S
  <2>1. i \in Nat /\ j \in Nat OBVIOUS
  <2>2. ~(j < i) BY <1>2, <2>1 DEF OpToRel
  <2> QED BY <2>1, <2>2
<1> QED BY <1>3 DEF First

LEMMA RowTypes ==
    ASSUME NEW r, r \in Row
    PROVE  /\ r.name \in Names /\ r.path \in Seq(Names) /\ r.dir \in BOOLEAN /\ r.disk \in Ids \cup {None}
           /\ \A m \in Names : [r EXCEPT !.name = m] \in Row /\ [r EXCEPT !.name = m].name = m
                               /\ [r EXCEPT !.name = m].path = r.path /\ [r EXCEPT !.name = m].dir = r.dir
                               /\ [r EXCEPT !.name = m].disk = r.disk
           /\ \A s \in Seq(Names) : [r EXCEPT !.path = s] \in Row /\ [r EXCEPT !.path = s].name = r.name
                               /\ [r EXCEPT !.path = s].path = s /\ [r EXCEPT !.path = s].dir = r.dir
                               /\ [r EXCEPT !.path = s].disk = r.disk
           /\ [r EXCEPT !.path = r.path] = r
BY DEF Row

LEMMA ReplacedIsPath ==
    ASSUME NEW q \in Seq(Names), NEW p \in Seq(Names), p # <<>>, NEW n \in Names
    PROVE  Replaced(q, p, n) \in Seq(Names)
<1>1. CASE Occurs(p, q) = {} BY <1>1 DEF Replaced
<1>2. CASE Occurs(p, q) # {}
  <2>1. Len(p) \in Nat \ {0} /\ Len(q) \in Nat BY EmptySeq
  <2>2. Occurs(p, q) \subseteq 0..(Len(q) - Len(p)) BY DEF Occurs
  <2>3. Occurs(p, q) \in SUBSET Nat BY <2>1, <2>2
  <2>4. First(Occurs(p, q)) \in 0..(Len(q) - Len(p)) BY <1>2, <2>2, <2>3, FirstIsIn
  <2> DEFINE k == First(Occurs(p, q)) + Len(p)
  <2>5. k \in 1..Len(q) BY <2>1, <2>4
  <2>6. Replaced(q, p, n) = [q EXCEPT ![k] = n] BY <1>2 DEF Replaced
  <2> HIDE DEF k
  <2> QED BY <2>5, <2>6, ExceptSeq
<1> QED BY <1>1, <1>2

ReqOK(t) == /\ t.at \in Places /\ t.path \in Seq(Names) /\ t.name \in Names \cup {None} /\ t.dir \in BOOLEAN
            /\ t.parts \in Seq([name : Names, disk : Ids]) /\ t.left \subseteq Ids
            /\ t.at \in {"unlinking", "dropFolder", "moving"} => t.name \in Names
            /\ t.at = "moving" => t.path # <<>> /\ t.left # {}
TableOK(r, top) == DOMAIN r \subseteq 1..(top - 1) /\ \A i \in DOMAIN r : r[i] \in Row
Counts == /\ nextId \in 1..(MaxRows + 1) /\ made \in 0..MaxRows /\ files \subseteq 1..made
          /\ tokens \subseteq [id : Ids, disk : Ids] /\ mishaps \subseteq Mishaps
          /\ strays \subseteq 1..made /\ torn \subseteq 1..made
          /\ crashes \in 0..MaxCrashes /\ faults \in 0..MaxFaults
Typing == /\ TableOK(rows, nextId) /\ Counts /\ \A c \in Threads : ReqOK(th[c])
          /\ \A c \in Threads : th[c].at = "moving" => th[c].left \subseteq DOMAIN rows
Bounds == MaxRows \in Nat /\ MaxFaults \in Nat /\ MaxCrashes \in Nat /\ MaxParts \in Nat /\ MaxDepth \in Nat
LEMMA BoundsAre == Bounds BY BoundsAssumption DEF Bounds

LEMMA IdleOK == ReqOK(Idle) /\ Idle.at = "idle" BY DEF Idle, ReqOK, Places, Locking

LEMMA AtIs == ASSUME NEW r, NEW p, NEW n
              PROVE  At(r, p, n) = {i \in DOMAIN r : r[i].path = p /\ r[i].name = n}
BY DEF At, Under

(* c's request becomes s, the others stay.                                    *)
LEMMA TypingKept ==
    ASSUME Inv, Typing, NEW c \in Threads, NEW s, th' = [th EXCEPT ![c] = s], ReqOK(s),
           TableOK(rows, nextId)', Counts', s.at = "moving" => s.left \subseteq DOMAIN rows',
           DOMAIN rows \subseteq DOMAIN rows' \/ Free(c) \/ th[c].at \in Locking
    PROVE  Typing'
<1>1. DOMAIN th = Threads BY DEF Inv, Shape
<1>2. \A o \in Threads : th'[o] = IF o = c THEN s ELSE th[o] BY <1>1
<1>3. ASSUME NEW o \in Threads, th'[o].at = "moving" PROVE th'[o].left \subseteq DOMAIN rows'
  <2>1. CASE o = c BY <1>2, <1>3, <2>1
  <2>2. CASE o # c
    <3>1. th[o].at = "moving" /\ th'[o] = th[o] BY <1>2, <1>3, <2>2
    <3>2. DOMAIN rows \subseteq DOMAIN rows' BY <2>2, <3>1 DEF Free, Inv, Mutex, Locking
    <3> QED BY <3>1, <3>2 DEF Typing
  <2> QED BY <2>1, <2>2
<1> QED BY <1>2, <1>3 DEF Typing

LEMMA FaultCounts == ASSUME Counts, Fault PROVE faults' \in 0..MaxFaults /\ crashes' \in 0..MaxCrashes
BY BoundsAre DEF Bounds, Counts, Fault

(* Uploads, whose parts are numbered from made.                               *)
LEMMA UploadTypes ==
    ASSUME Inv, Typing, NEW c \in Threads, NEW p \in Paths, NEW k \in 1..MaxParts,
           NEW names \in [1..k -> Names], Upload(c, p, names)
    PROVE  Typing'
<1> DEFINE n == Len(names)  parts == [i \in 1..n |-> [name |-> names[i], disk |-> Disk(i)]]
           s == [Idle EXCEPT !.at = "insert", !.path = p, !.parts = parts]
<1>1. k \in Nat /\ n = k /\ names \in Seq(Names) BY BoundsAre DEF Bounds
<1>2. made \in Nat /\ made + n <= MaxRows BY BoundsAre DEF Upload, Typing, Counts, Bounds
<1>3. \A i \in 1..n : Disk(i) \in Ids BY <1>1, <1>2, BoundsAre DEF Disk, Ids, Bounds
<1>4. parts \in Seq([name : Names, disk : Ids])
  <2>1. \A i \in 1..n : [name |-> names[i], disk |-> Disk(i)] \in [name : Names, disk : Ids]
    BY <1>1, <1>3
  <2> HIDE DEF n
  <2> QED BY <1>1, <2>1
<1>5. p \in Seq(Names)
  <2>1. PICK d \in 0..MaxDepth : p \in [1..d -> Names] BY DEF Paths
  <2> QED BY <2>1, BoundsAre DEF Bounds
<1>6. th' = [th EXCEPT ![c] = s] BY DEF Upload, Goes
<1> HIDE DEF parts
<1>7. ReqOK(s) /\ s.at = "insert" BY <1>4, <1>5 DEF Idle, ReqOK, Places, Locking
<1>8. /\ made' = made + n /\ files' = files \cup {Disk(i) : i \in 1..n}
      /\ UNCHANGED <<rows, nextId, tokens, bounds, strays, torn, mishaps>>
  BY DEF Upload
<1>9. Counts'
  <2>1. made' \in 0..MaxRows /\ made <= made' BY <1>1, <1>2, <1>8, BoundsAre DEF Bounds
  <2>2. \A i \in 1..n : Disk(i) \in 1..made' BY <1>1, <1>2, <1>8 DEF Disk
  <2>3. 1..made \subseteq 1..made' BY <1>2, <2>1
  <2> QED BY <1>8, <2>1, <2>2, <2>3 DEF Typing, Counts, bounds
<1>10. TableOK(rows, nextId)' BY <1>8 DEF Typing, TableOK
<1> HIDE DEF s
<1> QED BY <1>6, <1>7, <1>8, <1>9, <1>10, TypingKept

LEMMA UploadFailsTypes == ASSUME Inv, Typing, NEW c \in Threads, UploadFails(c) PROVE Typing'
<1>1. made' = made + 1 /\ made < MaxRows /\ files' = files \cup {made'} /\ strays' = strays \cup {made'}
      /\ UNCHANGED <<rows, nextId, th, tokens, torn, mishaps>> /\ Fault
  BY DEF UploadFails
<1>2. made \in 0..MaxRows BY DEF Typing, Counts
<1>3. made' \in 0..MaxRows /\ 1..made \subseteq 1..made' /\ made' \in 1..made'
  BY <1>1, <1>2, BoundsAre DEF Bounds
<1>4. Counts' BY <1>1, <1>3, FaultCounts DEF Typing, Counts
<1> QED BY <1>1, <1>4 DEF Typing, TableOK

LEMMA AddedTypes ==
    ASSUME Typing, NEW row, row \in Row, Added(row)
    PROVE  /\ TableOK(rows, nextId)' /\ nextId' \in 1..(MaxRows + 1) /\ mishaps' \subseteq Mishaps
           /\ DOMAIN rows \subseteq DOMAIN rows'
<1>1. nextId \in 1..(MaxRows + 1) /\ nextId <= MaxRows /\ nextId' = nextId + 1
      /\ rows' = With(rows, nextId, row) /\ mishaps' = mishaps \cup Slips(row)
  BY DEF Added, NextId, Typing, Counts
<1>2. DOMAIN rows' = DOMAIN rows \cup {nextId}
      /\ \A j \in DOMAIN rows' : rows'[j] = IF j = nextId THEN row ELSE rows[j]
  BY <1>1 DEF With
<1>3. DOMAIN rows' \subseteq 1..(nextId' - 1) BY <1>1, <1>2, BoundsAre DEF Typing, TableOK, Bounds
<1>4. \A j \in DOMAIN rows' : rows'[j] \in Row BY <1>2 DEF Typing, TableOK
<1>5. mishaps' \subseteq Mishaps BY <1>1 DEF Slips, Mishaps, Typing, Counts
<1> QED BY <1>1, <1>2, <1>3, <1>4, <1>5, BoundsAre DEF TableOK, Bounds

LEMMA Elements == ASSUME NEW S, NEW s \in Seq(S) PROVE \A k \in DOMAIN s : s[k] \in S
OBVIOUS

LEMMA PartTypes ==
    ASSUME Inv, Typing, NEW c \in Threads, Inserting(c)
    PROVE  /\ th[c].parts # <<>> /\ Head(th[c].parts) \in [name : Names, disk : Ids]
           /\ Tail(th[c].parts) \in Seq([name : Names, disk : Ids])
           /\ \A k \in DOMAIN th[c].parts : th[c].parts[k] \in [name : Names, disk : Ids]
<1>1. th[c].parts \in Seq([name : Names, disk : Ids]) BY DEF Typing, ReqOK
<1>2. th[c].parts # <<>> BY DEF Inserting, Inv, Uploading, Uploads1
<1>3. \A k \in DOMAIN th[c].parts : th[c].parts[k] \in [name : Names, disk : Ids] BY <1>1, Elements
<1> QED BY <1>1, <1>2, <1>3, HeadTailProperties

LEMMA InsertTypes == ASSUME Inv, Typing, NEW c \in Threads, Insert(c) PROVE Typing'
<1> DEFINE part == Head(th[c].parts)
           row == [name |-> part.name, path |-> th[c].path, dir |-> FALSE, disk |-> part.disk]
           t == [th[c] EXCEPT !.at = "inserting", !.parts = Tail(@)]
           s == IF Len(th[c].parts) = 1 THEN Idle ELSE t
<1>1. Inserting(c) /\ Added(row) /\ th' = [th EXCEPT ![c] = s]
      /\ UNCHANGED <<files, made, tokens, bounds, strays, torn>>
  BY DEF Insert, Goes
<1>2. part \in [name : Names, disk : Ids] /\ Tail(th[c].parts) \in Seq([name : Names, disk : Ids])
  BY <1>1, PartTypes
<1>3. row \in Row BY <1>2 DEF Row, Typing, ReqOK
<1>4. ReqOK(t) /\ t.at = "inserting"
  BY <1>2 DEF Typing, ReqOK, Inv, Shape, Fields, Places, Locking
<1> HIDE DEF row, t
<1>5. ReqOK(s) /\ s.at # "moving" BY <1>4, IdleOK
<1>6. /\ TableOK(rows, nextId)' /\ nextId' \in 1..(MaxRows + 1) /\ mishaps' \subseteq Mishaps
      /\ DOMAIN rows \subseteq DOMAIN rows'
  BY <1>1, <1>3, AddedTypes
<1>7. Counts' BY <1>1, <1>6 DEF Typing, Counts, bounds
<1> HIDE DEF s
<1> QED BY <1>1, <1>5, <1>6, <1>7, TypingKept

LEMMA InsertFailsTypes == ASSUME Inv, Typing, NEW c \in Threads, InsertFails(c) PROVE Typing'
<1>1. /\ Inserting(c) /\ Fault /\ files' = files \ {Head(th[c].parts).disk}
      /\ strays' = strays \cup {th[c].parts[k].disk : k \in 2..Len(th[c].parts)}
      /\ th' = [th EXCEPT ![c] = Idle] /\ UNCHANGED <<rows, nextId, made, tokens, torn, mishaps>>
  BY DEF InsertFails, Goes
<1>2. \A k \in 2..Len(th[c].parts) : th[c].parts[k].disk \in 1..made
  <2> TAKE k \in 2..Len(th[c].parts)
  <2>1. k \in DOMAIN th[c].parts BY DEF Typing, ReqOK
  <2>2. th[c].parts[k].disk \in files BY <2>1 DEF Inv, Uploading, Ups
  <2> QED BY <2>2 DEF Typing, Counts
<1>3. Counts' BY <1>1, <1>2, FaultCounts DEF Typing, Counts
<1>4. TableOK(rows, nextId)' BY <1>1 DEF Typing, TableOK
<1> QED BY <1>1, <1>3, <1>4, IdleOK, TypingKept

LEMMA CreateFolderMisreadTypes ==
    ASSUME Inv, Typing, NEW c \in Threads, NEW p \in Seq(Names), NEW n \in Names,
           CreateFolderMisread(c, p, n)
    PROVE  Typing'
<1> DEFINE row == [name |-> n, path |-> p, dir |-> TRUE, disk |-> None]
<1>1. /\ rows' = With(rows, nextId, row) /\ nextId' = nextId + 1 /\ nextId <= MaxRows /\ Fault
      /\ mishaps' = mishaps \cup {"misread"} /\ UNCHANGED <<files, made, th, tokens, strays, torn>>
  BY DEF CreateFolderMisread, NextId, Misread
<1>2. row \in Row BY DEF Row
<1> HIDE DEF row
<1>3. DOMAIN rows' = DOMAIN rows \cup {nextId}
      /\ \A j \in DOMAIN rows' : rows'[j] = IF j = nextId THEN row ELSE rows[j]
  BY <1>1 DEF With
<1>4. nextId \in 1..MaxRows /\ nextId' \in 1..(MaxRows + 1)
  BY <1>1, BoundsAre DEF Bounds, Typing, Counts
<1>5. TableOK(rows, nextId)' BY <1>1, <1>2, <1>3, <1>4, BoundsAre DEF Typing, TableOK, Bounds
<1>6. Counts' BY <1>1, <1>4, FaultCounts DEF Typing, Counts, Mishaps
<1> QED BY <1>1, <1>3, <1>5, <1>6 DEF Typing

LEMMA CreateFolderTypes ==
    ASSUME Inv, Typing, NEW c \in Threads, NEW p \in Seq(Names), NEW n \in Names, CreateFolder(c, p, n)
    PROVE  Typing'
<1> DEFINE row == [name |-> n, path |-> p, dir |-> TRUE, disk |-> None]
<1>1. Added(row) /\ UNCHANGED <<files, made, th, tokens, bounds, strays, torn>> BY DEF CreateFolder
<1>2. row \in Row BY DEF Row
<1> HIDE DEF row
<1>3. /\ TableOK(rows, nextId)' /\ nextId' \in 1..(MaxRows + 1) /\ mishaps' \subseteq Mishaps
      /\ DOMAIN rows \subseteq DOMAIN rows'
  BY <1>1, <1>2, AddedTypes
<1>4. Counts' BY <1>1, <1>3 DEF Typing, Counts, bounds
<1> QED BY <1>1, <1>3, <1>4 DEF Typing

LEMMA DisksTypes == ASSUME Typing, NEW S, S \subseteq DOMAIN rows PROVE DisksOf(rows, S) \subseteq Ids
<1>1. \A i \in S : rows[i].disk \in Ids \cup {None} BY RowTypes DEF Typing, TableOK
<1> QED BY <1>1 DEF DisksOf

LEMMA IdsAreNats == Ids \subseteq Nat /\ None \notin Ids BY BoundsAre, NoneAssumption DEF Ids, Bounds

LEMMA FirstRow == ASSUME Typing, NEW S, S \subseteq DOMAIN rows, S # {} PROVE First(S) \in S
<1>1. S \in SUBSET Nat BY BoundsAre DEF Typing, TableOK, Counts, Bounds
<1> QED BY <1>1, FirstIsIn

LEMMA DeleteTypes ==
    ASSUME Inv, Typing, NEW c \in Threads, NEW p \in Seq(Names), NEW n \in Names, Delete(c, p, n)
    PROVE  Typing'
<1> DEFINE dir == rows[First(At(rows, p, n))].dir
           left == IF dir THEN DisksOf(rows, Below(rows, Append(p, n))) ELSE DisksNamed(p, n)
           s == [Idle EXCEPT !.at = "unlinking", !.path = p, !.name = n, !.dir = dir, !.left = left]
<1>1. th' = [th EXCEPT ![c] = s] /\ mishaps' \subseteq mishaps \cup {"alike"} /\ At(rows, p, n) # {}
      /\ UNCHANGED <<rows, nextId, files, made, tokens, bounds, strays, torn>>
  BY DEF Delete, Goes
<1>2. At(rows, p, n) \subseteq DOMAIN rows /\ Below(rows, Append(p, n)) \subseteq DOMAIN rows
  BY AtIs DEF Below
<1>3. First(At(rows, p, n)) \in DOMAIN rows BY <1>1, <1>2, FirstRow
<1>4. dir \in BOOLEAN BY <1>3, RowTypes DEF Typing, TableOK
<1>5. left \subseteq Ids BY <1>2, DisksTypes DEF DisksNamed
<1> HIDE DEF dir, left
<1>6. ReqOK(s) /\ s.at = "unlinking" BY <1>4, <1>5 DEF ReqOK, Idle, Places, Locking
<1> HIDE DEF s
<1>7. Counts' BY <1>1 DEF Typing, Counts, bounds, Mishaps
<1>8. TableOK(rows, nextId)' BY <1>1 DEF Typing, TableOK
<1> QED BY <1>1, <1>6, <1>7, <1>8, TypingKept

LEMMA DeleteMisreadTypes ==
    ASSUME Inv, Typing, NEW c \in Threads, NEW p \in Seq(Names), NEW n \in Names, DeleteMisread(c, p, n)
    PROVE  Typing'
<1> DEFINE t == [Idle EXCEPT !.at = "unlinking", !.path = p, !.name = n, !.dir = FALSE,
                             !.left = DisksNamed(p, n)]
           u == [Idle EXCEPT !.at = "dropFolder", !.path = p, !.name = n, !.dir = TRUE]
<1>1. (th' = [th EXCEPT ![c] = t] \/ th' = [th EXCEPT ![c] = u]) /\ Fault
      /\ mishaps' = mishaps \cup {"misread"}
      /\ UNCHANGED <<rows, nextId, files, made, tokens, strays, torn>>
  BY DEF DeleteMisread, Goes, Misread
<1>2. DisksNamed(p, n) \subseteq Ids BY AtIs, DisksTypes DEF DisksNamed
<1>3. ReqOK(t) /\ t.at = "unlinking" /\ ReqOK(u) /\ u.at = "dropFolder"
  BY <1>2 DEF ReqOK, Idle, Places, Locking
<1> HIDE DEF t, u
<1>4. Counts' BY <1>1, FaultCounts DEF Typing, Counts, Mishaps
<1>5. TableOK(rows, nextId)' BY <1>1 DEF Typing, TableOK
<1>6. CASE th' = [th EXCEPT ![c] = t] BY <1>1, <1>3, <1>4, <1>5, <1>6, TypingKept
<1>7. CASE th' = [th EXCEPT ![c] = u] BY <1>1, <1>3, <1>4, <1>5, <1>7, TypingKept
<1> QED BY <1>1, <1>6, <1>7

LEMMA UnlinkTypes == ASSUME Inv, Typing, NEW c \in Threads, NEW S, Unlinks(c, S) PROVE Typing'
<1> DEFINE s == [th[c] EXCEPT !.left = @ \ S]
<1>1. th' = [th EXCEPT ![c] = s] /\ th[c].at = "unlinking" BY DEF Unlinks, Goes
<1>2. ReqOK(s) /\ s.at = "unlinking" BY <1>1 DEF Typing, ReqOK, Inv, Shape, Fields
<1> HIDE DEF s
<1>3. UNCHANGED <<rows, nextId, made, tokens, torn, mishaps>> /\ files' \subseteq files
      /\ strays' \subseteq strays \cup files
  BY DEF Unlinks
<1>4. faults' \in 0..MaxFaults /\ crashes' \in 0..MaxCrashes
  BY FaultCounts DEF Unlinks, bounds, Typing, Counts
<1>5. Counts' BY <1>3, <1>4 DEF Typing, Counts
<1>6. TableOK(rows, nextId)' BY <1>3 DEF Typing, TableOK
<1> QED BY <1>1, <1>2, <1>3, <1>5, <1>6, TypingKept

LEMMA WithoutTypes == ASSUME Typing, NEW S, rows' = Without(rows, S), nextId' = nextId
                      PROVE  TableOK(rows, nextId)'
BY DEF Without, Typing, TableOK

LEMMA DropTypes ==
    ASSUME Inv, Typing, NEW c \in Threads,
           DropRows(c) \/ DropRowsFails(c) \/ DropFolder(c) \/ DropFolderFails(c)
    PROVE  Typing'
<1> DEFINE s == IF th[c].at = "unlinking" THEN AfterRows(th[c]) ELSE Idle
<1>1. th[c].at \in {"dropFolder", "unlinking"} /\ th' = [th EXCEPT ![c] = s]
  BY DEF DropRows, DropRowsFails, DropFolder, DropFolderFails, Dropping, Goes
<1>2. ReqOK(s) /\ s.at # "moving"
  BY <1>1, IdleOK DEF AfterRows, Typing, ReqOK, Inv, Shape, Fields, Places, Locking
<1> HIDE DEF s
<1>3. UNCHANGED <<nextId, files, made, tokens, strays>> /\ mishaps' \subseteq mishaps \cup {"cut"}
  BY DEF DropRows, DropRowsFails, DropFolder, DropFolderFails
<1>4. faults' \in 0..MaxFaults /\ crashes' \in 0..MaxCrashes
  BY FaultCounts DEF DropRows, DropRowsFails, DropFolder, DropFolderFails, bounds, Typing, Counts
<1>5. torn' \subseteq 1..made
  <2>1. CASE DropRowsFails(c)
    <3>1. DisksOf(rows, Doomed(th[c])) \subseteq 1..made
      <4>1. Doomed(th[c]) \subseteq DOMAIN rows BY AtIs DEF Doomed, Below
      <4> QED BY <4>1 DEF DisksOf, Inv, Table
    <3> QED BY <2>1, <3>1 DEF DropRowsFails, Typing, Counts
  <2>2. CASE ~DropRowsFails(c)
    BY <2>2 DEF DropRows, DropFolder, DropFolderFails, Typing, Counts
  <2> QED BY <2>1, <2>2
<1>6. Counts' BY <1>3, <1>4, <1>5 DEF Typing, Counts, Mishaps
<1>7. TableOK(rows, nextId)'
  <2>1. CASE DropRows(c) \/ DropFolder(c) BY <1>3, <2>1, WithoutTypes DEF DropRows, DropFolder
  <2>2. CASE rows' = rows BY <1>3, <2>2 DEF Typing, TableOK
  <2> QED BY <2>1, <2>2 DEF DropRowsFails, DropFolderFails
<1> QED BY <1>1, <1>2, <1>6, <1>7, TypingKept DEF Locking

LEMMA RenameTypes ==
    ASSUME Inv, Typing, NEW c \in Threads, NEW p \in Seq(Names), NEW n \in Names, NEW m \in Names,
           Rename(c, p, n, m) \/ RenameMisread(c, p, n, m)
    PROVE  Typing'
<1> DEFINE old == Append(p, n)
           below == IF rows[First(At(rows, p, n))].dir THEN Below(rows, old) ELSE {}
           t == [Idle EXCEPT !.at = "moving", !.path = old, !.name = m, !.left = below, !.was = rows]
<1>0. /\ rows' = Renamed(p, n, m) /\ mishaps' \subseteq mishaps \cup {"alike", "misread"}
      /\ UNCHANGED <<nextId, files, made, tokens, strays, torn>> /\ (UNCHANGED bounds \/ Fault)
  BY DEF Rename, RenameMisread, Misread
<1>1. PICK s : th' = [th EXCEPT ![c] = s] /\ (s = Idle \/ (below # {} /\ s = t))
  <2>1. Goes(c, Moving(p, n, m)) \/ Goes(c, Idle) BY DEF Rename, RenameMisread
  <2>2. Moving(p, n, m) = IF below = {} THEN Idle ELSE t BY DEF Moving, ToMove
  <2> HIDE DEF t, below
  <2> QED BY <2>1, <2>2 DEF Goes
<1>2. below \subseteq DOMAIN rows /\ old \in Seq(Names) /\ old # <<>>
  <2>1. Len(old) = Len(p) + 1 /\ old \in Seq(Names) BY AppendProperties
  <2>2. old # <<>>
    <3>1. Len(p) \in Nat OBVIOUS
    <3> HIDE DEF old
    <3> QED BY <2>1, <3>1, EmptySeq
  <2> HIDE DEF old
  <2> QED BY <2>1, <2>2 DEF Below
<1>3. DOMAIN rows \subseteq Ids BY BoundsAre DEF Typing, TableOK, Counts, Ids, Bounds
<1> HIDE DEF below, old
<1>4. below # {} => ReqOK(t) /\ t.left = below
  BY <1>2, <1>3 DEF ReqOK, Idle, Places, Locking
<1>5. TableOK(rows, nextId)' /\ DOMAIN rows' = DOMAIN rows
  <2>1. \A i \in DOMAIN rows : rows[i] \in Row /\ [rows[i] EXCEPT !.name = m] \in Row
    BY RowTypes DEF Typing, TableOK
  <2> QED BY <1>0, <2>1 DEF Typing, TableOK, Renamed
<1> HIDE DEF t
<1>6. ReqOK(s) /\ (s.at = "moving" => s.left \subseteq DOMAIN rows')
  BY <1>1, <1>2, <1>4, <1>5, IdleOK
<1>7. Counts' BY <1>0, FaultCounts DEF Typing, Counts, bounds, Mishaps
<1> QED BY <1>1, <1>5, <1>6, <1>7, TypingKept

LEMMA MoveTypes == ASSUME Inv, Typing, NEW c \in Threads, Move(c) \/ MoveFails(c) PROVE Typing'
<1> DEFINE x == First(th[c].left)  left == th[c].left \ {x}
           t == [th[c] EXCEPT !.left = left]
           s == IF left = {} THEN Idle ELSE t
<1>1. th[c].at = "moving" /\ th' = [th EXCEPT ![c] = s]
  BY DEF Move, MoveFails, Moved, Goes
<1>2. ReqOK(th[c]) /\ DOMAIN th[c] = Fields /\ th[c].left \subseteq DOMAIN rows /\ th[c].left # {}
  BY <1>1 DEF Typing, Inv, Shape, ReqOK
<1>3. x \in DOMAIN rows BY <1>2, FirstRow
<1> HIDE DEF x
<1>4. left # {} => ReqOK(t) /\ t.left = left BY <1>1, <1>2 DEF ReqOK, Fields
<1>5. TableOK(rows, nextId)' /\ DOMAIN rows' = DOMAIN rows
  <2>1. CASE MoveFails(c) BY <2>1 DEF MoveFails, Typing, TableOK
  <2>2. CASE Move(c)
    <3> DEFINE y == Replaced(rows[x].path, th[c].path, th[c].name)
    <3>1. y \in Seq(Names) BY <1>1, <1>2, <1>3, ReplacedIsPath, RowTypes DEF ReqOK, Typing, TableOK
    <3>2. rows' = [rows EXCEPT ![x] = [rows[x] EXCEPT !.path = y]] /\ nextId' = nextId
      BY <2>2 DEF Move, x
    <3> HIDE DEF y
    <3>3. [rows[x] EXCEPT !.path = y] \in Row BY <1>3, <3>1, RowTypes DEF Typing, TableOK
    <3> QED BY <3>2, <3>3 DEF Typing, TableOK
  <2> QED BY <2>1, <2>2
<1> HIDE DEF t, left
<1>6. ReqOK(s) /\ (s.at = "moving" => s.left \subseteq DOMAIN rows')
  BY <1>2, <1>4, <1>5, IdleOK DEF left
<1> HIDE DEF s
<1>7. Counts'
  <2>1. faults' \in 0..MaxFaults /\ crashes' \in 0..MaxCrashes
    BY FaultCounts DEF Move, MoveFails, bounds, Typing, Counts
  <2>2. UNCHANGED <<nextId, files, made, tokens, strays, torn>> /\ mishaps' \subseteq mishaps \cup {"cut"}
    BY DEF Move, MoveFails
  <2> QED BY <2>1, <2>2 DEF Typing, Counts, Mishaps
<1> QED BY <1>1, <1>5, <1>6, <1>7, TypingKept

LEMMA RestTypes ==
    ASSUME Inv, Typing,
           \/ \E c \in Threads, i \in Ids : MintToken(c, i)
           \/ \E t \in tokens : TokenExpires(t)
           \/ Crash
           \/ UNCHANGED vars
    PROVE  Typing'
<1>1. CASE UNCHANGED vars BY <1>1 DEF vars, bounds, Typing, TableOK, Counts
<1>2. ASSUME NEW c \in Threads, NEW i \in Ids, MintToken(c, i) PROVE Typing'
  <2>1. i \in DOMAIN rows /\ ~rows[i].dir /\ tokens' = tokens \cup {[id |-> i, disk |-> rows[i].disk]}
        /\ UNCHANGED <<rows, nextId, files, made, th, bounds, strays, torn, mishaps>>
    BY <1>2 DEF MintToken
  <2>2. rows[i].disk \in Ids
    <3>1. rows[i].disk # None /\ rows[i] \in Row BY <2>1 DEF Inv, Table, Typing, TableOK
    <3> QED BY <3>1, RowTypes
  <2> QED BY <2>1, <2>2 DEF Typing, TableOK, Counts, bounds
<1>3. ASSUME NEW t \in tokens, TokenExpires(t) PROVE Typing'
  BY <1>3 DEF TokenExpires, Typing, TableOK, Counts, bounds
<1>4. CASE Crash
  <2>1. /\ th' = [c \in Threads |-> Idle] /\ tokens' = {} /\ crashes < MaxCrashes /\ crashes' = crashes + 1
        /\ strays' = strays \cup UNION {Uploads(c) : c \in Threads}
        /\ torn' = torn \cup (DisksOf(rows, DOMAIN rows) \ files) /\ mishaps' \subseteq mishaps \cup {"cut"}
        /\ UNCHANGED <<rows, nextId, files, made, faults>>
    BY <1>4 DEF Crash
  <2>2. UNION {Uploads(c) : c \in Threads} \subseteq files BY UpsIs DEF Inv, Uploading
  <2>3. DisksOf(rows, DOMAIN rows) \subseteq 1..made BY DEF DisksOf, Inv, Table
  <2>4. crashes' \in 0..MaxCrashes BY <2>1, BoundsAre DEF Bounds, Typing, Counts
  <2>5. Counts' BY <2>1, <2>2, <2>3, <2>4 DEF Typing, Counts, Mishaps
  <2> QED BY <2>1, <2>5, IdleOK DEF Typing, TableOK
<1> QED BY <1>1, <1>2, <1>3, <1>4

-------------------------------------------------------------------------------
(* Places in the tree                                                        *)

(* The path q leads to s or to something s is in.                             *)
Starts(q, s) == Len(q) <= Len(s) /\ \A k \in 1..Len(q) : s[k] = q[k]

LEMMA FullFacts ==
    ASSUME NEW row \in Row
    PROVE  /\ Full(row) \in Seq(Names) /\ Len(Full(row)) = Len(row.path) + 1 /\ Len(row.path) \in Nat
           /\ Full(row)[Len(row.path) + 1] = row.name
           /\ \A k \in 1..Len(row.path) : Full(row)[k] = row.path[k]
BY RowTypes, AppendProperties DEF Full

LEMMA FullIs ==
    ASSUME NEW row \in Row, NEW p \in Seq(Names), NEW n \in Names
    PROVE  Full(row) = Append(p, n) <=> row.path = p /\ row.name = n
<1>1. /\ Append(p, n) \in Seq(Names) /\ Len(Append(p, n)) = Len(p) + 1 /\ Len(p) \in Nat
      /\ Append(p, n)[Len(p) + 1] = n /\ \A k \in 1..Len(p) : Append(p, n)[k] = p[k]
  BY AppendProperties
<1>2. row.path \in Seq(Names) BY RowTypes
<1>3. ASSUME Full(row) = Append(p, n) PROVE row.path = p /\ row.name = n
  <2>1. Len(row.path) = Len(p) BY <1>1, <1>3, FullFacts
  <2>2. \A k \in 1..Len(p) : row.path[k] = p[k] BY <1>1, <1>3, <2>1, FullFacts
  <2>3. row.path = p BY <1>2, <2>1, <2>2, SeqEqual
  <2> QED BY <1>1, <1>3, <2>1, <2>3, FullFacts
<1> QED BY <1>3 DEF Full

LEMMA BelowIs ==
    ASSUME NEW row \in Row, NEW q \in Seq(Names)
    PROVE  IsPrefixOf(q, row.path) <=> Starts(q, Full(row)) /\ Full(row) # q
<1>1. row.path \in Seq(Names) /\ Len(q) \in Nat BY RowTypes
<1>2. ASSUME Len(q) <= Len(row.path)
      PROVE  SubSeq(row.path, 1, Len(q)) = q <=> \A k \in 1..Len(q) : row.path[k] = q[k]
  <2>1. \A k \in 1..Len(q) : row.path[k] \in Names BY <1>1, <1>2, ElementOfSeq, FullFacts
  <2> DEFINE s == SubSeq(row.path, 1, Len(q))
  <2>2. /\ s \in Seq(Names) /\ Len(s) = IF 1 <= Len(q) THEN Len(q) - 1 + 1 ELSE 0
        /\ \A k \in 1..(Len(q) - 1 + 1) : s[k] = row.path[1 + k - 1]
    BY <1>1, <2>1, SubSeqProperties
  <2> HIDE DEF s
  <2>3. Len(s) = Len(q) /\ \A k \in 1..Len(q) : s[k] = row.path[k] BY <1>1, <2>2
  <2>4. (\A k \in 1..Len(q) : s[k] = q[k]) => s = q BY <2>2, <2>3, SeqEqual
  <2> QED BY <2>3, <2>4 DEF s
<1>3. ASSUME Len(q) <= Len(row.path)
      PROVE  (\A k \in 1..Len(q) : row.path[k] = q[k]) <=> Starts(q, Full(row))
  BY <1>1, <1>3, FullFacts DEF Starts
<1>4. Len(q) <= Len(row.path) => Full(row) # q BY <1>1, FullFacts
<1>5. ASSUME ~(Len(q) <= Len(row.path)), Starts(q, Full(row)) PROVE Full(row) = q
  <2>1. Len(Full(row)) = Len(q) BY <1>1, <1>5, FullFacts DEF Starts
  <2> QED BY <2>1, <1>5, FullFacts, SeqEqual DEF Starts
<1> QED BY <1>2, <1>3, <1>4, <1>5 DEF IsPrefixOf

LEMMA Startings ==
    /\ \A s : Len(s) \in Nat => Starts(s, s)
    /\ \A q, s, t \in Seq(Names) : Starts(q, s) /\ Starts(s, t) => Starts(q, t)
    /\ \A q, s, t \in Seq(Names) : Starts(q, t) /\ Starts(s, t) /\ Len(q) <= Len(s) => Starts(q, s)
    /\ \A q, s \in Seq(Names) : Starts(q, s) /\ Len(q) = Len(s) => q = s
<1>1. \A s : Len(s) \in Nat => Starts(s, s) BY DEF Starts
<1>2. ASSUME NEW q \in Seq(Names), NEW s \in Seq(Names), NEW t \in Seq(Names)
      PROVE  /\ Starts(q, s) /\ Starts(s, t) => Starts(q, t)
             /\ Starts(q, t) /\ Starts(s, t) /\ Len(q) <= Len(s) => Starts(q, s)
  <2>1. Len(q) \in Nat /\ Len(s) \in Nat /\ Len(t) \in Nat OBVIOUS
  <2> QED BY <2>1 DEF Starts
<1>3. ASSUME NEW q \in Seq(Names), NEW s \in Seq(Names), Starts(q, s), Len(q) = Len(s) PROVE q = s
  BY <1>3, SeqEqual DEF Starts
<1> QED BY <1>1, <1>2, <1>3

(* What a rename of q to the name m makes of a place and of a row.             *)
Subst(s, q, m) == IF Starts(q, s) THEN [s EXCEPT ![Len(q)] = m] ELSE s
RenRow(row, q, m) == IF Full(row) = q THEN [row EXCEPT !.name = m]
                     ELSE IF IsPrefixOf(q, row.path) THEN [row EXCEPT !.path = [@ EXCEPT ![Len(q)] = m]]
                     ELSE row

LEMMA SubstFacts ==
    ASSUME NEW s \in Seq(Names), NEW q \in Seq(Names), q # <<>>, NEW m \in Names
    PROVE  /\ Subst(s, q, m) \in Seq(Names) /\ Len(Subst(s, q, m)) = Len(s)
           /\ \A k \in 1..Len(s) : Subst(s, q, m)[k] = IF Starts(q, s) /\ k = Len(q) THEN m ELSE s[k]
<1>1. Len(q) \in Nat \ {0} BY EmptySeq
<1>2. CASE Starts(q, s)
  <2>1. Len(q) \in 1..Len(s) BY <1>1, <1>2 DEF Starts
  <2> QED BY <1>2, <2>1, ExceptSeq DEF Subst
<1>3. CASE ~Starts(q, s) BY <1>3 DEF Subst
<1> QED BY <1>2, <1>3

LEMMA RenFacts ==
    ASSUME NEW row \in Row, NEW q \in Seq(Names), q # <<>>, NEW m \in Names
    PROVE  /\ RenRow(row, q, m) \in Row /\ Full(RenRow(row, q, m)) = Subst(Full(row), q, m)
           /\ RenRow(row, q, m).dir = row.dir /\ RenRow(row, q, m).disk = row.disk
<1> DEFINE s == Full(row)  new == RenRow(row, q, m)
<1>0. s \in Seq(Names) /\ row.path \in Seq(Names) /\ Len(q) \in Nat \ {0} BY FullFacts, RowTypes, EmptySeq
<1>s. ASSUME Starts(q, s) PROVE \A k \in 1..Len(s) : Subst(s, q, m)[k] = IF k = Len(q) THEN m ELSE s[k]
  <2> HIDE DEF s
  <2>1. \A k \in 1..Len(s) : Subst(s, q, m)[k] = IF Starts(q, s) /\ k = Len(q) THEN m ELSE s[k]
    BY <1>0, SubstFacts
  <2> QED BY <1>s, <2>1
<1>1. CASE s = q
  <2>1. new = [row EXCEPT !.name = m] BY <1>1 DEF RenRow
  <2>2. new \in Row /\ new.name = m /\ new.path = row.path /\ new.dir = row.dir /\ new.disk = row.disk
    BY <2>1, RowTypes
  <2>3. Starts(q, s) BY <1>0, <1>1, Startings
  <2>4. Full(new) \in Seq(Names) /\ Len(Full(new)) = Len(s) BY <2>2, FullFacts
  <2>5. ASSUME NEW k \in 1..Len(s) PROVE Full(new)[k] = Subst(s, q, m)[k]
    <3>1. Subst(s, q, m)[k] = IF k = Len(q) THEN m ELSE s[k] BY <2>3, <1>s
    <3>2. Len(s) = Len(row.path) + 1 /\ Len(row.path) \in Nat BY FullFacts
    <3>3. CASE k = Len(s) BY <1>1, <2>2, <3>1, <3>2, <3>3, FullFacts
    <3>4. CASE k # Len(s)
      <4>1. k \in 1..Len(row.path) BY <3>2, <3>4
      <4>2. Full(new)[k] = row.path[k] /\ s[k] = row.path[k] BY <2>2, <4>1, FullFacts
      <4> QED BY <1>1, <3>1, <3>4, <4>2
    <3> QED BY <3>3, <3>4
  <2>6. Full(new) = Subst(s, q, m) BY <1>0, <2>4, <2>5, SubstFacts, SeqEqual
  <2> QED BY <2>2, <2>6
<1>2. CASE s # q /\ IsPrefixOf(q, row.path)
  <2> DEFINE path == [row.path EXCEPT ![Len(q)] = m]
  <2>1. Len(q) \in 1..Len(row.path) BY <1>0, <1>2 DEF IsPrefixOf
  <2>2. /\ path \in Seq(Names) /\ Len(path) = Len(row.path)
        /\ \A k \in 1..Len(row.path) : path[k] = IF k = Len(q) THEN m ELSE row.path[k]
    BY <1>0, <2>1, ExceptSeq
  <2>3. new = [row EXCEPT !.path = path] BY <1>2 DEF RenRow
  <2> HIDE DEF path
  <2>4. new \in Row /\ new.name = row.name /\ new.path = path /\ new.dir = row.dir /\ new.disk = row.disk
    BY <2>2, <2>3, RowTypes
  <2>5. Starts(q, s) BY <1>0, <1>2, BelowIs
  <2>6. Full(new) \in Seq(Names) /\ Len(Full(new)) = Len(s) BY <2>2, <2>4, FullFacts
  <2>7. ASSUME NEW k \in 1..Len(s) PROVE Full(new)[k] = Subst(s, q, m)[k]
    <3>1. Subst(s, q, m)[k] = IF k = Len(q) THEN m ELSE s[k] BY <2>5, <1>s
    <3>2. CASE k = Len(s) BY <2>1, <2>2, <2>4, <3>1, <3>2, FullFacts
    <3>3. CASE k # Len(s)
      <4>1. k \in 1..Len(row.path) BY <3>3, FullFacts
      <4> QED BY <2>1, <2>2, <2>4, <3>1, <4>1, FullFacts
    <3> QED BY <3>2, <3>3
  <2>8. Full(new) = Subst(s, q, m) BY <1>0, <2>6, <2>7, SubstFacts, SeqEqual
  <2> QED BY <2>4, <2>8
<1>3. CASE s # q /\ ~IsPrefixOf(q, row.path)
  <2>1. new = row BY <1>3 DEF RenRow
  <2>2. ~Starts(q, s) BY <1>0, <1>3, BelowIs
  <2> QED BY <2>1, <2>2 DEF Subst
<1> QED BY <1>1, <1>2, <1>3

-------------------------------------------------------------------------------
(* Tidy tables: every row has all the folders its path names, and what stands    *)
(* at one place is one folder, or files.                                      *)

IsTable(r) == \A i \in DOMAIN r : r[i] \in Row
Rooted(r) == \A i \in DOMAIN r : \A k \in 1..(Len(Full(r[i])) - 1) :
    \E j \in DOMAIN r : r[j].dir /\ Len(Full(r[j])) = k /\ Starts(Full(r[j]), Full(r[i]))
Clashless(r) == \A i, j \in DOMAIN r :
    Full(r[i]) = Full(r[j]) => r[i].dir = r[j].dir /\ (r[i].dir => i = j)
Tidy(r) == IsTable(r) /\ Rooted(r) /\ Clashless(r)

LEMMA TidySame ==
    ASSUME NEW r, Tidy(r), NEW w, DOMAIN w = DOMAIN r, \A i \in DOMAIN r : w[i] = r[i]
    PROVE  Tidy(w)
<1>1. IsTable(w) BY DEF Tidy, IsTable
<1>2. Rooted(w)
  <2> SUFFICES ASSUME NEW i \in DOMAIN w, NEW k \in 1..(Len(Full(w[i])) - 1)
               PROVE  \E j \in DOMAIN w : w[j].dir /\ Len(Full(w[j])) = k /\ Starts(Full(w[j]), Full(w[i]))
    BY DEF Rooted
  <2>1. i \in DOMAIN r /\ w[i] = r[i] OBVIOUS
  <2>2. PICK j \in DOMAIN r : r[j].dir /\ Len(Full(r[j])) = k /\ Starts(Full(r[j]), Full(r[i]))
    BY <2>1 DEF Tidy, Rooted
  <2>3. w[j] = r[j] OBVIOUS
  <2> QED BY <2>1, <2>2, <2>3
<1>3. Clashless(w) BY DEF Tidy, Clashless
<1> QED BY <1>1, <1>2, <1>3 DEF Tidy

(* A folder at every place on the way.                                       *)
LEMMA OnTheWay ==
    ASSUME NEW r, Tidy(r), NEW i \in DOMAIN r, NEW q \in Seq(Names), q # <<>>,
           Starts(q, Full(r[i])), Full(r[i]) # q
    PROVE  \E j \in DOMAIN r : r[j].dir /\ Full(r[j]) = q
<1>1. Full(r[i]) \in Seq(Names) BY FullFacts DEF Tidy, IsTable
<1>2. Len(q) \in Nat \ {0} BY EmptySeq
<1>3. Len(q) \in 1..(Len(Full(r[i])) - 1)
  <2>1. Len(q) # Len(Full(r[i])) BY <1>1, Startings
  <2> QED BY <1>1, <1>2, <2>1 DEF Starts
<1>4. PICK j \in DOMAIN r : r[j].dir /\ Len(Full(r[j])) = Len(q) /\ Starts(Full(r[j]), Full(r[i]))
  BY <1>3 DEF Tidy, Rooted
<1>5. Full(r[j]) \in Seq(Names) BY FullFacts DEF Tidy, IsTable
<1>6. Starts(q, Full(r[j])) BY <1>1, <1>2, <1>4, <1>5, Startings
<1> QED BY <1>4, <1>5, <1>6, Startings

LEMMA InAFolder == ASSUME NEW r, Tidy(r), NEW i \in DOMAIN r PROVE Folder(r, r[i].path)
<1>1. r[i] \in Row BY DEF Tidy, IsTable
<1>2. CASE r[i].path # <<>>
  <2>1. r[i].path \in Seq(Names) /\ Len(r[i].path) \in Nat BY <1>1, RowTypes
  <2>2. Starts(r[i].path, Full(r[i])) /\ Full(r[i]) # r[i].path
    BY <1>1, <2>1, FullFacts DEF Starts
  <2> QED BY <1>2, <2>1, <2>2, OnTheWay DEF Folder
<1> QED BY <1>2 DEF Folder

LEMMA TidyAdd ==
    ASSUME NEW r, Tidy(r), NEW x, x \notin DOMAIN r, NEW row \in Row, Folder(r, row.path),
           \A j \in DOMAIN r : Full(r[j]) = Full(row) => ~r[j].dir /\ ~row.dir
    PROVE  Tidy(With(r, x, row))
<1> DEFINE w == With(r, x, row)
<1>1. /\ DOMAIN w = DOMAIN r \cup {x} /\ w[x] = row /\ \A j \in DOMAIN r : w[j] = r[j]
  BY DEF With
<1> HIDE DEF w
<1>2. IsTable(w) BY <1>1 DEF Tidy, IsTable
<1>3. Clashless(w) BY <1>1, <1>2, RowTypes DEF Tidy, Clashless, IsTable
<1>4. Rooted(w)
  <2> SUFFICES ASSUME NEW i \in DOMAIN w, NEW k \in 1..(Len(Full(w[i])) - 1)
               PROVE  \E j \in DOMAIN w : w[j].dir /\ Len(Full(w[j])) = k /\ Starts(Full(w[j]), Full(w[i]))
    BY DEF Rooted
  <2>1. CASE i \in DOMAIN r
    <3>1. \E j \in DOMAIN r : r[j].dir /\ Len(Full(r[j])) = k /\ Starts(Full(r[j]), Full(r[i]))
      BY <1>1, <2>1 DEF Tidy, Rooted
    <3> QED BY <1>1, <2>1, <3>1
  <2>2. CASE i = x
    <3>1. row.path \in Seq(Names) /\ Len(row.path) \in Nat /\ Full(row) \in Seq(Names) BY RowTypes, FullFacts
    <3>2. k \in 1..Len(row.path) /\ row.path # <<>>
      <4>1. k \in 1..Len(row.path) BY <1>1, <2>2, <3>1, FullFacts
      <4> QED BY <4>1
    <3>3. PICK f \in DOMAIN r : r[f].dir /\ Full(r[f]) = row.path BY <3>2 DEF Folder
    <3>4. Starts(row.path, Full(row)) BY <3>1, FullFacts DEF Starts
    <3>5. CASE k = Len(row.path) BY <1>1, <2>2, <3>3, <3>4, <3>5
    <3>6. CASE k # Len(row.path)
      <4>1. k \in 1..(Len(Full(r[f])) - 1) BY <3>1, <3>2, <3>3, <3>6
      <4>2. PICK j \in DOMAIN r : r[j].dir /\ Len(Full(r[j])) = k /\ Starts(Full(r[j]), Full(r[f]))
        BY <4>1 DEF Tidy, Rooted
      <4>3. Full(r[j]) \in Seq(Names) BY FullFacts DEF Tidy, IsTable
      <4>4. Starts(Full(r[j]), Full(row)) BY <3>1, <3>3, <3>4, <4>2, <4>3, Startings
      <4> QED BY <1>1, <2>2, <4>2, <4>4
    <3> QED BY <3>5, <3>6
  <2> QED BY <1>1, <2>1, <2>2
<1> QED BY <1>2, <1>3, <1>4 DEF Tidy, w

(* Rows go, and no folder that another row needs.                             *)
LEMMA TidyDrop ==
    ASSUME NEW r, Tidy(r), NEW S,
           \A i \in DOMAIN r \ S, j \in DOMAIN r \cap S :
               r[j].dir /\ Starts(Full(r[j]), Full(r[i])) => Len(Full(r[j])) = Len(Full(r[i]))
    PROVE  Tidy(Without(r, S))
<1> DEFINE w == Without(r, S)
<1>1. DOMAIN w = DOMAIN r \ S /\ \A j \in DOMAIN w : w[j] = r[j] BY DEF Without
<1> HIDE DEF w
<1>2. IsTable(w) /\ Clashless(w) BY <1>1 DEF Tidy, IsTable, Clashless
<1>3. Rooted(w)
  <2> SUFFICES ASSUME NEW i \in DOMAIN w, NEW k \in 1..(Len(Full(w[i])) - 1)
               PROVE  \E j \in DOMAIN w : w[j].dir /\ Len(Full(w[j])) = k /\ Starts(Full(w[j]), Full(w[i]))
    BY DEF Rooted
  <2>1. PICK j \in DOMAIN r : r[j].dir /\ Len(Full(r[j])) = k /\ Starts(Full(r[j]), Full(r[i]))
    BY <1>1 DEF Tidy, Rooted
  <2>2. Len(Full(r[i])) \in Nat /\ Len(Full(r[j])) # Len(Full(r[i]))
    <3>1. Full(r[i]) \in Seq(Names) BY <1>1, FullFacts DEF Tidy, IsTable
    <3>2. k < Len(Full(r[i])) BY <1>1, <3>1
    <3> QED BY <2>1, <3>1, <3>2
  <2>3. j \notin S BY <1>1, <2>1, <2>2
  <2> QED BY <1>1, <2>1, <2>3
<1> QED BY <1>2, <1>3 DEF Tidy, w

(* A rename to a name that nothing there has.                                 *)
LEMMA TidyRename ==
    ASSUME NEW r, Tidy(r), NEW p \in Seq(Names), NEW n \in Names, NEW m \in Names,
           \A i \in DOMAIN r : Full(r[i]) # Append(p, m)
    PROVE  Tidy([i \in DOMAIN r |-> RenRow(r[i], Append(p, n), m)])
<1> DEFINE q == Append(p, n)  z == Append(p, m)  w == [i \in DOMAIN r |-> RenRow(r[i], q, m)]
           L == Len(q)
<1>0. /\ q \in Seq(Names) /\ L = Len(p) + 1 /\ L \in Nat \ {0} /\ q[L] = n
      /\ z \in Seq(Names) /\ Len(z) = L /\ z[L] = m /\ \A k \in 1..Len(p) : q[k] = p[k] /\ z[k] = p[k]
  <2>1. Len(p) \in Nat OBVIOUS
  <2>2. q \in Seq(Names) /\ L = Len(p) + 1 /\ q[L] = n /\ \A k \in 1..Len(p) : q[k] = p[k]
    BY AppendProperties
  <2>3. z \in Seq(Names) /\ Len(z) = Len(p) + 1 /\ z[Len(p) + 1] = m /\ \A k \in 1..Len(p) : z[k] = p[k]
    BY AppendProperties
  <2> QED BY <2>1, <2>2, <2>3
<1>1. q # <<>> BY <1>0, EmptySeq
<1>2. DOMAIN w = DOMAIN r /\ \A i \in DOMAIN r : w[i] = RenRow(r[i], q, m) OBVIOUS
<1> HIDE DEF q, z, w, L
<1>3. ASSUME NEW i \in DOMAIN r
      PROVE  /\ w[i] \in Row /\ w[i].dir = r[i].dir
             /\ Full(r[i]) \in Seq(Names) /\ Full(w[i]) \in Seq(Names) /\ Len(Full(w[i])) = Len(Full(r[i]))
             /\ \A k \in 1..Len(Full(r[i])) :
                    Full(w[i])[k] = IF Starts(q, Full(r[i])) /\ k = L THEN m ELSE Full(r[i])[k]
  <2>1. r[i] \in Row BY DEF Tidy, IsTable
  <2>2. w[i] = RenRow(r[i], q, m) /\ q \in Seq(Names) BY <1>0, <1>2
  <2>3. w[i] \in Row /\ w[i].dir = r[i].dir /\ Full(w[i]) = Subst(Full(r[i]), q, m)
    BY <1>1, <2>1, <2>2, RenFacts
  <2>4. Full(r[i]) \in Seq(Names) BY <2>1, FullFacts
  <2> DEFINE s == Full(r[i])
  <2>5. /\ Subst(s, q, m) \in Seq(Names) /\ Len(Subst(s, q, m)) = Len(s)
        /\ \A k \in 1..Len(s) : Subst(s, q, m)[k] = IF Starts(q, s) /\ k = Len(q) THEN m ELSE s[k]
    <3> HIDE DEF s
    <3>1. s \in Seq(Names) BY <2>4 DEF s
    <3> QED BY <1>1, <2>2, <3>1, SubstFacts
  <2> QED BY <2>3, <2>4, <2>5 DEF L
<1>4. IsTable(w) BY <1>2, <1>3 DEF IsTable
(* Nothing is at or below the new place.                                      *)
<1>5. ASSUME NEW i \in DOMAIN r PROVE ~Starts(z, Full(r[i]))
  <2>1. z # <<>> BY <1>0, EmptySeq
  <2>2. Full(r[i]) # z BY DEF z
  <2>3. ~\E j \in DOMAIN r : Full(r[j]) = z BY DEF z
  <2> QED BY <1>0, <2>1, <2>2, <2>3, OnTheWay
<1>6. Rooted(w)
  <2> SUFFICES ASSUME NEW i \in DOMAIN r, NEW k \in 1..(Len(Full(w[i])) - 1)
               PROVE  \E j \in DOMAIN w : w[j].dir /\ Len(Full(w[j])) = k /\ Starts(Full(w[j]), Full(w[i]))
    BY <1>2 DEF Rooted
  <2>1. PICK j \in DOMAIN r : r[j].dir /\ Len(Full(r[j])) = k /\ Starts(Full(r[j]), Full(r[i]))
    BY <1>3 DEF Tidy, Rooted
  <2> DEFINE s == Full(r[i])  t == Full(r[j])
  <2>2. s \in Seq(Names) /\ t \in Seq(Names) /\ Len(s) \in Nat /\ k \in Nat /\ k < Len(s) BY <1>3
  <2>3. Starts(q, t) <=> Starts(q, s) /\ L <= k
    <3>1. Starts(q, t) => Starts(q, s) /\ L <= k
      BY <1>0, <2>1, <2>2, Startings DEF Starts, L
    <3>2. Starts(q, s) /\ L <= k => Starts(q, t)
      BY <1>0, <2>1, <2>2, Startings DEF L
    <3> QED BY <3>1, <3>2
  <2>4. \A h \in 1..k : Full(w[j])[h] = IF Starts(q, t) /\ h = L THEN m ELSE t[h] BY <1>3, <2>1
  <2>5. \A h \in 1..k : Full(w[i])[h] = IF Starts(q, s) /\ h = L THEN m ELSE s[h] BY <1>3, <2>2
  <2>6. \A h \in 1..k : s[h] = t[h] BY <2>1 DEF Starts
  <2>7. \A h \in 1..k : Full(w[i])[h] = Full(w[j])[h] BY <2>2, <2>3, <2>4, <2>5, <2>6
  <2>8. Starts(Full(w[j]), Full(w[i])) BY <1>3, <2>1, <2>2, <2>7 DEF Starts
  <2> QED BY <1>2, <1>3, <2>1, <2>8
<1>7. Clashless(w)
  <2> SUFFICES ASSUME NEW i \in DOMAIN r, NEW j \in DOMAIN r, Full(w[i]) = Full(w[j])
               PROVE  Full(r[i]) = Full(r[j])
    BY <1>2, <1>3 DEF Clashless, Tidy
  <2> DEFINE s == Full(r[i])  t == Full(r[j])
  <2>1. s \in Seq(Names) /\ t \in Seq(Names) /\ Len(s) = Len(t) /\ Len(s) \in Nat BY <1>3
  <2>2. ASSUME NEW a \in DOMAIN r, NEW b \in DOMAIN r, Full(w[a]) = Full(w[b]), Starts(q, Full(r[a]))
        PROVE  Starts(q, Full(r[b]))
    <3> SUFFICES ASSUME ~Starts(q, Full(r[b])) PROVE FALSE OBVIOUS
    <3>1. Len(Full(r[a])) = Len(Full(r[b])) /\ Len(Full(r[a])) \in Nat BY <1>3, <2>2
    <3>2. L <= Len(Full(r[a])) /\ \A h \in 1..L : Full(r[a])[h] = q[h] BY <2>2 DEF Starts, L
    <3>3. \A h \in 1..L : Full(r[b])[h] = IF h = L THEN m ELSE q[h]
      <4> TAKE h \in 1..L
      <4>1. h \in 1..Len(Full(r[a])) BY <1>0, <3>1, <3>2
      <4>2. Full(w[a])[h] = IF h = L THEN m ELSE Full(r[a])[h] BY <1>3, <2>2, <4>1
      <4>3. Full(w[b])[h] = Full(r[b])[h] BY <1>3, <3>1, <4>1
      <4> QED BY <2>2, <3>2, <4>2, <4>3
    <3>4. \A h \in 1..L : Full(r[b])[h] = z[h]
      <4> TAKE h \in 1..L
      <4>1. CASE h = L BY <1>0, <3>3, <4>1
      <4>2. CASE h # L
        <5>1. h \in 1..Len(p) BY <1>0, <4>2
        <5> QED BY <1>0, <3>3, <4>2, <5>1
      <4> QED BY <4>1, <4>2
    <3>5. Starts(z, Full(r[b])) BY <1>0, <3>1, <3>2, <3>4 DEF Starts
    <3> QED BY <1>5, <3>5
  <2>3. Starts(q, s) <=> Starts(q, t) BY <2>2
  <2>4. ASSUME NEW h \in 1..Len(s) PROVE s[h] = t[h]
    <3>1. Full(w[i])[h] = IF Starts(q, s) /\ h = L THEN m ELSE s[h] BY <1>3
    <3>2. Full(w[j])[h] = IF Starts(q, t) /\ h = L THEN m ELSE t[h] BY <1>3, <2>1
    <3>3. Starts(q, s) /\ h = L => s[h] = q[h] /\ t[h] = q[h] BY <1>0, <2>3 DEF Starts, L
    <3> QED BY <2>3, <3>1, <3>2, <3>3
  <2> QED BY <2>1, <2>4, SeqEqual
<1> QED BY <1>4, <1>6, <1>7 DEF Tidy, w, q

-------------------------------------------------------------------------------
(* The table stays tidy                                                      *)

(* Half way through a rename: the rows left are as they were, the others as they  *)
(* will be.                                                                 *)
Midway(t, r) == \E p \in Seq(Names), n \in Names :
    /\ t.path = Append(p, n) /\ Tidy(t.was) /\ DOMAIN t.was = DOMAIN r
    /\ \E i \in DOMAIN t.was : Full(t.was[i]) = t.path
    /\ \A i \in DOMAIN t.was : Full(t.was[i]) # Append(p, t.name)
    /\ \A i \in DOMAIN r : r[i] = IF i \in t.left THEN t.was[i] ELSE RenRow(t.was[i], t.path, t.name)
    /\ \A i \in t.left \cap DOMAIN r :
           /\ Full(t.was[i]) # t.path
           /\ IsPrefixOf(t.path, t.was[i].path) \/ Occurs(t.path, t.was[i].path) = {}

Place(t) == Append(t.path, t.name)
DirAt(r, q) == \E i \in DOMAIN r : r[i].dir /\ Full(r[i]) = q
Doing(t, r) ==
    /\ t.at = "moving" => Midway(t, r)
    /\ t.at = "dropFolder" => BelowExactly(r, Place(t)) = {}
    /\ t.at = "unlinking" /\ t.dir =>
           Below(r, Place(t)) = BelowExactly(r, Place(t)) /\ DirAt(r, Place(t))
    /\ t.at = "unlinking" /\ ~t.dir => \A i \in At(r, t.path, t.name) : ~r[i].dir
Orderly == mishaps = {} => /\ (\A c \in Threads : th[c].at # "moving") => Tidy(rows)
                           /\ \A c \in Threads : Doing(th[c], rows)

LEMMA OrderlyTurns ==
    ASSUME Inv, Orderly, NEW c \in Threads, NEW s, \A o \in Threads : th'[o] = IF o = c THEN s ELSE th[o],
           mishaps \subseteq mishaps',
           rows' = rows \/ Free(c) \/ th[c].at \in Locking,
           mishaps' = {} => Doing(s, rows'),
           mishaps' = {} /\ s.at # "moving" /\ (\A o \in Threads \ {c} : th[o].at # "moving") => Tidy(rows')
    PROVE  Orderly'
<1> SUFFICES ASSUME mishaps' = {}
             PROVE  /\ (\A o \in Threads : th'[o].at # "moving") => Tidy(rows')
                    /\ \A o \in Threads : Doing(th'[o], rows')
  BY DEF Orderly
<1>1. mishaps = {} OBVIOUS
<1>2. \A o \in Threads : th'[o] = IF o = c THEN s ELSE th[o] OBVIOUS
<1>3. (\A o \in Threads : th'[o].at # "moving") => Tidy(rows') BY <1>2
<1>4. ASSUME NEW o \in Threads PROVE Doing(th'[o], rows')
  <2>1. CASE o = c BY <1>2, <2>1
  <2>2. CASE o # c /\ rows' = rows BY <1>1, <1>2, <2>2 DEF Orderly
  <2>3. CASE o # c /\ (Free(c) \/ th[c].at \in Locking)
    <3>1. th'[o] = th[o] /\ th[o].at \notin Locking BY <1>2, <2>3 DEF Free, Inv, Mutex
    <3> QED BY <3>1 DEF Doing, Locking
  <2> QED BY <2>1, <2>2, <2>3
<1> QED BY <1>3, <1>4

LEMMA OrderlyKept ==
    ASSUME Inv, Orderly, NEW c \in Threads, NEW s, th' = [th EXCEPT ![c] = s], mishaps \subseteq mishaps',
           rows' = rows \/ Free(c) \/ th[c].at \in Locking,
           mishaps' = {} => Doing(s, rows'),
           mishaps' = {} /\ s.at # "moving" /\ (\A o \in Threads \ {c} : th[o].at # "moving") => Tidy(rows')
    PROVE  Orderly'
<1>1. \A o \in Threads : th'[o] = IF o = c THEN s ELSE th[o] BY DEF Inv, Shape
<1> QED BY <1>1, OrderlyTurns

(* The steps that leave the rows as they are.                                 *)
LEMMA OrderlyStays ==
    ASSUME Inv, Orderly, NEW c \in Threads, NEW s, th' = [th EXCEPT ![c] = s], mishaps \subseteq mishaps',
           rows' = rows, th[c].at # "moving", mishaps' = {} => Doing(s, rows)
    PROVE  Orderly'
<1>1. mishaps' = {} /\ (\A o \in Threads \ {c} : th[o].at # "moving") => Tidy(rows') BY DEF Orderly
<1> QED BY <1>1, OrderlyKept

LEMMA CalmDoing == \A t, r : t.at \notin {"moving", "dropFolder", "unlinking"} => Doing(t, r)
BY DEF Doing

(* With the mutex free nothing is half done.                                  *)
LEMMA FreeIsTidy ==
    ASSUME Inv, Typing, Orderly, NEW c \in Threads, Free(c) \/ th[c].at \in Locking, th[c].at # "moving",
           mishaps = {}
    PROVE  Tidy(rows)
BY DEF Orderly, Free, Inv, Mutex, Locking

LEMMA UploadOrderly ==
    ASSUME Inv, Typing, Orderly, NEW c \in Threads, NEW p, NEW names, Upload(c, p, names)
    PROVE  Orderly'
<1> DEFINE parts == [k \in 1..Len(names) |-> [name |-> names[k], disk |-> Disk(k)]]
           s == [Idle EXCEPT !.at = "insert", !.path = p, !.parts = parts]
<1>1. th' = [th EXCEPT ![c] = s] /\ rows' = rows /\ mishaps' = mishaps /\ th[c].at = "idle"
  BY DEF Upload, Goes
<1> HIDE DEF parts
<1>2. s.at = "insert" BY DEF Idle
<1> HIDE DEF s
<1>3. Doing(s, rows) BY <1>2, CalmDoing
<1> QED BY <1>1, <1>3, OrderlyStays

LEMMA AddedOrderly ==
    ASSUME Inv, Typing, Orderly, NEW c \in Threads, NEW row \in Row, Added(row), NEW s,
           \A o \in Threads : th'[o] = IF o = c THEN s ELSE th[o], Free(c), th[c].at # "moving",
           s.at \notin {"moving", "dropFolder", "unlinking"}, row.dir => ~FolderThere(row.path, row.name)
    PROVE  Orderly'
<1>1. rows' = With(rows, nextId, row) /\ mishaps' = mishaps \cup Slips(row) BY DEF Added, NextId
<1>2. ASSUME mishaps' = {} PROVE Tidy(rows')
  <2>1. Tidy(rows) BY <1>1, <1>2, FreeIsTidy
  <2>2. Folder(rows, row.path) /\ \A i \in At(rows, row.path, row.name) : rows[i].dir = row.dir
    BY <1>1, <1>2 DEF Slips
  <2>3. ASSUME NEW j \in DOMAIN rows, Full(rows[j]) = Full(row) PROVE ~rows[j].dir /\ ~row.dir
    <3>1. row.path \in Seq(Names) /\ row.name \in Names /\ rows[j] \in Row
      BY RowTypes DEF Typing, TableOK
    <3>2. rows[j].path = row.path /\ rows[j].name = row.name
      BY <2>3, <3>1, FullIs DEF Full
    <3>3. j \in At(rows, row.path, row.name) BY <3>2, AtIs
    <3>4. rows[j].dir = row.dir BY <2>2, <3>3
    <3> QED BY <3>3, <3>4, <3>1, RowTypes DEF FolderThere
  <2>4. nextId \notin DOMAIN rows BY BoundsAre DEF Typing, TableOK, Counts, Bounds
  <2> QED BY <1>1, <2>1, <2>2, <2>3, <2>4, TidyAdd
<1>3. Doing(s, rows') BY CalmDoing
<1> QED BY <1>1, <1>2, <1>3, OrderlyTurns

LEMMA InsertOrderly == ASSUME Inv, Typing, Orderly, NEW c \in Threads, Insert(c) PROVE Orderly'
<1> DEFINE part == Head(th[c].parts)
           row == [name |-> part.name, path |-> th[c].path, dir |-> FALSE, disk |-> part.disk]
           s == IF Len(th[c].parts) = 1 THEN Idle
                ELSE [th[c] EXCEPT !.at = "inserting", !.parts = Tail(@)]
<1>1. Inserting(c) /\ Added(row) /\ th' = [th EXCEPT ![c] = s] BY DEF Insert, Goes
<1>2. row \in Row /\ ~row.dir
  <2>1. part \in [name : Names, disk : Ids] BY <1>1, PartTypes
  <2> QED BY <2>1 DEF Row, Typing, ReqOK
<1>3. s.at \in {"idle", "inserting"} BY IdleOK DEF Inv, Shape, Fields
<1> HIDE DEF row, s
<1>4. \A o \in Threads : th'[o] = IF o = c THEN s ELSE th[o] BY <1>1 DEF Inv, Shape
<1> QED BY <1>1, <1>2, <1>3, <1>4, AddedOrderly DEF Inserting

LEMMA CreateFolderOrderly ==
    ASSUME Inv, Typing, Orderly, NEW c \in Threads, NEW p \in Seq(Names), NEW n \in Names, CreateFolder(c, p, n)
    PROVE  Orderly'
<1> DEFINE row == [name |-> n, path |-> p, dir |-> TRUE, disk |-> None]
<1>1. Added(row) /\ th' = th /\ th[c].at = "idle" /\ Free(c) /\ ~FolderThere(p, n) BY DEF CreateFolder
<1>2. row \in Row /\ row.path = p /\ row.name = n BY DEF Row
<1> HIDE DEF row
<1>3. \A o \in Threads : th'[o] = IF o = c THEN th[c] ELSE th[o] BY <1>1
<1> QED BY <1>1, <1>2, <1>3, AddedOrderly

LEMMA PlaceType ==
    ASSUME Typing, NEW c \in Threads, th[c].at \in {"unlinking", "dropFolder"}
    PROVE  th[c].path \in Seq(Names) /\ th[c].name \in Names /\ Place(th[c]) \in Seq(Names)
           /\ Place(th[c]) # <<>>
<1>1. th[c].path \in Seq(Names) /\ th[c].name \in Names BY DEF Typing, ReqOK
<1>2. Place(th[c]) \in Seq(Names) /\ Len(Place(th[c])) = Len(th[c].path) + 1 /\ Len(th[c].path) \in Nat
  BY <1>1, AppendProperties DEF Place
<1>3. Place(th[c]) # <<>> BY <1>2, EmptySeq
<1> QED BY <1>1, <1>2, <1>3

LEMMA AtPlace ==
    ASSUME NEW r, IsTable(r), NEW p \in Seq(Names), NEW n \in Names
    PROVE  At(r, p, n) = {i \in DOMAIN r : Full(r[i]) = Append(p, n)}
<1>1. \A i \in DOMAIN r : Full(r[i]) = Append(p, n) <=> r[i].path = p /\ r[i].name = n
  BY FullIs DEF IsTable
<1> QED BY <1>1, AtIs

LEMMA DeleteOrderly ==
    ASSUME Inv, Typing, Orderly, NEW c \in Threads, NEW p \in Seq(Names), NEW n \in Names, Delete(c, p, n)
    PROVE  Orderly'
<1> DEFINE f == First(At(rows, p, n))  dir == rows[f].dir  q == Append(p, n)
           left == IF dir THEN DisksOf(rows, Below(rows, q)) ELSE DisksNamed(p, n)
           s == [Idle EXCEPT !.at = "unlinking", !.path = p, !.name = n, !.dir = dir, !.left = left]
<1>1. /\ th' = [th EXCEPT ![c] = s] /\ th[c].at = "idle" /\ Free(c) /\ At(rows, p, n) # {}
      /\ mishaps' = IF dir /\ Below(rows, q) # BelowExactly(rows, q) THEN mishaps \cup {"alike"} ELSE mishaps
      /\ rows' = rows
  BY DEF Delete, Goes
<1>2. f \in At(rows, p, n)
  <2>1. At(rows, p, n) \subseteq DOMAIN rows BY AtIs
  <2> QED BY <1>1, <2>1, FirstRow
<1> HIDE DEF f, left
<1>3. s.at = "unlinking" /\ s.path = p /\ s.name = n /\ s.dir = dir
  <2> HIDE DEF dir
  <2> QED BY DEF Idle
<1> HIDE DEF s
<1>4. ASSUME mishaps' = {} PROVE Doing(s, rows)
  <2>1. Tidy(rows) BY <1>1, <1>4, FreeIsTidy
  <2>2. At(rows, p, n) = {i \in DOMAIN rows : Full(rows[i]) = q} BY <2>1, AtPlace DEF Tidy
  <2>3. dir => DirAt(rows, q) BY <1>2, <2>2 DEF DirAt
  <2>4. dir => Below(rows, q) = BelowExactly(rows, q) BY <1>1, <1>4
  <2>5. ~dir => \A i \in At(rows, p, n) : ~rows[i].dir
    BY <1>2, <2>1, <2>2 DEF Tidy, Clashless
  <2> QED BY <1>3, <2>3, <2>4, <2>5 DEF Doing, Place
<1>5. mishaps \subseteq mishaps' BY <1>1
<1> QED BY <1>1, <1>4, <1>5, OrderlyStays

LEMMA UnlinkOrderly == ASSUME Inv, Typing, Orderly, NEW c \in Threads, NEW S, Unlinks(c, S) PROVE Orderly'
<1> DEFINE s == [th[c] EXCEPT !.left = @ \ S]
<1>1. th' = [th EXCEPT ![c] = s] /\ rows' = rows /\ mishaps' = mishaps /\ th[c].at = "unlinking"
  BY DEF Unlinks, Goes
<1>2. s.at = "unlinking" /\ s.path = th[c].path /\ s.name = th[c].name /\ s.dir = th[c].dir
  BY <1>1 DEF Inv, Shape, Fields
<1> HIDE DEF s
<1>3. mishaps = {} => Doing(th[c], rows) BY DEF Orderly
<1>4. mishaps' = {} => Doing(s, rows) BY <1>1, <1>2, <1>3 DEF Doing, Place
<1> QED BY <1>1, <1>4, OrderlyStays

LEMMA DropRowsOrderly == ASSUME Inv, Typing, Orderly, NEW c \in Threads, DropRows(c) PROVE Orderly'
<1> DEFINE t == th[c]  q == Place(t)  S == Doomed(t)  s == AfterRows(t)
<1>1. t.at = "unlinking" /\ rows' = Without(rows, S) /\ th' = [th EXCEPT ![c] = s] /\ mishaps' = mishaps
  BY DEF DropRows, Dropping, Goes
<1>2. /\ s.at \in {"idle", "dropFolder"}
      /\ s.at = "dropFolder" => t.dir /\ Place(s) = q
  BY IdleOK DEF AfterRows, Inv, Shape, Fields, Place
<1>3. q \in Seq(Names) /\ t.path \in Seq(Names) /\ t.name \in Names BY <1>1, PlaceType
<1>4. ASSUME mishaps' = {} PROVE Tidy(rows') /\ Doing(s, rows')
  <2>1. Tidy(rows) /\ Doing(t, rows) BY <1>1, <1>4, FreeIsTidy DEF Orderly, Locking
  <2>2. \A i \in DOMAIN rows : rows[i] \in Row /\ Full(rows[i]) \in Seq(Names)
    BY <2>1, FullFacts DEF Tidy, IsTable
  <2>3. CASE t.dir
    <3>1. S = BelowExactly(rows, q) BY <1>1, <2>1, <2>3 DEF Doing, Doomed, Place
    <3>2. S = {i \in DOMAIN rows : Starts(q, Full(rows[i])) /\ Full(rows[i]) # q}
      BY <1>3, <2>2, <3>1, BelowIs DEF BelowExactly
    <3>3. ASSUME NEW i \in DOMAIN rows \ S, NEW j \in DOMAIN rows \cap S, rows[j].dir,
                 Starts(Full(rows[j]), Full(rows[i]))
          PROVE  Len(Full(rows[j])) = Len(Full(rows[i]))
      <4>1. Starts(q, Full(rows[j])) /\ Full(rows[j]) # q BY <3>2, <3>3
      <4>2. Starts(q, Full(rows[i])) BY <1>3, <2>2, <3>3, <4>1, Startings
      <4>3. Full(rows[i]) = q BY <3>2, <3>3, <4>2
      <4>4. Len(Full(rows[j])) = Len(q) BY <1>3, <2>2, <3>3, <4>1, <4>3 DEF Starts
      <4> QED BY <4>3, <4>4
    <3>4. Tidy(rows') BY <1>1, <2>1, <3>3, TidyDrop
    <3>5. BelowExactly(rows', q) = {} BY <1>1, <3>1 DEF BelowExactly, Without
    <3> QED BY <1>2, <3>4, <3>5 DEF Doing
  <2>4. CASE ~t.dir
    <3>1. S = At(rows, t.path, t.name) BY <2>4 DEF Doomed
    <3>2. \A j \in S : ~rows[j].dir BY <1>1, <2>1, <2>4, <3>1 DEF Doing
    <3>3. Tidy(rows') BY <1>1, <2>1, <3>2, TidyDrop
    <3> QED BY <1>2, <2>4, <3>3 DEF Doing
  <2> QED BY <2>3, <2>4
<1> HIDE DEF s
<1> QED BY <1>1, <1>4, OrderlyKept DEF Locking

LEMMA DropFolderOrderly == ASSUME Inv, Typing, Orderly, NEW c \in Threads, DropFolder(c) PROVE Orderly'
<1> DEFINE t == th[c]  q == Place(t)  S == {i \in At(rows, t.path, t.name) : rows[i].dir}
<1>1. t.at = "dropFolder" /\ rows' = Without(rows, S) /\ th' = [th EXCEPT ![c] = Idle] /\ mishaps' = mishaps
  BY DEF DropFolder, Goes
<1>2. q \in Seq(Names) /\ t.path \in Seq(Names) /\ t.name \in Names BY <1>1, PlaceType
<1>3. ASSUME mishaps' = {} PROVE Tidy(rows')
  <2>1. Tidy(rows) /\ Doing(t, rows) BY <1>1, <1>3, FreeIsTidy DEF Orderly, Locking
  <2>2. S \subseteq {i \in DOMAIN rows : Full(rows[i]) = q} BY <1>2, <2>1, AtPlace DEF Tidy, Place
  <2>3. BelowExactly(rows, q) = {} BY <1>1, <2>1 DEF Doing
  <2>4. ASSUME NEW i \in DOMAIN rows \ S, NEW j \in DOMAIN rows \cap S, rows[j].dir,
               Starts(Full(rows[j]), Full(rows[i]))
        PROVE  Len(Full(rows[j])) = Len(Full(rows[i]))
    <3>1. Full(rows[j]) = q /\ rows[i] \in Row BY <2>1, <2>2, <2>4 DEF Tidy, IsTable
    <3>2. ~IsPrefixOf(q, rows[i].path) BY <2>3 DEF BelowExactly
    <3> QED BY <1>2, <2>4, <3>1, <3>2, BelowIs
  <2> QED BY <1>1, <2>1, <2>4, TidyDrop
<1>4. Doing(Idle, rows') BY IdleOK, CalmDoing
<1> QED BY <1>1, <1>3, <1>4, OrderlyKept DEF Locking

-------------------------------------------------------------------------------
LEMMA Matching ==
    ASSUME NEW q \in Seq(Names), NEW s \in Seq(Names)
    PROVE  /\ IsPrefixOf(q, s) => Matches(q, s)
           /\ Matches(q, s) => Len(q) <= Len(s)
<1>0. Len(q) \in Nat /\ Len(s) \in Nat OBVIOUS
<1>1. Matches(q, s) => Len(q) <= Len(s) BY <1>0 DEF Matches
<1>2. ASSUME IsPrefixOf(q, s) PROVE Matches(q, s)
  <2>1. \A k \in 1..Len(q) : s[k] \in Names BY <1>0, <1>2, ElementOfSeq DEF IsPrefixOf
  <2> DEFINE z == SubSeq(s, 1, Len(q))
  <2>2. \A k \in 1..(Len(q) - 1 + 1) : z[k] = s[1 + k - 1] BY <1>0, <2>1, SubSeqProperties
  <2>3. z = q /\ Len(q) <= Len(s) BY <1>2 DEF IsPrefixOf
  <2> HIDE DEF z
  <2>4. \A k \in 1..Len(q) : q[k] = s[k] BY <1>0, <2>2, <2>3
  <2>5. CASE Len(q) = Len(s)
    <3>1. q = s BY <2>4, <2>5, SeqEqual
    <3> QED BY <3>1 DEF Matches
  <2>6. CASE Len(q) # Len(s)
    <3>1. DOMAIN q = 1..Len(q) OBVIOUS
    <3> QED BY <1>0, <2>3, <2>4, <2>6, <3>1 DEF Matches, LikeName
  <2> QED BY <2>5, <2>6
<1> QED BY <1>1, <1>2

(* LIKE also matches others; what it is to match is there.                    *)
LEMMA Matched ==
    ASSUME NEW r, IsTable(r), NEW q \in Seq(Names)
    PROVE  /\ BelowExactly(r, q) \subseteq Below(r, q)
           /\ \A i \in Below(r, q) : Full(r[i]) # q
<1>1. ASSUME NEW i \in DOMAIN r
      PROVE  /\ IsPrefixOf(q, r[i].path) => Matches(q, r[i].path)
             /\ Matches(q, r[i].path) => Full(r[i]) # q
  <2>1. r[i] \in Row /\ r[i].path \in Seq(Names) BY RowTypes DEF IsTable
  <2>2. Len(Full(r[i])) = Len(r[i].path) + 1 /\ Len(r[i].path) \in Nat BY <2>1, FullFacts
  <2> QED BY <2>1, <2>2, Matching
<1> QED BY <1>1 DEF BelowExactly, Below

LEMMA RenameOrderly ==
    ASSUME Inv, Typing, Orderly, NEW c \in Threads, NEW p \in Seq(Names), NEW n \in Names, NEW m \in Names,
           Rename(c, p, n, m)
    PROVE  Orderly'
<1> DEFINE q == Append(p, n)  f == First(At(rows, p, n))
           below == IF rows[f].dir THEN Below(rows, q) ELSE {}
           strangers == below \ BelowExactly(rows, q)
           busy == [Idle EXCEPT !.at = "moving", !.path = q, !.name = m, !.left = below, !.was = rows]
           s == IF below = {} THEN Idle ELSE busy
<1>1. /\ th[c].at = "idle" /\ Free(c) /\ At(rows, p, n) # {} /\ At(rows, p, m) = {}
      /\ rows' = Renamed(p, n, m) /\ th' = [th EXCEPT ![c] = s]
      /\ mishaps' = IF \E i \in strangers : Occurs(q, rows[i].path) # {} THEN mishaps \cup {"alike"} ELSE mishaps
  BY DEF Rename, Taken, Moving, ToMove, Goes
<1>2. f \in At(rows, p, n)
  <2>1. At(rows, p, n) \subseteq DOMAIN rows BY AtIs
  <2> QED BY <1>1, <2>1, FirstRow
<1> HIDE DEF f
<1>3. /\ busy.at = "moving" /\ busy.path = q /\ busy.name = m /\ busy.left = below /\ busy.was = rows
  <2> HIDE DEF q, below
  <2> QED BY DEF Idle
<1> HIDE DEF busy
<1>4. ASSUME mishaps' = {}
      PROVE  IF below = {} THEN Tidy(rows') ELSE Midway(busy, rows')
  <2>1. mishaps = {} /\ \A i \in strangers : Occurs(q, rows[i].path) = {} BY <1>1, <1>4
  <2>2. Tidy(rows) BY <1>1, <2>1, FreeIsTidy
  <2>3. At(rows, p, n) = {i \in DOMAIN rows : Full(rows[i]) = q}
    BY <2>2, AtPlace DEF Tidy
  <2>4. \A i \in DOMAIN rows : Full(rows[i]) # Append(p, m)
    <3>1. At(rows, p, m) = {i \in DOMAIN rows : Full(rows[i]) = Append(p, m)} BY <2>2, AtPlace DEF Tidy
    <3> QED BY <1>1, <3>1
  <2>5. q \in Seq(Names) /\ q # <<>>
    <3>1. q \in Seq(Names) /\ Len(q) = Len(p) + 1 /\ Len(p) \in Nat BY AppendProperties
    <3> QED BY <3>1, EmptySeq
  <2> HIDE DEF q
  <2>6. BelowExactly(rows, q) \subseteq below
    <3>1. CASE rows[f].dir BY <2>2, <2>5, <3>1, Matched DEF Tidy
    <3>2. CASE ~rows[f].dir
      <4> SUFFICES ASSUME NEW i \in DOMAIN rows, IsPrefixOf(q, rows[i].path) PROVE FALSE
        BY DEF BelowExactly
      <4>1. rows[i] \in Row BY <2>2 DEF Tidy, IsTable
      <4>2. Starts(q, Full(rows[i])) /\ Full(rows[i]) # q BY <2>5, <4>1, BelowIs
      <4>3. PICK j \in DOMAIN rows : rows[j].dir /\ Full(rows[j]) = q BY <2>2, <2>5, <4>2, OnTheWay
      <4> QED BY <1>2, <2>2, <2>3, <3>2, <4>3 DEF Tidy, Clashless
    <3> QED BY <3>1, <3>2
  <2>7. below \subseteq DOMAIN rows /\ \A i \in below : Full(rows[i]) # q
    BY <2>2, <2>5, Matched DEF Tidy, Below
  <2>8. DOMAIN rows' = DOMAIN rows
        /\ \A i \in DOMAIN rows : rows'[i] = IF Full(rows[i]) = q THEN [rows[i] EXCEPT !.name = m] ELSE rows[i]
    BY <1>1, <2>3 DEF Renamed
  <2>9. \A i \in DOMAIN rows : i \notin below => rows'[i] = RenRow(rows[i], q, m)
    BY <2>6, <2>8 DEF BelowExactly, RenRow
  <2>10. \A i \in below : rows'[i] = rows[i] BY <2>7, <2>8
  <2>11. CASE below = {}
    <3>1. rows' = [i \in DOMAIN rows |-> RenRow(rows[i], q, m)]
      BY <1>1, <2>9, <2>11 DEF Renamed
    <3>2. Tidy([i \in DOMAIN rows |-> RenRow(rows[i], Append(p, n), m)]) BY <2>2, <2>4, TidyRename
    <3> QED BY <2>11, <3>1, <3>2 DEF q
  <2>12. CASE below # {}
    <3>1. \A i \in below : IsPrefixOf(q, rows[i].path) \/ Occurs(q, rows[i].path) = {}
      BY <2>1, <2>7 DEF BelowExactly
    <3>2. \E i \in DOMAIN rows : Full(rows[i]) = q BY <1>2, <2>3
    <3> HIDE DEF below, strangers
    <3>3. Midway(busy, rows')
      <4>1. busy.path = Append(p, n) /\ busy.path = q BY <1>3 DEF q
      <4>2. \A i \in DOMAIN rows' : rows'[i] = IF i \in below THEN rows[i] ELSE RenRow(rows[i], q, m)
        BY <2>8, <2>9, <2>10
      <4>3. \A i \in below \cap DOMAIN rows' :
                Full(rows[i]) # q /\ (IsPrefixOf(q, rows[i].path) \/ Occurs(q, rows[i].path) = {})
        BY <2>7, <3>1
      <4>4. DOMAIN rows' = DOMAIN rows BY <2>8
      <4> QED BY <1>3, <2>2, <2>4, <3>2, <4>1, <4>2, <4>3, <4>4 DEF Midway
    <3> QED BY <2>12, <3>3
  <2> QED BY <2>11, <2>12
<1> HIDE DEF below, strangers
<1>5. mishaps' = {} => Doing(s, rows')
  <2>1. CASE below = {} BY <2>1, IdleOK, CalmDoing
  <2>2. CASE below # {} BY <1>3, <1>4, <2>2 DEF Doing
  <2> QED BY <2>1, <2>2
<1>6. mishaps' = {} /\ s.at # "moving" => Tidy(rows') BY <1>3, <1>4
<1>7. mishaps \subseteq mishaps' BY <1>1
<1> HIDE DEF s
<1> QED BY <1>1, <1>5, <1>6, <1>7, OrderlyKept

LEMMA ReplacedBelow ==
    ASSUME NEW q \in Seq(Names), NEW s \in Seq(Names), IsPrefixOf(q, s), NEW m
    PROVE  Replaced(s, q, m) = [s EXCEPT ![Len(q)] = m]
<1>1. Len(q) \in Nat /\ Len(s) \in Nat /\ Len(q) <= Len(s) BY DEF IsPrefixOf
<1>2. 0 \in Occurs(q, s)
  <2>1. SubSeq(s, 0 + 1, 0 + Len(q)) = q BY <1>1 DEF IsPrefixOf
  <2> QED BY <1>1, <2>1 DEF Occurs
<1>3. Occurs(q, s) \in SUBSET Nat BY <1>1 DEF Occurs
<1>4. First(Occurs(q, s)) = 0
  <2>1. First(Occurs(q, s)) \in Nat /\ First(Occurs(q, s)) <= 0 BY <1>2, <1>3, FirstIsIn
  <2> QED BY <2>1
<1> QED BY <1>1, <1>2, <1>4 DEF Replaced

LEMMA MovedRow ==
    ASSUME NEW row \in Row, NEW q \in Seq(Names), NEW m, Full(row) # q,
           IsPrefixOf(q, row.path) \/ Occurs(q, row.path) = {}
    PROVE  [row EXCEPT !.path = Replaced(row.path, q, m)] = RenRow(row, q, m)
<1>0. row.path \in Seq(Names) /\ [row EXCEPT !.path = row.path] = row BY RowTypes
<1>1. CASE IsPrefixOf(q, row.path)
  <2>1. Replaced(row.path, q, m) = [row.path EXCEPT ![Len(q)] = m] BY <1>0, <1>1, ReplacedBelow
  <2>2. RenRow(row, q, m) = [row EXCEPT !.path = [row.path EXCEPT ![Len(q)] = m]] BY <1>1 DEF RenRow
  <2> DEFINE new == [row.path EXCEPT ![Len(q)] = m]
  <2>3. Replaced(row.path, q, m) = new /\ RenRow(row, q, m) = [row EXCEPT !.path = new] BY <2>1, <2>2
  <2> HIDE DEF new
  <2> QED BY <2>3
<1>2. CASE ~IsPrefixOf(q, row.path)
  <2>1. Replaced(row.path, q, m) = row.path BY <1>2 DEF Replaced
  <2> QED BY <1>0, <1>2, <2>1 DEF RenRow
<1> QED BY <1>1, <1>2

LEMMA MoveOrderly == ASSUME Inv, Typing, Orderly, NEW c \in Threads, Move(c) PROVE Orderly'
<1> DEFINE t == th[c]  x == First(t.left)  left == t.left \ {x}  q == t.path  m == t.name
           busy == [t EXCEPT !.left = left]
           s == IF left = {} THEN Idle ELSE busy
<1>1. /\ t.at = "moving" /\ th' = [th EXCEPT ![c] = s] /\ mishaps' = mishaps
      /\ rows' = [rows EXCEPT ![x].path = Replaced(@, q, m)]
  BY DEF Move, Moved, Goes
<1>2. /\ t.left \subseteq DOMAIN rows /\ t.left # {} /\ q \in Seq(Names) /\ q # <<>> /\ m \in Names
  BY <1>1 DEF Typing, ReqOK
<1>3. x \in t.left BY <1>2, FirstRow
<1>4. busy.at = "moving" /\ busy.path = q /\ busy.name = m /\ busy.left = left /\ busy.was = t.was
  BY <1>1 DEF Inv, Shape, Fields
<1> HIDE DEF x, busy
<1>5. ASSUME mishaps = {} PROVE IF left = {} THEN Tidy(rows') ELSE Midway(busy, rows')
  <2>1. PICK p \in Seq(Names), n \in Names :
          /\ q = Append(p, n) /\ Tidy(t.was) /\ DOMAIN t.was = DOMAIN rows
          /\ \E i \in DOMAIN t.was : Full(t.was[i]) = q
          /\ \A i \in DOMAIN t.was : Full(t.was[i]) # Append(p, m)
          /\ \A i \in DOMAIN rows : rows[i] = IF i \in t.left THEN t.was[i] ELSE RenRow(t.was[i], q, m)
          /\ \A i \in t.left \cap DOMAIN rows :
                 /\ Full(t.was[i]) # q
                 /\ IsPrefixOf(q, t.was[i].path) \/ Occurs(q, t.was[i].path) = {}
    BY <1>1, <1>5 DEF Orderly, Doing, Midway
  <2> DEFINE row == t.was[x]
  <2>2. x \in DOMAIN rows /\ row \in Row /\ row.path \in Seq(Names) /\ rows[x] = row
    BY <1>2, <1>3, <2>1, RowTypes DEF Tidy, IsTable
  <2>3. /\ Full(row) # q
        /\ IsPrefixOf(q, row.path) \/ Occurs(q, row.path) = {}
    BY <1>3, <2>1, <2>2
  <2>4. /\ DOMAIN rows' = DOMAIN rows
        /\ \A i \in DOMAIN rows : i # x => rows'[i] = rows[i]
        /\ rows'[x] = [row EXCEPT !.path = Replaced(row.path, q, m)]
    BY <1>1, <2>2
  <2>5. rows'[x] = RenRow(row, q, m)
    <3>1. [row EXCEPT !.path = Replaced(row.path, q, m)] = RenRow(row, q, m)
      BY <1>2, <2>2, <2>3, MovedRow
    <3> QED BY <2>4, <3>1
  <2>6. \A i \in DOMAIN rows : rows'[i] = IF i \in left THEN t.was[i] ELSE RenRow(t.was[i], q, m)
    BY <1>3, <2>1, <2>4, <2>5
  <2>7. CASE left = {}
    <3> DEFINE was == t.was  w == [i \in DOMAIN was |-> RenRow(was[i], Append(p, n), m)]
    <3>1. Tidy(w)
      <4>1. Tidy(was) /\ m \in Names /\ \A i \in DOMAIN was : Full(was[i]) # Append(p, m) BY <1>2, <2>1
      <4> HIDE DEF was, m
      <4> QED BY <4>1, TidyRename
    <3>2. DOMAIN rows' = DOMAIN was /\ \A i \in DOMAIN was : rows'[i] = RenRow(was[i], q, m)
      <4>1. DOMAIN rows' = DOMAIN rows /\ DOMAIN was = DOMAIN rows BY <2>1, <2>4
      <4>2. \A i \in DOMAIN rows : i \notin left BY <2>7
      <4>3. \A i \in DOMAIN rows : rows'[i] = RenRow(t.was[i], q, m)
        <5> HIDE DEF left, t, q, m
        <5> QED BY <2>6, <4>2
      <4> QED BY <4>1, <4>3
    <3>3. q = Append(p, n) BY <2>1
    <3> HIDE DEF was, q, m
    <3>4. DOMAIN rows' = DOMAIN w /\ \A i \in DOMAIN w : rows'[i] = w[i] BY <3>2, <3>3
    <3> HIDE DEF w
    <3>5. Tidy(rows') BY <3>1, <3>4, TidySame
    <3> QED BY <2>7, <3>5
  <2>8. CASE left # {}
    <3>1. \A i \in left \cap DOMAIN rows :
              Full(t.was[i]) # q /\ (IsPrefixOf(q, t.was[i].path) \/ Occurs(q, t.was[i].path) = {})
      BY <2>1
    <3> HIDE DEF left
    <3> DEFINE was == t.was
    <3>2. /\ q = Append(p, n) /\ Tidy(was) /\ DOMAIN was = DOMAIN rows'
          /\ \E i \in DOMAIN was : Full(was[i]) = q
          /\ \A i \in DOMAIN was : Full(was[i]) # Append(p, m)
      BY <2>1, <2>4
    <3>3. \A i \in DOMAIN rows' : rows'[i] = IF i \in left THEN was[i] ELSE RenRow(was[i], q, m)
      BY <2>4, <2>6
    <3>4. \A i \in left \cap DOMAIN rows' :
              Full(was[i]) # q /\ (IsPrefixOf(q, was[i].path) \/ Occurs(q, was[i].path) = {})
      BY <2>4, <3>1
    <3> HIDE DEF was, q, m
    <3>5. busy.path = q /\ busy.name = m /\ busy.left = left /\ busy.was = was BY <1>4 DEF was, q, m
    <3>6. Midway(busy, rows') BY <3>2, <3>3, <3>4, <3>5 DEF Midway
    <3> QED BY <2>8, <3>6
  <2> QED BY <2>7, <2>8
<1> HIDE DEF left
<1>6. mishaps' = {} => Doing(s, rows')
  <2>1. CASE left = {} BY <2>1, IdleOK, CalmDoing
  <2>2. CASE left # {} BY <1>1, <1>4, <1>5, <2>2 DEF Doing
  <2> QED BY <2>1, <2>2
<1>7. mishaps' = {} /\ s.at # "moving" => Tidy(rows') BY <1>1, <1>4, <1>5
<1>8. mishaps \subseteq mishaps' BY <1>1
<1> HIDE DEF s
<1> QED BY <1>1, <1>6, <1>7, <1>8, OrderlyKept DEF Locking

(* A query that failed is a mishap.                                         *)
Misreads(c) == \E p \in Paths, n \in Names :
                  \/ CreateFolderMisread(c, p, n) \/ DeleteMisread(c, p, n)
                  \/ \E m \in Names : RenameMisread(c, p, n, m)
LEMMA MisreadIsMishap == ASSUME NEW c, Misreads(c) PROVE mishaps' # {}
BY DEF Misreads, CreateFolderMisread, DeleteMisread, RenameMisread, Misread

(* Steps cut short, and those that leave the rows alone.                        *)
LEMMA CutOrderly ==
    ASSUME Inv, Typing, Orderly, NEW c \in Threads,
           DropRowsFails(c) \/ MoveFails(c) \/ DropFolderFails(c) \/ InsertFails(c)
    PROVE  Orderly'
<1>1. CASE DropRowsFails(c) \/ MoveFails(c)
  <2>1. mishaps' # {} BY <1>1 DEF DropRowsFails, MoveFails
  <2> QED BY <2>1 DEF Orderly
<1>2. CASE DropFolderFails(c) \/ InsertFails(c)
  <2>1. th' = [th EXCEPT ![c] = Idle] /\ rows' = rows /\ mishaps' = mishaps /\ th[c].at # "moving"
    BY <1>2 DEF DropFolderFails, InsertFails, Inserting, Goes
  <2>2. Doing(Idle, rows) BY IdleOK, CalmDoing
  <2> QED BY <2>1, <2>2, OrderlyStays
<1> QED BY <1>1, <1>2

LEMMA RestOrderly ==
    ASSUME Inv, Typing, Orderly,
           \/ \E c \in Threads : UploadFails(c) \/ \E i \in Ids : MintToken(c, i)
           \/ \E t \in tokens : TokenExpires(t)
           \/ Crash
           \/ UNCHANGED vars
    PROVE  Orderly'
<1>1. CASE rows' = rows /\ th' = th /\ mishaps' = mishaps BY <1>1 DEF Orderly
<1>2. CASE Crash
  <2>1. th' = [c \in Threads |-> Idle] /\ rows' = rows
        /\ mishaps' = IF \E c \in Threads : th[c].at = "moving" THEN mishaps \cup {"cut"} ELSE mishaps
    BY <1>2 DEF Crash
  <2>2. \A c \in Threads : th'[c] = Idle /\ Doing(Idle, rows) BY <2>1, IdleOK, CalmDoing
  <2> QED BY <2>1, <2>2 DEF Orderly
<1> QED BY <1>1, <1>2 DEF UploadFails, MintToken, TokenExpires, vars

LEMMA PathsAre == Paths \subseteq Seq(Names)
<1> SUFFICES ASSUME NEW p \in Paths PROVE p \in Seq(Names) OBVIOUS
<1>1. PICK d \in 0..MaxDepth : p \in [1..d -> Names] BY DEF Paths
<1> QED BY <1>1, BoundsAre DEF Bounds

LEMMA NextConsistent == ASSUME Inv, Typing, Orderly, [Next]_vars PROVE Typing' /\ Orderly'
<1>1. ASSUME NEW c \in Threads, NEW p \in Paths, NEW k \in 1..MaxParts, NEW names \in [1..k -> Names],
             Upload(c, p, names)
      PROVE  Typing' /\ Orderly'
  BY <1>1, UploadTypes, UploadOrderly
<1>2. ASSUME NEW c \in Threads, NEW p \in Paths, NEW n \in Names, CreateFolder(c, p, n)
      PROVE  Typing' /\ Orderly'
  BY <1>2, PathsAre, CreateFolderTypes, CreateFolderOrderly
<1>3. ASSUME NEW c \in Threads, NEW p \in Paths, NEW n \in Names, Delete(c, p, n)
      PROVE  Typing' /\ Orderly'
  BY <1>3, PathsAre, DeleteTypes, DeleteOrderly
<1>4. ASSUME NEW c \in Threads, NEW p \in Paths, NEW n \in Names, NEW m \in Names, Rename(c, p, n, m)
      PROVE  Typing' /\ Orderly'
  BY <1>4, PathsAre, RenameTypes, RenameOrderly
<1>5. ASSUME NEW c \in Threads, (\E f \in th[c].left : Unlink(c, f)) \/ (\E S : UnlinkFails(c, S))
      PROVE  Typing' /\ Orderly'
  BY <1>5, BothUnlink, UnlinkTypes, UnlinkOrderly
<1>6. ASSUME NEW c \in Threads, Insert(c) PROVE Typing' /\ Orderly'
  BY <1>6, InsertTypes, InsertOrderly
<1>7. ASSUME NEW c \in Threads, DropRows(c) \/ DropFolder(c) PROVE Typing' /\ Orderly'
  BY <1>7, DropTypes, DropRowsOrderly, DropFolderOrderly
<1>8. ASSUME NEW c \in Threads, Move(c) PROVE Typing' /\ Orderly'
  BY <1>8, MoveTypes, MoveOrderly
<1>9. ASSUME NEW c \in Threads, DropRowsFails(c) \/ MoveFails(c) \/ DropFolderFails(c) \/ InsertFails(c)
      PROVE  Typing' /\ Orderly'
  BY <1>9, CutOrderly, DropTypes, MoveTypes, InsertFailsTypes
<1>10. ASSUME NEW c \in Threads, UploadFails(c) \/ \E i \in Ids : MintToken(c, i)
       PROVE  Typing' /\ Orderly'
  BY <1>10, RestOrderly, UploadFailsTypes, RestTypes
<1>11. CASE (\E t \in tokens : TokenExpires(t)) \/ Crash \/ UNCHANGED vars
  BY <1>11, RestOrderly, RestTypes
<1>12. ASSUME NEW c \in Threads, Misreads(c) PROVE Typing' /\ Orderly'
  <2>1. Orderly' BY <1>12, MisreadIsMishap DEF Orderly
  <2>2. Typing'
    BY <1>12, PathsAre, CreateFolderMisreadTypes, DeleteMisreadTypes, RenameTypes DEF Misreads
  <2> QED BY <2>1, <2>2
<1> QED BY <1>1, <1>2, <1>3, <1>4, <1>5, <1>6, <1>7, <1>8, <1>9, <1>10, <1>11, <1>12 DEF Next, Misreads

LEMMA InitConsistent == ASSUME Init PROVE Typing /\ Orderly
<1>1. rows = <<>> /\ nextId = 1 /\ files = {} /\ made = 0 /\ tokens = {} /\ crashes = 0 /\ faults = 0
      /\ strays = {} /\ torn = {} /\ mishaps = {} /\ \A c \in Threads : th[c] = Idle
  BY DEF Init, NoRows
<1>2. DOMAIN rows = {} BY <1>1
<1>3. Counts BY <1>1, BoundsAre DEF Counts, Bounds
<1>4. Typing BY <1>1, <1>2, <1>3, IdleOK DEF Typing, TableOK
<1>5. Tidy(rows) BY <1>2 DEF Tidy, IsTable, Rooted, Clashless
<1>6. \A c \in Threads : Doing(th[c], rows) BY <1>1, IdleOK, CalmDoing
<1> QED BY <1>4, <1>5, <1>6 DEF Orderly

LEMMA SpecOrderly == Spec => [](Inv /\ Typing /\ Orderly)
<1>1. Init => Inv /\ Typing /\ Orderly BY InitInv, InitConsistent
<1>2. Inv /\ Typing /\ Orderly /\ [Next]_vars => (Inv /\ Typing /\ Orderly)' BY NextInv, NextConsistent
<1> QED BY <1>1, <1>2, PTL DEF Spec

(* However many clients rename, delete and create, every row is of its type and,  *)
(* until a client does what the handlers do not guard against, in a folder that *)
(* is listed, no two of them at one path (api_rename, api_delete, api_upload,   *)
(* api_create_folder).                                                     *)
THEOREM TableIsConsistent == Spec => []Consistent
<1>1. ASSUME Inv, Typing, Orderly PROVE Consistent
  <2>1. TypeOK BY <1>1 DEF TypeOK, Typing, TableOK, Counts, ReqOK
  <2>2. Settled => Tidy(rows) BY <1>1 DEF Settled, Orderly
  <2>3. EveryRowHasAFolder BY <2>2, InAFolder DEF EveryRowHasAFolder
  <2>4. OneFolderPerPath BY <2>2 DEF OneFolderPerPath, Tidy, Clashless
  <2> QED BY <2>1, <2>3, <2>4 DEF Consistent
<1> QED BY <1>1, SpecOrderly, PTL

-------------------------------------------------------------------------------
(* The tree a tidy table stands for                                          *)

Node(r, i) == [id |-> i, name |-> r[i].name, dir |-> r[i].dir, file |-> r[i].disk,
               under |-> FolderOf(r, r[i].path)]
Numbered(r) == 0 \notin DOMAIN r

LEMMA TreeIs == ASSUME NEW r
                PROVE  /\ TreeOf(r) = {Node(r, i) : i \in DOMAIN r}
                       /\ \A i : Node(r, i).id = i /\ Node(r, i).name = r[i].name
                                 /\ Node(r, i).dir = r[i].dir /\ Node(r, i).under = FolderOf(r, r[i].path)
BY DEF TreeOf, Node

LEMMA IdsAre == ASSUME NEW r
                PROVE  /\ Tree!IdsOf(TreeOf(r)) = DOMAIN r
                       /\ Tree!Folders(TreeOf(r)) = {0} \cup {i \in DOMAIN r : r[i].dir}
<1> DEFINE T == TreeOf(r)
<1>1. /\ T = {Node(r, i) : i \in DOMAIN r}
      /\ \A i : Node(r, i).id = i /\ Node(r, i).dir = r[i].dir
  BY TreeIs
<1> HIDE DEF T
<1>2. {n.id : n \in T} = DOMAIN r BY <1>1
<1>3. \A n \in T : \A i \in DOMAIN r : n = Node(r, i) => (n.dir <=> r[i].dir) BY <1>1
<1>4. {n.id : n \in {k \in T : k.dir}} = {i \in DOMAIN r : r[i].dir} BY <1>1, <1>3
<1> QED BY <1>2, <1>4 DEF T, Tree!IdsOf, Tree!Folders, Tree!Root

LEMMA FolderIs ==
    ASSUME NEW r, Tidy(r), NEW j \in DOMAIN r, r[j].dir
    PROVE  FolderOf(r, Full(r[j])) = j
<1> DEFINE p == Full(r[j])
<1>1. p # <<>>
  <2>1. Len(p) = Len(r[j].path) + 1 /\ Len(r[j].path) \in Nat /\ p \in Seq(Names)
    BY FullFacts DEF Tidy, IsTable
  <2> QED BY <2>1, EmptySeq
<1>2. \A i \in DOMAIN r : r[i].dir /\ Full(r[i]) = p <=> i = j BY DEF Tidy, Clashless
<1> HIDE DEF p
<1>3. (CHOOSE i \in DOMAIN r : r[i].dir /\ Full(r[i]) = p) = j BY <1>2 DEF p
<1> QED BY <1>1, <1>3 DEF FolderOf, p

LEMMA RootIs == ASSUME NEW r PROVE FolderOf(r, <<>>) = 0 BY DEF FolderOf

(* One folder for one path.                                                  *)
LEMMA FoldersDiffer ==
    ASSUME NEW r, Tidy(r), Numbered(r), NEW p, NEW q, Folder(r, p), Folder(r, q),
           FolderOf(r, p) = FolderOf(r, q)
    PROVE  p = q
<1>1. ASSUME NEW s, Folder(r, s)
      PROVE  \/ s = <<>> /\ FolderOf(r, s) = 0
             \/ FolderOf(r, s) \in DOMAIN r /\ Full(r[FolderOf(r, s)]) = s
  BY <1>1, RootIs, FolderIs DEF Folder
<1> QED BY <1>1 DEF Numbered

LEMMA FolderKnown ==
    ASSUME NEW r, Tidy(r), NEW p, Folder(r, p)
    PROVE  FolderOf(r, p) \in {0} \cup {i \in DOMAIN r : r[i].dir}
BY RootIs, FolderIs DEF Folder

-------------------------------------------------------------------------------
LEMMA AddStep ==
    ASSUME NEW r, Tidy(r), Numbered(r), NEW x, x \notin DOMAIN r, NEW row, Folder(r, row.path),
           Tidy(With(r, x, row))
    PROVE  Tree!Add(TreeOf(r), TreeOf(With(r, x, row)))
<1> DEFINE w == With(r, x, row)  n == Node(w, x)
<1>1. DOMAIN w = DOMAIN r \cup {x} /\ w[x] = row /\ \A j \in DOMAIN r : w[j] = r[j] BY DEF With
<1> HIDE DEF w
<1>2. ASSUME NEW p, Folder(r, p) PROVE FolderOf(w, p) = FolderOf(r, p)
  <2>1. CASE p = <<>> BY <2>1, RootIs
  <2>2. ASSUME NEW j \in DOMAIN r, r[j].dir, Full(r[j]) = p PROVE FolderOf(w, p) = FolderOf(r, p)
    <3>1. FolderOf(r, p) = j BY <2>2, FolderIs
    <3>2. j \in DOMAIN w /\ w[j] = r[j] /\ Tidy(w) BY <1>1 DEF w
    <3>3. FolderOf(w, Full(w[j])) = j BY <2>2, <3>2, FolderIs
    <3> QED BY <2>2, <3>1, <3>2, <3>3
  <2> QED BY <1>2, <2>1, <2>2 DEF Folder
<1>3. \A i \in DOMAIN r : Node(w, i) = Node(r, i) BY <1>1, <1>2, InAFolder DEF Node
<1>4. n.id = x /\ n.under = FolderOf(r, row.path) BY <1>1, <1>2 DEF Node
<1> HIDE DEF n
<1>5. TreeOf(w) = TreeOf(r) \cup {n}
  <2>1. TreeOf(w) = {Node(w, i) : i \in DOMAIN w} /\ TreeOf(r) = {Node(r, i) : i \in DOMAIN r} BY TreeIs
  <2> QED BY <1>1, <1>3, <2>1 DEF n
<1>6. n.id \notin Tree!IdsOf(TreeOf(r)) BY <1>4, IdsAre
<1>7. n \notin TreeOf(r) BY <1>6 DEF Tree!IdsOf
<1>8. n.under \in Tree!Folders(TreeOf(r)) BY <1>4, IdsAre, FolderKnown
<1> QED BY <1>5, <1>6, <1>7, <1>8 DEF Tree!Add, w

(* What stays where rows go.                                                 *)
LEMMA Remainder ==
    ASSUME NEW r, Tidy(r), Numbered(r), NEW S, S \subseteq DOMAIN r, Tidy(Without(r, S))
    PROVE  /\ \A i \in DOMAIN r \ S : Node(Without(r, S), i) = Node(r, i) /\ Node(r, i).under \notin S
           /\ TreeOf(Without(r, S)) = {Node(r, i) : i \in DOMAIN r \ S}
           /\ TreeOf(r) \ TreeOf(Without(r, S)) = {Node(r, i) : i \in S}
<1> DEFINE w == Without(r, S)
<1>1. DOMAIN w = DOMAIN r \ S /\ \A j \in DOMAIN w : w[j] = r[j] BY DEF Without
<1>2. Tidy(w) OBVIOUS
<1> HIDE DEF w
<1>3. ASSUME NEW i \in DOMAIN w
      PROVE  FolderOf(w, r[i].path) = FolderOf(r, r[i].path) /\ FolderOf(r, r[i].path) \notin S
  <2>1. Folder(w, r[i].path) BY <1>1, <1>2, InAFolder
  <2>2. CASE r[i].path = <<>>
    <3>1. FolderOf(w, r[i].path) = 0 /\ FolderOf(r, r[i].path) = 0 BY <2>2, RootIs
    <3> QED BY <3>1 DEF Numbered
  <2>3. ASSUME NEW j \in DOMAIN w, w[j].dir, Full(w[j]) = r[i].path
        PROVE  FolderOf(w, r[i].path) = FolderOf(r, r[i].path) /\ FolderOf(r, r[i].path) \notin S
    <3>1. FolderOf(w, Full(w[j])) = j BY <1>2, <2>3, FolderIs
    <3>2. w[j] = r[j] /\ j \in DOMAIN r /\ j \notin S BY <1>1
    <3>3. FolderOf(r, Full(r[j])) = j BY <2>3, <3>2, FolderIs
    <3> QED BY <2>3, <3>1, <3>2, <3>3
  <2> QED BY <2>1, <2>2, <2>3 DEF Folder
<1>4. \A i \in DOMAIN w : Node(w, i) = Node(r, i) /\ Node(r, i).under \notin S
  BY <1>1, <1>3 DEF Node
<1>5. TreeOf(w) = {Node(r, i) : i \in DOMAIN w} BY <1>4, TreeIs
<1>6. TreeOf(r) = {Node(r, i) : i \in DOMAIN r} BY TreeIs
<1>7. \A i, j : Node(r, i) = Node(r, j) => i = j
  <2> TAKE i, j
  <2>1. Node(r, i).id = i /\ Node(r, j).id = j BY TreeIs
  <2> QED BY <2>1
<1>8. TreeOf(r) \ TreeOf(w) = {Node(r, i) : i \in S} BY <1>1, <1>5, <1>6, <1>7
<1> QED BY <1>1, <1>4, <1>5, <1>8 DEF w

(* A folder's content.                                                       *)
LEMMA RemoveBelow ==
    ASSUME NEW r, Tidy(r), Numbered(r), NEW q \in Seq(Names), DirAt(r, q),
           Tidy(Without(r, BelowExactly(r, q)))
    PROVE  Tree!Remove(TreeOf(r), TreeOf(Without(r, BelowExactly(r, q))))
<1> DEFINE S == BelowExactly(r, q)  T == TreeOf(r)  U == TreeOf(Without(r, S))  gone == T \ U
<1>1. S = {i \in DOMAIN r : IsPrefixOf(q, r[i].path)} BY DEF BelowExactly
<1>2. PICK f \in DOMAIN r : r[f].dir /\ Full(r[f]) = q BY DEF DirAt
<1>3. FolderOf(r, q) = f BY <1>2, FolderIs
<1>4. IsPrefixOf(q, q)
  <2>1. SubSeq(q, 1, Len(q)) = q
    <3>1. Len(q) \in Nat /\ \A k \in 1..Len(q) : q[k] \in Names BY ElementOfSeq
    <3> DEFINE z == SubSeq(q, 1, Len(q))
    <3>2. z \in Seq(Names) /\ Len(z) = (IF 1 <= Len(q) THEN Len(q) - 1 + 1 ELSE 0)
          /\ \A k \in 1..(Len(q) - 1 + 1) : z[k] = q[1 + k - 1]
      BY <3>1, SubSeqProperties
    <3> HIDE DEF z
    <3>3. Len(z) = Len(q) /\ \A k \in 1..Len(q) : z[k] = q[k] BY <3>1, <3>2
    <3>4. z = q BY <3>2, <3>3, SeqEqual
    <3> QED BY <3>4 DEF z
  <2> QED BY <2>1 DEF IsPrefixOf
<1> HIDE DEF S
<1>5. /\ \A i \in DOMAIN r \ S : Node(r, i).under \notin S
      /\ U = {Node(r, i) : i \in DOMAIN r \ S} /\ gone = {Node(r, i) : i \in S}
      /\ T = {Node(r, i) : i \in DOMAIN r}
  <2>1. S \subseteq DOMAIN r /\ Tidy(Without(r, S)) BY <1>1 DEF S
  <2> QED BY <2>1, Remainder, TreeIs
<1> HIDE DEF T, U, gone
<1>6. \A i : Node(r, i).id = i /\ Node(r, i).under = FolderOf(r, r[i].path) BY TreeIs
<1>7. Tree!IdsOf(gone) = S BY <1>5, <1>6 DEF Tree!IdsOf
<1>8. \A i \in DOMAIN r : Node(r, i).under = f => i \in S
  <2> SUFFICES ASSUME NEW i \in DOMAIN r, FolderOf(r, r[i].path) = f PROVE i \in S BY <1>6
  <2>1. Folder(r, r[i].path) /\ Folder(r, q) BY <1>2, InAFolder DEF Folder
  <2>2. r[i].path = q BY <1>3, <2>1, FoldersDiffer
  <2> QED BY <1>1, <1>4, <2>2
<1>9. \A i \in S : Node(r, i).under \in S \cup {f}
  <2> SUFFICES ASSUME NEW i \in S, r[i].path # q PROVE FolderOf(r, r[i].path) \in S
    BY <1>3, <1>6
  <2>1. i \in DOMAIN r /\ r[i] \in Row /\ IsPrefixOf(q, r[i].path) /\ r[i].path \in Seq(Names)
    BY <1>1, RowTypes DEF Tidy, IsTable
  <2>2. Folder(r, r[i].path) BY <2>1, InAFolder
  <2>3. r[i].path # <<>>
    <3>1. Len(q) \in Nat /\ Len(q) <= Len(r[i].path) BY <2>1 DEF IsPrefixOf
    <3>2. q # <<>>
      <4>1. Len(Full(r[f])) = Len(r[f].path) + 1 /\ Len(r[f].path) \in Nat
        BY <1>2, FullFacts DEF Tidy, IsTable
      <4> QED BY <1>2, <4>1, EmptySeq
    <3> QED BY <3>1, <3>2, EmptySeq
  <2>4. PICK j \in DOMAIN r : r[j].dir /\ Full(r[j]) = r[i].path BY <2>2, <2>3 DEF Folder
  <2>5. FolderOf(r, r[i].path) = j BY <2>4, FolderIs
  <2>6. Starts(q, r[i].path)
    <3>1. Starts(q, Full(r[i])) BY <2>1, BelowIs
    <3>2. Len(q) <= Len(r[i].path) BY <2>1 DEF IsPrefixOf
    <3>3. Starts(r[i].path, Full(r[i])) BY <2>1, FullFacts DEF Starts
    <3> QED BY <2>1, <3>1, <3>2, <3>3, FullFacts, Startings
  <2>7. IsPrefixOf(q, r[j].path) BY <2>4, <2>6, BelowIs DEF Tidy, IsTable
  <2> QED BY <1>1, <2>5, <2>7
<1>10. f \in Tree!Folders(T) BY <1>2, IdsAre DEF T
<1>11. {n \in gone : n.under = f} = {n \in T : n.under = f} BY <1>1, <1>5, <1>8
<1>12. U \subseteq T /\ (\A n \in U : n.under \notin S) /\ \A n \in gone : n.under \in S \cup {f}
  BY <1>5, <1>9
<1>13. Tree!Remove(T, U) BY <1>7, <1>10, <1>11, <1>12 DEF Tree!Remove, gone
<1> QED BY <1>13 DEF T, U, S

(* Files of one name, or an empty folder.                                    *)
LEMMA RemoveNamed ==
    ASSUME NEW r, Tidy(r), Numbered(r), NEW p \in Seq(Names), NEW n \in Names, At(r, p, n) # {},
           Tidy(Without(r, At(r, p, n)))
    PROVE  Tree!Remove(TreeOf(r), TreeOf(Without(r, At(r, p, n))))
<1> DEFINE S == At(r, p, n)  T == TreeOf(r)  U == TreeOf(Without(r, S))  gone == T \ U
           f == FolderOf(r, p)
<1>1. S = {i \in DOMAIN r : r[i].path = p /\ r[i].name = n} BY AtIs
<1>2. PICK x \in S : TRUE OBVIOUS
<1>3. Folder(r, p) BY <1>1, <1>2, InAFolder
<1> HIDE DEF S
<1>4. /\ \A i \in DOMAIN r \ S : Node(r, i).under \notin S
      /\ U = {Node(r, i) : i \in DOMAIN r \ S} /\ gone = {Node(r, i) : i \in S}
      /\ T = {Node(r, i) : i \in DOMAIN r}
  <2>1. S \subseteq DOMAIN r /\ Tidy(Without(r, S)) BY <1>1 DEF S
  <2> QED BY <2>1, Remainder, TreeIs
<1> HIDE DEF T, U, gone
<1>5. \A i : Node(r, i).id = i /\ Node(r, i).under = FolderOf(r, r[i].path) /\ Node(r, i).name = r[i].name
  BY TreeIs
<1>6. Tree!IdsOf(gone) = S BY <1>4, <1>5 DEF Tree!IdsOf
<1>7. f \in Tree!Folders(T) BY <1>3, IdsAre, FolderKnown DEF T
<1>8. \A i \in DOMAIN r : Node(r, i).under = f <=> r[i].path = p BY <1>3, <1>5, InAFolder, FoldersDiffer
<1> HIDE DEF f
<1>9. {k \in gone : k.under = f} = {k \in {y \in T : y.under = f} : k.name = Node(r, x).name}
      /\ Node(r, x) \in {k \in gone : k.under = f}
  BY <1>1, <1>2, <1>4, <1>5, <1>8
<1>10. U \subseteq T /\ (\A k \in U : k.under \notin S) /\ \A k \in gone : k.under \in S \cup {f}
  BY <1>1, <1>4, <1>8
<1>11. Tree!Remove(T, U) BY <1>6, <1>7, <1>9, <1>10 DEF Tree!Remove, gone
<1> QED BY <1>11 DEF T, U, S

LEMMA RenPath ==
    ASSUME NEW row \in Row, NEW q \in Seq(Names), q # <<>>, NEW m \in Names
    PROVE  /\ RenRow(row, q, m).path = Subst(row.path, q, m)
           /\ RenRow(row, q, m).name = IF Full(row) = q THEN m ELSE row.name
<1>0. row.path \in Seq(Names) /\ Len(q) \in Nat \ {0} BY RowTypes, EmptySeq
<1>1. CASE Full(row) = q
  <2>1. RenRow(row, q, m) = [row EXCEPT !.name = m] BY <1>1 DEF RenRow
  <2>2. RenRow(row, q, m).path = row.path /\ RenRow(row, q, m).name = m BY <2>1, RowTypes
  <2>3. ~Starts(q, row.path) BY <1>1, FullFacts DEF Starts
  <2> QED BY <1>1, <2>2, <2>3 DEF Subst
<1>2. CASE Full(row) # q /\ IsPrefixOf(q, row.path)
  <2> DEFINE path == [row.path EXCEPT ![Len(q)] = m]
  <2>1. Len(q) \in 1..Len(row.path) BY <1>0, <1>2 DEF IsPrefixOf
  <2>2. path \in Seq(Names) BY <1>0, <2>1, ExceptSeq
  <2>3. RenRow(row, q, m) = [row EXCEPT !.path = path] BY <1>2 DEF RenRow
  <2>4. Starts(q, row.path)
    <3>1. Starts(q, Full(row)) BY <1>2, BelowIs
    <3> QED BY <2>1, <3>1, FullFacts DEF Starts
  <2>5. Subst(row.path, q, m) = path BY <2>4 DEF Subst
  <2> HIDE DEF path
  <2>6. RenRow(row, q, m).path = path /\ RenRow(row, q, m).name = row.name BY <2>2, <2>3, RowTypes
  <2> QED BY <1>2, <2>5, <2>6
<1>3. CASE Full(row) # q /\ ~IsPrefixOf(q, row.path)
  <2>1. RenRow(row, q, m) = row BY <1>3 DEF RenRow
  <2>2. ~Starts(q, Full(row)) BY <1>3, BelowIs
  <2>3. Starts(q, row.path) => Starts(q, Full(row)) BY <1>0, FullFacts DEF Starts
  <2> QED BY <1>3, <2>1, <2>2, <2>3 DEF Subst
<1> QED BY <1>1, <1>2, <1>3

LEMMA RenameStep ==
    ASSUME NEW r, Tidy(r), Numbered(r), NEW p \in Seq(Names), NEW n \in Names, NEW m \in Names,
           \E i \in DOMAIN r : Full(r[i]) = Append(p, n), \A i \in DOMAIN r : Full(r[i]) # Append(p, m),
           NEW w, Tidy(w), DOMAIN w = DOMAIN r, \A i \in DOMAIN r : w[i] = RenRow(r[i], Append(p, n), m)
    PROVE  Tree!Rename(TreeOf(r), TreeOf(w))
<1> DEFINE q == Append(p, n)  T == TreeOf(r)  U == TreeOf(w)  f == FolderOf(r, p)
           named == {k \in T : k.under = f /\ k.name = n}
<1>1. q \in Seq(Names) /\ q # <<>>
  <2>1. q \in Seq(Names) /\ Len(q) = Len(p) + 1 /\ Len(p) \in Nat BY AppendProperties
  <2> QED BY <2>1, EmptySeq
<1>2. \A i \in DOMAIN r : r[i] \in Row BY DEF Tidy, IsTable
<1>3. \A i \in DOMAIN r : /\ Full(r[i]) = q <=> r[i].path = p /\ r[i].name = n
                          /\ ~(r[i].path = p /\ r[i].name = m)
  <2> TAKE i \in DOMAIN r
  <2>1. Full(r[i]) = q <=> r[i].path = p /\ r[i].name = n BY <1>2, FullIs
  <2>2. Full(r[i]) = Append(p, m) <=> r[i].path = p /\ r[i].name = m BY <1>2, FullIs
  <2> QED BY <2>1, <2>2
<1>4. PICK x \in DOMAIN r : r[x].path = p /\ r[x].name = n BY <1>3
<1>5. Folder(r, p) BY <1>4, InAFolder
<1>6. \A i \in DOMAIN r : w[i] = RenRow(r[i], q, m) OBVIOUS
<1> HIDE DEF q
<1>7. \A i \in DOMAIN r : /\ w[i].dir = r[i].dir /\ w[i].disk = r[i].disk
                          /\ Full(w[i]) = Subst(Full(r[i]), q, m) /\ w[i].path = Subst(r[i].path, q, m)
                          /\ w[i].name = IF r[i].path = p /\ r[i].name = n THEN m ELSE r[i].name
  <2> TAKE i \in DOMAIN r
  <2>1. /\ RenRow(r[i], q, m).dir = r[i].dir /\ RenRow(r[i], q, m).disk = r[i].disk
        /\ Full(RenRow(r[i], q, m)) = Subst(Full(r[i]), q, m)
    BY <1>1, <1>2, RenFacts
  <2>2. /\ RenRow(r[i], q, m).path = Subst(r[i].path, q, m)
        /\ RenRow(r[i], q, m).name = IF Full(r[i]) = q THEN m ELSE r[i].name
    BY <1>1, <1>2, RenPath
  <2>3. Full(r[i]) = q <=> r[i].path = p /\ r[i].name = n BY <1>3
  <2> QED BY <1>6, <2>1, <2>2, <2>3
<1>8. \A i \in DOMAIN r : FolderOf(w, w[i].path) = FolderOf(r, r[i].path)
  <2> TAKE i \in DOMAIN r
  <2>1. CASE r[i].path = <<>>
    <3>1. Subst(<<>>, q, m) = <<>>
      <4>1. ~Starts(q, <<>>) BY <1>1, EmptySeq DEF Starts
      <4> QED BY <4>1 DEF Subst
    <3> QED BY <1>7, <2>1, <3>1, RootIs
  <2>2. ASSUME NEW j \in DOMAIN r, r[j].dir, Full(r[j]) = r[i].path
        PROVE  FolderOf(w, w[i].path) = FolderOf(r, r[i].path)
    <3>1. FolderOf(r, Full(r[j])) = j BY <2>2, FolderIs
    <3>2. FolderOf(w, Full(w[j])) = j BY <1>7, <2>2, FolderIs
    <3>3. Full(w[j]) = w[i].path BY <1>7, <2>2
    <3> QED BY <2>2, <3>1, <3>2, <3>3
  <2>3. Folder(r, r[i].path) BY InAFolder
  <2> QED BY <2>1, <2>2, <2>3 DEF Folder
<1>9. \A i \in DOMAIN r : Node(w, i) = IF r[i].path = p /\ r[i].name = n THEN [Node(r, i) EXCEPT !.name = m]
                                       ELSE Node(r, i)
  BY <1>7, <1>8 DEF Node
<1>10. \A i \in DOMAIN r : FolderOf(r, r[i].path) = f <=> r[i].path = p
  BY <1>5, InAFolder, FoldersDiffer
<1>11. \A i : Node(r, i).id = i /\ Node(r, i).under = FolderOf(r, r[i].path) /\ Node(r, i).name = r[i].name
  BY DEF Node
<1>12. \A i : Node(w, i).id = i /\ Node(w, i).name = w[i].name BY DEF Node
<1>13. T = {Node(r, i) : i \in DOMAIN r} /\ U = {Node(w, i) : i \in DOMAIN r} BY TreeIs
<1> HIDE DEF T, U, f
<1>14. named = {Node(r, i) : i \in {j \in DOMAIN r : r[j].path = p /\ r[j].name = n}}
  BY <1>10, <1>11, <1>13
<1>15. n # m BY <1>3, <1>4
<1>16. Node(r, x) \in T \ U
  <2>1. ASSUME NEW i \in DOMAIN r, Node(r, x) = Node(w, i) PROVE FALSE
    <3>1. i = x BY <1>11, <1>12, <2>1
    <3>2. Node(r, x).name = n /\ Node(w, x).name = m BY <1>4, <1>7, <1>11, <1>12
    <3> QED BY <1>15, <2>1, <3>1, <3>2
  <2> QED BY <1>13, <2>1
<1>17. Node(w, x) \in U \ T
  <2>1. ASSUME NEW i \in DOMAIN r, Node(w, x) = Node(r, i) PROVE FALSE
    <3>1. i = x BY <1>11, <1>12, <2>1
    <3>2. Node(r, x).name = n /\ Node(w, x).name = m BY <1>4, <1>7, <1>11, <1>12
    <3> QED BY <1>15, <2>1, <3>1, <3>2
  <2> QED BY <1>13, <2>1
<1>18. /\ Node(r, x).under = f /\ Node(r, x).name = n
       /\ Node(w, x).id = Node(r, x).id /\ Node(w, x).name = m
  BY <1>4, <1>7, <1>10, <1>11, <1>12
<1>19. \A k \in T : k.under = f => k.name # m BY <1>3, <1>10, <1>11, <1>13
<1>20. U = (T \ named) \cup {[k EXCEPT !.name = m] : k \in named}
  <2> DEFINE D == {j \in DOMAIN r : r[j].path = p /\ r[j].name = n}
  <2>1. \A i, j : Node(r, i) = Node(r, j) => i = j
    <3> TAKE i, j
    <3>1. Node(r, i).id = i /\ Node(r, j).id = j BY <1>11
    <3> QED BY <3>1
  <2>2. T \ named = {Node(r, i) : i \in DOMAIN r \ D} BY <1>13, <1>14, <2>1
  <2>3. {[k EXCEPT !.name = m] : k \in named} = {[Node(r, i) EXCEPT !.name = m] : i \in D} BY <1>14
  <2>4. U = {Node(r, i) : i \in DOMAIN r \ D} \cup {[Node(r, i) EXCEPT !.name = m] : i \in D}
    <3>1. \A i \in DOMAIN r \ D : Node(w, i) = Node(r, i) BY <1>9
    <3>2. \A i \in D : Node(w, i) = [Node(r, i) EXCEPT !.name = m] BY <1>9
    <3> QED BY <1>13, <3>1, <3>2
  <2> QED BY <2>2, <2>3, <2>4
<1> DEFINE a == Node(r, x)  b == Node(w, x)
<1> HIDE DEF named, a, b
<1>21. /\ named = {k \in T : k.under = a.under /\ k.name = a.name} /\ b.id = a.id
       /\ \A k \in T : k.under = a.under => k.name # b.name
       /\ U = (T \ named) \cup {[k EXCEPT !.name = b.name] : k \in named}
       /\ a \in T \ U /\ b \in U \ T
  BY <1>16, <1>17, <1>18, <1>19, <1>20 DEF named, a, b
<1>22. Tree!Rename(T, U) BY <1>21 DEF Tree!Rename
<1> QED BY <1>22 DEF T, U

-------------------------------------------------------------------------------
(* Every step is one of the tree's                                           *)

ShownOf(s, r) == IF \E c \in Threads : s[c].at = "moving"
                 THEN s[CHOOSE c \in Threads : s[c].at = "moving"].was ELSE r
LEMMA ShownIs ==
    ASSUME NEW s, NEW r
    PROVE  /\ (\A o \in Threads : s[o].at # "moving") => ShownOf(s, r) = r
           /\ \A c \in Threads : s[c].at = "moving" /\ (\A o \in Threads \ {c} : s[o].at # "moving")
                  => ShownOf(s, r) = s[c].was
<1>1. (\A o \in Threads : s[o].at # "moving") => ShownOf(s, r) = r BY DEF ShownOf
<1>2. ASSUME NEW c \in Threads, s[c].at = "moving", \A o \in Threads \ {c} : s[o].at # "moving"
      PROVE  ShownOf(s, r) = s[c].was
  <2>1. \A o \in Threads : s[o].at = "moving" <=> o = c BY <1>2
  <2>2. (CHOOSE o \in Threads : s[o].at = "moving") = c BY <1>2, <2>1
  <2> QED BY <1>2, <2>2 DEF ShownOf
<1> QED BY <1>1, <1>2
LEMMA ShownAre == Shown = ShownOf(th, rows) /\ Shown' = ShownOf(th', rows') BY DEF Shown, ShownOf

ShownTree == TreeOf(Shown)
Follows == mishaps' = {} => mishaps = {} /\ (ShownTree' = ShownTree \/ Tree!Step(ShownTree, ShownTree'))

LEMMA OneMoves ==
    ASSUME Inv, NEW c \in Threads, Free(c) \/ th[c].at \in Locking
    PROVE  \A o \in Threads \ {c} : th[o].at # "moving"
BY DEF Free, Inv, Mutex, Locking

LEMMA QuietFollows ==
    ASSUME Inv, NEW c \in Threads, NEW s, th' = [th EXCEPT ![c] = s], th[c].at # "moving", s.at # "moving",
           rows' = rows, mishaps \subseteq mishaps'
    PROVE  Follows
<1>1. \A o \in Threads : th'[o] = IF o = c THEN s ELSE th[o] BY DEF Inv, Shape
<1>2. Shown' = Shown
  <2>1. CASE \A o \in Threads : th[o].at # "moving"
    <3>1. \A o \in Threads : th'[o].at # "moving" BY <1>1, <2>1
    <3>2. ShownOf(th', rows') = rows' BY <3>1, ShownIs
    <3>3. ShownOf(th, rows) = rows BY <2>1, ShownIs
    <3> QED BY <3>2, <3>3, ShownAre
  <2>2. ASSUME NEW o \in Threads, th[o].at = "moving" PROVE Shown' = Shown
    <3>1. \A d \in Threads \ {o} : th[d].at # "moving" BY <2>2, OneMoves DEF Locking
    <3>2. o # c /\ th'[o] = th[o] BY <1>1, <2>2
    <3>3. \A d \in Threads \ {o} : th'[d].at # "moving" BY <1>1, <3>1
    <3>4. Shown = th[o].was BY <2>2, <3>1, ShownIs, ShownAre
    <3>5. th'[o].at = "moving" BY <2>2, <3>2
    <3>6. ShownOf(th', rows') = th'[o].was BY <3>3, <3>5, ShownIs
    <3> QED BY <3>2, <3>4, <3>6, ShownAre
  <2> QED BY <2>1, <2>2
<1> QED BY <1>2 DEF Follows, ShownTree

(* The steps of the one that may change the rows.                             *)
LEMMA CalmShown ==
    ASSUME Inv, NEW c \in Threads, NEW s, \A o \in Threads : th'[o] = IF o = c THEN s ELSE th[o],
           Free(c) \/ th[c].at \in Locking
    PROVE  /\ th[c].at # "moving" => Shown = rows
           /\ th[c].at = "moving" => Shown = th[c].was
           /\ s.at # "moving" => Shown' = rows' /\ \A o \in Threads : th'[o].at # "moving"
           /\ s.at = "moving" => Shown' = s.was
<1>1. \A o \in Threads \ {c} : th[o].at # "moving" /\ th'[o].at # "moving" BY OneMoves
<1>2. th'[c] = s OBVIOUS
<1>3. th[c].at # "moving" => Shown = rows BY <1>1, ShownIs, ShownAre
<1>4. th[c].at = "moving" => Shown = th[c].was BY <1>1, ShownIs, ShownAre
<1>5. ASSUME s.at # "moving" PROVE Shown' = rows' /\ \A o \in Threads : th'[o].at # "moving"
  <2>1. \A o \in Threads : th'[o].at # "moving" BY <1>1, <1>2, <1>5
  <2> QED BY <2>1, ShownIs, ShownAre
<1>6. s.at = "moving" => Shown' = s.was BY <1>1, <1>2, ShownIs, ShownAre
<1> QED BY <1>3, <1>4, <1>5, <1>6

LEMMA RowsNumbered == ASSUME Typing PROVE Numbered(rows)
BY BoundsAre DEF Typing, TableOK, Counts, Bounds, Numbered

LEMMA AddedFollows ==
    ASSUME Inv, Typing, Orderly, Orderly', NEW c \in Threads, NEW row, Added(row), NEW s,
           \A o \in Threads : th'[o] = IF o = c THEN s ELSE th[o], Free(c), th[c].at # "moving",
           s.at # "moving"
    PROVE  Follows
<1> SUFFICES ASSUME mishaps' = {} PROVE mishaps = {} /\ Tree!Step(ShownTree, ShownTree') BY DEF Follows
<1>1. rows' = With(rows, nextId, row) /\ mishaps' = mishaps \cup Slips(row) BY DEF Added, NextId
<1>2. mishaps = {} /\ Folder(rows, row.path) BY <1>1 DEF Slips
<1>3. Shown = rows /\ Shown' = rows' /\ \A o \in Threads : th'[o].at # "moving" BY CalmShown
<1>4. Tidy(rows) /\ Tidy(rows') BY <1>2, <1>3, FreeIsTidy DEF Orderly
<1>5. nextId \notin DOMAIN rows BY BoundsAre DEF Typing, TableOK, Counts, Bounds
<1>6. Tree!Add(TreeOf(rows), TreeOf(rows')) BY <1>1, <1>2, <1>4, <1>5, RowsNumbered, AddStep
<1> QED BY <1>2, <1>3, <1>6 DEF ShownTree, Tree!Step

LEMMA InsertFollows ==
    ASSUME Inv, Typing, Orderly, Orderly', NEW c \in Threads, Insert(c) PROVE Follows
<1> DEFINE part == Head(th[c].parts)
           row == [name |-> part.name, path |-> th[c].path, dir |-> FALSE, disk |-> part.disk]
           s == IF Len(th[c].parts) = 1 THEN Idle
                ELSE [th[c] EXCEPT !.at = "inserting", !.parts = Tail(@)]
<1>1. Inserting(c) /\ Added(row) /\ th' = [th EXCEPT ![c] = s] BY DEF Insert, Goes
<1>2. s.at # "moving" BY IdleOK DEF Inv, Shape, Fields
<1> HIDE DEF row, s
<1>3. \A o \in Threads : th'[o] = IF o = c THEN s ELSE th[o] BY <1>1 DEF Inv, Shape
<1> QED BY <1>1, <1>2, <1>3, AddedFollows DEF Inserting

LEMMA CreateFolderFollows ==
    ASSUME Inv, Typing, Orderly, Orderly', NEW c \in Threads, NEW p, NEW n, CreateFolder(c, p, n) PROVE Follows
<1> DEFINE row == [name |-> n, path |-> p, dir |-> TRUE, disk |-> None]
<1>1. Added(row) /\ th' = th /\ th[c].at = "idle" /\ Free(c) BY DEF CreateFolder
<1> HIDE DEF row
<1>2. \A o \in Threads : th'[o] = IF o = c THEN th[c] ELSE th[o] BY <1>1
<1> QED BY <1>1, <1>2, AddedFollows

(* Rows go, where S is what a tree can lose.                                   *)
LEMMA DropFollows ==
    ASSUME Inv, Typing, Orderly, Orderly', NEW c \in Threads, NEW s, th' = [th EXCEPT ![c] = s],
           th[c].at \in Locking, th[c].at # "moving", s.at # "moving", mishaps' = mishaps, NEW S,
           rows' = Without(rows, S),
           Tidy(rows) /\ Tidy(rows') /\ mishaps = {} /\ S # {} => Tree!Remove(TreeOf(rows), TreeOf(rows'))
    PROVE  Follows
<1> SUFFICES ASSUME mishaps' = {} PROVE ShownTree' = ShownTree \/ Tree!Step(ShownTree, ShownTree') BY DEF Follows
<1>1. \A o \in Threads : th'[o] = IF o = c THEN s ELSE th[o] BY DEF Inv, Shape
<1>2. Shown = rows /\ Shown' = rows' /\ \A o \in Threads : th'[o].at # "moving" BY <1>1, CalmShown
<1>3. Tidy(rows) /\ Tidy(rows') BY <1>2, FreeIsTidy DEF Orderly
<1>4. CASE S # {} BY <1>2, <1>3, <1>4 DEF ShownTree, Tree!Step
<1>5. CASE S = {}
  <2>1. TreeOf(Without(rows, S)) = {Node(rows, i) : i \in DOMAIN rows \ S}
    BY <1>3, <1>5, RowsNumbered, Remainder
  <2>2. TreeOf(rows) = {Node(rows, i) : i \in DOMAIN rows} BY TreeIs
  <2>3. TreeOf(rows') = TreeOf(rows) BY <1>5, <2>1, <2>2
  <2> QED BY <1>2, <2>3 DEF ShownTree
<1> QED BY <1>4, <1>5

LEMMA DropRowsFollows ==
    ASSUME Inv, Typing, Orderly, Orderly', NEW c \in Threads, DropRows(c) PROVE Follows
<1> DEFINE t == th[c]  q == Place(t)  S == Doomed(t)  s == AfterRows(t)
<1>1. t.at = "unlinking" /\ rows' = Without(rows, S) /\ th' = [th EXCEPT ![c] = s] /\ mishaps' = mishaps
  BY DEF DropRows, Dropping, Goes
<1>2. s.at # "moving" BY IdleOK DEF AfterRows, Inv, Shape, Fields
<1>3. q \in Seq(Names) /\ t.path \in Seq(Names) /\ t.name \in Names BY <1>1, PlaceType
<1>4. ASSUME Tidy(rows), Tidy(rows'), mishaps = {}, S # {}
      PROVE  Tree!Remove(TreeOf(rows), TreeOf(rows'))
  <2>1. CASE t.dir
    <3>1. S = BelowExactly(rows, q) /\ DirAt(rows, q) BY <1>1, <1>4, <2>1 DEF Doing, Doomed, Place, Orderly
    <3> QED BY <1>1, <1>3, <1>4, <3>1, RowsNumbered, RemoveBelow
  <2>2. CASE ~t.dir
    <3>1. S = At(rows, t.path, t.name) BY <2>2 DEF Doomed
    <3> QED BY <1>1, <1>3, <1>4, <3>1, RowsNumbered, RemoveNamed
  <2> QED BY <2>1, <2>2
<1> HIDE DEF s, S
<1> QED BY <1>1, <1>2, <1>4, DropFollows DEF Locking

LEMMA DropFolderFollows ==
    ASSUME Inv, Typing, Orderly, Orderly', NEW c \in Threads, DropFolder(c) PROVE Follows
<1> DEFINE t == th[c]  all == At(rows, t.path, t.name)  S == {i \in all : rows[i].dir}
<1>1. t.at = "dropFolder" /\ rows' = Without(rows, S) /\ th' = [th EXCEPT ![c] = Idle] /\ mishaps' = mishaps
  BY DEF DropFolder, Goes
<1>2. t.path \in Seq(Names) /\ t.name \in Names BY <1>1, PlaceType
<1>3. ASSUME Tidy(rows), Tidy(rows'), mishaps = {}, S # {}
      PROVE  Tree!Remove(TreeOf(rows), TreeOf(rows'))
  <2>1. all = {i \in DOMAIN rows : Full(rows[i]) = Append(t.path, t.name)} BY <1>2, <1>3, AtPlace DEF Tidy
  <2>2. S = all BY <1>3, <2>1 DEF Tidy, Clashless
  <2> QED BY <1>1, <1>2, <1>3, <2>2, RowsNumbered, RemoveNamed
<1> HIDE DEF S
<1> QED BY <1>1, <1>3, IdleOK, DropFollows DEF Locking

LEMMA RenameFollows ==
    ASSUME Inv, Typing, Orderly, Orderly', NEW c \in Threads, NEW p \in Seq(Names), NEW n \in Names,
           NEW m \in Names, Rename(c, p, n, m)
    PROVE  Follows
<1> DEFINE q == Append(p, n)  below == IF rows[First(At(rows, p, n))].dir THEN Below(rows, q) ELSE {}
           strangers == below \ BelowExactly(rows, q)
           busy == [Idle EXCEPT !.at = "moving", !.path = q, !.name = m, !.left = below, !.was = rows]
           s == IF below = {} THEN Idle ELSE busy
<1>1. /\ th[c].at = "idle" /\ Free(c) /\ At(rows, p, n) # {} /\ At(rows, p, m) = {}
      /\ rows' = Renamed(p, n, m) /\ th' = [th EXCEPT ![c] = s]
      /\ mishaps' = IF \E i \in strangers : Occurs(q, rows[i].path) # {} THEN mishaps \cup {"alike"} ELSE mishaps
  BY DEF Rename, Taken, Moving, ToMove, Goes
<1>2. busy.at = "moving" /\ busy.was = rows
  <2> HIDE DEF q, below
  <2> QED BY DEF Idle
<1> HIDE DEF busy
<1> SUFFICES ASSUME mishaps' = {} PROVE mishaps = {} /\ (ShownTree' = ShownTree \/ Tree!Step(ShownTree, ShownTree'))
  BY DEF Follows
<1>3. mishaps = {} BY <1>1
<1>4. \A o \in Threads : th'[o] = IF o = c THEN s ELSE th[o] BY <1>1 DEF Inv, Shape
<1>5. CASE below # {}
  <2>1. s.at = "moving" /\ s.was = rows BY <1>2, <1>5
  <2> HIDE DEF s
  <2>2. Shown = rows /\ Shown' = rows BY <1>1, <1>4, <2>1, CalmShown
  <2> QED BY <1>3, <2>2 DEF ShownTree
<1>6. CASE below = {}
  <2>1. s.at # "moving" BY <1>6, IdleOK
  <2> HIDE DEF s
  <2>2. Shown = rows /\ Shown' = rows' /\ \A o \in Threads : th'[o].at # "moving"
    BY <1>1, <1>4, <2>1, CalmShown
  <2>3. Tidy(rows) /\ Tidy(rows') BY <1>1, <1>3, <2>2, FreeIsTidy DEF Orderly
  <2>4. /\ At(rows, p, n) = {i \in DOMAIN rows : Full(rows[i]) = q}
        /\ At(rows, p, m) = {i \in DOMAIN rows : Full(rows[i]) = Append(p, m)}
    BY <2>3, AtPlace DEF Tidy
  <2>5. First(At(rows, p, n)) \in At(rows, p, n)
    <3>1. At(rows, p, n) \subseteq DOMAIN rows BY AtIs
    <3> QED BY <1>1, <3>1, FirstRow
  <2>6. BelowExactly(rows, q) = {}
    <3> SUFFICES ASSUME NEW i \in DOMAIN rows, IsPrefixOf(q, rows[i].path) PROVE FALSE
      BY DEF BelowExactly
    <3>1. q \in Seq(Names) /\ q # <<>>
      <4>1. q \in Seq(Names) /\ Len(q) = Len(p) + 1 /\ Len(p) \in Nat BY AppendProperties
      <4> QED BY <4>1, EmptySeq
    <3>2. rows[i] \in Row BY <2>3 DEF Tidy, IsTable
    <3>3. Starts(q, Full(rows[i])) /\ Full(rows[i]) # q BY <3>1, <3>2, BelowIs
    <3>4. PICK j \in DOMAIN rows : rows[j].dir /\ Full(rows[j]) = q BY <2>3, <3>1, <3>3, OnTheWay
    <3>5. rows[First(At(rows, p, n))].dir BY <2>3, <2>4, <2>5, <3>4 DEF Tidy, Clashless
    <3>6. i \in Below(rows, q) BY <2>3, <3>1, Matched DEF Tidy, BelowExactly
    <3> QED BY <1>6, <3>5, <3>6
  <2>7. DOMAIN rows' = DOMAIN rows /\ \A i \in DOMAIN rows : rows'[i] = RenRow(rows[i], q, m)
    <3>1. DOMAIN rows' = DOMAIN rows
          /\ \A i \in DOMAIN rows : rows'[i] = IF Full(rows[i]) = q THEN [rows[i] EXCEPT !.name = m] ELSE rows[i]
      BY <1>1, <2>4 DEF Renamed
    <3> QED BY <2>6, <3>1 DEF BelowExactly, RenRow
  <2>8. /\ \E i \in DOMAIN rows : Full(rows[i]) = q
        /\ \A i \in DOMAIN rows : Full(rows[i]) # Append(p, m)
    BY <1>1, <2>4
  <2>9. Tree!Rename(TreeOf(rows), TreeOf(rows')) BY <2>3, <2>7, <2>8, RowsNumbered, RenameStep
  <2> QED BY <1>3, <2>2, <2>9 DEF ShownTree, Tree!Step
<1> QED BY <1>5, <1>6

LEMMA MoveFollows ==
    ASSUME Inv, Typing, Orderly, Orderly', NEW c \in Threads, Move(c) PROVE Follows
<1> DEFINE t == th[c]  x == First(t.left)  left == t.left \ {x}  q == t.path  m == t.name  was == t.was
           busy == [t EXCEPT !.left = left]
           s == IF left = {} THEN Idle ELSE busy
<1>1. /\ t.at = "moving" /\ th' = [th EXCEPT ![c] = s] /\ mishaps' = mishaps
      /\ rows' = [rows EXCEPT ![x].path = Replaced(@, q, m)]
  BY DEF Move, Moved, Goes
<1>2. /\ t.left \subseteq DOMAIN rows /\ t.left # {} /\ q \in Seq(Names) /\ m \in Names
  BY <1>1 DEF Typing, ReqOK
<1>3. x \in t.left BY <1>2, FirstRow
<1>4. busy.at = "moving" /\ busy.was = was BY <1>1 DEF Inv, Shape, Fields
<1> HIDE DEF busy, x
<1> SUFFICES ASSUME mishaps = {} PROVE ShownTree' = ShownTree \/ Tree!Step(ShownTree, ShownTree')
  BY <1>1 DEF Follows
<1>5. \A o \in Threads : th'[o] = IF o = c THEN s ELSE th[o] BY <1>1 DEF Inv, Shape
<1>6. CASE left # {}
  <2>1. s.at = "moving" /\ s.was = was BY <1>4, <1>6
  <2> HIDE DEF s
  <2>2. Shown = was /\ Shown' = was BY <1>1, <1>5, <2>1, CalmShown DEF Locking
  <2> QED BY <2>2 DEF ShownTree
<1>7. CASE left = {}
  <2>1. s.at # "moving" BY <1>7, IdleOK
  <2> HIDE DEF s
  <2>2. Shown = was /\ Shown' = rows' /\ \A o \in Threads : th'[o].at # "moving"
    BY <1>1, <1>5, <2>1, CalmShown DEF Locking
  <2>3. Tidy(rows') BY <1>1, <2>2 DEF Orderly
  <2>4. PICK p \in Seq(Names), n \in Names :
          /\ q = Append(p, n) /\ Tidy(was) /\ DOMAIN was = DOMAIN rows
          /\ \E i \in DOMAIN was : Full(was[i]) = q
          /\ \A i \in DOMAIN was : Full(was[i]) # Append(p, m)
          /\ \A i \in DOMAIN rows : rows[i] = IF i \in t.left THEN was[i] ELSE RenRow(was[i], q, m)
          /\ \A i \in t.left \cap DOMAIN rows :
                 Full(was[i]) # q /\ (IsPrefixOf(q, was[i].path) \/ Occurs(q, was[i].path) = {})
    BY <1>1 DEF Orderly, Doing, Midway
  <2>5. /\ x \in DOMAIN was /\ was[x] \in Row /\ rows[x] = was[x]
        /\ Full(was[x]) # q /\ (IsPrefixOf(q, was[x].path) \/ Occurs(q, was[x].path) = {})
    BY <1>2, <1>3, <2>4 DEF Tidy, IsTable
  <2>6. [was[x] EXCEPT !.path = Replaced(was[x].path, q, m)] = RenRow(was[x], q, m)
    BY <1>2, <2>5, MovedRow
  <2>7. /\ DOMAIN rows' = DOMAIN rows
        /\ \A i \in DOMAIN rows : i # x => rows'[i] = rows[i]
        /\ rows'[x] = [was[x] EXCEPT !.path = Replaced(was[x].path, q, m)]
    BY <1>1, <2>4, <2>5
  <2>8. DOMAIN rows' = DOMAIN was /\ \A i \in DOMAIN was : rows'[i] = RenRow(was[i], q, m)
    BY <1>3, <1>7, <2>4, <2>6, <2>7
  <2>9. Numbered(was) BY <2>4, RowsNumbered DEF Numbered
  <2> HIDE DEF was, m, q
  <2>10. m \in Names BY <1>2 DEF m
  <2>11. Tree!Rename(TreeOf(was), TreeOf(rows')) BY <2>3, <2>4, <2>8, <2>9, <2>10, RenameStep
  <2> QED BY <2>2, <2>11 DEF ShownTree, Tree!Step, was
<1> QED BY <1>6, <1>7

LEMMA RestFollows ==
    ASSUME Inv, [Next]_vars,
           ~\E c \in Threads : \/ Insert(c) \/ DropRows(c) \/ DropFolder(c) \/ Move(c)
                               \/ \E p \in Paths, n \in Names :
                                    CreateFolder(c, p, n) \/ \E m \in Names : Rename(c, p, n, m)
    PROVE  Follows
<1>1. ASSUME NEW c \in Threads, NEW p, NEW names, Upload(c, p, names) PROVE Follows
  <2> DEFINE parts == [k \in 1..Len(names) |-> [name |-> names[k], disk |-> Disk(k)]]
             s == [Idle EXCEPT !.at = "insert", !.path = p, !.parts = parts]
  <2>1. th' = [th EXCEPT ![c] = s] /\ rows' = rows /\ mishaps' = mishaps /\ th[c].at = "idle"
    BY <1>1 DEF Upload, Goes
  <2> HIDE DEF parts
  <2>2. s.at = "insert" BY DEF Idle
  <2> HIDE DEF s
  <2> QED BY <2>1, <2>2, QuietFollows
<1>2. ASSUME NEW c \in Threads, NEW p, NEW n, Delete(c, p, n) PROVE Follows
  <2> DEFINE dir == rows[First(At(rows, p, n))].dir  below == Below(rows, Append(p, n))
             left == IF dir THEN DisksOf(rows, below) ELSE DisksNamed(p, n)
             s == [Idle EXCEPT !.at = "unlinking", !.path = p, !.name = n, !.dir = dir, !.left = left]
  <2>1. th' = [th EXCEPT ![c] = s] /\ rows' = rows /\ mishaps \subseteq mishaps' /\ th[c].at = "idle"
    BY <1>2 DEF Delete, Goes
  <2> HIDE DEF dir, left
  <2>2. s.at = "unlinking" BY DEF Idle
  <2> HIDE DEF s
  <2> QED BY <2>1, <2>2, QuietFollows
<1>3. ASSUME NEW c \in Threads, NEW S, Unlinks(c, S) PROVE Follows
  <2> DEFINE s == [th[c] EXCEPT !.left = @ \ S]
  <2>1. th' = [th EXCEPT ![c] = s] /\ rows' = rows /\ mishaps' = mishaps /\ th[c].at = "unlinking"
    BY <1>3 DEF Unlinks, Goes
  <2>2. s.at = "unlinking" BY <2>1 DEF Inv, Shape, Fields
  <2> HIDE DEF s
  <2> QED BY <2>1, <2>2, QuietFollows
<1>4. ASSUME NEW c \in Threads, InsertFails(c) \/ DropFolderFails(c) PROVE Follows
  <2>1. th' = [th EXCEPT ![c] = Idle] /\ rows' = rows /\ mishaps' = mishaps /\ th[c].at # "moving"
    BY <1>4 DEF InsertFails, DropFolderFails, Inserting, Goes
  <2> QED BY <2>1, IdleOK, QuietFollows
<1>5. ASSUME NEW c \in Threads, DropRowsFails(c) \/ MoveFails(c) PROVE Follows
  <2>1. mishaps' # {} BY <1>5 DEF DropRowsFails, MoveFails
  <2> QED BY <2>1 DEF Follows
<1>6. CASE rows' = rows /\ th' = th /\ mishaps' = mishaps
  BY <1>6, ShownAre DEF Follows, ShownTree
<1>7. CASE Crash
  <2> SUFFICES ASSUME mishaps' = {} PROVE mishaps = {} /\ ShownTree' = ShownTree BY DEF Follows
  <2>1. /\ th' = [c \in Threads |-> Idle] /\ rows' = rows
        /\ mishaps' = IF \E c \in Threads : th[c].at = "moving" THEN mishaps \cup {"cut"} ELSE mishaps
    BY <1>7 DEF Crash
  <2>2. mishaps = {} /\ \A c \in Threads : th[c].at # "moving" BY <2>1
  <2>3. \A c \in Threads : th'[c].at # "moving" BY <2>1, IdleOK
  <2>4. ShownOf(th, rows) = rows /\ ShownOf(th', rows') = rows'
    <3>1. ShownOf(th, rows) = rows BY <2>2, ShownIs
    <3>2. ShownOf(th', rows') = rows' BY <2>3, ShownIs
    <3> QED BY <3>1, <3>2
  <2> QED BY <2>1, <2>2, <2>4, ShownAre DEF ShownTree
<1>8. CASE UNCHANGED vars BY <1>6, <1>8 DEF vars
<1>9. ASSUME NEW c \in Threads, UploadFails(c) \/ \E i \in Ids : MintToken(c, i) PROVE Follows
  BY <1>6, <1>9 DEF UploadFails, MintToken
<1>10. ASSUME NEW t, TokenExpires(t) PROVE Follows BY <1>6, <1>10 DEF TokenExpires
<1>11. ASSUME NEW c \in Threads, Misreads(c) PROVE Follows BY <1>11, MisreadIsMishap DEF Follows
<1>12. ASSUME NEW c \in Threads, (\E f \in th[c].left : Unlink(c, f)) \/ (\E S : UnlinkFails(c, S))
       PROVE  Follows
  BY <1>3, <1>12, BothUnlink
<1> QED BY <1>1, <1>2, <1>4, <1>5, <1>7, <1>8, <1>9, <1>10, <1>11, <1>12 DEF Next, Misreads

LEMMA NextFollows == ASSUME Inv, Typing, Orderly, Orderly', [Next]_vars PROVE Follows
<1>1. ASSUME NEW c \in Threads, NEW p \in Paths, NEW n \in Names, CreateFolder(c, p, n) PROVE Follows
  BY <1>1, CreateFolderFollows
<1>2. ASSUME NEW c \in Threads, NEW p \in Paths, NEW n \in Names, NEW m \in Names, Rename(c, p, n, m)
      PROVE  Follows
  BY <1>2, PathsAre, RenameFollows
<1>3. ASSUME NEW c \in Threads, Insert(c) \/ DropRows(c) \/ DropFolder(c) \/ Move(c) PROVE Follows
  BY <1>3, InsertFollows, DropRowsFollows, DropFolderFollows, MoveFollows
<1> QED BY <1>1, <1>2, <1>3, RestFollows

(* The table is a tree of folders at all times, and every step adds one thing to *)
(* it, takes a folder's content or the things of one name away, renames, or     *)
(* leaves it alone, until a client does what the handlers do not guard against. *)
THEOREM TableIsATree == Spec => IsATree
<1>1. Init => Tree!Init
  <2> SUFFICES ASSUME Init PROVE Tree!Init OBVIOUS
  <2>1. rows = <<>> /\ mishaps = {} /\ \A c \in Threads : th[c].at # "moving"
    BY IdleOK DEF Init, NoRows
  <2>2. Shown = rows BY <2>1, ShownIs, ShownAre
  <2>3. DOMAIN rows = {} BY <2>1
  <2>4. TreeOf(rows) = {} BY <2>3, TreeIs
  <2> QED BY <2>1, <2>2, <2>4 DEF Tree!Init
<1>2. ASSUME Inv, Typing, Orderly, Orderly', [Next]_vars
      PROVE  [~(mishaps = {})' \/ (mishaps = {} /\ Tree!Step(TreeOf(Shown), TreeOf(Shown)'))]_
             <<TreeOf(Shown), mishaps = {}>>
  BY <1>2, NextFollows DEF Follows, ShownTree
<1> QED BY <1>1, <1>2, SpecOrderly, PTL DEF Spec, IsATree, Tree!Spec
===============================================================================
