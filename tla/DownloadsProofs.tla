--------------------------- MODULE DownloadsProofs ---------------------------
(***************************************************************************)
(* Theorems about the downloader, for any number of processes, URLs, files,  *)
(* blocks and versions: as long as no two transfers of one staging file overlap, *)
(* none resumes foreign bytes, no staging file has the name of a file asked for   *)
(* and no short body passes for a whole one, what gets a file's name is whole; and *)
(* a file that is there stays, unless a rename failed as well.  The record list  *)
(* agrees with the transfers and the files as far as the mishaps stay out.     *)
(*                                                                         *)
(* The argument: open handles are of files that exist (Handles), two transfers *)
(* never hold one staging file (Alone), and a transfer therefore finds in it   *)
(* just what it has written (Staged).  For the records: a list that a process    *)
(* is about to save, and that is not out of date, is what the records need only  *)
(* one change to be (Fresh), and the change spares every running transfer.      *)
(***************************************************************************)
EXTENDS Downloads, SequenceTheorems, TLAPS

Versions == 1..MaxVersions
Spots == {Part(f) : f \in Files} \cup {Dest(f) : f \in Files}
Undisturbed == Clear({"shared", "removed", "taken"})
Text == Seq(Block \cup {Hole})

(* A process's state is a record with the fields of Idle.                    *)
Fields == {"at", "url", "file", "out", "append", "from", "ver", "say", "copy", "stale", "pid"}
RowOK(r) ==
    /\ DOMAIN r = Fields
    /\ r.at \in Holding \cup {"asking", "end"} => r.url \in Urls /\ r.file \in Files
    /\ r.at = "end" => r.say \in Statuses
    /\ r.copy \in Seq(Record)
    /\ r.at \in Holding => r.ver \in Versions /\ r.from \in Nat
    /\ r.out \in Spots \cup {None}
Shape == /\ DOMAIN run = Procs /\ \A p \in Procs : RowOK(run[p])
         /\ disk \in [Spots -> Text \cup {Absent}]
         /\ serves \in [Urls -> Versions] /\ records \in Seq(Record)
Handles == \A p \in Procs : run[p].out # None => disk[run[p].out] \in Text

Holders == {p \in Procs : run[p].at \in Holding}
Apart == /\ \A p, o \in Holders : p # o => Part(run[p].file) # Part(run[o].file)
         /\ \A p \in Holders : Part(run[p].file) \notin Files
Own(p) == run[p].out = Part(run[p].file)
Alone == Undisturbed =>
             Apart /\ \A p \in Holders : run[p].at # "again" => Own(p)

Staged(p) == /\ run[p].from \in 0..Blocks
             /\ run[p].at = "again" => run[p].from = Blocks
             /\ disk[Part(run[p].file)] = Prefix(run[p].url, run[p].ver, run[p].from)
IsWhole(c) == c = Absent \/ \E u \in Urls, v \in Versions : c = Whole(u, v)
Exact == Unmixed =>
             (\A p \in Holders : Staged(p)) /\ \A f \in Files : IsWhole(disk[Dest(f)])
Inv == Shape /\ Handles /\ Alone /\ Exact

-------------------------------------------------------------------------------
(* Places and contents                                                      *)

LEMMA Placing ==
    /\ \A f \in Files : Part(f) \in Spots /\ Dest(f) \in Spots
    /\ \A f \in Files : \A x : x \notin Files => Dest(f) # x
    /\ \A f, g \in Files : Dest(f) = Dest(g) <=> f = g
    /\ None \notin Spots
BY NoneAssumption DEF Part, Dest, Spots

LEMMA AbsentIsNoText == Absent \notin Text
<1> SUFFICES ASSUME Absent \in Text PROVE FALSE OBVIOUS
<1>1. Absent[1] = <<"absent">> /\ 1 \in 1..Len(Absent) BY DEF Absent
<1>2. <<"absent">> \in Block \cup {Hole} BY <1>1 DEF Text
<1>3. Len(<<"absent">>) = 1 OBVIOUS
<1>4. \A b \in Block : Len(b) = 3 BY DEF Block
<1>5. Len(Hole) = 3 BY DEF Hole
<1> QED BY <1>2, <1>3, <1>4, <1>5

LEMMA EmptyText == <<>> \in Text BY DEF Text

LEMMA BlockType ==
    ASSUME NEW u \in Urls, NEW v \in Versions, NEW k \in 1..Blocks PROVE <<u, v, k>> \in Block
BY DEF Block, Versions

LEMMA PrefixIsText ==
    ASSUME NEW u \in Urls, NEW v \in Versions, NEW n \in 0..Blocks
    PROVE  Prefix(u, v, n) \in Text /\ Len(Prefix(u, v, n)) = n
<1>1. n \in Nat BY BlocksAssumption
<1>2. \A k \in 1..n : <<u, v, k>> \in Block \cup {Hole} BY <1>1, BlocksAssumption, BlockType
<1> QED BY <1>1, <1>2 DEF Prefix, Text

LEMMA PrefixGrows ==
    ASSUME NEW u \in Urls, NEW v \in Versions, NEW n \in 0..(Blocks - 1)
    PROVE  Append(Prefix(u, v, n), <<u, v, n + 1>>) = Prefix(u, v, n + 1)
<1> DEFINE P == Prefix(u, v, n)  Q == Append(P, <<u, v, n + 1>>)
<1>1. P \in Text /\ Len(P) = n /\ n \in Nat /\ n + 1 \in 0..Blocks BY PrefixIsText, BlocksAssumption
<1>2. <<u, v, n + 1>> \in Block \cup {Hole} BY <1>1, BlockType, BlocksAssumption
<1>3. Q \in Text /\ Len(Q) = n + 1 BY <1>1, <1>2, AppendProperties DEF Text
<1>4. \A k \in 1..(n + 1) : Q[k] = Prefix(u, v, n + 1)[k]
  BY <1>1, <1>2, AppendProperties DEF Prefix, Text
<1>5. Prefix(u, v, n + 1) \in Text /\ Len(Prefix(u, v, n + 1)) = n + 1 BY <1>1, PrefixIsText
<1> QED BY <1>1, <1>3, <1>4, <1>5, SeqEqual DEF Text

(* What a transfer writes is a text, and continues its own text.               *)
LEMMA WrittenIsText ==
    ASSUME NEW text \in Text, NEW r, r.url \in Urls, r.ver \in Versions, r.from \in Nat, r.from < Blocks
    PROVE  Written(text, r) \in Text
<1> DEFINE b == <<r.url, r.ver, r.from + 1>>
<1>1. b \in Block \cup {Hole} BY BlockType, BlocksAssumption
<1>2. CASE r.append BY <1>1, <1>2, AppendProperties DEF Written, Text
<1>3. CASE ~r.append
  <2> DEFINE n == IF Len(text) > r.from THEN Len(text) ELSE r.from + 1
             g(k) == IF k = r.from + 1 THEN b ELSE IF k <= Len(text) THEN text[k] ELSE Hole
  <2>1. n \in Nat /\ Len(text) \in Nat BY DEF Text
  <2>2. \A k \in 1..n : g(k) \in Block \cup {Hole}
    <3> SUFFICES ASSUME NEW k \in 1..n, k # r.from + 1, k <= Len(text) PROVE text[k] \in Block \cup {Hole}
      BY <1>1
    <3> QED BY <2>1, ElementOfSeq DEF Text
  <2>3. Written(text, r) = [k \in 1..n |-> g(k)] BY <1>3 DEF Written
  <2> HIDE DEF n, g
  <2> QED BY <2>1, <2>2, <2>3 DEF Text
<1> QED BY <1>2, <1>3

LEMMA WrittenContinues ==
    ASSUME NEW r, r.url \in Urls, r.ver \in Versions, r.from \in 0..(Blocks - 1)
    PROVE  Written(Prefix(r.url, r.ver, r.from), r) = Prefix(r.url, r.ver, r.from + 1)
<1>1. CASE r.append BY <1>1, PrefixGrows DEF Written
<1>2. CASE ~r.append
  <2> SUFFICES ASSUME NEW n, n = r.from PROVE Written(Prefix(r.url, r.ver, n), r) = Prefix(r.url, r.ver, n + 1)
    OBVIOUS
  <2>1. n \in Nat /\ n \in 0..Blocks BY BlocksAssumption
  <2> SUFFICES ASSUME NEW P, P = Prefix(r.url, r.ver, n) PROVE Written(P, r) = Prefix(r.url, r.ver, n + 1)
    OBVIOUS
  <2>2. Len(P) = n BY <2>1, PrefixIsText
  <2>3. Written(P, r) = [k \in 1..(n + 1) |-> IF k = n + 1 THEN <<r.url, r.ver, n + 1>>
                                              ELSE IF k <= n THEN P[k] ELSE Hole]
    BY <1>2, <2>1, <2>2 DEF Written
  <2>4. \A k \in 1..n : P[k] = <<r.url, r.ver, k>> BY DEF Prefix
  <2>5. \A k \in 1..(n + 1) : (IF k = n + 1 THEN <<r.url, r.ver, n + 1>>
                               ELSE IF k <= n THEN P[k] ELSE Hole) = <<r.url, r.ver, k>>
    BY <2>1, <2>4
  <2>6. Prefix(r.url, r.ver, n + 1) = [k \in 1..(n + 1) |-> <<r.url, r.ver, k>>] BY DEF Prefix
  <2> QED BY <2>3, <2>5, <2>6, Zenon
<1> QED BY <1>1, <1>2

-------------------------------------------------------------------------------
(* A process's state                                                        *)

LEMMA UpdatedIsList ==
    ASSUME NEW rs \in Seq(Record), NEW u \in Urls, NEW f \in Files, NEW status \in Statuses,
           NEW p \in Procs \cup {None}
    PROVE  Updated(rs, u, f, status, p) \in Seq(Record)
<1> DEFINE row == [url |-> u, file |-> f, status |-> status, pid |-> p]
           rows == [i \in DOMAIN rs |-> IF i \in IndexOf(rs, u, f) THEN row ELSE rs[i]]
<1>1. row \in Record BY DEF Record
<1>2. rows \in Seq(Record)
  <2>1. DOMAIN rs = 1..Len(rs) /\ Len(rs) \in Nat OBVIOUS
  <2>2. \A i \in 1..Len(rs) : (IF i \in IndexOf(rs, u, f) THEN row ELSE rs[i]) \in Record
    <3> HIDE DEF row
    <3> QED BY <1>1, ElementOfSeq
  <2> HIDE DEF row
  <2> QED BY <2>1, <2>2
<1> QED BY <1>1, <1>2, AppendProperties DEF Updated

LEMMA MarkedIsList == ASSUME NEW rs \in Seq(Record), NEW i PROVE Marked(rs, i) \in Seq(Record)
<1>1. CASE i \in DOMAIN rs
  <2>1. rs[i] \in Record BY <1>1
  <2> DEFINE row == [[rs[i] EXCEPT !.status = "stopped"] EXCEPT !.pid = None]
  <2>2. row \in Record BY <2>1 DEF Record, Statuses
  <2>3. Marked(rs, i) = [rs EXCEPT ![i] = row] BY <1>1 DEF Marked
  <2> HIDE DEF row
  <2> QED BY <1>1, <2>2, <2>3
<1> QED BY <1>1 DEF Marked

LEMMA RemovedIsList == ASSUME NEW rs \in Seq(Record), NEW i \in DOMAIN rs PROVE Removed(rs, i) \in Seq(Record)
BY SubSeqProperties, ConcatProperties DEF Removed

LEMMA IdleRow == RowOK(Idle) /\ Idle.at = "idle" /\ Idle.out = None
BY DEF Idle, RowOK, Fields, Holding

(* A process that is not named in a step stays as it is, but for what is said.  *)
LEMMA StaleRow ==
    ASSUME NEW r, RowOK(r)
    PROVE  LET s == [r EXCEPT !.stale = TRUE] IN
           /\ RowOK(s) /\ s.at = r.at /\ s.url = r.url /\ s.file = r.file
           /\ s.ver = r.ver /\ s.from = r.from /\ s.out = r.out
BY DEF RowOK, Fields

LEMMA MovedRow ==
    ASSUME NEW r, RowOK(r), NEW x \in Spots \cup {None}
    PROVE  LET s == [r EXCEPT !.out = x] IN
           /\ RowOK(s) /\ s.at = r.at /\ s.url = r.url /\ s.file = r.file
           /\ s.ver = r.ver /\ s.from = r.from /\ s.out = x
BY DEF RowOK, Fields

(* A transfer that goes on as it was, or closes its file when it is whole.     *)
Carries(o) ==
    /\ run[o].at \in Holding
    /\ run'[o].url = run[o].url /\ run'[o].file = run[o].file
    /\ run'[o].ver = run[o].ver /\ run'[o].from = run[o].from
    /\ run'[o].at = "again" /\ Unmixed' => run[o].at = "again" \/ run[o].from = Blocks
    /\ run[o].at = "again" => run'[o].at = "again"
    /\ Undisturbed' =>
           /\ run'[o].at # "again" => run'[o].out = run[o].out
           /\ disk'[Part(run[o].file)] = disk[Part(run[o].file)]

LEMMA Kept ==
    ASSUME Inv, mishaps \subseteq mishaps', Shape', Handles',
           \A o \in Procs : run'[o].at \in Holding => Carries(o),
           Unmixed' => \A f \in Files : IsWhole(disk'[Dest(f)])
    PROVE  Inv'
<1>1. Alone'
  <2> SUFFICES ASSUME Undisturbed'
               PROVE  Apart' /\ \A p \in Holders' : run'[p].at # "again" => Own(p)'
    BY DEF Alone
  <2>1. Undisturbed BY DEF Clear, Undisturbed, Unmixed, Unlost
  <2>2. Apart /\ \A p \in Holders : run[p].at # "again" => Own(p) BY <2>1 DEF Inv, Alone
  <2>3. \A p \in Holders' : p \in Holders /\ run'[p].file = run[p].file
    BY DEF Holders, Carries
  <2>4. Apart' BY <2>2, <2>3 DEF Apart
  <2>5. ASSUME NEW p \in Holders', run'[p].at # "again" PROVE Own(p)'
    BY <2>2, <2>3, <2>5 DEF Own, Carries, Holders
  <2> QED BY <2>4, <2>5
<1>2. Exact'
  <2> SUFFICES ASSUME Unmixed' PROVE \A p \in Holders' : Staged(p)'
    BY DEF Exact
  <2>1. Unmixed /\ Undisturbed' BY DEF Clear, Undisturbed, Unmixed, Unlost
  <2>2. \A p \in Holders : Staged(p) BY <2>1 DEF Inv, Exact
  <2> TAKE p \in Holders'
  <2>3. p \in Holders /\ Carries(p) BY DEF Holders, Carries
  <2> QED BY <2>1, <2>2, <2>3 DEF Staged, Carries
<1> QED BY <1>1, <1>2 DEF Inv

(* The steps that touch no file: what p becomes is no transfer, or the one it   *)
(* was; the others stay, hear of a save, or are killed.                      *)
Bystander(o) == run'[o] = run[o] \/ run'[o] = [run[o] EXCEPT !.stale = TRUE] \/ run'[o] = Idle
GoesOn(r, s) == /\ RowOK(s)
                /\ s.out # None => s.out = r.out
                /\ s.at \in Holding =>
                       /\ r.at \in Holding \ {"again"} /\ s.at # "again" /\ s.out = r.out
                       /\ s.url = r.url /\ s.file = r.file /\ s.ver = r.ver /\ s.from = r.from

LEMMA Quiet ==
    ASSUME Inv, NEW p \in Procs, DOMAIN run' = Procs, GoesOn(run[p], run'[p]),
           \A o \in Procs \ {p} : Bystander(o),
           disk' = disk, serves' \in [Urls -> Versions], records' \in Seq(Record),
           mishaps \subseteq mishaps'
    PROVE  Inv'
<1>1. \A o \in Procs : RowOK(run[o]) BY DEF Inv, Shape
<1>2. ASSUME NEW o \in Procs \ {p}
      PROVE  /\ RowOK(run'[o])
             /\ run'[o].out # None => run'[o].out = run[o].out
             /\ run'[o].at \in Holding => Carries(o)
  <2>1. CASE run'[o] = Idle BY <2>1, IdleRow DEF Holding
  <2>2. CASE run'[o] = run[o] BY <1>1, <2>2 DEF Carries
  <2>3. CASE run'[o] = [run[o] EXCEPT !.stale = TRUE] BY <1>1, <2>3, StaleRow DEF Carries
  <2> QED BY <2>1, <2>2, <2>3 DEF Bystander
<1>3. run'[p].at \in Holding => Carries(p) BY DEF GoesOn, Carries
<1>4. Shape'
  <2>1. \A o \in Procs : RowOK(run'[o]) BY <1>2 DEF GoesOn
  <2> QED BY <2>1 DEF Shape, Inv, RowOK
<1>5. Handles' BY <1>2 DEF Handles, Inv, GoesOn
<1>6. Unmixed' => \A f \in Files : IsWhole(disk'[Dest(f)])
  BY DEF Inv, Exact, Clear, Undisturbed, Unmixed, Unlost
<1> QED BY <1>2, <1>3, <1>4, <1>5, <1>6, Kept

LEMMA StartKept == ASSUME Inv, NEW p \in Procs, NEW job \in Jobs, NEW resume \in BOOLEAN,
                          Start(p, job[1], job[2], resume) PROVE Inv'
<1>1. job[1] \in Urls /\ job[2] \in Files BY JobsAssumption
<1>2. GoesOn(run[p], run'[p])
  BY <1>1 DEF Start, Goes, GoesOn, RowOK, Idle, Fields, Holding, Inv, Shape
<1>3. run' = [run EXCEPT ![p] = run'[p]] BY DEF Start, Goes, Inv, Shape
<1> QED BY <1>2, <1>3, Quiet DEF Start, Bystander, Inv, Shape

LEMMA ToIdle == \A r : GoesOn(r, Idle) BY IdleRow DEF GoesOn, Holding

LEMMA IdleKept == ASSUME Inv, NEW p \in Procs, Refused(p) \/ PartGone(p) \/ AgainFails(p) \/ Kill(p)
                  PROVE  Inv'
<1>1. /\ run' = [run EXCEPT ![p] = Idle] /\ UNCHANGED <<records, disk, serves, mishaps>>
  BY DEF Refused, PartGone, AgainFails, Kill, Goes
<1>2. DOMAIN run' = Procs /\ run'[p] = Idle /\ \A o \in Procs \ {p} : run'[o] = run[o]
  BY <1>1 DEF Inv, Shape
<1> QED BY <1>1, <1>2, Quiet, ToIdle DEF Bystander, Inv, Shape

LEMMA EndsRow ==
    ASSUME NEW r, r.url \in Urls, r.file \in Files, NEW status \in Statuses
    PROVE  LET s == Ends(r, status) IN RowOK(s) /\ GoesOn(r, s) /\ s.at = "end" /\ s.out = None
BY DEF GoesOn, RowOK, Ends, Idle, Fields, Holding

LEMMA TransferFailsKept == ASSUME Inv, NEW p \in Procs, TransferFails(p) PROVE Inv'
<1>1. DOMAIN run' = Procs /\ run'[p] = Ends(run[p], "failed") /\ \A o \in Procs \ {p} : run'[o] = run[o]
  BY DEF TransferFails, Goes, Inv, Shape
<1>2. GoesOn(run[p], run'[p])
  BY <1>1, EndsRow DEF TransferFails, Inv, Shape, RowOK, Holding, Statuses
<1> QED BY <1>1, <1>2, Quiet DEF TransferFails, Bystander, Inv, Shape

LEMMA ListKept == ASSUME Inv, NEW p \in Procs, NEW i \in DOMAIN records, StopList(p, i) PROVE Inv'
<1>1. GoesOn(run[p], run'[p])
  BY DEF StopList, Goes, GoesOn, RowOK, Idle, Fields, Holding, Inv, Shape
<1>2. DOMAIN run' = Procs /\ \A o \in Procs \ {p} : run'[o] = run[o] BY DEF StopList, Goes, Inv, Shape
<1> QED BY <1>1, <1>2, Quiet DEF StopList, Bystander, Inv, Shape

LEMMA LoadedLists == ASSUME Inv, NEW list \in Loaded PROVE list \in Seq(Record)
<1>1. records \in Seq(Record) /\ <<>> \in Seq(Record) BY DEF Inv, Shape
<1> QED BY <1>1 DEF Loaded

LEMMA ClaimKept == ASSUME Inv, NEW p \in Procs, NEW list \in Loaded, Claim(p, list) PROVE Inv'
<1> DEFINE c == Updated(list, run[p].url, run[p].file, "downloading", p)
<1>1. RowOK(run[p]) BY DEF Inv, Shape
<1>2. c \in Seq(Record)
  BY <1>1, LoadedLists, UpdatedIsList DEF Claim, RowOK, Holding, Statuses
<1>3. DOMAIN run' = Procs /\ (\A o \in Procs \ {p} : run'[o] = run[o])
      /\ run'[p] = [run[p] EXCEPT !.at = "claiming", !.copy = c]
  BY DEF Claim, Goes, Inv, Shape
<1> HIDE DEF c
<1>4. GoesOn(run[p], run'[p]) BY <1>1, <1>2, <1>3 DEF Claim, GoesOn, RowOK, Fields, Holding
<1> QED BY <1>3, <1>4, Quiet DEF Claim, Bystander, Inv, Shape

LEMMA EndKept == ASSUME Inv, NEW p \in Procs, NEW list \in Loaded, End(p, list) PROVE Inv'
<1> DEFINE c == Updated(list, run[p].url, run[p].file, run[p].say, None)
<1>1. RowOK(run[p]) BY DEF Inv, Shape
<1>2. c \in Seq(Record) BY <1>1, LoadedLists, UpdatedIsList DEF End, RowOK
<1>3. DOMAIN run' = Procs /\ (\A o \in Procs \ {p} : run'[o] = run[o])
      /\ run'[p] = [run[p] EXCEPT !.at = "ending", !.copy = c]
  BY DEF End, Goes, Inv, Shape
<1> HIDE DEF c
<1>4. GoesOn(run[p], run'[p]) BY <1>1, <1>2, <1>3 DEF GoesOn, RowOK, Fields, Holding
<1>5. mishaps \subseteq mishaps' BY DEF End
<1> QED BY <1>3, <1>4, <1>5, Quiet DEF End, Bystander, Inv, Shape

LEMMA SaveKept == ASSUME Inv, NEW p \in Procs, Save(p) \/ SaveFails(p) PROVE Inv'
<1>0. RowOK(run[p]) BY DEF Inv, Shape
<1>1. run[p].at = "claiming" =>
        GoesOn(run[p], [run[p] EXCEPT !.at = "reading", !.copy = <<>>, !.stale = FALSE])
  BY <1>0 DEF GoesOn, RowOK, Fields, Holding
<1>2. GoesOn(run[p], run'[p]) BY <1>1, ToIdle DEF Save, SaveFails, Saves, AfterSave
<1>3. DOMAIN run' = Procs /\ \A o \in Procs \ {p} : Bystander(o)
  BY DEF Save, SaveFails, Saves, Bystander
<1>4. mishaps \subseteq mishaps' BY DEF Save, SaveFails
<1>5. records' \in Seq(Record)
  <2>1. CASE Save(p) BY <1>0, <2>1 DEF Save, RowOK
  <2>2. CASE SaveFails(p) BY <2>2, LoadedLists DEF SaveFails
  <2> QED BY <2>1, <2>2
<1> QED BY <1>2, <1>3, <1>4, <1>5, Quiet DEF Save, SaveFails, Inv, Shape

LEMMA KillInSaveKept == ASSUME Inv, NEW p \in Procs, KillInSave(p) PROVE Inv'
<1>1. GoesOn(run[p], run'[p]) BY ToIdle DEF KillInSave, Saves
<1>2. DOMAIN run' = Procs /\ \A o \in Procs \ {p} : Bystander(o) BY DEF KillInSave, Saves, Bystander
<1>3. records' \in Seq(Record) BY DEF KillInSave
<1> QED BY <1>1, <1>2, <1>3, Quiet DEF KillInSave, Inv, Shape

LEMMA StopPickKept ==
    ASSUME Inv, NEW p \in Procs, NEW ended, NEW list \in Loaded, StopPick(p, ended, list) PROVE Inv'
<1> DEFINE c == Marked(list, run[p].from)
<1>1. RowOK(run[p]) /\ c \in Seq(Record) BY LoadedLists, MarkedIsList DEF Inv, Shape
<1>2. DOMAIN run' = Procs /\ (\A o \in Procs \ {p} : Bystander(o))
      /\ run'[p] = [run[p] EXCEPT !.at = "listing", !.copy = c]
  BY DEF StopPick, Bystander
<1> HIDE DEF c
<1>3. GoesOn(run[p], run'[p]) BY <1>1, <1>2 DEF GoesOn, RowOK, Fields, Holding
<1> QED BY <1>2, <1>3, Quiet DEF StopPick, Inv, Shape

LEMMA PublishKept == ASSUME Inv, NEW u \in Urls, Publish(u) PROVE Inv'
<1>1. Shape'
  <2>1. serves' \in [Urls -> Versions] BY BoundsAssumption DEF Publish, Inv, Shape, Versions
  <2> QED BY <2>1 DEF Publish, Inv, Shape
<1>2. Handles' BY DEF Publish, Inv, Handles
<1>3. \A o \in Procs : run'[o].at \in Holding => Carries(o) BY DEF Publish, Carries
<1>4. Unmixed' => \A f \in Files : IsWhole(disk'[Dest(f)])
  BY DEF Publish, Inv, Exact, Clear, Undisturbed, Unmixed, Unlost
<1> QED BY <1>1, <1>2, <1>3, <1>4, Kept DEF Publish

-------------------------------------------------------------------------------
(* The steps on files                                                       *)

LEMMA ReceiveKept == ASSUME Inv, NEW p \in Procs, Receive(p) PROVE Inv'
<1> DEFINE r == run[p]
<1>0. RowOK(r) /\ DOMAIN run = Procs /\ r.at = "reading" BY DEF Inv, Shape, Receive
<1>1. r.url \in Urls /\ r.file \in Files /\ r.ver \in Versions /\ r.from \in Nat /\ r.from < Blocks
      /\ p \in Holders
  BY <1>0 DEF RowOK, Holding, Holders, Receive
<1>2. run' = [run EXCEPT ![p] = [r EXCEPT !.from = @ + 1]] /\ UNCHANGED <<records, serves, mishaps>>
  BY DEF Receive, Goes
<1>3. (\A o \in Procs \ {p} : run'[o] = run[o]) /\ DOMAIN run' = Procs
      /\ RowOK(run'[p]) /\ run'[p].at = "reading" /\ run'[p].url = r.url /\ run'[p].file = r.file
      /\ run'[p].ver = r.ver /\ run'[p].from = r.from + 1 /\ run'[p].out = r.out
  BY <1>0, <1>1, <1>2 DEF RowOK, Fields
<1>4. CASE r.out = None
  <2>1. disk' = disk BY <1>4 DEF Receive
  <2>2. ~Undisturbed
    <3> SUFFICES ASSUME Undisturbed PROVE FALSE OBVIOUS
    <3>1. Own(p) BY <1>0, <1>1 DEF Inv, Alone
    <3> QED BY <1>1, <1>4, <3>1, Placing DEF Own
  <2>3. ~Undisturbed' /\ ~Unmixed'
    BY <1>2, <2>2 DEF Clear, Undisturbed, Unmixed, Unlost
  <2>4. Shape' BY <1>2, <1>3, <2>1 DEF Inv, Shape
  <2>5. Handles' BY <1>3, <2>1 DEF Inv, Handles
  <2> QED BY <2>3, <2>4, <2>5 DEF Inv, Alone, Exact
<1>5. CASE r.out # None
  <2>1. disk[r.out] \in Text /\ r.out \in Spots BY <1>0, <1>5 DEF Inv, Handles, RowOK
  <2>2. disk' = [disk EXCEPT ![r.out] = Written(disk[r.out], r)] BY <1>5 DEF Receive
  <2>3. disk'[r.out] \in Text BY <1>1, <2>1, <2>2, WrittenIsText DEF Inv, Shape
  <2>4. Shape'
    <3>1. disk' \in [Spots -> Text \cup {Absent}] BY <2>2, <2>3 DEF Inv, Shape
    <3> QED BY <1>2, <1>3, <3>1 DEF Inv, Shape
  <2>5. Handles'
    <3> SUFFICES ASSUME NEW o \in Procs, run'[o].out # None PROVE disk'[run'[o].out] \in Text
      BY DEF Handles
    <3>1. run'[o].out = run[o].out /\ disk[run[o].out] \in Text BY <1>3 DEF Inv, Handles
    <3> QED BY <2>2, <2>3, <3>1 DEF Inv, Shape
  <2>6. Holders' = Holders /\ \A o \in Holders : run'[o].file = run[o].file /\ run'[o].out = run[o].out
                                               /\ run'[o].at = run[o].at
    BY <1>0, <1>3 DEF Holders
  <2>7. Alone' BY <1>2, <2>6 DEF Inv, Alone, Clear, Undisturbed, Unmixed, Unlost, Apart, Own
  <2>8. Exact'
    <3> SUFFICES ASSUME Unmixed
                 PROVE  (\A o \in Holders' : Staged(o)') /\ \A f \in Files : IsWhole(disk'[Dest(f)])
      BY <1>2 DEF Exact, Clear, Undisturbed, Unmixed, Unlost
    <3>1. Apart /\ Own(p) /\ Undisturbed BY <1>0, <1>1 DEF Inv, Alone, Clear, Undisturbed, Unmixed, Unlost
    <3>2. (\A o \in Holders : Staged(o)) /\ \A f \in Files : IsWhole(disk[Dest(f)]) BY DEF Inv, Exact
    <3>3. \A f \in Files : IsWhole(disk'[Dest(f)])
      BY <1>1, <2>2, <3>1, <3>2, Placing DEF Own, Apart, Inv, Shape
    <3>4. Staged(p)'
      <4>1. r.from \in 0..(Blocks - 1) BY <1>1, BlocksAssumption
      <4>2. disk[r.out] = Prefix(r.url, r.ver, r.from) BY <1>1, <3>1, <3>2 DEF Staged, Own
      <4>3. disk'[Part(r.file)] = Prefix(r.url, r.ver, r.from + 1)
        BY <1>1, <2>1, <2>2, <3>1, <4>1, <4>2, WrittenContinues DEF Own, Inv, Shape
      <4>4. r.from + 1 \in 0..Blocks BY <4>1, BlocksAssumption
      <4> QED BY <1>3, <4>3, <4>4 DEF Staged
    <3>5. ASSUME NEW o \in Holders', o # p PROVE Staged(o)'
      <4>1. o \in Holders /\ run'[o] = run[o] /\ o \in Procs /\ RowOK(run[o]) BY <1>3, <2>6, <3>5 DEF Holders, Inv, Shape
      <4>2. run[o].file \in Files BY <4>1 DEF Holders, RowOK
      <4>3. Part(run[o].file) # Part(r.file) BY <1>1, <3>1, <3>5, <4>1 DEF Apart
      <4>4. disk'[Part(run[o].file)] = disk[Part(run[o].file)]
        BY <2>2, <3>1, <4>2, <4>3, Placing DEF Own, Inv, Shape
      <4> QED BY <3>2, <4>1, <4>4 DEF Staged
    <3> QED BY <3>3, <3>4, <3>5
  <2> QED BY <2>4, <2>5, <2>7, <2>8 DEF Inv
<1> QED BY <1>4, <1>5

(* A staging file is opened, to be continued or to start again.               *)
LEMMA OpenedKept ==
    ASSUME Inv, NEW p \in Procs, AnsweredRest(p) \/ AnsweredWhole(p)
    PROVE  Inv'
<1> DEFINE r == run[p]  f == r.file  s == run'[p]
<1>0. RowOK(r) /\ DOMAIN run = Procs /\ r.at = "asking" /\ r.url \in Urls /\ f \in Files
  BY DEF Inv, Shape, RowOK, AnsweredRest, AnsweredWhole, Opened
<1>1. PICK start \in 0..Blocks :
        /\ Opened(p, start)
        /\ \/ start > 0 /\ disk[Part(f)] # Absent /\ disk' = disk
           \/ start = 0 /\ disk' = [disk EXCEPT ![Part(f)] = <<>>]
  BY BlocksAssumption DEF AnsweredRest, AnsweredWhole, Truncates
<1>2. /\ run' = [run EXCEPT ![p] = [r EXCEPT !.at = "claim", !.out = Part(f), !.from = start,
                                           !.append = start > 0, !.ver = serves[r.url]]]
      /\ mishaps' = mishaps \cup Slips(p, start) /\ UNCHANGED <<records, serves>>
  BY <1>1 DEF Opened, Goes
<1>3. (\A o \in Procs \ {p} : run'[o] = run[o]) /\ DOMAIN run' = Procs
      /\ s.at = "claim" /\ s.url = r.url /\ s.file = f /\ s.ver = serves[r.url] /\ s.from = start
      /\ s.out = Part(f) /\ s.copy = r.copy /\ DOMAIN s = Fields
  BY <1>0, <1>2 DEF RowOK, Fields
<1>4. serves[r.url] \in Versions /\ Part(f) \in Spots BY <1>0, Placing DEF Inv, Shape
<1>5. RowOK(s) BY <1>0, <1>3, <1>4 DEF RowOK, Holding
<1>6. disk'[Part(f)] \in Text /\ disk' \in [Spots -> Text \cup {Absent}]
      /\ \A x \in Spots : x # Part(f) => disk'[x] = disk[x]
  BY <1>1, <1>4, EmptyText DEF Inv, Shape
<1>7. Shape' BY <1>2, <1>3, <1>5, <1>6 DEF Inv, Shape
<1>8. Handles'
  <2> SUFFICES ASSUME NEW o \in Procs, run'[o].out # None PROVE disk'[run'[o].out] \in Text
    BY DEF Handles
  <2>1. CASE run'[o].out = Part(f) BY <2>1, <1>6
  <2>2. CASE run'[o].out # Part(f)
    <3>1. o # p /\ run'[o] = run[o] /\ run[o].out \in Spots BY <1>3, <2>2 DEF Inv, Shape, RowOK
    <3> QED BY <1>6, <2>2, <3>1 DEF Inv, Handles
  <2> QED BY <2>1, <2>2
<1>9. p \notin Holders /\ Holders' = Holders \cup {p} BY <1>0, <1>3 DEF Holders, Holding
<1>10. Undisturbed' => /\ Part(f) \notin Files
                       /\ \A o \in Holders : Part(run[o].file) # Part(f)
  <2> SUFFICES ASSUME Undisturbed'
               PROVE  Part(f) \notin Files /\ \A o \in Holders : Part(run[o].file) # Part(f)
    OBVIOUS
  <2>1. OthersOn(p, f) = {} /\ Takes(f) = {} BY <1>2 DEF Slips, Takes, Clear, Undisturbed
  <2> QED BY <1>9, <2>1 DEF OthersOn, Takes, Holders
<1>11. Alone'
  <2> SUFFICES ASSUME Undisturbed'
               PROVE  Apart' /\ \A o \in Holders' : run'[o].at # "again" => Own(o)'
    BY DEF Alone
  <2>1. Undisturbed BY <1>2 DEF Clear, Undisturbed, Unmixed, Unlost
  <2>2. Apart /\ \A o \in Holders : run[o].at # "again" => Own(o) BY <2>1 DEF Inv, Alone
  <2>3. \A o \in Holders : o # p /\ run'[o] = run[o] BY <1>3, <1>9 DEF Holders
  <2>4. Apart' BY <1>3, <1>9, <1>10, <2>2, <2>3 DEF Apart
  <2> QED BY <1>3, <1>9, <2>2, <2>3, <2>4 DEF Own
<1>12. Exact'
  <2> SUFFICES ASSUME Unmixed'
               PROVE  (\A o \in Holders' : Staged(o)') /\ \A g \in Files : IsWhole(disk'[Dest(g)])
    BY DEF Exact
  <2>1. Unmixed /\ Undisturbed' BY <1>2 DEF Clear, Undisturbed, Unmixed, Unlost
  <2>2. (\A o \in Holders : Staged(o)) /\ \A g \in Files : IsWhole(disk[Dest(g)]) BY <2>1 DEF Inv, Exact
  <2>3. \A g \in Files : IsWhole(disk'[Dest(g)]) BY <1>6, <1>10, <2>1, <2>2, Placing
  <2>4. disk'[Part(f)] = Prefix(r.url, serves[r.url], start)
    <3>1. CASE start > 0
      <4>1. disk[Part(f)] = Prefix(r.url, serves[r.url], start)
        BY <1>2, <3>1 DEF Slips, Clear, Undisturbed, Unmixed, Unlost
      <4> QED BY <1>1, <3>1, <4>1
    <3>2. CASE start = 0
      <4>1. Prefix(r.url, serves[r.url], 0) = <<>> BY DEF Prefix
      <4> QED BY <1>1, <1>4, <3>2, <4>1 DEF Inv, Shape
    <3> QED BY <3>1, <3>2
  <2>5. Staged(p)' BY <1>3, <2>4 DEF Staged
  <2>6. ASSUME NEW o \in Holders PROVE Staged(o)'
    <3>1. run'[o] = run[o] /\ run[o].file \in Files BY <1>3, <1>9 DEF Holders, Inv, Shape, RowOK
    <3>2. disk'[Part(run[o].file)] = disk[Part(run[o].file)]
      BY <1>0, <1>6, <1>10, <2>1, <3>1, Placing
    <3> QED BY <2>2, <3>1, <3>2 DEF Staged
  <2> QED BY <1>9, <2>3, <2>5, <2>6
<1> QED BY <1>7, <1>8, <1>11, <1>12 DEF Inv

(* A file goes: its readers are left with no name for it.                      *)
LEMMA UnlinksKept ==
    ASSUME Inv, NEW x \in Spots, NEW p \in Procs, NEW s, Unlinks(x, p, s), s.out = None,
           s.at \in Holding => /\ s.at = "again" /\ run[p].at \in Holding /\ (Unmixed' => run[p].from = Blocks)
                               /\ s.url = run[p].url /\ s.file = run[p].file
                               /\ s.ver = run[p].ver /\ s.from = run[p].from,
           RowOK(s), UNCHANGED <<records, serves>>, mishaps \subseteq mishaps',
           Undisturbed' => \A o \in Holders : x # Part(run[o].file)
    PROVE  Inv'
<1>0. DOMAIN run = Procs /\ \A o \in Procs : RowOK(run[o]) BY DEF Inv, Shape
<1>1. run'[p] = s /\ DOMAIN run' = Procs /\ disk' = [disk EXCEPT ![x] = Absent] BY DEF Unlinks
<1>2. ASSUME NEW o \in Procs, o # p
      PROVE  /\ RowOK(run'[o]) /\ run'[o].at = run[o].at /\ run'[o].url = run[o].url
             /\ run'[o].file = run[o].file /\ run'[o].ver = run[o].ver /\ run'[o].from = run[o].from
             /\ run'[o].out = IF run[o].out = x THEN None ELSE run[o].out
  <2>1. CASE run[o].out = x
    <3>1. run'[o] = [run[o] EXCEPT !.out = None] BY <1>2, <2>1 DEF Unlinks
    <3> QED BY <1>0, <2>1, <3>1, MovedRow
  <2>2. CASE run[o].out # x
    <3>1. run'[o] = run[o] BY <1>2, <2>2 DEF Unlinks
    <3> QED BY <1>0, <2>2, <3>1
  <2> QED BY <2>1, <2>2
<1>3. disk' \in [Spots -> Text \cup {Absent}] /\ \A y \in Spots : y # x => disk'[y] = disk[y]
      /\ disk'[x] = Absent
  BY <1>1 DEF Inv, Shape
<1>4. Shape' BY <1>1, <1>2, <1>3 DEF Inv, Shape
<1>5. Handles'
  <2> SUFFICES ASSUME NEW o \in Procs, run'[o].out # None PROVE disk'[run'[o].out] \in Text
    BY DEF Handles
  <2>1. o # p BY <1>1
  <2>2. run'[o].out = run[o].out /\ run[o].out # x /\ run[o].out \in Spots
    BY <1>0, <1>2, <2>1 DEF RowOK
  <2> QED BY <1>3, <2>2 DEF Inv, Handles
<1>6. ASSUME NEW o \in Procs, run'[o].at \in Holding PROVE Carries(o)
  <2>1. CASE o = p
    <3>1. Undisturbed' => disk'[Part(run[p].file)] = disk[Part(run[p].file)]
      BY <1>1, <1>3, <1>6, <2>1, <1>0, Placing DEF Holders, RowOK
    <3> QED BY <1>1, <1>6, <2>1, <3>1 DEF Carries
  <2>2. CASE o # p
    <3>1. o \in Holders /\ run[o].file \in Files BY <1>0, <1>2, <1>6, <2>2 DEF Holders, RowOK
    <3>2. ASSUME Undisturbed'
          PROVE  /\ run'[o].at # "again" => run'[o].out = run[o].out
                 /\ disk'[Part(run[o].file)] = disk[Part(run[o].file)]
      <4>1. x # Part(run[o].file) /\ Undisturbed BY <3>1, <3>2 DEF Clear, Undisturbed, Unmixed, Unlost
      <4>2. run[o].at # "again" => run[o].out = Part(run[o].file) BY <3>1, <4>1 DEF Inv, Alone, Own
      <4> QED BY <1>2, <1>3, <2>2, <3>1, <4>1, <4>2, Placing
    <3> QED BY <1>2, <1>6, <2>2, <3>1, <3>2 DEF Carries, Holders
  <2> QED BY <2>1, <2>2
<1>7. Unmixed' => \A f \in Files : IsWhole(disk'[Dest(f)])
  <2> SUFFICES ASSUME Unmixed', NEW f \in Files PROVE IsWhole(disk'[Dest(f)])
    OBVIOUS
  <2>1. IsWhole(disk[Dest(f)]) BY DEF Inv, Exact, Clear, Undisturbed, Unmixed, Unlost
  <2>2. IsWhole(Absent) BY DEF IsWhole
  <2>3. CASE Dest(f) = x
    <3>1. disk'[Dest(f)] = Absent BY <1>1, <2>3 DEF Inv, Shape, Dest
    <3> QED BY <2>2, <3>1
  <2>4. CASE Dest(f) # x
    <3>1. disk'[Dest(f)] = disk[Dest(f)] BY <1>3, <2>4, Placing
    <3> QED BY <2>1, <3>1
  <2> QED BY <2>3, <2>4
<1> QED BY <1>4, <1>5, <1>6, <1>7, Kept

(* The staging file gets its name: all of it is there.                        *)
LEMMA MovesKept ==
    ASSUME Inv, NEW p \in Procs, Moves(p, Ends(run[p], "completed")), PartThere(p),
           run[p].at \in Holding, Unmixed' => run[p].from = Blocks \/ run[p].at = "again",
           UNCHANGED <<records, serves>>, mishaps \subseteq mishaps'
    PROVE  Inv'
<1> DEFINE f == run[p].file  from == Part(f)  to == Dest(f)  s == Ends(run[p], "completed")
<1>0. DOMAIN run = Procs /\ \A o \in Procs : RowOK(run[o]) BY DEF Inv, Shape
<1>1. f \in Files /\ from \in Spots /\ to \in Spots /\ p \in Holders
  BY <1>0, Placing DEF RowOK, Holders
<1>2. RowOK(s) /\ GoesOn(run[p], s) /\ s.at = "end" /\ s.out = None BY <1>0, EndsRow DEF RowOK, Statuses
<1>3. CASE from = to
  <2>1. DOMAIN run' = Procs /\ run'[p] = s /\ disk' = disk /\ \A o \in Procs \ {p} : run'[o] = run[o]
    BY <1>0, <1>3 DEF Moves, Goes
  <2> QED BY <1>2, <2>1, Quiet DEF Bystander, Inv, Shape
<1>4. CASE from # to
  <2>1. run'[p] = s /\ DOMAIN run' = Procs /\ disk' = [disk EXCEPT ![to] = disk[from], ![from] = Absent]
    BY <1>4 DEF Moves
  <2>2. ASSUME NEW o \in Procs, o # p
        PROVE  /\ RowOK(run'[o]) /\ run'[o].at = run[o].at /\ run'[o].url = run[o].url
               /\ run'[o].file = run[o].file /\ run'[o].ver = run[o].ver /\ run'[o].from = run[o].from
               /\ run'[o].out = IF run[o].out = from THEN to
                                ELSE IF run[o].out = to THEN None ELSE run[o].out
    <3>1. run'[o] = Follow(o, from, to) BY <1>4, <2>2 DEF Moves
    <3> QED BY <1>0, <1>1, <3>1, MovedRow DEF Follow
  <2>3. disk[from] \in Text BY <1>1 DEF PartThere, Inv, Shape
  <2>4. /\ disk' \in [Spots -> Text \cup {Absent}] /\ disk'[to] = disk[from] /\ disk'[from] = Absent
        /\ \A y \in Spots : y # from /\ y # to => disk'[y] = disk[y]
    BY <1>1, <1>4, <2>1 DEF Inv, Shape
  <2>5. Shape' BY <1>2, <2>1, <2>2, <2>4 DEF Inv, Shape
  <2>6. Handles'
    <3> SUFFICES ASSUME NEW o \in Procs, run'[o].out # None PROVE disk'[run'[o].out] \in Text
      BY DEF Handles
    <3>1. o # p BY <1>2, <2>1
    <3>2. CASE run[o].out = from BY <2>2, <2>3, <2>4, <3>1, <3>2
    <3>3. CASE run[o].out # from
      <4>1. run'[o].out = run[o].out /\ run[o].out # to BY <2>2, <3>1, <3>3
      <4> QED BY <1>0, <2>4, <3>3, <4>1 DEF Inv, Handles, RowOK
    <3> QED BY <3>2, <3>3
  <2>7. ASSUME NEW o \in Procs, run'[o].at \in Holding PROVE Carries(o)
    <3>1. o # p BY <1>2, <2>1, <2>7 DEF Holding
    <3>2. o \in Holders /\ run[o].file \in Files BY <1>0, <2>2, <2>7, <3>1 DEF Holders, RowOK
    <3>3. ASSUME Undisturbed'
          PROVE  /\ run'[o].at # "again" => run'[o].out = run[o].out
                 /\ disk'[Part(run[o].file)] = disk[Part(run[o].file)]
      <4>1. Undisturbed BY <3>3 DEF Clear, Undisturbed
      <4>2. /\ Part(run[o].file) # from /\ Part(run[o].file) \notin Files
            /\ run[o].at # "again" => run[o].out = Part(run[o].file)
        BY <1>1, <3>1, <3>2, <4>1 DEF Inv, Alone, Own, Apart
      <4>3. Part(run[o].file) # to /\ Part(run[o].file) \in Spots BY <1>1, <3>2, <4>2, Placing
      <4> QED BY <2>2, <2>4, <3>1, <4>2, <4>3
    <3> QED BY <2>2, <2>7, <3>1, <3>2, <3>3 DEF Carries, Holders
  <2>8. ASSUME Unmixed', NEW g \in Files PROVE IsWhole(disk'[Dest(g)])
    <3>1. Unmixed /\ Undisturbed BY <2>8 DEF Clear, Unmixed, Undisturbed
    <3>2. Staged(p) /\ IsWhole(disk[Dest(g)]) /\ from \notin Files
      BY <1>1, <3>1 DEF Inv, Exact, Alone, Apart
    <3>3. CASE g = f
      <4>1. run[p].url \in Urls /\ run[p].ver \in Versions BY <1>0 DEF RowOK
      <4>2. disk[from] = Whole(run[p].url, run[p].ver) BY <2>8, <3>2 DEF Staged, Whole
      <4> QED BY <2>4, <3>3, <4>1, <4>2 DEF IsWhole
    <3>4. CASE g # f
      <4>1. Dest(g) # from /\ Dest(g) # to /\ Dest(g) \in Spots BY <1>1, <3>2, <3>4, Placing
      <4> QED BY <2>4, <3>2, <4>1
    <3> QED BY <3>3, <3>4
  <2> QED BY <2>5, <2>6, <2>7, <2>8, Kept
<1> QED BY <1>3, <1>4

LEMMA FinalizeKept == ASSUME Inv, NEW p \in Procs, Finalize(p) \/ Again(p) PROVE Inv'
<1>1. PartThere(p) /\ Moves(p, Ends(run[p], "completed")) /\ UNCHANGED <<records, serves>>
      /\ run[p].at \in Holding /\ mishaps \subseteq mishaps'
  BY DEF Finalize, Again, Received, Holding
<1>2. Unmixed' => run[p].from = Blocks \/ run[p].at = "again"
  <2>1. CASE Finalize(p)
    <3>1. run[p].from \in Nat /\ (Unmixed' => Short(p) = {} /\ Unmixed)
      BY <2>1 DEF Finalize, Received, Holding, Short, Clear, Unmixed, Inv, Shape, RowOK
    <3>2. Unmixed => run[p].from \in 0..Blocks
      BY <1>1 DEF Inv, Exact, Staged, Holders
    <3> QED BY <3>1, <3>2, BlocksAssumption DEF Short
  <2>2. CASE Again(p) BY <2>2 DEF Again
  <2> QED BY <2>1, <2>2
<1> QED BY <1>1, <1>2, MovesKept

LEMMA FinalizeFailsKept == ASSUME Inv, NEW p \in Procs, FinalizeFails(p) PROVE Inv'
<1> DEFINE r == run[p]  s == [r EXCEPT !.at = "again", !.out = None]
<1>1. RowOK(r) /\ DOMAIN run = Procs /\ r.at = "reading" BY DEF FinalizeFails, Received, Inv, Shape
<1>2. RowOK(s) /\ s.at = "again" /\ s.out = None /\ s.url = r.url /\ s.file = r.file
      /\ s.ver = r.ver /\ s.from = r.from /\ r.file \in Files /\ r.from \in Nat
  BY <1>1 DEF RowOK, Fields, Holding
<1>3. UNCHANGED <<records, serves>> /\ mishaps \subseteq mishaps' /\ p \in Holders
      /\ (Unmixed' => Short(p) = {} /\ Unmixed)
  BY <1>1 DEF FinalizeFails, Clear, Unmixed, Holders, Holding, Short
<1>4. Unmixed' => r.from = Blocks
  <2>1. Unmixed => r.from \in 0..Blocks BY <1>3 DEF Inv, Exact, Staged
  <2> QED BY <1>2, <1>3, <2>1, BlocksAssumption DEF Short
<1>5. Cleans(Dest(r.file), p, s) BY DEF FinalizeFails
<1>6. Dest(r.file) \in Spots /\ r.at \in Holding BY <1>1, <1>2, Placing DEF Holding
<1> HIDE DEF s
<1>7. CASE Unlinks(Dest(r.file), p, s)
  <2>1. Undisturbed' => \A o \in Holders : Dest(r.file) # Part(run[o].file)
    <3>1. Undisturbed' => Apart BY <1>3 DEF Inv, Alone, Clear, Undisturbed
    <3> QED BY <1>2, <3>1, Placing DEF Apart
  <2> QED BY <1>2, <1>3, <1>4, <1>6, <1>7, <2>1, UnlinksKept
<1>8. CASE Goes(p, s) /\ UNCHANGED disk
  <2>1. DOMAIN run' = Procs /\ run'[p] = s /\ \A o \in Procs \ {p} : run'[o] = run[o]
    BY <1>1, <1>8 DEF Goes
  <2>2. Shape' BY <1>2, <1>3, <1>8, <2>1 DEF Inv, Shape
  <2>3. Handles' BY <1>2, <1>8, <2>1 DEF Inv, Handles
  <2>4. \A o \in Procs : run'[o].at \in Holding => Carries(o)
    BY <1>2, <1>4, <1>6, <1>8, <2>1 DEF Carries
  <2>5. Unmixed' => \A f \in Files : IsWhole(disk'[Dest(f)])
    BY <1>3, <1>8 DEF Inv, Exact
  <2> QED BY <1>3, <2>2, <2>3, <2>4, <2>5, Kept
<1> QED BY <1>5, <1>7, <1>8 DEF Cleans

LEMMA CancelKept == ASSUME Inv, NEW q \in Procs, NEW i \in DOMAIN records, Cancel(q, i) PROVE Inv'
<1> DEFINE f == records[i].file  s == [Idle EXCEPT !.at = "listing", !.copy = Removed(records, i)]
<1>0. f \in Files /\ Removed(records, i) \in Seq(Record)
  <2>1. records \in Seq(Record) /\ records[i] \in Record BY DEF Inv, Shape
  <2> QED BY <2>1, RemovedIsList DEF Record
<1>1. RowOK(s) /\ s.at = "listing" /\ s.out = None
  BY <1>0 DEF Idle, RowOK, Fields, Holding
<1>2. Cleans(Part(f), q, s) /\ UNCHANGED <<records, serves>> /\ mishaps \subseteq mishaps' /\ run[q].at = "idle"
      /\ (OthersOn(q, f) = {} \/ "removed" \in mishaps')
  BY DEF Cancel
<1>3. Undisturbed' => \A o \in Holders : Part(f) # Part(run[o].file)
  <2> SUFFICES ASSUME Undisturbed', NEW o \in Holders PROVE Part(f) # Part(run[o].file)
    OBVIOUS
  <2>1. OthersOn(q, f) = {} BY <1>2 DEF Clear, Undisturbed, Unmixed, Unlost
  <2>2. o # q /\ run[o].file \in Files BY <1>2 DEF Holders, Holding, Inv, Shape, RowOK
  <2> QED BY <2>1, <2>2 DEF OthersOn, Holders
<1>4. Part(f) \in Spots /\ s.at \notin Holding BY <1>0, <1>1, Placing DEF Holding
<1> HIDE DEF s
<1>5. CASE Unlinks(Part(f), q, s) BY <1>1, <1>2, <1>3, <1>4, <1>5, UnlinksKept
<1>6. CASE Goes(q, s) /\ UNCHANGED disk
  <2>1. DOMAIN run' = Procs /\ run'[q] = s /\ \A o \in Procs \ {q} : run'[o] = run[o]
    BY <1>6 DEF Goes, Inv, Shape
  <2>2. GoesOn(run[q], s) BY <1>1, <1>4 DEF GoesOn
  <2> QED BY <1>2, <1>6, <2>1, <2>2, Quiet DEF Bystander, Inv, Shape
<1> QED BY <1>2, <1>5, <1>6 DEF Cleans

-------------------------------------------------------------------------------
(* The theorems                                                             *)

LEMMA InitInv == ASSUME Init PROVE Inv
<1>1. DOMAIN run = Procs /\ \A p \in Procs : run[p] = Idle BY DEF Init
<1>2. serves \in [Urls -> Versions] BY BoundsAssumption DEF Init, Versions
<1>3. DOMAIN disk = Spots /\ \A x \in Spots : disk[x] = Absent BY DEF Init, Spots
<1>4. disk \in [Spots -> Text \cup {Absent}] BY DEF Init, Spots
<1>5. Shape BY <1>1, <1>2, <1>4, IdleRow DEF Shape, Init
<1>6. Handles BY <1>1, IdleRow DEF Handles
<1>7. Holders = {} BY <1>1, IdleRow DEF Holders, Holding
<1>8. \A f \in Files : IsWhole(disk[Dest(f)]) BY <1>3, Placing DEF IsWhole
<1> QED BY <1>5, <1>6, <1>7, <1>8 DEF Inv, Alone, Apart, Exact

LEMMA NextInv == ASSUME Inv, [Next]_vars PROVE Inv'
<1>1. CASE UNCHANGED vars
  BY <1>1 DEF vars, Inv, Shape, Handles, Alone, Apart, Own, Holders, Exact, Staged, Clear, Undisturbed, Unmixed, Unlost
<1>2. ASSUME NEW p \in Procs, NEW job \in Jobs, NEW resume \in BOOLEAN, Start(p, job[1], job[2], resume)
      PROVE  Inv' BY <1>2, StartKept
<1>3. ASSUME NEW p \in Procs,
             \/ Refused(p) \/ AnsweredRest(p) \/ AnsweredWhole(p) \/ PartGone(p)
             \/ Save(p) \/ SaveFails(p) \/ Receive(p) \/ TransferFails(p)
             \/ Finalize(p) \/ FinalizeFails(p) \/ Again(p) \/ AgainFails(p)
             \/ Kill(p) \/ KillInSave(p)
      PROVE  Inv'
  BY <1>3, IdleKept, OpenedKept, SaveKept, ReceiveKept, TransferFailsKept,
     FinalizeKept, FinalizeFailsKept, KillInSaveKept
<1>4. ASSUME NEW p \in Procs, NEW i \in DOMAIN records, StopList(p, i) \/ Cancel(p, i) PROVE Inv'
  BY <1>4, ListKept, CancelKept
<1>5. ASSUME NEW u \in Urls, Publish(u) PROVE Inv' BY <1>5, PublishKept
<1>6. ASSUME NEW p \in Procs, NEW list \in Loaded, Claim(p, list) \/ End(p, list) PROVE Inv'
  BY <1>6, ClaimKept, EndKept
<1>7. ASSUME NEW p \in Procs, NEW ended \in {Victim(p), {}}, NEW list \in Loaded,
             StopPick(p, ended, list)
      PROVE  Inv' BY <1>7, StopPickKept
<1> QED BY <1>1, <1>2, <1>3, <1>4, <1>5, <1>6, <1>7 DEF Next

(* Inv is what every reachable state satisfies; the theorems follow from it.      *)
LEMMA SpecInv == Spec => []Inv
<1>1. Init => Inv BY InitInv
<1>2. Inv /\ [Next]_vars => Inv' BY NextInv
<1> QED BY <1>1, <1>2, PTL DEF Spec

LEMMA DestsStay ==
    ASSUME Inv, [Next]_vars
    PROVE  \A f \in Files : disk[Dest(f)] # Absent /\ disk'[Dest(f)] = Absent =>
               ~Unlost'
<1> SUFFICES ASSUME NEW f \in Files, disk[Dest(f)] # Absent, disk'[Dest(f)] = Absent
             PROVE  ~Unlost'
  OBVIOUS
<1>0. disk \in [Spots -> Text \cup {Absent}] /\ Dest(f) \in Spots /\ disk' # disk
  BY Placing DEF Inv, Shape
<1>1. ASSUME NEW p \in Procs, AnsweredWhole(p) PROVE FALSE
  <2>1. disk' = [disk EXCEPT ![Part(run[p].file)] = <<>>] BY <1>1 DEF AnsweredWhole, Truncates
  <2> QED BY <1>0, <2>1, EmptyText, AbsentIsNoText
<1>2. ASSUME NEW p \in Procs, Receive(p) PROVE FALSE
  <2> DEFINE r == run[p]
  <2>1. disk' = [disk EXCEPT ![r.out] = Written(disk[r.out], r)] /\ r.out # None
    BY <1>0, <1>2 DEF Receive
  <2>2. RowOK(r) /\ disk[r.out] \in Text /\ r.at = "reading" /\ r.from < Blocks
    BY <1>2, <2>1 DEF Inv, Shape, Handles, Receive
  <2>3. Written(disk[r.out], r) \in Text BY <2>2, WrittenIsText DEF RowOK, Holding
  <2> QED BY <1>0, <2>1, <2>3, AbsentIsNoText
<1>3. ASSUME NEW p \in Procs, Finalize(p) \/ Again(p) PROVE ~Unlost'
  <2> DEFINE from == Part(run[p].file)  to == Dest(run[p].file)
  <2>1. Moves(p, Ends(run[p], "completed")) /\ disk[from] # Absent /\ p \in Holders
        /\ mishaps \subseteq mishaps'
    BY <1>3 DEF Finalize, Again, Received, PartThere, Holders, Holding
  <2>2. run[p].file \in Files BY <2>1 DEF Inv, Shape, RowOK, Holders
  <2>3. disk' = [disk EXCEPT ![to] = disk[from], ![from] = Absent]
    BY <1>0, <2>1 DEF Moves
  <2>4. from = Dest(f) BY <1>0, <2>1, <2>2, <2>3, Placing DEF Inv, Shape
  <2>5. from \in Files BY <2>4 DEF Dest
  <2>6. ~Undisturbed BY <2>1, <2>5 DEF Inv, Alone, Apart
  <2> QED BY <2>1, <2>6 DEF Clear, Undisturbed, Unlost
<1>4. ASSUME NEW p \in Procs, FinalizeFails(p) PROVE ~Unlost'
  <2>1. CASE PartThere(p) BY <1>4, <2>1 DEF FinalizeFails, Clear, Unlost
  <2>2. CASE ~PartThere(p)
    <3>1. mishaps \subseteq mishaps' /\ run[p].at = "reading" /\ p \in Holders
      BY <1>4, <2>2 DEF FinalizeFails, Received, Holders, Holding
    <3>2. run[p].file \in Files BY <3>1 DEF Inv, Shape, RowOK, Holding
    <3>3. ASSUME Undisturbed PROVE FALSE
      <4>1. run[p].out = Part(run[p].file) BY <3>1, <3>3 DEF Inv, Alone, Own
      <4>2. disk[Part(run[p].file)] \in Text
        BY <3>1, <3>2, <4>1, Placing DEF Inv, Handles, Holders
      <4> QED BY <2>2, <4>2, AbsentIsNoText DEF PartThere
    <3> QED BY <3>1, <3>3 DEF Clear, Undisturbed, Unlost
  <2> QED BY <2>1, <2>2
<1>5. ASSUME NEW q \in Procs, NEW i \in DOMAIN records, Cancel(q, i) PROVE ~Unlost'
  <2>1. disk' = [disk EXCEPT ![Part(records[i].file)] = Absent] BY <1>0, <1>5 DEF Cancel, Cleans, Unlinks
  <2>2. Part(records[i].file) = Dest(f) BY <1>0, <2>1
  <2>3. "taken" \in Takes(records[i].file) BY <2>2 DEF Takes, Dest
  <2>4. "taken" \in mishaps' BY <1>5, <2>3 DEF Cancel
  <2> QED BY <2>4 DEF Clear, Unlost
<1>6. ASSUME UNCHANGED disk PROVE FALSE BY <1>0, <1>6
<1> QED BY <1>1, <1>2, <1>3, <1>4, <1>5, <1>6
    DEF Next, Start, Refused, AnsweredRest, PartGone, Claim, End, Save, SaveFails, TransferFails, AgainFails,
        StopList, StopPick, Kill, KillInSave, Publish, vars

(* A file under its own name is all of one version of what its server has, as   *)
(* long as nobody else uses its staging file, no transfer resumes other bytes    *)
(* and no short body is taken for a whole one (downloader.rs:57-61, 306-332).    *)
THEOREM FilesAreWhole == Spec => []WholeFiles
<1>1. Inv => WholeFiles
  <2> SUFFICES ASSUME Inv, Unmixed PROVE WholeFiles BY DEF WholeFiles
  <2> QED BY DEF Inv, Exact, IsWhole, Versions, WholeFiles
<1> QED BY <1>1, SpecInv, PTL

(* A step that takes a file away from its name is one on a staging file that    *)
(* another transfer shares, that was cancelled or that has the name of a file     *)
(* itself, or follows a failed rename (downloader.rs:97-107).                   *)
THEOREM FilesStay == Spec => NeverLost
<1> DEFINE Safe == \A f \in Files : disk[Dest(f)] # Absent /\ disk'[Dest(f)] = Absent =>
                       ~Unlost'
<1>1. Inv /\ [Next]_vars => [Safe]_vars BY DestsStay
<1>2. Spec => [][Safe]_vars BY <1>1, SpecInv, PTL DEF Spec
<1> QED BY <1>2 DEF NeverLost

-------------------------------------------------------------------------------
(* The lists of records                                                     *)

SameKey(a, b) == a.url = b.url /\ a.file = b.file
Unique(rs) == \A i, j \in DOMAIN rs : SameKey(rs[i], rs[j]) => i = j
Done(rs)   == \A i \in DOMAIN rs : rs[i].status = "completed" => disk[Dest(rs[i].file)] # Absent

LEMMA UpdatedFacts ==
    ASSUME NEW rs \in Seq(Record), NEW u \in Urls, NEW f \in Files, NEW status \in Statuses,
           NEW q \in Procs \cup {None}, Unique(rs)
    PROVE  LET c == Updated(rs, u, f, status, q)
               row == [url |-> u, file |-> f, status |-> status, pid |-> q] IN
           /\ \E i \in DOMAIN c : c[i] = row
           /\ \A i \in DOMAIN c :
                  \/ c[i] = row
                  \/ i \in DOMAIN rs /\ c[i] = rs[i] /\ ~(rs[i].url = u /\ rs[i].file = f)
           /\ \A i \in DOMAIN rs : ~(rs[i].url = u /\ rs[i].file = f) =>
                  i \in DOMAIN c /\ c[i] = rs[i]
           /\ Unique(c)
<1> DEFINE row == [url |-> u, file |-> f, status |-> status, pid |-> q]
           c == Updated(rs, u, f, status, q)
           at == IndexOf(rs, u, f)
<1>0. row.url = u /\ row.file = f OBVIOUS
<1>1. DOMAIN rs = 1..Len(rs) /\ Len(rs) \in Nat OBVIOUS
<1>2. \A i \in DOMAIN rs : i \in at <=> rs[i].url = u /\ rs[i].file = f BY DEF IndexOf
<1>3. at \subseteq DOMAIN rs BY DEF IndexOf
<1>4. CASE at = {}
  <2>1. c = Append(rs, row) BY <1>4 DEF Updated
  <2> HIDE DEF row, at
  <2>2. /\ DOMAIN c = 1..(Len(rs) + 1) /\ c[Len(rs) + 1] = row
        /\ \A i \in DOMAIN rs : c[i] = rs[i]
    BY <1>1, <2>1
  <2> HIDE DEF c
  <2>3. \A i \in DOMAIN c : i = Len(rs) + 1 \/ i \in DOMAIN rs BY <1>1, <2>2
  <2>4. \A i \in DOMAIN rs : i \in DOMAIN c /\ ~(rs[i].url = u /\ rs[i].file = f)
    BY <1>1, <1>2, <1>4, <2>2
  <2>5. Len(rs) + 1 \in DOMAIN c BY <1>1, <2>2
  <2>6. Unique(c) BY <1>0, <2>2, <2>3, <2>4 DEF Unique, SameKey
  <2>7. \E i \in DOMAIN c : c[i] = row BY <2>2, <2>5
  <2>8. \A i \in DOMAIN c :
             \/ c[i] = row
             \/ i \in DOMAIN rs /\ c[i] = rs[i] /\ ~(rs[i].url = u /\ rs[i].file = f)
    BY <2>2, <2>3, <2>4
  <2>9. \A i \in DOMAIN rs : ~(rs[i].url = u /\ rs[i].file = f) => i \in DOMAIN c /\ c[i] = rs[i]
    BY <2>2, <2>4
  <2> QED BY <2>6, <2>7, <2>8, <2>9 DEF c, row
<1>5. CASE at # {}
  <2>1. c = [i \in DOMAIN rs |-> IF i \in at THEN row ELSE rs[i]] BY <1>5 DEF Updated
  <2> HIDE DEF row, c, at
  <2>2. DOMAIN c = DOMAIN rs /\ \A i \in DOMAIN rs : c[i] = IF i \in at THEN row ELSE rs[i]
    BY <2>1
  <2>3. PICK k \in DOMAIN rs : k \in at BY <1>3, <1>5
  <2>4. Unique(c)
    <3> SUFFICES ASSUME NEW i \in DOMAIN rs, NEW j \in DOMAIN rs, SameKey(c[i], c[j]) PROVE i = j
      BY <2>2 DEF Unique
    <3>1. SameKey(rs[i], rs[j])
      BY <1>0, <1>2, <2>2 DEF SameKey
    <3> QED BY <3>1 DEF Unique
  <2>5. \E i \in DOMAIN c : c[i] = row BY <2>2, <2>3
  <2>6. \A i \in DOMAIN c :
             \/ c[i] = row
             \/ i \in DOMAIN rs /\ c[i] = rs[i] /\ ~(rs[i].url = u /\ rs[i].file = f)
    <3> TAKE i \in DOMAIN c
    <3>1. CASE i \in at BY <2>2, <3>1
    <3>2. CASE i \notin at BY <1>2, <2>2, <3>2
    <3> QED BY <3>1, <3>2
  <2>7. \A i \in DOMAIN rs : ~(rs[i].url = u /\ rs[i].file = f) => i \in DOMAIN c /\ c[i] = rs[i]
    BY <1>2, <2>2
  <2> QED BY <2>4, <2>5, <2>6, <2>7 DEF c, row
<1> QED BY <1>4, <1>5

LEMMA RemovedFacts ==
    ASSUME NEW rs \in Seq(Record), NEW i \in DOMAIN rs, Unique(rs)
    PROVE  LET c == Removed(rs, i) IN
           /\ \A k \in DOMAIN c : \E j \in DOMAIN rs : c[k] = rs[j]
           /\ \A j \in DOMAIN rs : j # i => \E k \in DOMAIN c : c[k] = rs[j]
           /\ Unique(c)
<1> DEFINE n == Len(rs)  a == SubSeq(rs, 1, i - 1)  b == SubSeq(rs, i + 1, n)
           c == Removed(rs, i)
           from(k) == IF k < i THEN k ELSE k + 1
<1>1. n \in Nat /\ i \in 1..n /\ DOMAIN rs = 1..n OBVIOUS
<1>2. /\ a \in Seq(Record) /\ Len(a) = i - 1 /\ \A k \in 1..(i - 1) : a[k] = rs[k]
  BY <1>1, SubSeqProperties
<1>3. /\ b \in Seq(Record) /\ Len(b) = n - i /\ \A k \in 1..(n - i) : b[k] = rs[i + k]
  BY <1>1, SubSeqProperties
<1>4. c = a \o b BY DEF Removed
<1> HIDE DEF a, b, c
<1>5. /\ DOMAIN c = 1..(n - 1)
      /\ \A k \in 1..(n - 1) : c[k] = IF k <= i - 1 THEN a[k] ELSE b[k - (i - 1)]
  <2>1. /\ Len(c) = Len(a) + Len(b) /\ c \in Seq(Record)
        /\ \A k \in 1..Len(c) : c[k] = IF k <= Len(a) THEN a[k] ELSE b[k - Len(a)]
    BY <1>2, <1>3, <1>4, ConcatProperties
  <2>2. Len(a) + Len(b) = n - 1 BY <1>1, <1>2, <1>3
  <2> QED BY <1>2, <2>1, <2>2
<1>6. \A k \in DOMAIN c : from(k) \in DOMAIN rs /\ from(k) # i /\ c[k] = rs[from(k)]
  <2> TAKE k \in DOMAIN c
  <2>1. CASE k < i BY <1>1, <1>2, <1>5, <2>1
  <2>2. CASE ~(k < i)
    <3>1. k - (i - 1) \in 1..(n - i) /\ i + (k - (i - 1)) = k + 1 BY <1>1, <1>5, <2>2
    <3>2. c[k] = rs[k + 1] BY <1>1, <1>3, <1>5, <2>2, <3>1
    <3> QED BY <1>1, <1>5, <2>2, <3>2
  <2> QED BY <2>1, <2>2
<1>7. ASSUME NEW j \in DOMAIN rs, j # i PROVE \E k \in DOMAIN c : c[k] = rs[j]
  <2>1. CASE j < i
    <3>1. j \in DOMAIN c /\ from(j) = j BY <1>1, <1>5, <2>1
    <3> QED BY <1>6, <3>1
  <2>2. CASE ~(j < i)
    <3>1. j - 1 \in DOMAIN c /\ from(j - 1) = j BY <1>1, <1>5, <1>7, <2>2
    <3> QED BY <1>6, <3>1
  <2> QED BY <2>1, <2>2
<1>8. Unique(c)
  <2> SUFFICES ASSUME NEW k \in DOMAIN c, NEW m \in DOMAIN c, SameKey(c[k], c[m]) PROVE k = m
    BY DEF Unique
  <2>1. from(k) = from(m) BY <1>6 DEF Unique
  <2> QED BY <1>1, <1>5, <2>1
<1> QED BY <1>6, <1>7, <1>8 DEF c

LEMMA MarkedFacts ==
    ASSUME NEW rs \in Seq(Record), NEW i, Unique(rs)
    PROVE  LET c == Marked(rs, i) IN
           /\ DOMAIN c = DOMAIN rs
           /\ \A k \in DOMAIN c : k # i => c[k] = rs[k]
           /\ \A k \in DOMAIN c : SameKey(c[k], rs[k])
                                  /\ (c[k].status = "completed" => rs[k].status = "completed")
           /\ Unique(c)
<1> DEFINE c == Marked(rs, i)
<1>1. CASE i \notin DOMAIN rs
  <2>1. c = rs BY <1>1 DEF Marked
  <2> QED BY <2>1 DEF SameKey
<1>2. CASE i \in DOMAIN rs
  <2>1. rs[i] \in Record BY <1>2
  <2> DEFINE row == [[rs[i] EXCEPT !.status = "stopped"] EXCEPT !.pid = None]
  <2>2. row.url = rs[i].url /\ row.file = rs[i].file /\ row.status = "stopped"
    BY <2>1 DEF Record
  <2>3. c = [rs EXCEPT ![i] = row] BY <1>2 DEF Marked
  <2> HIDE DEF row, c
  <2>4. DOMAIN c = DOMAIN rs /\ c[i] = row /\ \A k \in DOMAIN rs : k # i => c[k] = rs[k]
    BY <1>2, <2>3
  <2>5. \A k \in DOMAIN c : SameKey(c[k], rs[k])
                            /\ (c[k].status = "completed" => rs[k].status = "completed")
    BY <2>2, <2>4 DEF SameKey
  <2>6. Unique(c) BY <2>4, <2>5 DEF Unique, SameKey
  <2> QED BY <2>4, <2>5, <2>6 DEF c
<1> QED BY <1>1, <1>2

-------------------------------------------------------------------------------
(* The books: the records, and what each process is about to make of them      *)

Readers == {p \in Procs : run[p].at \in {"reading", "again"}}
NoReader(u, f) == \A o \in Readers : ~(run[o].url = u /\ run[o].file = f)

Ledger == /\ Unique(records) /\ faults \in 0..MaxFaults /\ mishaps \subseteq Mishaps
          /\ \A p \in Procs : run[p].at \in Places /\ Unique(run[p].copy)

Landed(p) == /\ Done(run[p].copy)
             /\ run[p].at = "end" /\ run[p].say = "completed" => disk[Dest(run[p].file)] # Absent
Landings == Unlost => Done(records) /\ \A p \in Procs : Landed(p)

Claims(p) == run[p].at \in {"reading", "again"} =>
    \E i \in DOMAIN records : /\ records[i].url = run[p].url /\ records[i].file = run[p].file
                              /\ records[i].status = "downloading" /\ records[i].pid = p
Relist(p) == \E i \in DOMAIN records :
    /\ NoReader(records[i].url, records[i].file)
    /\ run[p].copy = Removed(records, i) \/ run[p].copy = Marked(records, i)
Fresh(p) == ~run[p].stale =>
    /\ run[p].at = "claiming" =>
           run[p].copy = Updated(records, run[p].url, run[p].file, "downloading", p)
    /\ run[p].at = "ending" =>
           /\ run[p].url \in Urls /\ run[p].file \in Files /\ run[p].say \in Statuses
           /\ NoReader(run[p].url, run[p].file)
           /\ run[p].copy = Updated(records, run[p].url, run[p].file, run[p].say, None)
    /\ run[p].at = "listing" => Relist(p)
ClaimsHold == Unmarked => \A p \in Procs : Claims(p) /\ Fresh(p)

Books == Ledger /\ Landings /\ ClaimsHold

(* What the others see of a step of p.                                       *)
Beside(o) == \/ run'[o] = Idle
             \/ /\ run'[o].at = run[o].at /\ run'[o].url = run[o].url /\ run'[o].file = run[o].file
                /\ run'[o].say = run[o].say /\ run'[o].copy = run[o].copy
                /\ ~run'[o].stale => ~run[o].stale

(* A step of p that neither makes nor saves a list.                           *)
Plain(p) == /\ records' = records
            /\ run'[p].copy \in {<<>>, run[p].copy}
            /\ run'[p].at \in Places \ SavesAt
            /\ run'[p].at \in {"reading", "again"} =>
                   /\ run[p].at \in {"reading", "again"}
                   /\ run'[p].url = run[p].url /\ run'[p].file = run[p].file
            /\ run'[p].at = "end" /\ run'[p].say = "completed" => disk'[Dest(run'[p].file)] # Absent

LEMMA IdleFacts ==
    /\ Idle.at = "idle" /\ Idle.copy = <<>>
    /\ Unique(Idle.copy) /\ Done(Idle.copy) /\ "idle" \in Places \ SavesAt
BY DEF Idle, Unique, Done, Places, SavesAt

LEMMA BesideFacts ==
    ASSUME NEW o \in Procs, Beside(o)
    PROVE  /\ run'[o].at \in {"reading", "again"} =>
                  /\ run[o].at \in {"reading", "again"}
                  /\ run'[o].url = run[o].url /\ run'[o].file = run[o].file
           /\ run'[o].at \in SavesAt /\ ~run'[o].stale =>
                  /\ run[o].at = run'[o].at /\ ~run[o].stale
                  /\ run'[o].url = run[o].url /\ run'[o].file = run[o].file
                  /\ run'[o].say = run[o].say /\ run'[o].copy = run[o].copy
           /\ run[o].at \in Places => run'[o].at \in Places
           /\ run'[o].copy \in {<<>>, run[o].copy}
           /\ run'[o].at = "end" => /\ run[o].at = "end" /\ run'[o].say = run[o].say
                                    /\ run'[o].file = run[o].file
BY IdleFacts DEF Beside, SavesAt

LEMMA LedgerKept ==
    ASSUME Ledger, NEW p \in Procs, \A o \in Procs \ {p} : Beside(o), Unique(records'),
           Unique(run'[p].copy), run'[p].at \in Places, faults' \in 0..MaxFaults, mishaps' \subseteq Mishaps
    PROVE  Ledger'
<1>1. Unique(<<>>) BY DEF Unique
<1>2. ASSUME NEW o \in Procs \ {p} PROVE run'[o].at \in Places /\ Unique(run'[o].copy)
  BY <1>1, BesideFacts DEF Ledger
<1> QED BY <1>2 DEF Ledger

LEMMA RowFacts ==
    ASSUME NEW rs \in Seq(Record), NEW i \in DOMAIN rs
    PROVE  rs[i] \in Record /\ rs[i].url \in Urls /\ rs[i].file \in Files /\ rs[i].pid \in Procs \cup {None}
<1>1. rs[i] \in Record OBVIOUS
<1> QED BY <1>1 DEF Record

LEMMA FilesRemain ==
    ASSUME Inv, [Next]_vars, Unlost'
    PROVE  \A f \in Files : disk[Dest(f)] # Absent => disk'[Dest(f)] # Absent
BY DestsStay DEF Clear, Undisturbed, Unmixed, Unlost

LEMMA LandingsKept ==
    ASSUME Inv, [Next]_vars, Landings, NEW p \in Procs, \A o \in Procs \ {p} : Beside(o),
           mishaps \subseteq mishaps',
           \/ Unlost' => Done(records)'
           \/ records' \in {<<>>, records, run[p].copy},
           \/ Unlost' => Done(run[p].copy)'
           \/ run'[p].copy \in {<<>>, records, run[p].copy},
           run'[p].at = "end" /\ run'[p].say = "completed" => disk'[Dest(run'[p].file)] # Absent
    PROVE  Landings'
<1> SUFFICES ASSUME Unlost'
             PROVE  Done(records)' /\ \A o \in Procs : Landed(o)'
  BY DEF Landings
<1>1. Unlost BY DEF Clear, Undisturbed, Unmixed, Unlost
<1>2. Done(records) /\ \A o \in Procs : Landed(o) BY <1>1 DEF Landings
<1>3. \A f \in Files : disk[Dest(f)] # Absent => disk'[Dest(f)] # Absent BY FilesRemain
<1>4. records \in Seq(Record) /\ \A o \in Procs : RowOK(run[o]) BY DEF Inv, Shape
<1>5. records' \in {<<>>, records, run[p].copy} => Done(records)'
  <2>1. ASSUME records' = <<>> PROVE Done(records)' BY <2>1 DEF Done
  <2>2. ASSUME records' = records PROVE Done(records)'
    <3>1. \A i \in DOMAIN records : records[i].file \in Files BY <1>4, RowFacts
    <3> QED BY <1>2, <1>3, <2>2, <3>1 DEF Done
  <2>3. ASSUME records' = run[p].copy PROVE Done(records)'
    <3>1. run[p].copy \in Seq(Record) /\ Done(run[p].copy) BY <1>2, <1>4 DEF RowOK, Landed
    <3>2. \A i \in DOMAIN run[p].copy : run[p].copy[i].file \in Files BY <3>1, RowFacts
    <3> QED BY <1>3, <2>3, <3>1, <3>2 DEF Done
  <2> QED BY <2>1, <2>2, <2>3
<1>6. ASSUME NEW o \in Procs, run'[o].copy \in {<<>>, run[o].copy} PROVE Done(run[o].copy)'
  <2>1. CASE run'[o].copy = <<>> BY <2>1 DEF Done
  <2>2. CASE run'[o].copy = run[o].copy
    <3>1. run[o].copy \in Seq(Record) /\ Done(run[o].copy) BY <1>2, <1>4 DEF RowOK, Landed
    <3>2. \A i \in DOMAIN run[o].copy : run[o].copy[i].file \in Files BY <3>1, RowFacts
    <3> QED BY <1>3, <2>2, <3>1, <3>2 DEF Done
  <2> QED BY <1>6, <2>1, <2>2
<1>7. ASSUME run'[p].copy = records PROVE Done(run[p].copy)'
  <2>1. \A i \in DOMAIN records : records[i].file \in Files BY <1>4, RowFacts
  <2> QED BY <1>2, <1>3, <1>7, <2>1 DEF Done
<1>8. Landed(p)' BY <1>6, <1>7 DEF Landed
<1>9. ASSUME NEW o \in Procs \ {p} PROVE Landed(o)'
  <2>1. Done(run[o].copy)' BY <1>6, BesideFacts
  <2>2. ASSUME run'[o].at = "end", run'[o].say = "completed" PROVE disk'[Dest(run'[o].file)] # Absent
    <3>1. run[o].at = "end" /\ run[o].say = "completed" /\ run'[o].file = run[o].file
      BY <2>2, BesideFacts
    <3>2. run[o].file \in Files /\ disk[Dest(run[o].file)] # Absent
      BY <1>2, <1>4, <3>1 DEF Landed, RowOK
    <3> QED BY <1>3, <3>1, <3>2
  <2> QED BY <2>1, <2>2 DEF Landed
<1> QED BY <1>5, <1>8, <1>9

(* The records stay: what was known of them and of the others is still so.     *)
LEMMA ClaimsKept ==
    ASSUME ClaimsHold, NEW p \in Procs, \A o \in Procs \ {p} : Beside(o), records' = records,
           mishaps \subseteq mishaps',
           run'[p].at \in {"reading", "again"} =>
               /\ run[p].at \in {"reading", "again"}
               /\ run'[p].url = run[p].url /\ run'[p].file = run[p].file,
           Unmarked' => Fresh(p)'
    PROVE  ClaimsHold'
<1> SUFFICES ASSUME Unmarked' PROVE \A o \in Procs : Claims(o)' /\ Fresh(o)' BY DEF ClaimsHold
<1>1. Unmarked BY DEF Unmarked, Clear, Undisturbed
<1>2. \A o \in Procs : Claims(o) /\ Fresh(o) BY <1>1 DEF ClaimsHold
<1>3. \A o \in Procs : run'[o].at \in {"reading", "again"} =>
          /\ run[o].at \in {"reading", "again"}
          /\ run'[o].url = run[o].url /\ run'[o].file = run[o].file
  BY BesideFacts
<1>4. \A o \in Procs : Claims(o)' BY <1>2, <1>3 DEF Claims
<1>5. \A u, f : NoReader(u, f) => NoReader(u, f)' BY <1>3 DEF NoReader, Readers
<1>6. ASSUME NEW o \in Procs \ {p} PROVE Fresh(o)'
  <2> SUFFICES ASSUME ~run'[o].stale, run'[o].at \in SavesAt PROVE Fresh(o)' BY DEF Fresh, SavesAt
  <2>1. /\ run[o].at = run'[o].at /\ ~run[o].stale
        /\ run'[o].url = run[o].url /\ run'[o].file = run[o].file
        /\ run'[o].say = run[o].say /\ run'[o].copy = run[o].copy
    BY BesideFacts
  <2>2. Relist(o) => Relist(o)' BY <1>5, <2>1 DEF Relist
  <2> QED BY <1>2, <1>5, <2>1, <2>2 DEF Fresh
<1> QED BY <1>4, <1>6

(* The records change: what the others have loaded is out of date.             *)
LEMMA ClaimsRekept ==
    ASSUME NEW p \in Procs, \A o \in Procs \ {p} : Beside(o),
           \A o \in Procs \ {p} : run'[o].at \in SavesAt => run'[o].stale, run'[p].at \notin SavesAt,
           Unmarked' => \A o \in Procs : Claims(o)'
    PROVE  ClaimsHold'
BY DEF ClaimsHold, Fresh, SavesAt

LEMMA PlainKept ==
    ASSUME Inv, [Next]_vars, Books, NEW p \in Procs, \A o \in Procs \ {p} : Beside(o), Plain(p),
           mishaps \subseteq mishaps', mishaps' \subseteq Mishaps, faults' \in 0..MaxFaults
    PROVE  Books'
<1>1. Ledger'
  <2>1. Unique(run'[p].copy) BY DEF Plain, Books, Ledger, Unique
  <2> QED BY <2>1, LedgerKept DEF Plain, Books, Ledger
<1>2. Landings'
  <2>1. run'[p].copy \in {<<>>, records, run[p].copy} /\ records' \in {<<>>, records, run[p].copy}
    BY DEF Plain
  <2>2. run'[p].at = "end" /\ run'[p].say = "completed" => disk'[Dest(run'[p].file)] # Absent
    BY DEF Plain
  <2> QED BY <2>1, <2>2, LandingsKept DEF Books
<1>3. ClaimsHold'
  <2>1. Fresh(p)' BY DEF Fresh, Plain, SavesAt
  <2>2. /\ records' = records
        /\ run'[p].at \in {"reading", "again"} =>
               /\ run[p].at \in {"reading", "again"}
               /\ run'[p].url = run[p].url /\ run'[p].file = run[p].file
    BY DEF Plain
  <2> QED BY <2>1, <2>2, ClaimsKept DEF Books
<1> QED BY <1>1, <1>2, <1>3 DEF Books

(* The steps that make no list and save none.                                 *)
LEMMA PlainSteps ==
    ASSUME Inv, Ledger, NEW p \in Procs,
           \/ \E job \in Jobs, resume \in BOOLEAN : Start(p, job[1], job[2], resume)
           \/ Refused(p) \/ AnsweredRest(p) \/ AnsweredWhole(p) \/ PartGone(p)
           \/ Receive(p) \/ TransferFails(p)
           \/ Finalize(p) \/ FinalizeFails(p) \/ Again(p) \/ AgainFails(p) \/ Kill(p)
           \/ \E i \in DOMAIN records : StopList(p, i)
    PROVE  /\ Plain(p) /\ \A o \in Procs \ {p} : Beside(o)
           /\ mishaps \subseteq mishaps' /\ mishaps' \subseteq Mishaps /\ faults' \in 0..MaxFaults
<1>0. DOMAIN run = Procs /\ RowOK(run[p]) /\ faults \in 0..MaxFaults /\ mishaps \subseteq Mishaps
      /\ run[p].at \in Places
  BY DEF Inv, Shape, Ledger
<1>1. ASSUME NEW s, Goes(p, s) PROVE run'[p] = s /\ \A o \in Procs \ {p} : Beside(o)
  BY <1>0, <1>1 DEF Goes, Beside
<1>2. ASSUME Goes(p, Idle), UNCHANGED <<records, faults, mishaps>>
      PROVE  Plain(p)
  BY <1>1, <1>2, IdleFacts DEF Plain
<1>3. CASE Refused(p) \/ PartGone(p) \/ AgainFails(p) \/ Kill(p)
  BY <1>0, <1>1, <1>2, <1>3 DEF Refused, PartGone, AgainFails, Kill
<1>4. ASSUME NEW job \in Jobs, NEW resume \in BOOLEAN, Start(p, job[1], job[2], resume)
      PROVE  Plain(p) /\ \A o \in Procs \ {p} : Beside(o)
  <2>1. run'[p].at = "asking" /\ run'[p].copy = <<>> BY <1>0, <1>4 DEF Start, Goes, Idle
  <2>2. \A o \in Procs \ {p} : Beside(o) BY <1>1, <1>4 DEF Start
  <2> QED BY <1>4, <2>1, <2>2 DEF Plain, Start, Places, SavesAt
<1>5. ASSUME NEW i \in DOMAIN records, StopList(p, i)
      PROVE  Plain(p) /\ \A o \in Procs \ {p} : Beside(o)
  <2>1. run'[p].at = "choosing" /\ run'[p].copy = <<>> BY <1>0, <1>5 DEF StopList, Goes, Idle
  <2>2. \A o \in Procs \ {p} : Beside(o) BY <1>1, <1>5 DEF StopList
  <2> QED BY <1>5, <2>1, <2>2 DEF Plain, StopList, Places, SavesAt
<1>6. CASE AnsweredRest(p) \/ AnsweredWhole(p)
  <2>1. PICK start : Opened(p, start) BY <1>6 DEF AnsweredRest, AnsweredWhole
  <2>2. run'[p].at = "claim" /\ run'[p].copy = run[p].copy
    BY <1>0, <2>1 DEF Opened, Goes, RowOK, Fields
  <2>3. \A o \in Procs \ {p} : Beside(o) BY <1>1, <2>1 DEF Opened
  <2>4. Plain(p) BY <2>1, <2>2 DEF Plain, Opened, Places, SavesAt, Holding
  <2> QED BY <1>0, <2>1, <2>3, <2>4 DEF Opened, Slips, Takes, Mishaps
<1>7. CASE Receive(p)
  <2>1. run'[p].at = run[p].at /\ run'[p].url = run[p].url /\ run'[p].file = run[p].file
        /\ run'[p].copy = run[p].copy /\ run[p].at = "reading"
    BY <1>0, <1>7 DEF Receive, Goes, RowOK, Fields
  <2>2. \A o \in Procs \ {p} : Beside(o) BY <1>1, <1>7 DEF Receive
  <2>3. Plain(p) BY <1>7, <2>1 DEF Plain, Receive, Places, SavesAt, Holding
  <2> QED BY <1>0, <1>7, <2>2, <2>3 DEF Receive
<1>8. CASE TransferFails(p)
  <2>1. run'[p].at = "end" /\ run'[p].copy = <<>> /\ run'[p].say = "failed"
    BY <1>0, <1>8 DEF TransferFails, Goes, Ends, Idle
  <2>2. \A o \in Procs \ {p} : Beside(o) BY <1>1, <1>8 DEF TransferFails
  <2>3. Plain(p) BY <1>8, <2>1 DEF Plain, TransferFails, Places, SavesAt
  <2> QED BY <1>0, <1>8, <2>2, <2>3 DEF TransferFails
<1>9. ASSUME NEW o \in Procs \ {p}, NEW x \in Spots \cup {None},
             run'[o] \in {run[o], [run[o] EXCEPT !.out = x]}
      PROVE  Beside(o)
  <2>1. RowOK(run[o]) BY DEF Inv, Shape
  <2> QED BY <1>9, <2>1 DEF Beside, RowOK, Fields
<1>10. CASE Finalize(p) \/ Again(p)
  <2> DEFINE from == Part(run[p].file)  to == Dest(run[p].file)
  <2>1. run[p].file \in Files /\ PartThere(p)
    BY <1>0, <1>10 DEF Finalize, Again, Received, RowOK, Holding
  <2>2. Moves(p, Ends(run[p], "completed")) /\ UNCHANGED <<records, faults>>
        /\ mishaps \subseteq mishaps' /\ mishaps' \subseteq Mishaps
    BY <1>0, <1>10 DEF Finalize, Again, Short, Mishaps
  <2>3. from \in Spots /\ to \in Spots BY <2>1, Placing
  <2>4. run'[p].at = "end" /\ run'[p].copy = <<>> /\ run'[p].file = run[p].file
    BY <1>0, <2>2 DEF Moves, Goes, Ends, Idle
  <2>5. disk'[to] # Absent BY <2>1, <2>2, <2>3 DEF Moves, PartThere, Inv, Shape
  <2>6. \A o \in Procs \ {p} : Beside(o)
    BY <1>1, <1>9, <2>2, <2>3 DEF Moves, Follow
  <2>7. Plain(p) BY <2>2, <2>4, <2>5 DEF Plain, Places, SavesAt
  <2> QED BY <1>0, <2>2, <2>6, <2>7
<1>11. CASE FinalizeFails(p)
  <2> DEFINE s == [run[p] EXCEPT !.at = "again", !.out = None]
  <2>1. run[p].at = "reading" /\ run[p].file \in Files
    BY <1>0, <1>11 DEF FinalizeFails, Received, RowOK, Holding
  <2>2. s.at = "again" /\ s.url = run[p].url /\ s.file = run[p].file /\ s.copy = run[p].copy
    BY <1>0 DEF RowOK, Fields
  <2>3. Cleans(Dest(run[p].file), p, s) /\ records' = records BY <1>11 DEF FinalizeFails
  <2> HIDE DEF s
  <2>4. \A o \in Procs \ {p} : Beside(o) BY <1>1, <1>9, <2>3 DEF Cleans, Unlinks
  <2>5. run'[p] = s BY <1>1, <2>3 DEF Cleans, Unlinks
  <2>6. Plain(p) BY <2>1, <2>2, <2>3, <2>5 DEF Plain, Places, SavesAt, Holding
  <2>7. mishaps \subseteq mishaps' /\ mishaps' \subseteq Mishaps
    BY <1>0, <1>11 DEF FinalizeFails, Short, Mishaps
  <2>8. faults' \in 0..MaxFaults
    <3>1. CASE PartThere(p)
      <4>1. faults < MaxFaults /\ faults' = faults + 1 BY <1>11, <3>1 DEF FinalizeFails
      <4> QED BY <1>0, <4>1, BoundsAssumption
    <3>2. CASE ~PartThere(p) BY <1>0, <1>11, <3>2 DEF FinalizeFails
    <3> QED BY <3>1, <3>2
  <2> QED BY <2>4, <2>6, <2>7, <2>8
<1> QED
  <2>1. ASSUME NEW job \in Jobs, NEW resume \in BOOLEAN, Start(p, job[1], job[2], resume)
        PROVE  UNCHANGED <<faults, mishaps>>
    BY <2>1 DEF Start
  <2>2. ASSUME NEW i \in DOMAIN records, StopList(p, i) PROVE UNCHANGED <<faults, mishaps>>
    BY <2>2 DEF StopList
  <2> QED BY <1>0, <1>3, <1>4, <1>5, <1>6, <1>7, <1>8, <1>10, <1>11, <2>1, <2>2

(* The steps that make a list.                                               *)
LEMMA UpdatedLands ==
    ASSUME NEW rs \in Seq(Record), Unique(rs), NEW u \in Urls, NEW f \in Files, NEW status \in Statuses,
           NEW q \in Procs \cup {None},
           \A i \in DOMAIN rs : rs[i].status = "completed" => disk'[Dest(rs[i].file)] # Absent,
           status = "completed" => disk'[Dest(f)] # Absent
    PROVE  \A i \in DOMAIN Updated(rs, u, f, status, q) :
               Updated(rs, u, f, status, q)[i].status = "completed"
               => disk'[Dest(Updated(rs, u, f, status, q)[i].file)] # Absent
<1> DEFINE row == [url |-> u, file |-> f, status |-> status, pid |-> q]
           c == Updated(rs, u, f, status, q)
<1>1. row.status = status /\ row.file = f OBVIOUS
<1>2. \A i \in DOMAIN c : \/ c[i] = row
                          \/ i \in DOMAIN rs /\ c[i] = rs[i] /\ ~(rs[i].url = u /\ rs[i].file = f)
  <2> SUFFICES ASSUME NEW i \in DOMAIN c PROVE c[i] = row
          \/ (i \in DOMAIN rs /\ c[i] = rs[i] /\ ~(rs[i].url = u /\ rs[i].file = f)) OBVIOUS
  <2> QED BY UpdatedFacts
<1> HIDE DEF row, c
<1>3. \A i \in DOMAIN c : c[i].status = "completed" => disk'[Dest(c[i].file)] # Absent
  BY <1>1, <1>2
<1> QED BY <1>3 DEF c

LEMMA ListFacts ==
    ASSUME Inv, Ledger, NEW list \in Loaded
    PROVE  list \in Seq(Record) /\ Unique(list) /\ (Done(records) => Done(list))
<1>1. list \in Seq(Record) BY LoadedLists
<1>2. CASE list = records BY <1>1, <1>2 DEF Ledger
<1>3. CASE list = <<>>
  <2>1. DOMAIN list = {} BY <1>3
  <2> QED BY <1>1, <2>1 DEF Unique, Done
<1> QED BY <1>2, <1>3 DEF Loaded

LEMMA ClaimBooks ==
    ASSUME Inv, [Next]_vars, Books, NEW p \in Procs, NEW list \in Loaded, Claim(p, list) PROVE Books'
<1>1. run[p].at = "claim" /\ RowOK(run[p]) /\ list \in Seq(Record) /\ Unique(list)
  BY ListFacts DEF Claim, Inv, Shape, Books
<1>2. run[p].url \in Urls /\ run[p].file \in Files BY <1>1 DEF RowOK, Holding
<1> DEFINE c == Updated(list, run[p].url, run[p].file, "downloading", p)
<1>3. /\ run'[p].at = "claiming" /\ run'[p].copy = c /\ run'[p].url = run[p].url
      /\ run'[p].file = run[p].file /\ \A o \in Procs \ {p} : Beside(o)
  <2>1. run' = [run EXCEPT ![p] = [run[p] EXCEPT !.at = "claiming", !.copy = c]] /\ DOMAIN run = Procs
    BY DEF Claim, Goes, Inv, Shape
  <2> HIDE DEF c
  <2> QED BY <1>1, <2>1 DEF RowOK, Fields, Beside
<1>4. UNCHANGED <<records, disk, faults>> /\ mishaps' = mishaps \cup Misread(list) BY DEF Claim
<1>5. Unique(records) /\ Unique(c)
  BY <1>1, <1>2, UpdatedFacts DEF Books, Ledger, Statuses
<1>6. Ledger'
  <2>1. mishaps' \subseteq Mishaps BY <1>4 DEF Books, Ledger, Misread, Mishaps
  <2> QED BY <1>3, <1>4, <1>5, <2>1, LedgerKept DEF Books, Ledger, Places, SavesAt
<1>7. ASSUME Unlost' PROVE Done(run[p].copy)'
  <2>1. Done(records) BY <1>4, <1>7 DEF Books, Landings, Clear, Undisturbed, Unmixed, Unlost
  <2>2. \A i \in DOMAIN list : list[i].status = "completed" => disk'[Dest(list[i].file)] # Absent
    BY <1>4, <2>1, ListFacts DEF Done, Books
  <2>3. "downloading" \in Statuses BY DEF Statuses
  <2>4. \A i \in DOMAIN c : c[i].status = "completed" => disk'[Dest(c[i].file)] # Absent
    BY <1>1, <1>2, <1>5, <2>2, <2>3, UpdatedLands
  <2> QED BY <1>3, <2>4 DEF Done
<1>8. Landings'
  <2>1. records' \in {<<>>, records, run[p].copy} /\ mishaps \subseteq mishaps' /\ run'[p].at # "end"
    BY <1>3, <1>4
  <2> QED BY <1>3, <1>7, <2>1, LandingsKept DEF Books
<1>9. ASSUME Unmarked' PROVE Fresh(p)'
  <2>1. list = records BY <1>4, <1>9 DEF Misread, Unmarked, Clear
  <2> QED BY <1>3, <1>4, <2>1 DEF Fresh
<1>10. ClaimsHold'
  <2>1. mishaps \subseteq mishaps' /\ records' = records BY <1>4
  <2> QED BY <1>3, <1>9, <2>1, ClaimsKept DEF Books
<1> QED BY <1>6, <1>8, <1>10 DEF Books

LEMMA EndBooks ==
    ASSUME Inv, [Next]_vars, Books, NEW p \in Procs, NEW list \in Loaded, End(p, list) PROVE Books'
<1>1. run[p].at = "end" /\ RowOK(run[p]) /\ list \in Seq(Record) /\ Unique(list)
  BY ListFacts DEF End, Inv, Shape, Books
<1>2. run[p].url \in Urls /\ run[p].file \in Files /\ run[p].say \in Statuses BY <1>1 DEF RowOK
<1> DEFINE c == Updated(list, run[p].url, run[p].file, run[p].say, None)
<1>3. /\ run'[p].at = "ending" /\ run'[p].copy = c /\ run'[p].url = run[p].url
      /\ run'[p].say = run[p].say
      /\ run'[p].file = run[p].file /\ \A o \in Procs \ {p} : Beside(o)
  <2>1. run' = [run EXCEPT ![p] = [run[p] EXCEPT !.at = "ending", !.copy = c]] /\ DOMAIN run = Procs
    BY DEF End, Goes, Inv, Shape
  <2> HIDE DEF c
  <2> QED BY <1>1, <2>1 DEF RowOK, Fields, Beside
<1>4. UNCHANGED <<records, disk, faults>> /\ mishaps' = mishaps \cup LateEnd(p) \cup Misread(list)
  BY DEF End
<1>5. Unique(records) /\ Unique(c)
  BY <1>1, <1>2, UpdatedFacts DEF Books, Ledger
<1>6. Ledger'
  <2>1. mishaps' \subseteq Mishaps BY <1>4 DEF Books, Ledger, LateEnd, Misread, Mishaps
  <2> QED BY <1>3, <1>4, <1>5, <2>1, LedgerKept DEF Books, Ledger, Places, SavesAt
<1>7. ASSUME Unlost' PROVE Done(run[p].copy)'
  <2>1. Done(records) /\ Landed(p) BY <1>4, <1>7 DEF Books, Landings, Clear, Undisturbed, Unmixed, Unlost
  <2>2. \A i \in DOMAIN list : list[i].status = "completed" => disk'[Dest(list[i].file)] # Absent
    BY <1>4, <2>1, ListFacts DEF Done, Books
  <2>3. run[p].say = "completed" => disk'[Dest(run[p].file)] # Absent BY <1>1, <1>4, <2>1 DEF Landed
  <2>4. \A i \in DOMAIN c : c[i].status = "completed" => disk'[Dest(c[i].file)] # Absent
    BY <1>1, <1>2, <1>5, <2>2, <2>3, UpdatedLands
  <2> QED BY <1>3, <2>4 DEF Done
<1>8. Landings'
  <2>1. records' \in {<<>>, records, run[p].copy} /\ mishaps \subseteq mishaps' /\ run'[p].at # "end"
    BY <1>3, <1>4
  <2> QED BY <1>3, <1>7, <2>1, LandingsKept DEF Books
<1>9. ASSUME Unmarked' PROVE Fresh(p)'
  <2>1. Unmarked BY <1>4, <1>9 DEF Unmarked, Clear, Undisturbed
  <2>2. \A i \in IndexOf(records, run[p].url, run[p].file) : records[i].pid \in {p, None}
    BY <1>4, <1>9 DEF Unmarked, Clear, LateEnd
  <2>5. list = records BY <1>4, <1>9 DEF Misread, Unmarked, Clear
  <2>3. NoReader(run[p].url, run[p].file)
    <3> SUFFICES ASSUME NEW o \in Readers, run[o].url = run[p].url, run[o].file = run[p].file PROVE FALSE
      BY DEF NoReader
    <3>1. o \in Procs /\ Claims(o) /\ run[o].at \in {"reading", "again"} BY <2>1 DEF Books, ClaimsHold, Readers
    <3>2. PICK i \in DOMAIN records : records[i].url = run[o].url /\ records[i].file = run[o].file
                                      /\ records[i].pid = o
      BY <3>1 DEF Claims
    <3>3. i \in IndexOf(records, run[p].url, run[p].file) BY <3>2 DEF IndexOf
    <3>4. o \in {p, None} BY <2>2, <3>2, <3>3
    <3> QED BY <1>1, <3>1, <3>4, NoneAssumption
  <2>4. NoReader(run[p].url, run[p].file)'
    <3>1. \A o \in Readers' : o \in Readers /\ run'[o].url = run[o].url /\ run'[o].file = run[o].file
      BY <1>3, BesideFacts DEF Readers
    <3> QED BY <1>3, <2>3, <3>1 DEF NoReader
  <2> QED BY <1>2, <1>3, <1>4, <2>4, <2>5 DEF Fresh
<1>10. ClaimsHold'
  <2>1. mishaps \subseteq mishaps' /\ records' = records BY <1>4
  <2> QED BY <1>3, <1>9, <2>1, ClaimsKept DEF Books
<1> QED BY <1>6, <1>8, <1>10 DEF Books

(* The steps that save one, or lose it.                                       *)
LEMMA SavesFacts ==
    ASSUME Inv, NEW p \in Procs, NEW s, Saves(p, s), s.at \notin SavesAt
    PROVE  /\ run'[p] = s /\ \A o \in Procs \ {p} : Beside(o)
           /\ \A o \in Procs \ {p} : run'[o].at \in SavesAt => run'[o].stale
<1>1. run'[p] = s BY DEF Saves
<1>2. ASSUME NEW o \in Procs \ {p} PROVE Beside(o) /\ (run'[o].at \in SavesAt => run'[o].stale)
  <2>1. RowOK(run[o]) BY DEF Inv, Shape
  <2>2. CASE run[o].at \in SavesAt
    <3>1. run'[o] = [run[o] EXCEPT !.stale = TRUE] BY <2>2 DEF Saves
    <3> QED BY <2>1, <3>1 DEF RowOK, Fields, Beside
  <2>3. CASE run[o].at \notin SavesAt
    <3>1. run'[o] = run[o] BY <2>3 DEF Saves
    <3> QED BY <2>3, <3>1 DEF Beside
  <2> QED BY <2>2, <2>3
<1> QED BY <1>1, <1>2

(* What p saves still has the record of every transfer that runs.               *)
LEMMA ClaimsSaved ==
    ASSUME Inv, Ledger, NEW p \in Procs, run[p].at \in SavesAt, ~run[p].stale, Fresh(p),
           Undisturbed,
           NEW o \in Procs \ {p}, o \in Readers, NEW j \in DOMAIN records,
           records[j].url = run[o].url, records[j].file = run[o].file
    PROVE  \E k \in DOMAIN run[p].copy : run[p].copy[k] = records[j]
<1>0. records \in Seq(Record) /\ Unique(records) /\ RowOK(run[p]) BY DEF Inv, Shape, Ledger
<1>1. CASE run[p].at = "claiming"
  <2>1. run[p].url \in Urls /\ run[p].file \in Files BY <1>0, <1>1 DEF RowOK, Holding
  <2>2. p \in Holders /\ o \in Holders BY <1>1 DEF Holders, Holding, Readers
  <2>3. records[j].file # run[p].file BY <2>2 DEF Inv, Alone, Apart
  <2>4. "downloading" \in Statuses BY DEF Statuses
  <2>5. run[p].copy = Updated(records, run[p].url, run[p].file, "downloading", p) BY <1>1 DEF Fresh
  <2> QED BY <1>0, <2>1, <2>3, <2>4, <2>5, UpdatedFacts
<1>2. CASE run[p].at = "ending"
  <2>1. /\ run[p].url \in Urls /\ run[p].file \in Files /\ run[p].say \in Statuses
        /\ NoReader(run[p].url, run[p].file)
        /\ run[p].copy = Updated(records, run[p].url, run[p].file, run[p].say, None)
    BY <1>2 DEF Fresh
  <2>2. ~(records[j].url = run[p].url /\ records[j].file = run[p].file) BY <2>1 DEF NoReader
  <2> QED BY <1>0, <2>1, <2>2, UpdatedFacts
<1>3. CASE run[p].at = "listing"
  <2>1. PICK i \in DOMAIN records :
            /\ NoReader(records[i].url, records[i].file)
            /\ run[p].copy = Removed(records, i) \/ run[p].copy = Marked(records, i)
    BY <1>3 DEF Fresh, Relist
  <2>2. j # i BY <2>1 DEF NoReader
  <2>3. CASE run[p].copy = Removed(records, i) BY <1>0, <2>2, <2>3, RemovedFacts
  <2>4. CASE run[p].copy = Marked(records, i) BY <1>0, <2>2, <2>4, MarkedFacts
  <2> QED BY <2>1, <2>3, <2>4
<1> QED BY <1>1, <1>2, <1>3 DEF SavesAt

LEMMA SavedRow ==
    ASSUME Inv, NEW p \in Procs
    PROVE  LET s == AfterSave(p) IN
           /\ s.copy = <<>> /\ s.at \in {"reading", "idle"}
           /\ s.at = "reading" => run[p].at = "claiming" /\ s.url = run[p].url /\ s.file = run[p].file
<1>1. RowOK(run[p]) BY DEF Inv, Shape
<1> QED BY <1>1, IdleFacts DEF AfterSave, RowOK, Fields

LEMMA SaveBooks == ASSUME Inv, [Next]_vars, Books, NEW p \in Procs, Save(p) PROVE Books'
<1> DEFINE s == AfterSave(p)
<1>0. RowOK(run[p]) BY DEF Inv, Shape
<1>1. s.copy = <<>> /\ s.at \in {"reading", "idle"} BY SavedRow
<1>2. s.at = "reading" => run[p].at = "claiming" /\ s.url = run[p].url /\ s.file = run[p].file
  BY SavedRow
<1>3. Saves(p, s) /\ records' = run[p].copy /\ UNCHANGED <<disk, serves, faults>> /\ run[p].at \in SavesAt
      /\ mishaps' = IF run[p].stale THEN mishaps \cup {"lost update"} ELSE mishaps
  BY DEF Save
<1> HIDE DEF s
<1>4. /\ run'[p] = s /\ \A o \in Procs \ {p} : Beside(o)
      /\ \A o \in Procs \ {p} : run'[o].at \in SavesAt => run'[o].stale
  BY <1>1, <1>3, SavesFacts DEF SavesAt
<1>5. Ledger'
  <2>1. Unique(run[p].copy) /\ Unique(<<>>) BY DEF Books, Ledger, Unique
  <2>2. mishaps' \subseteq Mishaps /\ faults' \in 0..MaxFaults BY <1>3 DEF Books, Ledger, Mishaps
  <2>3. s.at \in Places BY <1>1 DEF Places, Holding
  <2> QED BY <1>1, <1>3, <1>4, <2>1, <2>2, <2>3, LedgerKept DEF Books
<1>6. Landings'
  <2>1. mishaps \subseteq mishaps' /\ run'[p].at # "end" /\ run'[p].copy = <<>> BY <1>1, <1>3, <1>4
  <2> QED BY <1>3, <1>4, <2>1, LandingsKept DEF Books
<1>7. ASSUME Unmarked', NEW o \in Procs PROVE Claims(o)'
  <2>1. Unmarked /\ ~run[p].stale BY <1>3, <1>7 DEF Unmarked, Clear, Undisturbed
  <2>2. Fresh(p) /\ Undisturbed /\ Claims(o) /\ Ledger
    BY <2>1 DEF Books, ClaimsHold, Unmarked, Clear, Undisturbed, Unmixed, Unlost
  <2> SUFFICES ASSUME run'[o].at \in {"reading", "again"} PROVE Claims(o)' BY DEF Claims
  <2>3. CASE o = p
    <3>1. run[p].at = "claiming" /\ run'[p].url = run[p].url /\ run'[p].file = run[p].file
      BY <1>1, <1>2, <1>4, <2>3
    <3>2. records' = Updated(records, run[p].url, run[p].file, "downloading", p)
      BY <1>3, <2>1, <2>2, <3>1 DEF Fresh
    <3>3. run[p].url \in Urls /\ run[p].file \in Files /\ records \in Seq(Record) /\ Unique(records)
      BY <1>0, <2>2, <3>1 DEF RowOK, Holding, Inv, Shape, Ledger
    <3>4. "downloading" \in Statuses BY DEF Statuses
    <3>5. \E i \in DOMAIN records' :
              records'[i] = [url |-> run[p].url, file |-> run[p].file, status |-> "downloading", pid |-> p]
      BY <3>2, <3>3, <3>4, UpdatedFacts
    <3> QED BY <2>3, <3>1, <3>5 DEF Claims
  <2>4. CASE o # p
    <3>1. run[o].at \in {"reading", "again"} /\ run'[o].url = run[o].url /\ run'[o].file = run[o].file
      BY <1>4, <2>4, BesideFacts
    <3>2. PICK j \in DOMAIN records : /\ records[j].url = run[o].url /\ records[j].file = run[o].file
                                      /\ records[j].status = "downloading" /\ records[j].pid = o
      BY <2>2, <3>1 DEF Claims
    <3>3. \E k \in DOMAIN run[p].copy : run[p].copy[k] = records[j]
      BY <1>3, <2>1, <2>2, <2>4, <3>1, <3>2, ClaimsSaved DEF Readers
    <3> QED BY <1>3, <3>1, <3>2, <3>3 DEF Claims
  <2> QED BY <2>3, <2>4
<1>8. run'[p].at \notin SavesAt BY <1>1, <1>4 DEF SavesAt
<1>9. ClaimsHold' BY <1>4, <1>7, <1>8, ClaimsRekept
<1> QED BY <1>5, <1>6, <1>9 DEF Books

LEMMA SaveFailsBooks == ASSUME Inv, [Next]_vars, Books, NEW p \in Procs, SaveFails(p) PROVE Books'
<1> DEFINE s == AfterSave(p)
<1>1. s.copy = <<>> /\ s.at \in {"reading", "idle"} BY SavedRow
<1>2. Saves(p, s) /\ records' \in {records, <<>>} /\ UNCHANGED <<disk, serves, faults>>
      /\ mishaps' = mishaps \cup {"unsaved"}
  BY DEF SaveFails, Loaded
<1> HIDE DEF s
<1>3. run'[p] = s /\ \A o \in Procs \ {p} : Beside(o) BY <1>1, <1>2, SavesFacts DEF SavesAt
<1>4. Ledger'
  <2>1. mishaps' \subseteq Mishaps /\ faults' \in 0..MaxFaults BY <1>2 DEF Books, Ledger, Mishaps
  <2>2. Unique(records') /\ Unique(<<>>) BY <1>2 DEF Books, Ledger, Unique
  <2>3. s.at \in Places BY <1>1 DEF Places, Holding
  <2> QED BY <1>1, <1>3, <2>1, <2>2, <2>3, LedgerKept DEF Books
<1>5. Landings'
  <2>1. mishaps \subseteq mishaps' /\ run'[p].at # "end" /\ run'[p].copy = <<>> BY <1>1, <1>2, <1>3
  <2> QED BY <1>2, <1>3, <2>1, LandingsKept DEF Books
<1>6. ClaimsHold'
  <2>1. ~Unmarked' BY <1>2 DEF Unmarked, Clear
  <2> QED BY <2>1 DEF ClaimsHold
<1> QED BY <1>4, <1>5, <1>6 DEF Books

LEMMA KillInSaveBooks == ASSUME Inv, [Next]_vars, Books, NEW p \in Procs, KillInSave(p) PROVE Books'
<1>1. Saves(p, Idle) /\ records' = <<>> /\ UNCHANGED <<disk, serves, faults>>
      /\ mishaps' = mishaps \cup {"cut"}
  BY DEF KillInSave
<1>2. /\ run'[p] = Idle /\ \A o \in Procs \ {p} : Beside(o)
      /\ \A o \in Procs \ {p} : run'[o].at \in SavesAt => run'[o].stale
  BY <1>1, IdleFacts, SavesFacts
<1>3. Ledger'
  <2>1. mishaps' \subseteq Mishaps /\ faults' \in 0..MaxFaults BY <1>1 DEF Books, Ledger, Mishaps
  <2>2. Unique(records') BY <1>1 DEF Unique
  <2> QED BY <1>2, <2>1, <2>2, IdleFacts, LedgerKept DEF Books
<1>4. Landings'
  <2>1. mishaps \subseteq mishaps' /\ run'[p].at # "end" /\ run'[p].copy = <<>> BY <1>1, <1>2, IdleFacts
  <2> QED BY <1>1, <1>2, <2>1, LandingsKept DEF Books
<1>5. ClaimsHold'
  <2>1. ~Unmarked' BY <1>1 DEF Unmarked, Clear, Undisturbed
  <2> QED BY <2>1 DEF ClaimsHold
<1> QED BY <1>3, <1>4, <1>5 DEF Books

(* Stop and cancel: the transfer of the record they change is over, or is told.   *)
LEMMA StopPickBooks ==
    ASSUME Inv, [Next]_vars, Books, NEW q \in Procs, NEW ended, NEW list \in Loaded,
           StopPick(q, ended, list)
    PROVE  Books'
<1> PICK i : i = run[q].from OBVIOUS
<1> DEFINE c == Marked(list, i)
<1>0. RowOK(run[q]) /\ run[q].at = "choosing" /\ Unique(records)
      /\ list \in Seq(Record) /\ Unique(list)
  BY ListFacts DEF StopPick, Inv, Shape, Books, Ledger
<1>1. run'[q] = [run[q] EXCEPT !.at = "listing", !.copy = c] BY DEF StopPick
<1>2. run'[q].at = "listing" /\ run'[q].copy = c
  <2> HIDE DEF c
  <2> QED BY <1>0, <1>1 DEF RowOK, Fields
<1>3. \A o \in Procs \ {q} : run'[o] = IF o \in ended THEN Idle ELSE run[o] BY DEF StopPick
<1>4. \A o \in Procs \ {q} : Beside(o) BY <1>3 DEF Beside
<1>5. /\ UNCHANGED <<records, disk, faults>> /\ mishaps \cup StopSlips(q) \subseteq mishaps'
      /\ mishaps' \subseteq mishaps \cup StopSlips(q) \cup {"misread", "unkilled"}
      /\ "misread" \notin mishaps' => list = records
      /\ "unkilled" \notin mishaps' => ended = Victim(q)
  BY DEF StopPick, Misread
<1>6. /\ Unique(c) /\ DOMAIN c = DOMAIN list
      /\ \A k \in DOMAIN c : SameKey(c[k], list[k])
                             /\ (c[k].status = "completed" => list[k].status = "completed")
  BY <1>0, MarkedFacts
<1> HIDE DEF c
<1>7. Ledger'
  <2>1. mishaps' \subseteq Mishaps BY <1>5 DEF Books, Ledger, Mishaps, StopSlips
  <2> QED BY <1>0, <1>2, <1>4, <1>5, <1>6, <2>1, LedgerKept DEF Books, Ledger, Places, SavesAt
<1>8. Landings'
  <2>1. ASSUME Unlost' PROVE Done(run[q].copy)'
    <3>1. Done(list) BY <1>5, <2>1, ListFacts DEF Books, Landings, Clear, Unlost
    <3> QED BY <1>2, <1>5, <1>6, <3>1 DEF Done, SameKey
  <2>2. records' \in {<<>>, records, run[q].copy} /\ mishaps \subseteq mishaps' /\ run'[q].at # "end"
    BY <1>2, <1>5
  <2> QED BY <1>4, <2>1, <2>2, LandingsKept DEF Books
<1>9. ASSUME Unmarked' PROVE Fresh(q)'
  <2>0. list = records /\ ended = Victim(q) BY <1>5, <1>9 DEF Unmarked, Clear
  <2>1. Unmarked BY <1>5, <1>9 DEF Unmarked, Clear, Undisturbed
  <2>2. i \in DOMAIN records /\ records[i].pid = run[q].pid
    BY <1>5, <1>9 DEF Unmarked, Clear, Undisturbed, StopSlips, IndexOf
  <2>3. NoReader(records[i].url, records[i].file)'
    <3> SUFFICES ASSUME NEW o \in Readers',
                        run'[o].url = records[i].url, run'[o].file = records[i].file PROVE FALSE
      BY <1>5 DEF NoReader
    <3>1. o \in Procs \ {q} /\ run'[o].at \in {"reading", "again"} BY <1>2 DEF Readers
    <3>2. o \notin Victim(q) /\ run'[o] = run[o] BY <1>3, <2>0, <3>1, IdleFacts
    <3>3. PICK j \in DOMAIN records : /\ records[j].url = run[o].url /\ records[j].file = run[o].file
                                      /\ records[j].pid = o
      BY <2>1, <3>1, <3>2 DEF Books, ClaimsHold, Claims
    <3>4. j = i BY <1>0, <2>2, <3>2, <3>3 DEF Unique, SameKey
    <3> QED BY <2>2, <3>1, <3>2, <3>3, <3>4, NoneAssumption DEF Victim
  <2>4. Relist(q)' BY <1>2, <1>5, <2>0, <2>2, <2>3 DEF Relist, c
  <2> QED BY <1>2, <2>4 DEF Fresh
<1>10. ClaimsHold'
  <2>1. mishaps \subseteq mishaps' /\ records' = records BY <1>5
  <2> QED BY <1>2, <1>4, <1>9, <2>1, ClaimsKept DEF Books
<1> QED BY <1>7, <1>8, <1>10 DEF Books

LEMMA CancelBooks ==
    ASSUME Inv, [Next]_vars, Books, NEW q \in Procs, NEW i \in DOMAIN records, Cancel(q, i) PROVE Books'
<1> DEFINE f == records[i].file  c == Removed(records, i)  s == [Idle EXCEPT !.at = "listing", !.copy = c]
<1>0. records \in Seq(Record) /\ Unique(records) /\ DOMAIN run = Procs /\ run[q].at = "idle"
  BY DEF Cancel, Inv, Shape, Books, Ledger
<1>1. s.at = "listing" /\ s.copy = c
  <2> HIDE DEF c
  <2> QED BY DEF Idle
<1>2. Cleans(Part(f), q, s) /\ UNCHANGED <<records, faults>>
      /\ mishaps' = mishaps \cup Takes(f) \cup (IF OthersOn(q, f) = {} THEN {} ELSE {"removed"})
  BY DEF Cancel
<1>3. run'[q].at = "listing" /\ run'[q].copy = c BY <1>0, <1>1, <1>2 DEF Cleans, Unlinks, Goes
<1>4. ASSUME NEW o \in Procs \ {q} PROVE Beside(o)
  <2>1. RowOK(run[o]) BY DEF Inv, Shape
  <2>2. run'[o] \in {run[o], [run[o] EXCEPT !.out = None]} BY <1>0, <1>2, <1>4 DEF Cleans, Unlinks, Goes
  <2> QED BY <2>1, <2>2 DEF Beside, RowOK, Fields
<1> HIDE DEF s
<1>5. Unique(c) /\ \A k \in DOMAIN c : \E j \in DOMAIN records : c[k] = records[j]
  BY <1>0, RemovedFacts
<1> HIDE DEF c
<1>6. Ledger'
  <2>1. mishaps' \subseteq Mishaps BY <1>2 DEF Books, Ledger, Takes, Mishaps
  <2> QED BY <1>0, <1>2, <1>3, <1>4, <1>5, <2>1, LedgerKept DEF Books, Ledger, Places, SavesAt
<1>7. Landings'
  <2>1. ASSUME Unlost' PROVE Done(run[q].copy)'
    <3>1. Done(records) BY <1>2, <2>1 DEF Books, Landings, Clear, Undisturbed, Unmixed, Unlost
    <3>2. \A j \in DOMAIN records : records[j].file \in Files BY <1>0, RowFacts
    <3>3. \A g \in Files : disk[Dest(g)] # Absent => disk'[Dest(g)] # Absent BY <2>1, FilesRemain
    <3>4. \A j \in DOMAIN records : records[j].status = "completed"
                                    => disk'[Dest(records[j].file)] # Absent
      BY <3>1, <3>2, <3>3 DEF Done
    <3> QED BY <1>3, <1>5, <3>4 DEF Done
  <2>2. records' \in {<<>>, records, run[q].copy} /\ mishaps \subseteq mishaps' /\ run'[q].at # "end"
    BY <1>2, <1>3
  <2> QED BY <1>4, <2>1, <2>2, LandingsKept DEF Books
<1>8. ASSUME Unmarked' PROVE Fresh(q)'
  <2>1. OthersOn(q, f) = {} BY <1>2, <1>8 DEF Unmarked, Clear, Undisturbed
  <2>2. NoReader(records[i].url, f)'
    <3> SUFFICES ASSUME NEW o \in Readers', run'[o].file = f PROVE FALSE BY <1>2 DEF NoReader
    <3>1. o \in Procs \ {q} /\ run[o].at \in {"reading", "again"} /\ run[o].file = f
      BY <1>3, <1>4, BesideFacts DEF Readers
    <3>2. o \in OthersOn(q, f) BY <3>1 DEF OthersOn, Holding
    <3> QED BY <2>1, <3>2
  <2>3. Relist(q)' BY <1>2, <1>3, <2>2 DEF Relist, c
  <2> QED BY <1>3, <2>3 DEF Fresh
<1>9. ClaimsHold'
  <2>1. mishaps \subseteq mishaps' /\ records' = records BY <1>2
  <2> QED BY <1>3, <1>4, <1>8, <2>1, ClaimsKept DEF Books
<1> QED BY <1>6, <1>7, <1>9 DEF Books

LEMMA NextBooks == ASSUME Inv, [Next]_vars, Books PROVE Books'
<1>1. ASSUME NEW p \in Procs,
             \/ \E job \in Jobs, resume \in BOOLEAN : Start(p, job[1], job[2], resume)
             \/ Refused(p) \/ AnsweredRest(p) \/ AnsweredWhole(p) \/ PartGone(p)
             \/ Receive(p) \/ TransferFails(p)
             \/ Finalize(p) \/ FinalizeFails(p) \/ Again(p) \/ AgainFails(p) \/ Kill(p)
             \/ \E i \in DOMAIN records : StopList(p, i)
      PROVE  Books'
  <2>1. /\ Plain(p) /\ \A o \in Procs \ {p} : Beside(o)
        /\ mishaps \subseteq mishaps' /\ mishaps' \subseteq Mishaps /\ faults' \in 0..MaxFaults
    BY <1>1, PlainSteps DEF Books
  <2> QED BY <2>1, PlainKept
<1>2. ASSUME NEW p \in Procs, Save(p) \/ SaveFails(p) \/ KillInSave(p) PROVE Books'
  BY <1>2, SaveBooks, SaveFailsBooks, KillInSaveBooks
<1>6. ASSUME NEW p \in Procs, NEW list \in Loaded, Claim(p, list) \/ End(p, list) PROVE Books'
  BY <1>6, ClaimBooks, EndBooks
<1>7. ASSUME NEW p \in Procs, NEW ended \in {Victim(p), {}}, NEW list \in Loaded,
             StopPick(p, ended, list)
      PROVE  Books' BY <1>7, StopPickBooks
<1>3. ASSUME NEW p \in Procs, NEW i \in DOMAIN records, Cancel(p, i) PROVE Books' BY <1>3, CancelBooks
<1>4. CASE UNCHANGED <<records, disk, run, faults, mishaps>>
  <2>1. Ledger' BY <1>4 DEF Books, Ledger
  <2>2. Landings' BY <1>4 DEF Books, Landings, Landed, Done, Clear, Undisturbed, Unmixed, Unlost
  <2>3. ClaimsHold'
    <3>1. \A u, f : NoReader(u, f) => NoReader(u, f)' BY <1>4 DEF NoReader, Readers
    <3>2. \A p \in Procs : Relist(p) => Relist(p)' BY <1>4, <3>1 DEF Relist
    <3>3. \A p \in Procs : Fresh(p) => Fresh(p)' BY <1>4, <3>1, <3>2 DEF Fresh
    <3>4. \A p \in Procs : Claims(p) => Claims(p)' BY <1>4 DEF Claims
    <3> QED BY <1>4, <3>3, <3>4 DEF Books, ClaimsHold, Unmarked, Clear, Undisturbed, Unmixed, Unlost
  <2> QED BY <2>1, <2>2, <2>3 DEF Books
<1>5. ASSUME NEW u \in Urls, Publish(u) PROVE Books' BY <1>4, <1>5 DEF Publish
<1> QED BY <1>1, <1>2, <1>3, <1>4, <1>5, <1>6, <1>7 DEF Next, vars

LEMMA InitBooks == ASSUME Init PROVE Books
<1>1. \A p \in Procs : run[p] = Idle BY DEF Init
<1>2. Ledger BY <1>1, IdleFacts, BoundsAssumption DEF Init, Ledger, Unique
<1>3. Landings BY <1>1, IdleFacts DEF Init, Landings, Landed, Done
<1>4. ClaimsHold BY <1>1, IdleFacts DEF ClaimsHold, Claims, Fresh, SavesAt
<1> QED BY <1>2, <1>3, <1>4 DEF Books

LEMMA SpecBooks == Spec => [](Inv /\ Books)
<1>1. Init => Inv /\ Books BY InitInv, InitBooks
<1>2. Inv /\ Books /\ [Next]_vars => (Inv /\ Books)' BY NextInv, NextBooks
<1> QED BY <1>1, <1>2, PTL DEF Spec

(* The record list, which every process overwrites with its own copy, is a list  *)
(* of records with one record a transfer; as far as the mishaps named in the    *)
(* model stay out, a running transfer is marked so with its pid, and what is     *)
(* marked completed is there (downloader.rs:71-107).                         *)
THEOREM RecordsAgree == Spec => []Consistent
<1>1. Inv /\ Books => TypeOK
  <2> SUFFICES ASSUME Inv, Books PROVE TypeOK OBVIOUS
  <2>1. IsList(records) /\ \A p \in Procs : IsList(run[p].copy)
    BY RowFacts DEF Inv, Shape, RowOK, IsList
  <2>2. DOMAIN disk = Spots BY DEF Inv, Shape
  <2>3. ASSUME NEW x \in DOMAIN disk, disk[x] # Absent, NEW k \in DOMAIN disk[x]
        PROVE  disk[x][k] \in Block \cup {Hole}
    <3>1. disk[x] \in Seq(Block \cup {Hole}) BY <2>2, <2>3 DEF Inv, Shape, Text
    <3> QED BY <2>3, <3>1
  <2>4. \A p \in Procs : run[p].at \in Places /\ run[p].out \in DOMAIN disk \cup {None}
                         /\ (run[p].out # None => disk[run[p].out] # Absent)
    BY <2>2, AbsentIsNoText DEF Inv, Shape, RowOK, Handles, Books, Ledger
  <2>5. serves \in [Urls -> 1..MaxVersions] BY DEF Inv, Shape, Versions
  <2> QED BY <2>1, <2>3, <2>4, <2>5 DEF TypeOK, Books, Ledger
<1>2. Books => OneRecord BY DEF Books, Ledger, Unique, SameKey, OneRecord
<1>3. Books => Claimed
  BY DEF Books, ClaimsHold, Claims, Claimed, IndexOf
<1>4. Books => CompletedThere BY DEF Books, Landings, Done, CompletedThere
<1> QED BY <1>1, <1>2, <1>3, <1>4, SpecBooks, PTL DEF Consistent

(* No transfer goes on that is marked stopped, as far as the mishaps stay out     *)
(* (downloader.rs:433-449).                                                  *)
THEOREM StoppedEnds == Spec => []StoppedStays
<1>1. Books => StoppedStays
  <2> SUFFICES ASSUME Books, Unmarked, NEW i \in DOMAIN records, records[i].status = "stopped",
                      NEW p \in Procs, OnIt(p, records[i]), run[p].at = "reading"
               PROVE  FALSE
    BY DEF StoppedStays
  <2>1. PICK j \in DOMAIN records : /\ records[j].url = run[p].url /\ records[j].file = run[p].file
                                    /\ records[j].status = "downloading"
    BY DEF Books, ClaimsHold, Claims
  <2>2. i = j BY <2>1 DEF OnIt, Books, Ledger, Unique, SameKey
  <2> QED BY <2>1, <2>2
<1> QED BY <1>1, SpecBooks, PTL
===============================================================================
