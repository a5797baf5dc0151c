------------------------- MODULE EditorBuffersProofs -------------------------
(***************************************************************************)
(* The editor's buffers, for any number of files and tabs, any undo depth   *)
(* and any number of edits and failing writes.                             *)
(*                                                                         *)
(* The invariant (IInv) is that the live buffer and its tabs fit together as *)
(* long as no mishap happened: if there are tabs at all then the active one  *)
(* is the live buffer's (Placed), every file is in one tab only (Distinct),  *)
(* and buffers, files and snapshots hold texts of their own file (Own,      *)
(* OwnFiles, OwnSnaps).  None of these is inductive without the others: a    *)
(* switch stores the live buffer in the active tab, which is that buffer's   *)
(* place only by Placed, and closing all tabs writes each file from its last *)
(* tab, which is the only one by Distinct.                                 *)
(* The rows of an editor are what its tabs really hold, the live buffer      *)
(* included; most steps move rows about and lose none.                     *)
(***************************************************************************)
EXTENDS EditorBuffers, SequenceTheorems, WellFoundedInduction, TLAPS

-------------------------------------------------------------------------------
(* Types, texts and sequences                                              *)
FileMap == [Paths -> Text \cup {Absent}]
SnapMap == [Paths -> Text \cup {None}]
Count == 0..(SnapEvery - 1)

LEMMA Marks == /\ Absent \notin Text /\ None \notin Text
               /\ SnapEvery \in Nat \ {0} /\ MaxTabs \in Nat \ {0} /\ UndoDepth \in Nat \ {0}
               /\ MaxTexts \in Nat /\ MaxFaults \in Nat
               /\ Scratch \in Paths /\ Worked \subseteq Paths /\ Files \subseteq Paths
BY MarkAssumption, SizeAssumption, WorkedAssumption DEF Text, Paths

(* Every text made for a file remembers that file.                          *)
LEMMA Texts == /\ \A p \in Paths : /\ Blank(p) \in Text /\ Blank(p).of = p
                                 /\ Original(p) \in Text /\ Original(p).of = p
               /\ texts \in Nat => \A p \in Paths : NewText(p) \in Text /\ NewText(p).of = p
BY DEF Blank, Original, NewText, Text

LEMMA BufferFields ==
    ASSUME NEW b \in Buffer
    PROVE  /\ b.path \in Paths /\ b.text \in Text /\ b.dirty \in BOOLEAN
           /\ b.undo \in Seq(Text) /\ b.redo \in Seq(Text) /\ b.count \in Count
BY DEF Buffer, Count

LEMMA EditorFields ==
    ASSUME NEW e \in Editor
    PROVE  /\ e.buf \in Buffer /\ e.tabs \in Seq(Buffer) /\ e.active \in Nat
           /\ e.guard \in Guards /\ e.agrees \in BOOLEAN
           /\ Len(e.tabs) \in Nat /\ DOMAIN e.tabs = 1..Len(e.tabs)
           /\ \A i \in DOMAIN e.tabs : e.tabs[i] \in Buffer
<1>1. e.tabs \in Seq(Buffer) BY DEF Editor
<1>2. /\ Len(e.tabs) \in Nat /\ DOMAIN e.tabs = 1..Len(e.tabs)
      /\ \A i \in DOMAIN e.tabs : e.tabs[i] \in Buffer
  BY <1>1, LenProperties, ElementOfSeq
<1> QED BY <1>1, <1>2 DEF Editor

LEMMA FreshType ==
    ASSUME NEW p \in Paths, NEW t \in Text, NEW c \in Count
    PROVE  /\ Fresh(p, t, c) \in Buffer
           /\ Fresh(p, t, c).path = p /\ Fresh(p, t, c).text = t /\ ~Fresh(p, t, c).dirty
           /\ Fresh(p, t, c).undo = <<>> /\ Fresh(p, t, c).redo = <<>>
BY DEF Fresh, Buffer, Count

(* The copy left in the active tab names the live buffer's file and holds   *)
(* no text of another one.                                                  *)
LEMMA StaleType ==
    ASSUME NEW p \in Paths
    PROVE  Stale(p) \in Buffer /\ Stale(p).path = p /\ OwnTexts(Stale(p)) /\ ~Stale(p).dirty
<1>1. 0 \in Count BY Marks DEF Count
<1>2. /\ Fresh(p, Blank(p), 0).text = Blank(p) /\ Fresh(p, Blank(p), 0).path = p
      /\ Fresh(p, Blank(p), 0).undo = <<>> /\ Fresh(p, Blank(p), 0).redo = <<>>
      /\ Fresh(p, Blank(p), 0) \in Buffer
      /\ ~Fresh(p, Blank(p), 0).dirty
  BY <1>1, Texts, FreshType
<1>3. ToSet(Stale(p).undo) = {} /\ ToSet(Stale(p).redo) = {} BY <1>2 DEF Stale, ToSet
<1> QED BY <1>2, <1>3, Texts DEF Stale, OwnTexts, TextsOf

(* A buffer just loaded holds only the text it was loaded with.             *)
LEMMA FreshOwn ==
    ASSUME NEW p \in Paths, NEW t \in Text, NEW c \in Count, t.of = p
    PROVE  OwnTexts(Fresh(p, t, c))
<1>1. ToSet(Fresh(p, t, c).undo) = {} /\ ToSet(Fresh(p, t, c).redo) = {}
  BY FreshType DEF ToSet
<1> QED BY <1>1, FreshType DEF OwnTexts, TextsOf

(* What a load gets is a text, also of a file that is not there.            *)
LEMMA OnDiskType ==
    ASSUME NEW d \in FileMap, NEW p \in Paths
    PROVE  OnDisk(d, p) \in Text /\ (d[p] # Absent => d[p] \in Text)
BY Texts DEF FileMap, OnDisk

(* A sequence without its i-th element: the later ones move down by one.    *)
LEMMA RemovedAt ==
    ASSUME NEW S, NEW s \in Seq(S), NEW i \in 1..Len(s)
    PROVE  /\ RemoveAt(s, i) \in Seq(S)
           /\ Len(RemoveAt(s, i)) = Len(s) - 1 /\ DOMAIN RemoveAt(s, i) = 1..(Len(s) - 1)
           /\ \A j \in 1..(Len(s) - 1) : RemoveAt(s, i)[j] = IF j < i THEN s[j] ELSE s[j + 1]
<1> DEFINE a == SubSeq(s, 1, i - 1)
           b == SubSeq(s, i + 1, Len(s))
<1>0. Len(s) \in Nat /\ \A k \in 1..Len(s) : s[k] \in S BY LenProperties, ElementOfSeq
<1>1. a \in Seq(S) /\ Len(a) = i - 1 /\ \A j \in 1..(i - 1) : a[j] = s[j]
  <2>1. 1 \in Int /\ i - 1 \in Int /\ \A k \in 1..(i - 1) : s[k] \in S BY <1>0
  <2>2. /\ a \in Seq(S) /\ Len(a) = IF 1 <= i - 1 THEN i - 1 - 1 + 1 ELSE 0
        /\ \A j \in 1..(i - 1 - 1 + 1) : a[j] = s[1 + j - 1]
    BY <2>1, SubSeqProperties
  <2> QED BY <2>2, <1>0
<1>2. b \in Seq(S) /\ Len(b) = Len(s) - i /\ \A j \in 1..(Len(s) - i) : b[j] = s[i + j]
  <2>1. i + 1 \in Int /\ Len(s) \in Int /\ \A k \in (i + 1)..Len(s) : s[k] \in S BY <1>0
  <2>2. /\ b \in Seq(S) /\ Len(b) = IF i + 1 <= Len(s) THEN Len(s) - (i + 1) + 1 ELSE 0
        /\ \A j \in 1..(Len(s) - (i + 1) + 1) : b[j] = s[(i + 1) + j - 1]
    BY <2>1, SubSeqProperties
  <2> QED BY <2>2, <1>0
<1> HIDE DEF a, b
<1>3. /\ a \o b \in Seq(S) /\ Len(a \o b) = Len(a) + Len(b)
      /\ \A k \in 1..(Len(a) + Len(b)) : (a \o b)[k] = IF k <= Len(a) THEN a[k] ELSE b[k - Len(a)]
  BY <1>1, <1>2, ConcatProperties
<1>4. Len(a \o b) = Len(s) - 1 BY <1>0, <1>1, <1>2, <1>3
<1>5. ASSUME NEW j \in 1..(Len(s) - 1) PROVE (a \o b)[j] = IF j < i THEN s[j] ELSE s[j + 1]
  <2>1. CASE j < i BY <2>1, <1>0, <1>1, <1>2, <1>3
  <2>2. CASE j >= i
    <3>1. (a \o b)[j] = b[j - (i - 1)] BY <2>2, <1>0, <1>1, <1>2, <1>3
    <3>2. j - (i - 1) \in 1..(Len(s) - i) /\ i + (j - (i - 1)) = j + 1 BY <2>2, <1>0
    <3>3. b[j - (i - 1)] = s[i + (j - (i - 1))] BY <3>2, <1>2
    <3> QED BY <2>2, <3>1, <3>2, <3>3
  <2>3. j < i \/ j >= i BY <1>0
  <2> HIDE DEF a, b
  <2> QED BY <2>1, <2>2, <2>3
<1>6. RemoveAt(s, i) = a \o b BY DEF RemoveAt, a, b
<1>7. DOMAIN (a \o b) = 1..Len(a \o b) BY <1>3, LenProperties
<1> QED BY <1>3, <1>4, <1>5, <1>6, <1>7

(* The last number of a set of positions.                                  *)
LEMMA MaxPosition ==
    ASSUME NEW n \in Nat, NEW S \in SUBSET (1..n), S # {}
    PROVE  Max(S) \in S /\ \A k \in S : k <= Max(S)
<1> DEFINE D == {n - k : k \in S}
<1>1. D \in SUBSET Nat /\ D # {}
  <2>1. \A k \in S : k \in 1..n OBVIOUS
  <2>2. \A k \in S : n - k \in Nat BY <2>1
  <2> QED BY <2>2
<1>2. PICK low \in D : \A other \in D : <<other, low>> \notin OpToRel(<, Nat)
  BY <1>1, NatLessThanWellFounded, WFMin
<1>3. PICK top \in S : low = n - top OBVIOUS
<1>4. \A k \in S : k <= top
  <2> TAKE k \in S
  <2>1. n - k \in D /\ n - k \in Nat /\ low \in Nat BY <1>1
  <2>2. ~(n - k < low) BY <1>2, <2>1 DEF OpToRel
  <2> QED BY <2>2, <1>3
<1>5. \E x \in S : \A y \in S : x >= y BY <1>3, <1>4
<1>6. Max(S) \in S /\ \A y \in S : Max(S) >= y BY <1>5 DEF Max
<1> QED BY <1>6

(* Undo and redo take the last text of a stack and leave the others.        *)
LEMMA LastFront ==
    ASSUME NEW S, NEW s \in Seq(S), s # <<>>
    PROVE  /\ Last(s) \in S /\ Front(s) \in Seq(S)
           /\ Last(s) \in ToSet(s) /\ ToSet(Front(s)) \subseteq ToSet(s)
<1>1. Len(s) \in Nat \ {0} /\ \A k \in 1..Len(s) : s[k] \in S BY EmptySeq, ElementOfSeq
<1>2. DOMAIN s = 1..Len(s) BY LenProperties
<1>3. /\ Front(s) \in Seq(S) /\ Len(Front(s)) = Len(s) - 1
      /\ \A j \in 1..(Len(s) - 1) : Front(s)[j] = s[j]
  <2>1. 1 \in Int /\ Len(s) - 1 \in Int /\ \A k \in 1..(Len(s) - 1) : s[k] \in S BY <1>1
  <2>2. /\ Front(s) \in Seq(S)
        /\ Len(Front(s)) = IF 1 <= Len(s) - 1 THEN Len(s) - 1 - 1 + 1 ELSE 0
        /\ \A j \in 1..(Len(s) - 1 - 1 + 1) : Front(s)[j] = s[1 + j - 1]
    BY <2>1, SubSeqProperties DEF Front
  <2>3. Len(s) - 1 - 1 + 1 = Len(s) - 1 /\ \A j \in 1..(Len(s) - 1) : 1 + j - 1 = j BY <1>1
  <2>4. \A n \in Nat \ {0} : (IF 1 <= n - 1 THEN n - 1 - 1 + 1 ELSE 0) = n - 1 OBVIOUS
  <2>5. (IF 1 <= Len(s) - 1 THEN Len(s) - 1 - 1 + 1 ELSE 0) = Len(s) - 1 BY <1>1, <2>4
  <2> QED BY <2>2, <2>3, <2>5
<1>4. DOMAIN Front(s) = 1..(Len(s) - 1) BY <1>3, LenProperties
<1> QED BY <1>1, <1>2, <1>3, <1>4 DEF Last, ToSet

(* A new last element, and nothing else, comes in.                          *)
LEMMA Appended ==
    ASSUME NEW S, NEW s \in Seq(S), NEW x \in S
    PROVE  /\ Append(s, x) \in Seq(S) /\ Len(Append(s, x)) = Len(s) + 1
           /\ DOMAIN Append(s, x) = 1..(Len(s) + 1)
           /\ \A i \in 1..Len(s) : Append(s, x)[i] = s[i]
           /\ Append(s, x)[Len(s) + 1] = x
           /\ ToSet(Append(s, x)) = ToSet(s) \cup {x}
<1>1. /\ Append(s, x) \in Seq(S) /\ Len(Append(s, x)) = Len(s) + 1
      /\ \A i \in 1..Len(s) : Append(s, x)[i] = s[i] /\ Append(s, x)[Len(s) + 1] = x
      /\ Append(s, x)[Len(s) + 1] = x
  BY AppendProperties
<1>2. DOMAIN Append(s, x) = 1..(Len(s) + 1) /\ DOMAIN s = 1..Len(s) /\ Len(s) \in Nat
  BY <1>1, LenProperties
<1>3. 1..(Len(s) + 1) = 1..Len(s) \cup {Len(s) + 1} BY <1>2
<1> QED BY <1>1, <1>2, <1>3 DEF ToSet

(* The undo stack drops its oldest text at its limit, never the one just    *)
(* put in.                                                                  *)
LEMMA Trimmed ==
    ASSUME NEW s \in Seq(Text), NEW t \in Text
    PROVE  /\ Trim(Append(s, t)) \in Seq(Text)
           /\ t \in ToSet(Trim(Append(s, t)))
           /\ ToSet(Trim(Append(s, t))) \subseteq ToSet(s) \cup {t}
<1> DEFINE a == Append(s, t)
<1>1. a \in Seq(Text) /\ Len(a) = Len(s) + 1 /\ a[Len(s) + 1] = t /\ ToSet(a) = ToSet(s) \cup {t}
      /\ DOMAIN a = 1..Len(a) /\ Len(s) \in Nat
  BY Appended, LenProperties
<1> HIDE DEF a
<1>2. CASE Len(a) > UndoDepth
  <2>1. a # <<>> BY <1>1
  <2>2. /\ Tail(a) \in Seq(Text) /\ Len(Tail(a)) = Len(a) - 1
        /\ \A i \in 1..Len(Tail(a)) : Tail(a)[i] = a[i + 1]
    BY <1>1, <2>1, HeadTailProperties
  <2>3. DOMAIN Tail(a) = 1..Len(Tail(a)) BY <2>2, LenProperties
  <2>4. Len(s) \in 1..Len(Tail(a)) /\ Tail(a)[Len(s)] = t BY <1>1, <1>2, <2>2, Marks
  <2>5. \A i \in 1..Len(Tail(a)) : i + 1 \in DOMAIN a BY <1>1, <2>2
  <2>6. t \in ToSet(Tail(a)) /\ ToSet(Tail(a)) \subseteq ToSet(a) BY <2>2, <2>3, <2>4, <2>5 DEF ToSet
  <2> QED BY <1>1, <1>2, <2>2, <2>6 DEF Trim, a
<1>3. CASE ~(Len(a) > UndoDepth) BY <1>1, <1>3 DEF Trim, a
<1> QED BY <1>2, <1>3

-------------------------------------------------------------------------------
(* Rows, and switching between tabs                                        *)
(* What tab i holds: the tab of the live buffer is only a stale copy of it.  *)
Row(e, i) == IF i = e.active THEN e.buf ELSE e.tabs[i]
RowsOf(e) == {Row(e, i) : i \in DOMAIN e.tabs}

Placed(e) == e.tabs # <<>> => e.active \in DOMAIN e.tabs /\ e.tabs[e.active].path = e.buf.path
Distinct(e) == \A i, j \in DOMAIN e.tabs : e.tabs[i].path = e.tabs[j].path => i = j
Own(e) == OwnTexts(e.buf) /\ \A i \in DOMAIN e.tabs : OwnTexts(e.tabs[i])
Sound(e) == Placed(e) /\ Distinct(e) /\ Own(e)
OwnFiles(d) == \A p \in Paths : d[p] # Absent => d[p].of = p
OwnSnaps(r) == \A p \in Paths : r[p] \in Text => r[p].of = p

LiveEditor == {e \in Editor : e.active >= 1}

(* With the active tab in its place a row is of the file its tab names.     *)
LEMMA RowPaths ==
    ASSUME NEW e \in Editor, Placed(e), NEW i \in DOMAIN e.tabs
    PROVE  Row(e, i).path = e.tabs[i].path /\ (Own(e) => OwnTexts(Row(e, i)))
<1>1. e.tabs # <<>> BY EditorFields, EmptySeq
<1> QED BY <1>1 DEF Placed, Row, Own

(* save_active_tab fills the active tab: each tab then holds its row.       *)
LEMMA SaveActiveProps ==
    ASSUME NEW e \in LiveEditor
    PROVE  LET s == SaveActive(e) IN
           /\ s \in LiveEditor /\ s.buf = e.buf /\ s.active = e.active /\ s.guard = e.guard /\ s.agrees = e.agrees
           /\ Len(s.tabs) = Len(e.tabs) /\ DOMAIN s.tabs = DOMAIN e.tabs
           /\ \A i \in DOMAIN e.tabs : s.tabs[i] = Row(e, i) /\ Row(s, i) = Row(e, i)
<1> DEFINE s == SaveActive(e)
<1>0. /\ e \in Editor /\ e.tabs \in Seq(Buffer) /\ e.buf \in Buffer /\ DOMAIN e.tabs = 1..Len(e.tabs)
      /\ e.active \in Nat /\ e.active >= 1
  BY EditorFields DEF LiveEditor
<1>1. CASE e.active \in DOMAIN e.tabs
  <2> DEFINE q == [e.tabs EXCEPT ![e.active] = e.buf]
  <2>1. /\ q \in Seq(Buffer) /\ Len(q) = Len(e.tabs)
        /\ \A j \in 1..Len(e.tabs) : q[j] = IF j = e.active THEN e.buf ELSE e.tabs[j]
    BY <1>0, <1>1, ExceptSeq
  <2>2. DOMAIN q = DOMAIN e.tabs OBVIOUS
  <2>3. s = [e EXCEPT !.tabs = q] BY <1>0, <1>1 DEF SaveActive, Editor
  <2> HIDE DEF q
  <2>4. /\ s \in Editor /\ s.buf = e.buf /\ s.active = e.active /\ s.guard = e.guard
        /\ s.agrees = e.agrees /\ s.tabs = q
    BY <1>0, <2>1, <2>3 DEF Editor
  <2> HIDE DEF s
  <2> QED BY <1>0, <2>1, <2>2, <2>4 DEF Row, LiveEditor, s
<1>2. CASE e.active \notin DOMAIN e.tabs BY <1>0, <1>2 DEF SaveActive, Row
<1> QED BY <1>1, <1>2

(* It loses no row and puts nothing out of step.                            *)
LEMMA SaveActiveSound ==
    ASSUME NEW e \in LiveEditor
    PROVE  /\ RowsOf(SaveActive(e)) = RowsOf(e) /\ (Sound(e) => Sound(SaveActive(e)))
           /\ (Placed(e) => \A p : TabOf(SaveActive(e), p) = TabOf(e, p))
<1> DEFINE s == SaveActive(e)
<1>1. /\ s \in Editor /\ e \in Editor /\ s.buf = e.buf /\ s.active = e.active
      /\ DOMAIN s.tabs = DOMAIN e.tabs
      /\ \A i \in DOMAIN e.tabs : s.tabs[i] = Row(e, i) /\ Row(s, i) = Row(e, i)
      /\ s.tabs = <<>> <=> e.tabs = <<>>
  <2>1. s.tabs = <<>> <=> e.tabs = <<>> BY SaveActiveProps, EditorFields, EmptySeq DEF LiveEditor
  <2> QED BY <2>1, SaveActiveProps DEF LiveEditor
<1> HIDE DEF s
<1>2. RowsOf(s) = RowsOf(e) BY <1>1 DEF RowsOf
<1>3. ASSUME Placed(e) PROVE \A i \in DOMAIN e.tabs : s.tabs[i].path = e.tabs[i].path
  BY <1>1, <1>3, RowPaths
<1>4. ASSUME Sound(e) PROVE Sound(s)
  <2>1. \A i \in DOMAIN e.tabs : s.tabs[i].path = e.tabs[i].path /\ OwnTexts(s.tabs[i])
    BY <1>1, <1>4, RowPaths DEF Sound
  <2>2. Placed(s) BY <1>1, <1>4, <2>1 DEF Placed, Sound
  <2>3. Distinct(s) BY <1>1, <1>4, <2>1 DEF Distinct, Sound
  <2>4. Own(s) BY <1>1, <1>4, <2>1 DEF Own, Sound
  <2> QED BY <2>2, <2>3, <2>4 DEF Sound
<1>5. ASSUME Placed(e) PROVE \A p : TabOf(s, p) = TabOf(e, p)
  BY <1>1, <1>3, <1>5 DEF TabOf
<1> QED BY <1>2, <1>4, <1>5 DEF s

(* Tab i comes on the screen.                                              *)
LEMMA ShownProps ==
    ASSUME NEW e \in LiveEditor, NEW i \in Nat, i >= 1
    PROVE  LET f == Shown(e, i) IN
           /\ f \in LiveEditor /\ f.active = i /\ f.guard = e.guard /\ f.agrees = e.agrees
           /\ DOMAIN f.tabs = DOMAIN e.tabs /\ Len(f.tabs) = Len(e.tabs)
           /\ i \notin DOMAIN e.tabs => f.tabs = e.tabs /\ f.buf = e.buf
           /\ i \in DOMAIN e.tabs => /\ f.buf = e.tabs[i] /\ f.tabs[i] = Stale(e.tabs[i].path)
                                     /\ \A k \in DOMAIN e.tabs \ {i} : f.tabs[k] = e.tabs[k]
                                     /\ \A k \in DOMAIN e.tabs : Row(f, k) = e.tabs[k]
<1> DEFINE f == Shown(e, i)
<1>0. /\ e \in Editor /\ e.tabs \in Seq(Buffer) /\ e.buf \in Buffer /\ DOMAIN e.tabs = 1..Len(e.tabs)
      /\ \A k \in DOMAIN e.tabs : e.tabs[k] \in Buffer
  BY EditorFields DEF LiveEditor
<1>1. CASE i \in DOMAIN e.tabs
  <2> DEFINE q == [e.tabs EXCEPT ![i] = Stale(e.tabs[i].path)]
  <2>0. Stale(e.tabs[i].path) \in Buffer BY <1>0, <1>1, StaleType, BufferFields
  <2>1. /\ q \in Seq(Buffer) /\ Len(q) = Len(e.tabs)
        /\ \A j \in 1..Len(e.tabs) : q[j] = IF j = i THEN Stale(e.tabs[i].path) ELSE e.tabs[j]
    BY <1>0, <1>1, <2>0, ExceptSeq
  <2>2. DOMAIN q = DOMAIN e.tabs OBVIOUS
  <2>3. f = [e EXCEPT !.active = i, !.buf = e.tabs[i], !.tabs = q]
    BY <1>0, <1>1 DEF Shown, Editor
  <2> HIDE DEF q
  <2>4. /\ f \in Editor /\ f.buf = e.tabs[i] /\ f.active = i /\ f.guard = e.guard
        /\ f.agrees = e.agrees /\ f.tabs = q
    BY <1>0, <1>1, <2>1, <2>3 DEF Editor
  <2> HIDE DEF f
  <2> QED BY <1>0, <1>1, <2>1, <2>2, <2>4 DEF Row, LiveEditor, f
<1>2. CASE i \notin DOMAIN e.tabs BY <1>0, <1>2 DEF Shown, Editor, LiveEditor
<1> QED BY <1>1, <1>2

(* The tab that comes on the screen becomes the active one, of the live     *)
(* buffer's file.                                                           *)
LEMMA ShownSound ==
    ASSUME NEW e \in LiveEditor, NEW i \in DOMAIN e.tabs, i \in Nat, i >= 1, Distinct(e),
           \A k \in DOMAIN e.tabs : OwnTexts(e.tabs[k])
    PROVE  Sound(Shown(e, i)) /\ RowsOf(Shown(e, i)) = {e.tabs[k] : k \in DOMAIN e.tabs}
<1> DEFINE f == Shown(e, i)
<1>1. /\ f.active = i /\ DOMAIN f.tabs = DOMAIN e.tabs
      /\ f.buf = e.tabs[i] /\ f.tabs[i] = Stale(e.tabs[i].path)
      /\ \A k \in DOMAIN e.tabs \ {i} : f.tabs[k] = e.tabs[k]
      /\ \A k \in DOMAIN e.tabs : Row(f, k) = e.tabs[k]
  BY ShownProps
<1>2. e.tabs[i].path \in Paths BY EditorFields, BufferFields DEF LiveEditor
<1>3. f.tabs[i].path = e.tabs[i].path /\ OwnTexts(f.tabs[i]) BY <1>1, <1>2, StaleType
<1> HIDE DEF f
<1>4. Placed(f) BY <1>1, <1>3 DEF Placed
<1>5. \A k \in DOMAIN e.tabs : f.tabs[k].path = e.tabs[k].path /\ OwnTexts(f.tabs[k])
  BY <1>1, <1>3
<1>6. Distinct(f) BY <1>1, <1>5 DEF Distinct
<1>7. Own(f) BY <1>1, <1>5 DEF Own
<1>8. RowsOf(f) = {e.tabs[k] : k \in DOMAIN e.tabs} BY <1>1 DEF RowsOf
<1> QED BY <1>4, <1>6, <1>7, <1>8 DEF Sound, f

(* Changes of the guard or of the fingerprint.                             *)
LEMMA SameEditor ==
    ASSUME NEW e \in LiveEditor, NEW f \in LiveEditor, f.buf = e.buf, f.tabs = e.tabs, f.active = e.active
    PROVE  RowsOf(f) = RowsOf(e) /\ (Sound(e) => Sound(f)) /\ (Placed(e) => Placed(f))
           /\ \A p : TabOf(f, p) = TabOf(e, p)
BY DEF RowsOf, Row, Sound, Placed, Distinct, Own, TabOf

LEMMA GuardProps ==
    ASSUME NEW e \in LiveEditor, NEW g \in Guards
    PROVE  LET f == [e EXCEPT !.guard = g] IN
           /\ f \in LiveEditor /\ f.buf = e.buf /\ f.tabs = e.tabs /\ f.active = e.active
           /\ f.agrees = e.agrees
BY DEF LiveEditor, Editor

LEMMA AgreesProps ==
    ASSUME NEW e \in LiveEditor, NEW a \in BOOLEAN
    PROVE  LET f == [e EXCEPT !.agrees = a] IN
           /\ f \in LiveEditor /\ f.buf = e.buf /\ f.tabs = e.tabs /\ f.active = e.active
           /\ f.guard = e.guard
BY DEF LiveEditor, Editor

(* switch_tab, refused or not, keeps every row; it is refused only over     *)
(* unsaved text.                                                            *)
LEMMA SwitchTabProps ==
    ASSUME NEW e \in LiveEditor, NEW d, NEW i \in Nat
    PROVE  LET f == SwitchTab(e, d, i) IN
           /\ f \in LiveEditor /\ Len(f.tabs) = Len(e.tabs)
           /\ RowsOf(e) \subseteq RowsOf(f) /\ (Sound(e) => Sound(f))
           /\ i \in DOMAIN e.tabs /\ ~e.buf.dirty => f.active = i
           /\ ~e.buf.dirty /\ i \in DOMAIN e.tabs /\ i # e.active => f.buf = e.tabs[i]
<1> DEFINE f == SwitchTab(e, d, i)
           Goal(g) == /\ g \in LiveEditor /\ Len(g.tabs) = Len(e.tabs)
                      /\ RowsOf(e) \subseteq RowsOf(g) /\ (Sound(e) => Sound(g))
                      /\ i \in DOMAIN e.tabs /\ ~e.buf.dirty => g.active = i
                      /\ ~e.buf.dirty /\ i \in DOMAIN e.tabs /\ i # e.active => g.buf = e.tabs[i]
<1>0. e \in Editor /\ DOMAIN e.tabs = 1..Len(e.tabs) /\ e.guard \in Guards /\ e.agrees \in BOOLEAN
  BY EditorFields DEF LiveEditor
<1>1. ASSUME i = e.active \/ i \notin DOMAIN e.tabs PROVE Goal(f)
  <2>1. f = e BY <1>1 DEF SwitchTab
  <2> HIDE DEF f
  <2> QED BY <1>1, <2>1
<1>2. ASSUME ~(i = e.active \/ i \notin DOMAIN e.tabs), Blocked(e, <<"tab", i>>) PROVE Goal(f)
  <2>1. f = [e EXCEPT !.guard = <<"tab", i>>] BY <1>2 DEF SwitchTab
  <2>3. <<"tab", i>> \in Guards BY DEF Guards
  <2>5. e.buf.dirty BY <1>2 DEF Blocked
  <2> HIDE DEF f
  <2>4. f \in LiveEditor /\ f.tabs = e.tabs /\ f.buf = e.buf /\ f.active = e.active
    BY <2>1, <2>3, GuardProps
  <2>6. RowsOf(f) = RowsOf(e) /\ (Sound(e) => Sound(f)) BY <2>4, SameEditor
  <2> QED BY <2>4, <2>5, <2>6
<1>3. ASSUME ~(i = e.active \/ i \notin DOMAIN e.tabs), ~Blocked(e, <<"tab", i>>) PROVE Goal(f)
  <2> DEFINE s == SaveActive(e)
             t == Shown(s, i)
  <2>1. f = [t EXCEPT !.guard = NoGuard, !.agrees = TRUE] BY <1>3 DEF SwitchTab
  <2>2. /\ s \in LiveEditor /\ DOMAIN s.tabs = DOMAIN e.tabs /\ Len(s.tabs) = Len(e.tabs)
        /\ \A k \in DOMAIN e.tabs : s.tabs[k] = Row(e, k)
    BY SaveActiveProps
  <2>3. i \in DOMAIN s.tabs /\ i >= 1 BY <1>0, <1>3, <2>2
  <2>4. t \in LiveEditor /\ Len(t.tabs) = Len(e.tabs) /\ DOMAIN t.tabs = DOMAIN e.tabs
        /\ \A k \in DOMAIN e.tabs : Row(t, k) = Row(e, k)
        /\ t.active = i /\ t.buf = e.tabs[i]
    BY <1>3, <2>2, <2>3, ShownProps DEF Row
  <2>5. RowsOf(t) = RowsOf(e) BY <2>4 DEF RowsOf
  <2>6. ASSUME Sound(e) PROVE Sound(t)
    <3>1. Sound(s) BY <2>6, SaveActiveSound
    <3> HIDE DEF s
    <3> QED BY <2>2, <2>3, <3>1, ShownSound DEF Sound, Own
  <2>7. NoGuard \in Guards /\ TRUE \in BOOLEAN BY DEF NoGuard, Guards
  <2> HIDE DEF t, f
  <2>8. /\ f \in LiveEditor /\ f.tabs = t.tabs /\ f.buf = t.buf /\ f.active = t.active
    BY <2>1, <2>4, <2>7 DEF LiveEditor, Editor
  <2>9. RowsOf(f) = RowsOf(t) /\ (Sound(t) => Sound(f)) BY <2>4, <2>8, SameEditor
  <2> QED BY <2>4, <2>5, <2>6, <2>8, <2>9
<1>4. Goal(f) BY <1>1, <1>2, <1>3
<1> QED BY <1>4

-------------------------------------------------------------------------------
(* Opening a file                                                          *)
LEMMA LoadedProps ==
    ASSUME NEW e \in LiveEditor, NEW d \in FileMap, NEW p \in Paths
    PROVE  LET f == Loaded(e, d, p) IN
           /\ f \in LiveEditor /\ f.tabs = e.tabs /\ f.active = e.active
           /\ f.buf = Fresh(p, OnDisk(d, p), e.buf.count) /\ f.buf.path = p
           /\ OwnFiles(d) => OwnTexts(f.buf)
<1> DEFINE b == Fresh(p, OnDisk(d, p), e.buf.count)
           g == IF p = e.buf.path THEN e.guard ELSE NoGuard
           f == Loaded(e, d, p)
<1>0. e \in Editor /\ e.buf \in Buffer /\ e.guard \in Guards /\ e.buf.count \in Count
  BY EditorFields, BufferFields DEF LiveEditor
<1>1. b \in Buffer /\ b.path = p BY <1>0, OnDiskType, FreshType
<1>2. g \in Guards BY <1>0 DEF NoGuard, Guards
<1>3. f = [e EXCEPT !.buf = b, !.guard = g, !.agrees = TRUE] BY <1>0 DEF Loaded, Editor
<1>4. OwnFiles(d) => OwnTexts(b)
  <2>1. OwnFiles(d) => OnDisk(d, p).of = p BY Texts DEF OwnFiles, OnDisk
  <2> QED BY <2>1, <1>0, OnDiskType, FreshOwn
<1> HIDE DEF b, g
<1>5. f \in LiveEditor /\ f.tabs = e.tabs /\ f.active = e.active /\ f.buf = b
  BY <1>0, <1>1, <1>2, <1>3 DEF LiveEditor, Editor
<1> HIDE DEF f
<1> QED BY <1>1, <1>4, <1>5 DEF f, b

(* push_tab adds a tab for the live buffer unless the tab bar is full.      *)
LEMMA PushedProps ==
    ASSUME NEW e \in LiveEditor
    PROVE  LET f == Pushed(e) IN
           /\ f \in LiveEditor /\ f.buf = e.buf
           /\ Len(e.tabs) >= MaxTabs => f.tabs = e.tabs /\ f.active = e.active
           /\ Len(e.tabs) < MaxTabs =>
              f.tabs = Append(e.tabs, Stale(e.buf.path)) /\ f.active = Len(e.tabs) + 1
<1> DEFINE f == Pushed(e)
           q == Append(e.tabs, Stale(e.buf.path))
<1>0. /\ e \in Editor /\ e.tabs \in Seq(Buffer) /\ e.buf.path \in Paths /\ Len(e.tabs) \in Nat
      /\ MaxTabs \in Nat
  BY EditorFields, BufferFields, Marks DEF LiveEditor
<1>1. q \in Seq(Buffer) BY <1>0, StaleType, Appended
<1>2. CASE Len(e.tabs) >= MaxTabs BY <1>0, <1>2 DEF Pushed
<1>3. CASE Len(e.tabs) < MaxTabs
  <2>1. f = [e EXCEPT !.tabs = q, !.active = Len(e.tabs) + 1] BY <1>0, <1>3 DEF Pushed, Editor
  <2> DEFINE n == Len(e.tabs) + 1
  <2>3. n \in Nat /\ n >= 1 BY <1>0
  <2> HIDE DEF q, n
  <2>2. f \in LiveEditor /\ f.tabs = q /\ f.active = n /\ f.buf = e.buf
    BY <1>0, <1>1, <2>1, <2>3 DEF LiveEditor, Editor, n
  <2> HIDE DEF f
  <2> QED BY <1>0, <1>3, <2>2 DEF f, q, n
<1> QED BY <1>0, <1>2, <1>3

(* A file without a tab is loaded into the live buffer and gets a new tab.   *)
LEMMA OpenNew ==
    ASSUME NEW e \in LiveEditor, NEW d \in FileMap, NEW p \in Paths,
           TabOf(e, p) = {}, ~e.buf.dirty \/ ~(e.buf.path # p /\ Blocked(e, <<"open", p>>))
    PROVE  LET f == OpenFile(e, d, p) IN
           /\ f \in LiveEditor /\ f.buf = Fresh(p, OnDisk(d, p), e.buf.count) /\ f.buf.path = p
           /\ Len(e.tabs) >= MaxTabs =>
              f.tabs = SaveActive(e).tabs /\ f.active = e.active /\ Len(f.tabs) = Len(e.tabs)
           /\ Len(e.tabs) < MaxTabs =>
              /\ f.tabs = Append(SaveActive(e).tabs, Stale(p)) /\ f.active = Len(e.tabs) + 1
              /\ Len(f.tabs) = Len(e.tabs) + 1
           /\ OwnFiles(d) => OwnTexts(f.buf)
<1> DEFINE s == SaveActive(e)
           l == Loaded(s, d, p)
           f == OpenFile(e, d, p)
<1>1. /\ s \in LiveEditor /\ s.buf = e.buf /\ s.active = e.active /\ Len(s.tabs) = Len(e.tabs)
  BY SaveActiveProps
<1>2. f = Pushed(l) BY DEF OpenFile, Blocked
<1>3. /\ l \in LiveEditor /\ l.tabs = s.tabs /\ l.active = e.active
      /\ l.buf = Fresh(p, OnDisk(d, p), e.buf.count) /\ l.buf.path = p
      /\ OwnFiles(d) => OwnTexts(l.buf)
  <2> HIDE DEF s
  <2> QED BY <1>1, LoadedProps
<1>4. /\ Pushed(l) \in LiveEditor /\ Pushed(l).buf = l.buf
      /\ Len(l.tabs) >= MaxTabs => Pushed(l).tabs = l.tabs /\ Pushed(l).active = l.active
      /\ Len(l.tabs) < MaxTabs =>
         Pushed(l).tabs = Append(l.tabs, Stale(p)) /\ Pushed(l).active = Len(l.tabs) + 1
  <2> HIDE DEF l
  <2> QED BY <1>3, PushedProps
<1>5. Len(Append(s.tabs, Stale(p))) = Len(s.tabs) + 1 /\ s.tabs \in Seq(Buffer)
  <2>1. s.tabs \in Seq(Buffer) BY <1>1, EditorFields DEF LiveEditor
  <2> QED BY <2>1, StaleType, Appended
<1> HIDE DEF s, l, f
<1>6. /\ f \in LiveEditor /\ f.buf = Fresh(p, OnDisk(d, p), e.buf.count) /\ f.buf.path = p
      /\ OwnFiles(d) => OwnTexts(f.buf)
  BY <1>2, <1>3, <1>4
<1>7. Len(e.tabs) >= MaxTabs => f.tabs = s.tabs /\ f.active = e.active /\ Len(f.tabs) = Len(e.tabs)
  BY <1>1, <1>2, <1>3, <1>4
<1>8. Len(e.tabs) < MaxTabs => /\ f.tabs = Append(s.tabs, Stale(p)) /\ f.active = Len(e.tabs) + 1
                               /\ Len(f.tabs) = Len(e.tabs) + 1
  BY <1>1, <1>2, <1>3, <1>4, <1>5
<1> QED BY <1>6, <1>7, <1>8 DEF f, s

(* Opening such a file with room in the tab bar loses no row, and the file  *)
(* was in no tab before.                                                    *)
LEMMA OpenNewSound ==
    ASSUME NEW e \in LiveEditor, NEW d \in FileMap, NEW p \in Paths,
           TabOf(e, p) = {}, ~e.buf.dirty \/ ~(e.buf.path # p /\ Blocked(e, <<"open", p>>)),
           Len(e.tabs) < MaxTabs, OwnFiles(d), e.tabs = <<>> \/ Sound(e)
    PROVE  /\ Sound(OpenFile(e, d, p)) /\ RowsOf(e) \subseteq RowsOf(OpenFile(e, d, p))
<1> DEFINE s == SaveActive(e)
           f == OpenFile(e, d, p)
           n == Len(e.tabs)
<1>1. /\ s.tabs \in Seq(Buffer) /\ Len(s.tabs) = n /\ DOMAIN e.tabs = 1..n /\ n \in Nat
      /\ \A i \in 1..n : s.tabs[i] = Row(e, i)
  BY SaveActiveProps, EditorFields DEF LiveEditor
<1>2. /\ f.tabs = Append(s.tabs, Stale(p)) /\ f.active = n + 1 /\ f.buf.path = p
      /\ OwnTexts(f.buf)
  BY OpenNew
<1>3. Stale(p) \in Buffer /\ Stale(p).path = p /\ OwnTexts(Stale(p)) BY StaleType
<1>4. /\ DOMAIN f.tabs = 1..(n + 1) /\ f.tabs[n + 1] = Stale(p)
      /\ \A i \in 1..n : f.tabs[i] = Row(e, i)
  BY <1>1, <1>2, <1>3, Appended
<1>5. \A i \in 1..n : Row(e, i).path = e.tabs[i].path /\ OwnTexts(Row(e, i)) /\ e.tabs[i].path # p
  <2>1. CASE e.tabs = <<>>
    <3>1. n = 0 BY <2>1
    <3> QED BY <3>1
  <2>2. CASE Sound(e)
    <3>1. \A i \in 1..n : Row(e, i).path = e.tabs[i].path /\ OwnTexts(Row(e, i))
      BY <1>1, <2>2, RowPaths DEF Sound, LiveEditor
    <3>2. \A i \in 1..n : e.tabs[i].path # p BY <1>1 DEF TabOf
    <3> QED BY <3>1, <3>2
  <2> QED BY <2>1, <2>2
<1> HIDE DEF f, s, n
<1>6. Placed(f) BY <1>1, <1>2, <1>3, <1>4 DEF Placed
<1>7. \A i \in 1..n : i \in 1..(n + 1) BY <1>1
<1>8. \A i \in 1..(n + 1) : i = n + 1 \/ i \in 1..n BY <1>1
<1>9. Distinct(f)
  <2>1. \A i, j \in 1..n : e.tabs[i].path = e.tabs[j].path => i = j
    <3>1. CASE e.tabs = <<>>
      <4>1. n = 0 BY <3>1 DEF n
      <4> QED BY <4>1
    <3>2. CASE Sound(e) BY <1>1, <3>2 DEF Sound, Distinct
    <3> QED BY <3>1, <3>2
  <2> QED BY <1>3, <1>4, <1>5, <1>8, <2>1 DEF Distinct
<1>10. Own(f) BY <1>2, <1>3, <1>4, <1>5, <1>8 DEF Own
<1>11. RowsOf(e) \subseteq RowsOf(f)
  <2>1. \A i \in 1..n : Row(f, i) = Row(e, i) /\ i \in DOMAIN f.tabs
    BY <1>1, <1>2, <1>4, <1>7 DEF Row
  <2> QED BY <1>1, <2>1 DEF RowsOf
<1> QED BY <1>6, <1>9, <1>10, <1>11 DEF Sound, f

(* open_file in all its cases: with room in the tab bar, or for a file that *)
(* has a tab.                                                               *)
LEMMA OpenFileProps ==
    ASSUME NEW e \in LiveEditor, NEW d \in FileMap, NEW p \in Paths
    PROVE  LET f == OpenFile(e, d, p) IN
           /\ f \in LiveEditor /\ Len(f.tabs) \in {Len(e.tabs), Len(e.tabs) + 1}
           /\ /\ Sound(e) /\ OwnFiles(d)
              /\ Len(e.tabs) < MaxTabs \/ TabOf(e, f.buf.path) # {}
              => Sound(f) /\ RowsOf(e) \subseteq RowsOf(f)
<1> DEFINE f == OpenFile(e, d, p)
           Goal(g) == /\ g \in LiveEditor /\ Len(g.tabs) \in {Len(e.tabs), Len(e.tabs) + 1}
                      /\ /\ Sound(e) /\ OwnFiles(d)
                         /\ Len(e.tabs) < MaxTabs \/ TabOf(e, g.buf.path) # {}
                         => Sound(g) /\ RowsOf(e) \subseteq RowsOf(g)
<1>0. e \in Editor /\ DOMAIN e.tabs = 1..Len(e.tabs) /\ Len(e.tabs) \in Nat /\ MaxTabs \in Nat
  BY EditorFields, Marks DEF LiveEditor
<1>1. ASSUME TabOf(e, p) # {} PROVE Goal(f)
  <2> DEFINE i == CHOOSE x \in TabOf(e, p) : TRUE
  <2>1. i \in TabOf(e, p) BY <1>1
  <2>2. i \in Nat BY <1>0, <2>1 DEF TabOf
  <2>3. f = SwitchTab(e, d, i) BY <1>1 DEF OpenFile
  <2> HIDE DEF i, f
  <2> QED BY <2>2, <2>3, SwitchTabProps
<1>2. ASSUME TabOf(e, p) = {}, e.buf.path # p /\ Blocked(e, <<"open", p>>) PROVE Goal(f)
  <2> DEFINE s == SaveActive(e)
  <2>1. f = [s EXCEPT !.guard = <<"open", p>>] BY <1>2 DEF OpenFile
  <2>2. <<"open", p>> \in Guards BY DEF Guards
  <2>3. s \in LiveEditor /\ Len(s.tabs) = Len(e.tabs) /\ RowsOf(s) = RowsOf(e) /\ (Sound(e) => Sound(s))
    BY SaveActiveProps, SaveActiveSound
  <2> HIDE DEF s, f
  <2>4. f \in LiveEditor /\ f.tabs = s.tabs /\ f.buf = s.buf /\ f.active = s.active
    BY <2>1, <2>2, <2>3, GuardProps
  <2>5. RowsOf(f) = RowsOf(s) /\ (Sound(s) => Sound(f)) BY <2>3, <2>4, SameEditor
  <2> QED BY <2>3, <2>4, <2>5
<1>3. ASSUME TabOf(e, p) = {}, ~(e.buf.path # p /\ Blocked(e, <<"open", p>>)) PROVE Goal(f)
  <2>1. f \in LiveEditor /\ f.buf.path = p /\ Len(f.tabs) \in {Len(e.tabs), Len(e.tabs) + 1}
    BY <1>0, <1>3, OpenNew
  <2>2. Len(e.tabs) < MaxTabs /\ OwnFiles(d) /\ Sound(e) => Sound(f) /\ RowsOf(e) \subseteq RowsOf(f)
    BY <1>3, OpenNewSound
  <2> HIDE DEF f
  <2> QED BY <1>3, <2>1, <2>2
<1>4. Goal(f)
  <2> HIDE DEF f
  <2> QED BY <1>1, <1>2, <1>3
<1> HIDE DEF f
<1> QED BY <1>4 DEF f

-------------------------------------------------------------------------------
(* Saving                                                                  *)
Worlds == [ed : LiveEditor, disk : FileMap, rec : SnapMap]
SoundWorld(w) == Sound(w.ed) /\ OwnFiles(w.disk) /\ OwnSnaps(w.rec)

(* A write changes one file only, and what it leaves there is of that file. *)
LEMMA WrittenProps ==
    ASSUME NEW d \in FileMap, NEW b, b.path \in Paths, b.text \in Text, NEW o \in Outcomes
    PROVE  LET w == Written(d, b, o) IN
           /\ w \in FileMap /\ \A q \in Paths \ {b.path} : w[q] = d[q]
           /\ o = "ok" => w[b.path] = b.text
           /\ o = "cut" => w[b.path] = Blank(b.path)
           /\ o = "refused" => w[b.path] = d[b.path]
           /\ OwnFiles(d) /\ b.text.of = b.path => OwnFiles(w)
<1> DEFINE w == Written(d, b, o)
           x == CASE o = "ok" -> b.text [] o = "cut" -> Blank(b.path) [] OTHER -> d[b.path]
<1>1. w = [d EXCEPT ![b.path] = x] BY DEF Written
<1>2. /\ o = "ok" => x = b.text
      /\ o = "cut" => x = Blank(b.path)
      /\ o = "refused" => x = d[b.path]
  OBVIOUS
<1>3. x \in Text \cup {Absent} BY <1>2, Texts DEF FileMap, Outcomes
<1> HIDE DEF x
<1>4. w \in FileMap /\ w[b.path] = x /\ \A q \in Paths \ {b.path} : w[q] = d[q]
  BY <1>1, <1>3 DEF FileMap
<1> HIDE DEF w
<1>5. ASSUME OwnFiles(d), b.text.of = b.path PROVE OwnFiles(w)
  <2>1. x # Absent => x.of = b.path BY <1>2, <1>5, Texts DEF OwnFiles, Outcomes
  <2> QED BY <1>4, <1>5, <2>1 DEF OwnFiles
<1> QED BY <1>2, <1>4, <1>5 DEF w

(* The live buffer after a save: only its dirty mark changes.               *)
LEMMA CleanProps ==
    ASSUME NEW b \in Buffer
    PROVE  LET c == [b EXCEPT !.dirty = FALSE] IN
           /\ c \in Buffer /\ c.path = b.path /\ c.text = b.text /\ c.count = b.count
           /\ ~c.dirty /\ TextsOf(c) = TextsOf(b) /\ (OwnTexts(b) => OwnTexts(c))
<1> DEFINE c == [b EXCEPT !.dirty = FALSE]
<1>1. /\ c \in Buffer /\ c.path = b.path /\ c.text = b.text /\ c.count = b.count
      /\ ~c.dirty /\ c.undo = b.undo /\ c.redo = b.redo
  BY DEF Buffer
<1> HIDE DEF c
<1> QED BY <1>1 DEF TextsOf, OwnTexts, c

LEMMA BufProps ==
    ASSUME NEW e \in LiveEditor, NEW b \in Buffer, NEW a \in BOOLEAN
    PROVE  LET f == [e EXCEPT !.buf = b, !.agrees = a] IN
           /\ f \in LiveEditor /\ f.buf = b /\ f.tabs = e.tabs /\ f.active = e.active
BY DEF LiveEditor, Editor

LEMMA SameTabs ==
    ASSUME NEW e \in LiveEditor, NEW f \in LiveEditor, f.tabs = e.tabs, f.active = e.active,
           f.buf.path = e.buf.path, OwnTexts(e.buf) => OwnTexts(f.buf)
    PROVE  /\ Placed(e) => Placed(f)
           /\ Sound(e) => Sound(f)
           /\ \A i \in DOMAIN e.tabs : i # e.active => Row(f, i) = Row(e, i)
           /\ \A i \in DOMAIN e.tabs : i = e.active => Row(f, i) = f.buf /\ Row(e, i) = e.buf
BY DEF Placed, Sound, Distinct, Own, Row

LEMMA WorldFields ==
    ASSUME NEW w \in Worlds
    PROVE  /\ w.ed \in LiveEditor /\ w.disk \in FileMap /\ w.rec \in SnapMap
           /\ w.ed \in Editor /\ w.ed.buf \in Buffer /\ w.ed.agrees \in BOOLEAN
           /\ w.ed.buf.path \in Paths /\ w.ed.buf.text \in Text /\ w.ed.buf.dirty \in BOOLEAN
BY EditorFields, BufferFields DEF Worlds, LiveEditor

(* A save that goes through cleans the live buffer and drops its snapshot;  *)
(* one that fails leaves both.                                              *)
LEMMA SavedProps ==
    ASSUME NEW w \in Worlds, NEW o \in Outcomes
    PROVE  LET v == Saved(w, o)
               b == w.ed.buf
           IN
           /\ v \in Worlds /\ v.ed.tabs = w.ed.tabs /\ v.ed.active = w.ed.active
           /\ v.disk = Written(w.disk, b, o)
           /\ v.ed.buf.path = b.path /\ v.ed.buf.text = b.text /\ TextsOf(v.ed.buf) = TextsOf(b)
           /\ o = "ok" => ~v.ed.buf.dirty /\ v.disk[b.path] = b.text /\ v.rec[b.path] = None
           /\ o # "ok" => v.ed.buf = b /\ v.rec = w.rec
           /\ \A q \in Paths \ {b.path} : v.rec[q] = w.rec[q] /\ v.disk[q] = w.disk[q]
           /\ SoundWorld(w) => SoundWorld(v)
<1> DEFINE v == Saved(w, o)
           b == w.ed.buf
           d == Written(w.disk, b, o)
<1>0. /\ w.ed \in LiveEditor /\ w.disk \in FileMap /\ w.rec \in SnapMap
      /\ w.ed \in Editor /\ b \in Buffer /\ w.ed.agrees \in BOOLEAN
      /\ b.path \in Paths /\ b.text \in Text
  BY WorldFields
<1>1. /\ d \in FileMap /\ \A q \in Paths \ {b.path} : d[q] = w.disk[q]
      /\ o = "ok" => d[b.path] = b.text
      /\ OwnFiles(w.disk) /\ b.text.of = b.path => OwnFiles(d)
  BY <1>0, WrittenProps
<1>2. OwnTexts(b) => b.text.of = b.path BY DEF OwnTexts, TextsOf
<1>3. /\ v.disk = d /\ v.ed \in LiveEditor /\ v.ed.tabs = w.ed.tabs /\ v.ed.active = w.ed.active
      /\ v.ed.buf = IF o = "ok" THEN [b EXCEPT !.dirty = FALSE] ELSE b
      /\ v.rec = IF o = "ok" THEN [w.rec EXCEPT ![b.path] = None] ELSE w.rec
      /\ v \in Worlds
  <2>1. CASE o = "ok"
    <3> DEFINE c == [b EXCEPT !.dirty = FALSE]
               f == [w.ed EXCEPT !.buf = c, !.agrees = TRUE]
               r == [w.rec EXCEPT ![b.path] = None]
    <3>1. c \in Buffer BY <1>0, CleanProps
    <3>2. v = [ed |-> f, disk |-> d, rec |-> r] BY <1>0, <2>1 DEF Saved, LiveEditor, Editor
    <3>3. r \in SnapMap BY <1>0 DEF SnapMap
    <3> HIDE DEF c
    <3>4. f \in LiveEditor /\ f.buf = c /\ f.tabs = w.ed.tabs /\ f.active = w.ed.active
      BY <1>0, <3>1, BufProps
    <3> HIDE DEF f, d, r
    <3> QED BY <1>1, <2>1, <3>2, <3>3, <3>4 DEF Worlds, c, r
  <2>2. CASE o # "ok"
    <3> DEFINE a == w.ed.agrees /\ o # "cut"
               f == [w.ed EXCEPT !.agrees = a]
    <3>1. a \in BOOLEAN OBVIOUS
    <3>2. v = [w EXCEPT !.disk = d, !.ed = f] BY <1>0, <2>2 DEF Saved, Worlds
    <3> HIDE DEF a
    <3>3. f \in LiveEditor /\ f.buf = b /\ f.tabs = w.ed.tabs /\ f.active = w.ed.active
      BY <1>0, <3>1, AgreesProps
    <3> HIDE DEF f, d
    <3> QED BY <1>0, <1>1, <2>2, <3>2, <3>3 DEF Worlds
  <2> QED BY <2>1, <2>2
<1>4. /\ v.ed.buf.path = b.path /\ v.ed.buf.text = b.text /\ TextsOf(v.ed.buf) = TextsOf(b)
      /\ o = "ok" => ~v.ed.buf.dirty
      /\ OwnTexts(b) => OwnTexts(v.ed.buf)
  BY <1>0, <1>3, CleanProps
<1> HIDE DEF d, v
<1>5. /\ o = "ok" => v.rec[b.path] = None
      /\ \A q \in Paths \ {b.path} : v.rec[q] = w.rec[q]
  BY <1>0, <1>3 DEF SnapMap
<1>6. ASSUME SoundWorld(w) PROVE SoundWorld(v)
  <2>1. Sound(v.ed) BY <1>0, <1>3, <1>4, <1>6, SameTabs DEF SoundWorld
  <2>2. OwnFiles(v.disk) BY <1>1, <1>2, <1>3, <1>6 DEF SoundWorld, Sound, Own
  <2>3. OwnSnaps(v.rec)
    <3>1. \A q \in Paths : v.rec[q] \in Text => v.rec[q] = w.rec[q]
      BY <1>3, <1>5, Marks
    <3> QED BY <1>6, <3>1 DEF OwnSnaps, SoundWorld
  <2> QED BY <2>1, <2>2, <2>3 DEF SoundWorld
<1> QED BY <1>1, <1>3, <1>4, <1>5, <1>6 DEF v, d

-------------------------------------------------------------------------------
(* Closing a tab in the background                                         *)
(* A tab goes: the other tabs move down.                                    *)
Left(e, i, k) == [e EXCEPT !.tabs = RemoveAt(e.tabs, i), !.active = k]
IsLeft(e, i, k, f) ==
    /\ f \in LiveEditor /\ f.buf = e.buf /\ f.active = k
    /\ Len(f.tabs) = Len(e.tabs) - 1 /\ DOMAIN f.tabs = 1..(Len(e.tabs) - 1)
    /\ \A j \in DOMAIN f.tabs : f.tabs[j] = IF j < i THEN e.tabs[j] ELSE e.tabs[j + 1]
    /\ \A j \in DOMAIN e.tabs \ {i} :
          LET m == IF j < i THEN j ELSE j - 1 IN m \in DOMAIN f.tabs /\ f.tabs[m] = e.tabs[j]
    /\ Distinct(e) => Distinct(f)
LEMMA LeftProps ==
    ASSUME NEW e \in LiveEditor, NEW i \in DOMAIN e.tabs, NEW k \in Nat, k >= 1
    PROVE  IsLeft(e, i, k, Left(e, i, k))
<1> DEFINE q == RemoveAt(e.tabs, i)
           f == Left(e, i, k)
           n == Len(e.tabs)
<1>0. e \in Editor /\ e.tabs \in Seq(Buffer) /\ DOMAIN e.tabs = 1..n /\ n \in Nat /\ i \in 1..n
  BY EditorFields DEF LiveEditor
<1>1. /\ q \in Seq(Buffer) /\ Len(q) = n - 1 /\ DOMAIN q = 1..(n - 1)
      /\ \A j \in 1..(n - 1) : q[j] = IF j < i THEN e.tabs[j] ELSE e.tabs[j + 1]
  BY <1>0, RemovedAt
<1> HIDE DEF q, n
<1>2. f \in LiveEditor /\ f.tabs = q /\ f.active = k /\ f.buf = e.buf
  <2>1. f = [e EXCEPT !.tabs = q, !.active = k] BY DEF Left, q
  <2> QED BY <1>0, <1>1, <2>1 DEF LiveEditor, Editor
<1> HIDE DEF f
<1>3. ASSUME NEW j \in 1..n, j # i
      PROVE  LET m == IF j < i THEN j ELSE j - 1 IN m \in 1..(n - 1) /\ q[m] = e.tabs[j]
  <2>1. CASE j < i BY <1>0, <1>1, <1>3, <2>1
  <2>2. CASE j > i
    <3>1. j - 1 \in 1..(n - 1) /\ ~(j - 1 < i) /\ (j - 1) + 1 = j BY <1>0, <2>2
    <3>2. q[j - 1] = e.tabs[(j - 1) + 1] BY <1>1, <3>1
    <3> QED BY <1>0, <2>2, <3>1, <3>2
  <2> QED BY <1>0, <1>3, <2>1, <2>2
<1>4. ASSUME Distinct(e) PROVE Distinct(f)
  <2> SUFFICES ASSUME NEW x \in 1..(n - 1), NEW y \in 1..(n - 1), q[x].path = q[y].path PROVE x = y
    BY <1>1, <1>2 DEF Distinct
  <2> DEFINE up(j) == IF j < i THEN j ELSE j + 1
  <2>1. up(x) \in 1..n /\ up(y) \in 1..n /\ q[x] = e.tabs[up(x)] /\ q[y] = e.tabs[up(y)]
    BY <1>0, <1>1
  <2>2. up(x) = up(y) BY <1>0, <1>4, <2>1 DEF Distinct
  <2> QED BY <1>0, <2>2
<1> QED BY <1>0, <1>1, <1>2, <1>3, <1>4 DEF IsLeft, f, q, n

LEMMA LeftOwn ==
    ASSUME NEW e \in LiveEditor, NEW f \in LiveEditor, NEW i \in DOMAIN e.tabs,
           \A j \in DOMAIN f.tabs : f.tabs[j] = IF j < i THEN e.tabs[j] ELSE e.tabs[j + 1],
           DOMAIN f.tabs = 1..(Len(e.tabs) - 1), \A j \in DOMAIN e.tabs : OwnTexts(e.tabs[j])
    PROVE  \A j \in DOMAIN f.tabs : OwnTexts(f.tabs[j])
<1>1. Len(e.tabs) \in Nat /\ DOMAIN e.tabs = 1..Len(e.tabs) BY EditorFields DEF LiveEditor
<1>2. \A j \in 1..(Len(e.tabs) - 1) : j \in DOMAIN e.tabs /\ j + 1 \in DOMAIN e.tabs BY <1>1
<1> QED BY <1>2

(* What closing tab i of w leaves in v.                                      *)
Closes(w, i, v) ==
    LET b == Row(w.ed, i) IN
    /\ v \in Worlds
    /\ \A p \in Paths : w.rec[p] \in Text /\ v.rec[p] = None
          => p = w.ed.buf.path /\ v.disk[p] = w.ed.buf.text
    /\ SoundWorld(w) =>
          /\ SoundWorld(v)
          /\ \A j \in DOMAIN w.ed.tabs \ {i} : Row(w.ed, j) \in RowsOf(v.ed)
          /\ b.dirty /\ b.path # Scratch => b \in RowsOf(v.ed) \/ v.disk[b.path] = b.text

(* Closing a tab in the background: its text is saved first, or the tab     *)
(* stays.                                                                   *)
LEMMA CloseBackgroundProps ==
    ASSUME NEW w \in Worlds, NEW o \in Outcomes, NEW i \in DOMAIN w.ed.tabs, i # w.ed.active
    PROVE  Closes(w, i, CloseBackground(w, i, o))
<1> DEFINE e == w.ed
           b == e.tabs[i]
           saves == b.dirty /\ b.path # Scratch
           d == IF saves THEN Written(w.disk, b, o) ELSE w.disk
           a == IF i < e.active THEN e.active - 1 ELSE e.active
           f == Left(e, i, a)
           v == CloseBackground(w, i, o)
<1>0. /\ e \in LiveEditor /\ e \in Editor /\ w.disk \in FileMap /\ w.rec \in SnapMap
      /\ b \in Buffer /\ b.path \in Paths /\ b.text \in Text /\ b.dirty \in BOOLEAN
      /\ Len(e.tabs) \in Nat /\ DOMAIN e.tabs = 1..Len(e.tabs) /\ i \in 1..Len(e.tabs)
      /\ e.active \in Nat /\ e.active >= 1
  BY WorldFields, EditorFields, BufferFields DEF LiveEditor
<1>1. a \in Nat /\ a >= 1 BY <1>0
<1>2. /\ d \in FileMap /\ (saves /\ o = "ok" => d[b.path] = b.text)
      /\ OwnFiles(w.disk) /\ b.text.of = b.path => OwnFiles(d)
  BY <1>0, WrittenProps
<1>3. SoundWorld(w) => OwnFiles(d)
  BY <1>2 DEF SoundWorld, Sound, Own, OwnTexts, TextsOf
<1>4. b = Row(e, i) BY DEF Row
<1>5. ASSUME saves, o # "ok" PROVE Closes(w, i, v)
  <2>1. v = [w EXCEPT !.disk = d] BY <1>5 DEF CloseBackground
  <2> HIDE DEF d, v
  <2>2. v \in Worlds /\ v.ed = w.ed /\ v.rec = w.rec /\ v.disk = d BY <1>2, <2>1 DEF Worlds
  <2>3. SoundWorld(w) => SoundWorld(v) BY <1>3, <2>2 DEF SoundWorld
  <2>4. \A j \in DOMAIN w.ed.tabs : Row(w.ed, j) \in RowsOf(v.ed) BY <2>2 DEF RowsOf
  <2> QED BY <2>2, <2>3, <2>4, Marks DEF Closes
<1>6. ASSUME ~(saves /\ o # "ok") PROVE Closes(w, i, v)
  <2>1. v = [w EXCEPT !.disk = d, !.ed = f] BY <1>0, <1>6 DEF CloseBackground, Worlds, LiveEditor, Editor, Left
  <2> HIDE DEF a
  <2>2. /\ f \in LiveEditor /\ f.buf = e.buf /\ f.active = a
        /\ Len(f.tabs) = Len(e.tabs) - 1 /\ DOMAIN f.tabs = 1..(Len(e.tabs) - 1)
        /\ \A j \in DOMAIN f.tabs : f.tabs[j] = IF j < i THEN e.tabs[j] ELSE e.tabs[j + 1]
        /\ \A j \in DOMAIN e.tabs \ {i} :
              LET m == IF j < i THEN j ELSE j - 1 IN m \in DOMAIN f.tabs /\ f.tabs[m] = e.tabs[j]
        /\ Distinct(e) => Distinct(f)
    BY <1>0, <1>1, LeftProps DEF IsLeft
  <2> HIDE DEF f, d, v
  <2>3. v \in Worlds /\ v.ed = f /\ v.rec = w.rec /\ v.disk = d BY <1>2, <2>1, <2>2 DEF Worlds
  <2>4. ASSUME SoundWorld(w) PROVE SoundWorld(v) /\ \A j \in DOMAIN e.tabs \ {i} : Row(e, j) \in RowsOf(f)
    <3>0. e.active \in DOMAIN e.tabs /\ e.tabs[e.active].path = e.buf.path
      <4>1. e.tabs # <<>> BY <1>0
      <4> QED BY <2>4, <4>1 DEF SoundWorld, Sound, Placed
    <3>1. a = IF e.active < i THEN e.active ELSE e.active - 1 BY <1>0, <3>0 DEF a
    <3>2. a \in DOMAIN f.tabs /\ f.tabs[a] = e.tabs[e.active] BY <2>2, <3>0, <3>1
    <3>3. Placed(f) BY <2>2, <3>0, <3>2 DEF Placed
    <3>4. \A j \in DOMAIN f.tabs : OwnTexts(f.tabs[j])
      BY <1>0, <2>2, <2>4, LeftOwn DEF SoundWorld, Sound, Own
    <3>5. Sound(f) BY <2>2, <2>4, <3>3, <3>4 DEF SoundWorld, Sound, Own
    <3>6. ASSUME NEW j \in DOMAIN e.tabs \ {i} PROVE Row(e, j) \in RowsOf(f)
      <4> DEFINE m == IF j < i THEN j ELSE j - 1
      <4>1. m \in DOMAIN f.tabs /\ f.tabs[m] = e.tabs[j] BY <2>2
      <4>2. j \in Nat /\ j # i BY <1>0
      <4>3. m = a <=> j = e.active BY <1>0, <3>1, <4>2
      <4> HIDE DEF m
      <4>4. Row(f, m) = Row(e, j) BY <2>2, <4>1, <4>3 DEF Row
      <4> QED BY <4>1, <4>4 DEF RowsOf
    <3> QED BY <1>3, <2>3, <2>4, <3>5, <3>6 DEF SoundWorld
  <2>5. b.dirty /\ b.path # Scratch => v.disk[b.path] = b.text BY <1>2, <1>6, <2>3
  <2> QED BY <1>4, <2>3, <2>4, <2>5, Marks DEF Closes
<1>7. Closes(w, i, v)
  <2> HIDE DEF v
  <2> QED BY <1>5, <1>6
<1> QED BY <1>7

-------------------------------------------------------------------------------
(* Closing the tab on the screen                                           *)
(* The last tab goes: the welcome buffer takes its place.                   *)
LEMMA LastTabProps ==
    ASSUME NEW e \in LiveEditor, NEW d \in FileMap, Len(e.tabs) = 1, ~e.buf.dirty
    PROVE  LET n == OpenFile(e, d, Scratch)
               f == Shown([n EXCEPT !.tabs = RemoveAt(n.tabs, 1)], 1)
           IN f \in LiveEditor /\ (Sound(e) /\ OwnFiles(d) /\ e.buf.path # Scratch => Sound(f))
<1> DEFINE n == OpenFile(e, d, Scratch)
           a == n.active
           m == [n EXCEPT !.tabs = RemoveAt(n.tabs, 1)]
           f == Shown(m, 1)
<1>0. Scratch \in Paths /\ MaxTabs \in Nat \ {0} BY Marks
<1>1. n \in LiveEditor /\ Len(n.tabs) \in {1, 2}
  <2>1. n \in LiveEditor /\ Len(n.tabs) \in {Len(e.tabs), Len(e.tabs) + 1} BY <1>0, OpenFileProps
  <2> HIDE DEF n
  <2> QED BY <2>1
<1>2. n \in Editor /\ 1 \in DOMAIN n.tabs /\ a \in Nat /\ a >= 1 /\ DOMAIN n.tabs = 1..Len(n.tabs)
  BY <1>1, EditorFields DEF LiveEditor
<1>3. m = [n EXCEPT !.tabs = RemoveAt(n.tabs, 1), !.active = a] BY <1>2 DEF Editor
<1> HIDE DEF a
<1>4. /\ m \in LiveEditor /\ m.buf = n.buf /\ m.active = a /\ DOMAIN m.tabs = 1..(Len(n.tabs) - 1)
      /\ Len(m.tabs) = Len(n.tabs) - 1
      /\ \A j \in DOMAIN m.tabs : m.tabs[j] = IF j < 1 THEN n.tabs[j] ELSE n.tabs[j + 1]
  <2> DEFINE i == 1
             x == Left(n, i, a)
  <2>1. m = x /\ i \in DOMAIN n.tabs BY <1>2, <1>3 DEF Left
  <2> HIDE DEF n, m, i
  <2>2. /\ x \in LiveEditor /\ x.buf = n.buf /\ x.active = a /\ DOMAIN x.tabs = 1..(Len(n.tabs) - 1)
        /\ Len(x.tabs) = Len(n.tabs) - 1
        /\ \A j \in DOMAIN x.tabs : x.tabs[j] = IF j < i THEN n.tabs[j] ELSE n.tabs[j + 1]
    <3>1. IsLeft(n, i, a, x) BY <1>1, <1>2, <2>1, LeftProps
    <3> HIDE DEF x
    <3> QED BY <3>1 DEF IsLeft
  <2> HIDE DEF x
  <2> QED BY <2>1, <2>2 DEF i
<1>5. f \in LiveEditor
  <2> HIDE DEF m
  <2> QED BY <1>4, ShownProps
<1>6. ASSUME Sound(e), OwnFiles(d), e.buf.path # Scratch PROVE Sound(f)
  <2>1. TabOf(e, Scratch) = {}
    <3>1. DOMAIN e.tabs = 1..1 /\ e.tabs # <<>>
      <4>1. e.tabs \in Seq(Buffer) /\ DOMAIN e.tabs = 1..Len(e.tabs) BY EditorFields DEF LiveEditor
      <4>2. e.tabs # <<>> BY <4>1, EmptySeq
      <4> QED BY <4>1, <4>2
    <3>2. e.tabs[e.active].path = e.buf.path /\ e.active \in 1..1
      BY <1>6, <3>1 DEF Sound, Placed
    <3> QED BY <1>6, <3>1, <3>2 DEF TabOf
  <2>2. /\ n.buf.path = Scratch /\ OwnTexts(n.buf)
        /\ 1 >= MaxTabs => Len(n.tabs) = 1
        /\ 1 < MaxTabs => n.tabs = Append(SaveActive(e).tabs, Stale(Scratch)) /\ Len(n.tabs) = 2
    <3>1. /\ n.buf.path = Scratch /\ (OwnFiles(d) => OwnTexts(n.buf))
          /\ Len(e.tabs) >= MaxTabs => Len(n.tabs) = Len(e.tabs)
          /\ Len(e.tabs) < MaxTabs =>
             /\ n.tabs = Append(SaveActive(e).tabs, Stale(Scratch)) /\ Len(n.tabs) = Len(e.tabs) + 1
      <4>0. Scratch \in Paths BY <1>0
      <4>1. n.buf.path = Scratch BY <4>0, <2>1, OpenNew
      <4>2. OwnFiles(d) => OwnTexts(n.buf) BY <4>0, <2>1, OpenNew
      <4>3. Len(e.tabs) >= MaxTabs => Len(n.tabs) = Len(e.tabs) BY <4>0, <2>1, OpenNew
      <4>4. Len(e.tabs) < MaxTabs =>
             /\ n.tabs = Append(SaveActive(e).tabs, Stale(Scratch)) /\ Len(n.tabs) = Len(e.tabs) + 1
        BY <4>0, <2>1, OpenNew
      <4> HIDE DEF n
      <4> QED BY <4>1, <4>2, <4>3, <4>4
    <3> HIDE DEF n
    <3> QED BY <1>6, <3>1
  <2>3. CASE 1 >= MaxTabs
    <3>1. DOMAIN m.tabs = {}
      <4> HIDE DEF m, n
      <4>1. 1..(1 - 1) = {} OBVIOUS
      <4> QED BY <1>4, <2>2, <2>3, <4>1
    <3>2. 1 \notin DOMAIN m.tabs BY <3>1
    <3>3. f.tabs = m.tabs /\ f.buf = m.buf
      <4> HIDE DEF m
      <4> QED BY <1>4, <3>2, ShownProps
    <3>4. f.tabs = <<>>
      <4>1. m.tabs \in Seq(Buffer) BY <1>4, EditorFields DEF LiveEditor
      <4>2. Len(m.tabs) = 0
        <5> HIDE DEF m, n
        <5> QED BY <1>4, <2>2, <2>3
      <4> QED BY <3>3, <4>1, <4>2, EmptySeq
    <3> HIDE DEF m, n, f
    <3>5. DOMAIN f.tabs = {} BY <3>1, <3>3
    <3> QED BY <1>4, <2>2, <3>3, <3>4, <3>5 DEF Sound, Placed, Distinct, Own
  <2>4. CASE 1 < MaxTabs
    <3>1. n.tabs[2] = Stale(Scratch)
      <4>1. SaveActive(e).tabs \in Seq(Buffer) /\ Len(SaveActive(e).tabs) = 1
        BY SaveActiveProps, EditorFields DEF LiveEditor
      <4>2. Stale(Scratch) \in Buffer BY <1>0, StaleType
      <4> QED BY <2>2, <2>4, <4>1, <4>2, Appended
    <3>2. DOMAIN m.tabs = 1..1 /\ m.tabs[1] = Stale(Scratch)
      <4> HIDE DEF m, n
      <4>3. 2 - 1 = 1 OBVIOUS
      <4>1. DOMAIN m.tabs = 1..1 BY <1>4, <2>2, <2>4, <4>3
      <4>2. 1 \in DOMAIN m.tabs /\ ~(1 < 1) /\ 1 + 1 = 2 BY <4>1
      <4> QED BY <1>4, <3>1, <4>1, <4>2
    <3>3. OwnTexts(Stale(Scratch)) BY <1>0, StaleType
    <3> HIDE DEF m, n
    <3>4. Distinct(m) /\ \A k \in DOMAIN m.tabs : OwnTexts(m.tabs[k]) BY <3>2, <3>3 DEF Distinct
    <3>5. 1 \in DOMAIN m.tabs BY <3>2
    <3> QED BY <1>4, <3>4, <3>5, ShownSound
  <2> QED BY <1>0, <2>3, <2>4
<1> HIDE DEF f
<1> QED BY <1>5, <1>6 DEF f

(* A tab goes and its neighbour comes on the screen.                        *)
LEMMA NeighbourProps ==
    ASSUME NEW e \in LiveEditor, e.active \in DOMAIN e.tabs, Len(e.tabs) # 1
    PROVE  LET l == [e EXCEPT !.tabs = RemoveAt(e.tabs, e.active), !.agrees = FALSE]
               k == IF e.active > Len(l.tabs) THEN e.active - 1 ELSE e.active
               f == Shown(l, k)
           IN /\ f \in LiveEditor
              /\ Sound(e) => /\ Sound(f)
                             /\ \A j \in DOMAIN e.tabs \ {e.active} : Row(e, j) \in RowsOf(f)
<1> DEFINE i == e.active
           g == [e EXCEPT !.agrees = FALSE]
           l == [e EXCEPT !.tabs = RemoveAt(e.tabs, i), !.agrees = FALSE]
           n == Len(e.tabs)
           k == IF i > Len(l.tabs) THEN i - 1 ELSE i
           f == Shown(l, k)
<1>0. /\ e \in Editor /\ n \in Nat /\ DOMAIN e.tabs = 1..n /\ i \in Nat /\ i >= 1 /\ i \in DOMAIN e.tabs
      /\ n >= 2
  <2>1. /\ e \in Editor /\ n \in Nat /\ DOMAIN e.tabs = 1..n /\ i \in Nat /\ i >= 1 /\ i \in DOMAIN e.tabs
        /\ n # 1
    BY EditorFields DEF LiveEditor
  <2> HIDE DEF i, n
  <2>2. i \in 1..n BY <2>1
  <2> QED BY <2>1, <2>2
<1>1. g \in LiveEditor /\ g.tabs = e.tabs /\ g.active = i /\ g.buf = e.buf BY AgreesProps
<1>2. l = [g EXCEPT !.tabs = RemoveAt(g.tabs, i), !.active = i] BY <1>0, <1>1 DEF Editor
<1> HIDE DEF i, g, l, n
<1>3. /\ l \in LiveEditor /\ l.buf = e.buf /\ l.active = i /\ Len(l.tabs) = n - 1
      /\ DOMAIN l.tabs = 1..(n - 1)
      /\ \A j \in DOMAIN l.tabs : l.tabs[j] = IF j < i THEN e.tabs[j] ELSE e.tabs[j + 1]
      /\ \A j \in DOMAIN e.tabs \ {i} :
            LET m == IF j < i THEN j ELSE j - 1 IN m \in DOMAIN l.tabs /\ l.tabs[m] = e.tabs[j]
      /\ Distinct(g) => Distinct(l)
  <2>1. i \in DOMAIN g.tabs BY <1>0, <1>1
  <2> DEFINE x == Left(g, i, i)
  <2>2. /\ x \in LiveEditor /\ x.buf = g.buf /\ x.active = i /\ Len(x.tabs) = Len(g.tabs) - 1
        /\ DOMAIN x.tabs = 1..(Len(g.tabs) - 1)
        /\ \A j \in DOMAIN x.tabs : x.tabs[j] = IF j < i THEN g.tabs[j] ELSE g.tabs[j + 1]
        /\ \A j \in DOMAIN g.tabs \ {i} :
              LET m == IF j < i THEN j ELSE j - 1 IN m \in DOMAIN x.tabs /\ x.tabs[m] = g.tabs[j]
        /\ Distinct(g) => Distinct(x)
    <3>1. IsLeft(g, i, i, x) BY <1>0, <1>1, <2>1, LeftProps
    <3> HIDE DEF x
    <3> QED BY <3>1 DEF IsLeft
  <2>3. Len(g.tabs) = n BY <1>1 DEF n
  <2> HIDE DEF x
  <2>4. l = x BY <1>2 DEF x, Left
  <2> QED BY <1>1, <2>2, <2>3, <2>4
<1>4. k \in DOMAIN l.tabs /\ k \in Nat /\ k >= 1 BY <1>0, <1>3
<1> HIDE DEF k
<1>5. f \in LiveEditor BY <1>3, <1>4, ShownProps
<1>6. ASSUME Sound(e)
      PROVE  Sound(f) /\ \A j \in DOMAIN e.tabs \ {i} : Row(e, j) \in RowsOf(f)
  <2>1. Distinct(l) BY <1>1, <1>3, <1>6 DEF Sound, Distinct
  <2>2. \A j \in DOMAIN l.tabs : OwnTexts(l.tabs[j])
    BY <1>0, <1>3, <1>6, LeftOwn DEF Sound, Own, n
  <2>3. Sound(f) /\ RowsOf(f) = {l.tabs[j] : j \in DOMAIN l.tabs}
    BY <1>3, <1>4, <2>1, <2>2, ShownSound
  <2> HIDE DEF f
  <2>4. ASSUME NEW j \in DOMAIN e.tabs \ {i} PROVE Row(e, j) \in RowsOf(f)
    <3>1. PICK m \in DOMAIN l.tabs : l.tabs[m] = e.tabs[j] BY <1>3
    <3>2. Row(e, j) = e.tabs[j] BY <2>4 DEF Row, i
    <3> QED BY <2>3, <3>1, <3>2
  <2> QED BY <2>3, <2>4
<1> HIDE DEF f
<1> QED BY <1>5, <1>6 DEF f, l, k, i

(* Closing the active tab: its text is saved first, or the tab stays.       *)
LEMMA CloseActiveProps ==
    ASSUME NEW w \in Worlds, NEW o \in Outcomes, w.ed.active \in DOMAIN w.ed.tabs
    PROVE  Closes(w, w.ed.active, CloseActive(w, o))
<1> DEFINE s == IF w.ed.buf.dirty THEN Saved(w, o) ELSE w
           b == w.ed.buf
           i == w.ed.active
           v == CloseActive(w, o)
<1>0. /\ w.ed \in LiveEditor /\ b.path \in Paths /\ b.dirty \in BOOLEAN /\ w.rec \in SnapMap
      /\ w.disk \in FileMap
      /\ w.ed.tabs \in Seq(Buffer) /\ Row(w.ed, i) = b
  BY WorldFields, EditorFields DEF Row
<1>1. /\ s \in Worlds /\ s.ed.tabs = w.ed.tabs /\ s.ed.active = i
      /\ s.ed.buf.path = b.path /\ s.ed.buf.dirty \in BOOLEAN
      /\ s.ed.buf.dirty => s.ed.buf = b /\ b.dirty
      /\ ~s.ed.buf.dirty /\ b.dirty => s.disk[b.path] = b.text
      /\ \A p \in Paths : w.rec[p] \in Text /\ s.rec[p] = None
            => p = b.path /\ s.disk[p] = b.text
      /\ SoundWorld(w) => SoundWorld(s)
  <2>1. CASE b.dirty
    <3> DEFINE x == Saved(w, o)
    <3>1. s = x BY <2>1
    <3>2. /\ x \in Worlds /\ x.ed.tabs = w.ed.tabs /\ x.ed.active = w.ed.active
          /\ x.ed.buf.path = b.path
          /\ o = "ok" => ~x.ed.buf.dirty /\ x.disk[b.path] = b.text
          /\ o # "ok" => x.ed.buf = b /\ x.rec = w.rec
          /\ \A q \in Paths \ {b.path} : x.rec[q] = w.rec[q]
          /\ SoundWorld(w) => SoundWorld(x)
      BY SavedProps
    <3>3. x.ed.buf.dirty \in BOOLEAN BY <3>2, WorldFields
    <3> HIDE DEF x, s
    <3> QED BY <1>0, <2>1, <3>1, <3>2, <3>3, Marks
  <2>2. CASE ~b.dirty
    <3>1. s = w BY <2>2
    <3> HIDE DEF s
    <3> QED BY <1>0, <2>2, <3>1, Marks
  <2> QED BY <1>0, <2>1, <2>2
<1>2. s.ed \in LiveEditor /\ s.disk \in FileMap /\ s.rec \in SnapMap
  <2> HIDE DEF s
  <2> QED BY <1>1, WorldFields
<1>3. ASSUME Len(w.ed.tabs) = 1, b.path = Scratch PROVE Closes(w, i, v)
  <2>1. v = w BY <1>3 DEF CloseActive
  <2>2. i \in DOMAIN w.ed.tabs => b \in RowsOf(w.ed) BY <1>0 DEF RowsOf
  <2>3. \A j \in DOMAIN w.ed.tabs : Row(w.ed, j) \in RowsOf(w.ed) BY DEF RowsOf
  <2> HIDE DEF v
  <2> QED BY <1>0, <1>3, <2>1, <2>3, Marks DEF Closes
<1>4. ASSUME ~(Len(w.ed.tabs) = 1 /\ b.path = Scratch), s.ed.buf.dirty PROVE Closes(w, i, v)
  <2>1. v = s BY <1>4 DEF CloseActive
  <2> HIDE DEF v, s
  <2>2. \A j \in DOMAIN w.ed.tabs : Row(s.ed, j) = Row(w.ed, j) BY <1>1, <1>4 DEF Row
  <2>3. \A j \in DOMAIN w.ed.tabs : Row(w.ed, j) \in RowsOf(v.ed)
    BY <1>1, <2>1, <2>2 DEF RowsOf
  <2> QED BY <1>0, <1>1, <2>1, <2>3 DEF Closes
<1>5. ASSUME ~(Len(w.ed.tabs) = 1 /\ b.path = Scratch), ~s.ed.buf.dirty, Len(s.ed.tabs) = 1
      PROVE  Closes(w, i, v)
  <2> DEFINE n == OpenFile(s.ed, s.disk, Scratch)
             f == Shown([n EXCEPT !.tabs = RemoveAt(n.tabs, 1)], 1)
  <2>1. v = [s EXCEPT !.ed = f]
    <3>1. [n EXCEPT !.tabs = RemoveAt(@, 1)] = [n EXCEPT !.tabs = RemoveAt(n.tabs, 1)] OBVIOUS
    <3> QED BY <1>5 DEF CloseActive
  <2>2. f \in LiveEditor /\ (Sound(s.ed) /\ OwnFiles(s.disk) /\ s.ed.buf.path # Scratch => Sound(f))
    <3> HIDE DEF s
    <3> QED BY <1>2, <1>5, LastTabProps
  <2> HIDE DEF v, s, f
  <2>3. v \in Worlds /\ v.ed = f /\ v.disk = s.disk /\ v.rec = s.rec
    BY <1>1, <2>1, <2>2 DEF Worlds
  <2>4. b.path # Scratch BY <1>1, <1>5
  <2>5. SoundWorld(w) => SoundWorld(v) BY <1>1, <2>2, <2>3, <2>4 DEF SoundWorld
  <2>6. \A j \in DOMAIN w.ed.tabs : j = i
    <3>1. Len(w.ed.tabs) = 1 /\ DOMAIN w.ed.tabs = 1..1 BY <1>0, <1>1, <1>5, LenProperties
    <3> QED BY <3>1
  <2> QED BY <1>0, <1>1, <1>5, <2>3, <2>5, <2>6 DEF Closes
<1>6. ASSUME ~(Len(w.ed.tabs) = 1 /\ b.path = Scratch), ~s.ed.buf.dirty, Len(s.ed.tabs) # 1
      PROVE  Closes(w, i, v)
  <2> DEFINE l == [s.ed EXCEPT !.tabs = RemoveAt(s.ed.tabs, s.ed.active), !.agrees = FALSE]
             k == IF s.ed.active > Len(l.tabs) THEN s.ed.active - 1 ELSE s.ed.active
             f == Shown(l, k)
             left == [s.ed EXCEPT !.tabs = RemoveAt(@, s.ed.active)]
  <2>0. left.tabs = l.tabs /\ [left EXCEPT !.agrees = FALSE] = l BY <1>2 DEF LiveEditor, Editor
  <2>1. v = [s EXCEPT !.ed = f]
    <3>1. v = [s EXCEPT !.ed = Shown([left EXCEPT !.agrees = FALSE],
                   IF s.ed.active > Len(left.tabs) THEN s.ed.active - 1 ELSE s.ed.active)]
      BY <1>6 DEF CloseActive
    <3> HIDE DEF v, left, l, s
    <3> QED BY <2>0, <3>1
  <2>2. /\ f \in LiveEditor
        /\ Sound(s.ed) => Sound(f) /\ \A j \in DOMAIN s.ed.tabs \ {s.ed.active} : Row(s.ed, j) \in RowsOf(f)
    <3> HIDE DEF s
    <3> QED BY <1>1, <1>2, <1>6, NeighbourProps
  <2> HIDE DEF v, s, f
  <2>3. v \in Worlds /\ v.ed = f /\ v.disk = s.disk /\ v.rec = s.rec
    BY <1>1, <2>1, <2>2 DEF Worlds
  <2>4. SoundWorld(w) => SoundWorld(v) BY <1>1, <2>2, <2>3 DEF SoundWorld
  <2>5. ASSUME SoundWorld(w) PROVE \A j \in DOMAIN w.ed.tabs \ {i} : Row(w.ed, j) \in RowsOf(v.ed)
    <3>1. Sound(s.ed) BY <1>1, <2>5 DEF SoundWorld
    <3>2. \A j \in DOMAIN w.ed.tabs \ {i} : Row(s.ed, j) = Row(w.ed, j) BY <1>1 DEF Row
    <3> QED BY <1>1, <2>2, <2>3, <3>1, <3>2
  <2> QED BY <1>0, <1>1, <1>6, <2>3, <2>4, <2>5 DEF Closes
<1>7. Closes(w, i, v)
  <2> HIDE DEF v, s
  <2> QED BY <1>3, <1>4, <1>5, <1>6
<1> QED BY <1>7

-------------------------------------------------------------------------------
(* The invariant, and what is enough for a step                            *)
Holds == mishaps = {} => SoundWorld(World)
KeptStep == running /\ running' /\ mishaps' = {} =>
               \A t \in Unsaved(ed) : t \in Held(ed', disk') \cup GivenUp \/ Carried(t)
SnapStep == running /\ running' /\ mishaps' = {} =>
               \A p \in Paths : rec[p] \in Text /\ rec'[p] = None
                  => Torn(p) \/ \E b \in Current(ed) \cup Current(ed') :
                                    b.path = p /\ disk'[p] \in TextsOf(b)
Good == TypeOK' /\ Holds' /\ KeptStep /\ SnapStep

LEMMA TypeFacts ==
    ASSUME TypeOK
    PROVE  /\ ed \in LiveEditor /\ ed \in Editor /\ disk \in FileMap /\ rec \in SnapMap /\ World \in Worlds
           /\ World.ed = ed /\ World.disk = disk /\ World.rec = rec
           /\ ed.buf \in Buffer /\ ed.buf.path \in Paths /\ ed.buf.text \in Text
           /\ ed.buf.dirty \in BOOLEAN /\ ed.buf.undo \in Seq(Text) /\ ed.buf.redo \in Seq(Text)
           /\ ed.buf.count \in Count /\ ed.agrees \in BOOLEAN
           /\ ed.tabs \in Seq(Buffer) /\ DOMAIN ed.tabs = 1..Len(ed.tabs) /\ Len(ed.tabs) \in Nat
           /\ texts \in Nat
<1>1. ed \in LiveEditor /\ ed \in Editor /\ disk \in FileMap /\ rec \in SnapMap
  BY DEF TypeOK, LiveEditor, FileMap, SnapMap
<1>2. texts \in Nat BY Marks DEF TypeOK
<1> QED BY <1>1, <1>2, EditorFields, BufferFields DEF World, Worlds

(* What is enough for an action that leaves the mishaps alone.               *)
LEMMA Enough ==
    ASSUME TypeOK, Holds, mishaps' = mishaps, running' \in BOOLEAN, autoSave' \in BOOLEAN,
           texts' \in 1..(MaxTexts + 1), faults' \in 0..MaxFaults, World' \in Worlds,
           SoundWorld(World) => SoundWorld(World')
    PROVE  TypeOK' /\ Holds'
<1>1. ed' \in LiveEditor /\ disk' \in FileMap /\ rec' \in SnapMap BY DEF World, Worlds
<1>2. TypeOK' BY <1>1 DEF TypeOK, LiveEditor, FileMap, SnapMap
<1>3. Holds' BY DEF Holds
<1> QED BY <1>2, <1>3

(* What a tab really holds is in a buffer.                                  *)
LEMMA RowHeld ==
    ASSUME NEW f, NEW d, NEW b \in RowsOf(f)
    PROVE  b \in Current(f) /\ b.text \in Held(f, d)
<1>1. PICK i \in DOMAIN f.tabs : b = Row(f, i) BY DEF RowsOf
<1>2. b \in Current(f) BY <1>1 DEF Row, Current
<1>3. b.text \in TextsOf(b) BY DEF TextsOf
<1> QED BY <1>2, <1>3 DEF Held

LEMMA FileHeld == ASSUME NEW f, NEW d, NEW p \in Paths PROVE d[p] \in Held(f, d)
<1> DEFINE S == {d[q] : q \in Paths}
           U == UNION {TextsOf(b) : b \in Current(f)}
<1>1. d[p] \in S OBVIOUS
<1>2. Held(f, d) = (UNION {TextsOf(b) : b \in Current(f)}) \cup S BY Zenon DEF Held
<1> HIDE DEF S, U
<1> QED BY <1>1, <1>2

(* The unsaved texts are those of dirty rows, so it is enough to keep       *)
(* these.                                                                   *)
LEMMA KeptRows ==
    ASSUME NEW e \in LiveEditor, Sound(e), NEW f, NEW d, NEW G,
           \A i \in DOMAIN e.tabs : Row(e, i).dirty /\ Row(e, i).path # Scratch
              => Row(e, i).text \in Held(f, d) \cup G
    PROVE  Unsaved(e) \subseteq Held(f, d) \cup G
<1> SUFFICES ASSUME NEW b \in Tabbed(e), b.dirty, b.path # Scratch
             PROVE  b.text \in Held(f, d) \cup G
  BY DEF Unsaved
<1>1. b \in Current(e) /\ TabOf(e, b.path) # {} BY DEF Tabbed
<1>2. CASE b = e.buf
  <2>1. DOMAIN e.tabs # {} BY <1>1 DEF TabOf
  <2>2. e.tabs # <<>> BY <2>1
  <2>3. e.active \in DOMAIN e.tabs /\ Row(e, e.active) = b BY <1>2, <2>2 DEF Sound, Placed, Row
  <2> QED BY <2>3
<1>3. CASE \E i \in DOMAIN e.tabs \ {e.active} : b = e.tabs[i]
  <2>1. PICK i \in DOMAIN e.tabs \ {e.active} : b = e.tabs[i] BY <1>3
  <2>2. Row(e, i) = b BY <2>1 DEF Row
  <2> QED BY <2>2
<1> QED BY <1>1, <1>2, <1>3 DEF Current

(* An action that keeps every tab's row keeps every text.                   *)
LEMMA KeptStepByRows ==
    ASSUME TypeOK, Holds, mishaps' = {} => mishaps = {},
           mishaps' = {} /\ SoundWorld(World) => RowsOf(ed) \subseteq RowsOf(ed')
    PROVE  KeptStep
<1> SUFFICES ASSUME mishaps' = {} PROVE Unsaved(ed) \subseteq Held(ed', disk') \cup GivenUp
  BY DEF KeptStep
<1>1. SoundWorld(World) /\ Sound(ed) BY TypeFacts DEF Holds, SoundWorld
<1>2. \A i \in DOMAIN ed.tabs : Row(ed, i) \in RowsOf(ed') BY <1>1 DEF RowsOf
<1>3. \A i \in DOMAIN ed.tabs : Row(ed, i).text \in Held(ed', disk') BY <1>2, RowHeld
<1> QED BY <1>1, <1>3, TypeFacts, KeptRows

(* The live buffer changes, its tab and the other tabs stay.                *)
LEMMA KeptStepByBuf ==
    ASSUME TypeOK, Holds, mishaps' = mishaps, ed'.tabs = ed.tabs, ed'.active = ed.active,
           ed.buf.dirty => ed.buf.text \in TextsOf(ed'.buf) \cup GivenUp
    PROVE  KeptStep
<1> SUFFICES ASSUME mishaps' = {} PROVE Unsaved(ed) \subseteq Held(ed', disk') \cup GivenUp
  BY DEF KeptStep
<1>1. Sound(ed) BY TypeFacts DEF Holds, SoundWorld
<1>2. ASSUME NEW i \in DOMAIN ed.tabs, Row(ed, i).dirty
      PROVE  Row(ed, i).text \in Held(ed', disk') \cup GivenUp
  <2>1. CASE i = ed.active
    <3>1. Row(ed, i) = ed.buf BY <2>1 DEF Row
    <3>2. TextsOf(ed'.buf) \subseteq Held(ed', disk') BY DEF Held, Current
    <3> QED BY <1>2, <3>1, <3>2
  <2>2. CASE i # ed.active
    <3>1. Row(ed, i) = Row(ed', i) /\ Row(ed', i) \in RowsOf(ed') BY <2>2 DEF Row, RowsOf
    <3> QED BY <3>1, RowHeld
  <2> QED BY <2>1, <2>2
<1> QED BY <1>1, <1>2, TypeFacts, KeptRows

(* An action that drops no snapshot cannot drop one too early.              *)
LEMMA SnapStepSame ==
    ASSUME TypeOK, \A p \in Paths : rec[p] \in Text => rec'[p] # None
    PROVE  SnapStep
BY DEF SnapStep

(* No editor: no tab, and the welcome buffer.                               *)
LEMMA ShutProps == Shut \in LiveEditor /\ Sound(Shut) /\ RowsOf(Shut) = {}
<1> DEFINE b == Fresh(Scratch, Blank(Scratch), 0)
<1>1. b \in Buffer /\ OwnTexts(b)
  <2>1. 0 \in Count /\ Scratch \in Paths BY Marks DEF Count
  <2> QED BY <2>1, Texts, FreshType, FreshOwn
<1> HIDE DEF b
<1>2. Shut = [buf |-> b, tabs |-> <<>>, active |-> 1, guard |-> NoGuard, agrees |-> TRUE]
  BY DEF Shut, b
<1>3. NoGuard \in Guards /\ <<>> \in Seq(Buffer) BY EmptySeq DEF NoGuard, Guards
<1>4. Shut \in LiveEditor /\ Shut.buf = b /\ Shut.tabs = <<>> BY <1>1, <1>2, <1>3 DEF LiveEditor, Editor
<1>5. DOMAIN Shut.tabs = {} BY <1>4
<1> QED BY <1>1, <1>4, <1>5 DEF Sound, Placed, Distinct, Own, RowsOf

(* Dropping snapshots mixes nothing up.                                     *)
LEMMA RemovedProps ==
    ASSUME NEW r \in SnapMap, NEW ps
    PROVE  Removed(r, ps) \in SnapMap /\ (OwnSnaps(r) => OwnSnaps(Removed(r, ps)))
<1>1. \A p \in Paths : Removed(r, ps)[p] = IF p \in ps THEN None ELSE r[p] BY DEF Removed
<1>2. Removed(r, ps) \in SnapMap BY DEF Removed, SnapMap
<1> QED BY <1>1, <1>2, Marks DEF OwnSnaps

-------------------------------------------------------------------------------
(* One lemma per action                                                    *)

(* An edit that leaves the world v.                                         *)
LEMMA EditEnough ==
    ASSUME TypeOK, Holds, NEW v \in Worlds, ed' = v.ed, disk' = v.disk, rec' = v.rec, NEW o,
           texts < MaxTexts, texts' = texts + 1, o = "ok" \/ faults < MaxFaults,
           faults' = IF o = "ok" THEN faults ELSE faults + 1,
           running' = running, autoSave' = autoSave, mishaps' = mishaps,
           SoundWorld(World) => SoundWorld(v)
    PROVE  TypeOK' /\ Holds'
<1>1. World' = v BY DEF World, Worlds
<1>2. texts' \in 1..(MaxTexts + 1) /\ faults' \in 0..MaxFaults /\ running' \in BOOLEAN
      /\ autoSave' \in BOOLEAN
  BY Marks DEF TypeOK
<1> QED BY <1>1, <1>2, Enough

(* An edit: the text before it goes to the undo stack and, if the snapshot   *)
(* is due and its write goes through, into the recovery file.               *)
LEMMA TypedProps ==
    ASSUME TypeOK, NEW s \in Outcomes
    PROVE  LET w == Typed(s) IN
           /\ w \in Worlds /\ w.disk = disk
           /\ w.ed.tabs = ed.tabs /\ w.ed.active = ed.active /\ w.ed.buf.path = ed.buf.path
           /\ ed.buf.text \in TextsOf(w.ed.buf)
           /\ SoundWorld(World) => SoundWorld(w)
           /\ \A p \in Paths : rec[p] \in Text /\ w.rec[p] = None => p = ed.buf.path /\ s = "cut"
<1> DEFINE b == ed.buf
           t == NewText(b.path)
           c == Edited(b, t)
           f == [ed EXCEPT !.buf = c]
           r == Snapped(rec, b, s)
           w == [World EXCEPT !.ed.buf = c, !.rec = r]
<1>1. t \in Text /\ t.of = b.path BY TypeFacts, Texts
<1>2. /\ c \in Buffer /\ c.path = b.path /\ c.text = t
      /\ b.text \in TextsOf(c) /\ TextsOf(c) \subseteq TextsOf(b) \cup {t}
  <2> DEFINE u == Trim(Append(b.undo, b.text))
             k == (b.count + 1) % SnapEvery
  <2>1. u \in Seq(Text) /\ b.text \in ToSet(u) /\ ToSet(u) \subseteq ToSet(b.undo) \cup {b.text}
    BY TypeFacts, Trimmed
  <2>2. k \in Count
    <3>1. \A x \in Nat, y \in Nat \ {0} : (x + 1) % y \in 0..(y - 1) OBVIOUS
    <3>2. b.count \in Nat BY TypeFacts DEF Count
    <3> QED BY <3>1, <3>2, Marks DEF Count
  <2>3. c = [b EXCEPT !.text = t, !.dirty = TRUE, !.undo = u, !.redo = <<>>, !.count = k]
    BY TypeFacts DEF Edited, Buffer
  <2> HIDE DEF c, u, k, t
  <2>4. <<>> \in Seq(Text) /\ ToSet(<<>>) = {} BY EmptySeq DEF ToSet
  <2>5. /\ c \in Buffer /\ c.path = b.path /\ c.text = t /\ c.undo = u /\ c.redo = <<>>
    BY <1>1, <2>1, <2>2, <2>3, <2>4, TypeFacts DEF Buffer, Count
  <2> QED BY <2>1, <2>4, <2>5 DEF TextsOf
<1>3. OwnTexts(b) => OwnTexts(c)
  <2> HIDE DEF t, c
  <2> QED BY <1>1, <1>2 DEF OwnTexts
<1> HIDE DEF c, t
<1>4. f \in LiveEditor /\ f.buf = c /\ f.tabs = ed.tabs /\ f.active = ed.active
  BY <1>2, TypeFacts DEF LiveEditor, Editor
<1>5. /\ r \in SnapMap
      /\ \A p \in Paths : rec[p] \in Text /\ r[p] = None => p = b.path /\ s = "cut"
      /\ OwnSnaps(rec) /\ OwnTexts(b) => OwnSnaps(r)
  <2>1. b.path \in Paths /\ b.text \in Text /\ rec \in SnapMap BY TypeFacts
  <2>2. \/ r = [rec EXCEPT ![b.path] = b.text]
        \/ r = [rec EXCEPT ![b.path] = None] /\ s = "cut"
        \/ r = rec
    BY DEF Snapped, Outcomes
  <2> HIDE DEF r, b
  <2>3. /\ r \in SnapMap /\ \A p \in Paths \ {b.path} : r[p] = rec[p]
        /\ r[b.path] \in {b.text, rec[b.path]} \/ (r[b.path] = None /\ s = "cut")
    BY <2>1, <2>2 DEF SnapMap
  <2>4. OwnTexts(b) => b.text.of = b.path BY DEF OwnTexts, TextsOf
  <2> QED BY <2>1, <2>3, <2>4, Marks DEF OwnSnaps
<1>6. w = [ed |-> f, disk |-> disk, rec |-> r]
  <2> HIDE DEF r
  <2>1. World.ed = ed BY DEF World
  <2>2. w = [World EXCEPT !.ed = f, !.rec = r] BY <2>1
  <2> HIDE DEF f, w
  <2> QED BY <2>2 DEF World
<1>7. w \in Worlds /\ w.ed = f /\ w.disk = disk /\ w.rec = r
  <2> HIDE DEF f, r, w
  <2> QED BY <1>4, <1>5, <1>6, TypeFacts DEF Worlds
<1>8. SoundWorld(World) => SoundWorld(w)
  <2> HIDE DEF f, r, w
  <2> SUFFICES ASSUME SoundWorld(World) PROVE SoundWorld(w) OBVIOUS
  <2>1. Sound(ed) /\ OwnFiles(disk) /\ OwnSnaps(rec) /\ OwnTexts(ed.buf)
    BY TypeFacts DEF SoundWorld, Sound, Own
  <2>2. Sound(f) BY <1>2, <1>3, <1>4, <2>1, TypeFacts, SameTabs
  <2>3. OwnSnaps(r) BY <1>5, <2>1
  <2> QED BY <1>7, <2>1, <2>2, <2>3 DEF SoundWorld
<1>9. Typed(s) = w BY DEF Typed, w, r, f, c, t
<1> HIDE DEF w, f, r
<1> QED BY <1>2, <1>4, <1>5, <1>7, <1>8, <1>9

(* An edit that is not saved at once.                                       *)
LEMMA EditStep ==
    ASSUME TypeOK, Holds, NEW s \in Outcomes, Edit(s)
    PROVE  Good
<1> DEFINE w == Typed(s)
<1>1. /\ w \in Worlds /\ w.disk = disk
      /\ w.ed.tabs = ed.tabs /\ w.ed.active = ed.active
      /\ ed.buf.text \in TextsOf(w.ed.buf)
      /\ SoundWorld(World) => SoundWorld(w)
      /\ \A p \in Paths : rec[p] \in Text /\ w.rec[p] = None => p = ed.buf.path /\ s = "cut"
  BY TypedProps
<1>2. /\ ed' = w.ed /\ disk' = w.disk /\ rec' = w.rec
      /\ texts < MaxTexts /\ texts' = texts + 1
      /\ faults' = (IF s = "ok" THEN faults ELSE faults + 1) /\ (s = "ok" \/ faults < MaxFaults)
      /\ running' = running /\ autoSave' = autoSave /\ mishaps' = mishaps
  BY DEF Edit, Types, Become, Spend
<1> HIDE DEF w
<1>3. TypeOK' /\ Holds' BY <1>1, <1>2, EditEnough
<1>4. KeptStep BY <1>1, <1>2, KeptStepByBuf
<1>5. SnapStep BY <1>1, <1>2 DEF SnapStep, Torn
<1> QED BY <1>3, <1>4, <1>5 DEF Good

(* An edit and the automatic save after it.                                 *)
LEMMA EditSavingStep ==
    ASSUME TypeOK, Holds, NEW s \in Outcomes, NEW o \in Outcomes, EditSaving(s, o)
    PROVE  Good
<1> DEFINE w == Typed(s)
           v == Saved(w, o)
           k == IF s = "ok" THEN o ELSE s
<1>1. /\ w \in Worlds /\ w.ed.tabs = ed.tabs /\ w.ed.active = ed.active
      /\ w.ed.buf.path = ed.buf.path /\ ed.buf.text \in TextsOf(w.ed.buf)
      /\ SoundWorld(World) => SoundWorld(w)
      /\ \A p \in Paths : rec[p] \in Text /\ w.rec[p] = None => p = ed.buf.path /\ s = "cut"
  BY TypedProps
<1>2. /\ ed' = v.ed /\ disk' = v.disk /\ rec' = v.rec
      /\ texts < MaxTexts /\ texts' = texts + 1
      /\ faults' = (IF k = "ok" THEN faults ELSE faults + 1) /\ (k = "ok" \/ faults < MaxFaults)
      /\ running' = running /\ autoSave' = autoSave /\ mishaps' = mishaps
  BY DEF EditSaving, Types, Become, Spend
<1> HIDE DEF w
<1>3. /\ v \in Worlds /\ v.ed.tabs = ed.tabs /\ v.ed.active = ed.active
      /\ v.ed.buf.path = ed.buf.path /\ v.ed.buf.text = w.ed.buf.text
      /\ ed.buf.text \in TextsOf(v.ed.buf)
      /\ o = "ok" => v.disk[ed.buf.path] = w.ed.buf.text
      /\ o # "ok" => v.rec = w.rec
      /\ \A q \in Paths \ {ed.buf.path} : v.rec[q] = w.rec[q]
      /\ SoundWorld(World) => SoundWorld(v)
  BY <1>1, SavedProps
<1> HIDE DEF v, k
<1>4. TypeOK' /\ Holds' BY <1>2, <1>3, EditEnough
<1>5. KeptStep BY <1>2, <1>3, KeptStepByBuf
<1>6. SnapStep
  <2> SUFFICES ASSUME NEW p \in Paths, rec[p] \in Text, rec'[p] = None, ~Torn(p)
               PROVE  \E b \in Current(ed) \cup Current(ed') : b.path = p /\ disk'[p] \in TextsOf(b)
    BY DEF SnapStep
  <2>1. s = "cut" /\ p = ed.buf.path => Torn(p) BY DEF Torn
  <2>2. o = "ok" /\ p = ed.buf.path BY <1>1, <1>2, <1>3, <2>1
  <2>3. ed'.buf \in Current(ed') /\ ed'.buf.text \in TextsOf(ed'.buf) BY DEF Current, TextsOf
  <2> QED BY <1>2, <1>3, <2>2, <2>3
<1> QED BY <1>4, <1>5, <1>6 DEF Good

(* Undo, Redo, Reload, Poll: the live buffer becomes c, nothing else moves.   *)
LEMMA BufStep ==
    ASSUME TypeOK, Holds, NEW c \in Buffer, NEW a \in BOOLEAN, c.path = ed.buf.path,
           ed' = [ed EXCEPT !.buf = c, !.agrees = a], Unspent, Quiet,
           SoundWorld(World) => OwnTexts(c),
           ed.buf.dirty => ed.buf.text \in TextsOf(c) \cup GivenUp
    PROVE  Good
<1>1. ed' \in LiveEditor /\ ed'.buf = c /\ ed'.tabs = ed.tabs /\ ed'.active = ed.active
  BY TypeFacts DEF LiveEditor, Editor
<1>2. /\ disk' = disk /\ rec' = rec /\ faults' = faults /\ running' = running
      /\ autoSave' = autoSave /\ texts' = texts /\ mishaps' = mishaps
  BY DEF Unspent, Quiet
<1>3. World' \in Worlds BY <1>1, <1>2, TypeFacts DEF World, Worlds
<1>4. ASSUME SoundWorld(World) PROVE SoundWorld(World')
  <2>3. OwnTexts(ed'.buf) /\ Sound(ed) BY <1>1, <1>4, TypeFacts DEF SoundWorld
  <2>1. Sound(ed') BY <1>1, <2>3 DEF Sound, Placed, Distinct, Own
  <2>2. World'.ed = ed' /\ World'.disk = disk /\ World'.rec = rec BY <1>2 DEF World
  <2> QED BY <1>4, <2>1, <2>2, TypeFacts DEF SoundWorld
<1>5. TypeOK' /\ Holds'
  <2>1. /\ texts' \in 1..(MaxTexts + 1) /\ faults' \in 0..MaxFaults /\ running' \in BOOLEAN
        /\ autoSave' \in BOOLEAN
    BY <1>2 DEF TypeOK
  <2> QED BY <1>2, <1>3, <1>4, <2>1, Enough
<1>6. KeptStep BY <1>1, <1>2, KeptStepByBuf
<1>7. SnapStep BY <1>2, Marks, SnapStepSame
<1> QED BY <1>5, <1>6, <1>7 DEF Good

(* The text undone goes to the redo stack.                                  *)
LEMMA UndoStep == ASSUME TypeOK, Holds, Undo PROVE Good
<1> DEFINE b == ed.buf
           u == Front(b.undo)
           r == Append(b.redo, b.text)
           t == Last(b.undo)
           c == [b EXCEPT !.text = t, !.undo = u, !.redo = r, !.dirty = TRUE]
<1>1. /\ u \in Seq(Text) /\ t \in Text /\ t \in ToSet(b.undo) /\ ToSet(u) \subseteq ToSet(b.undo)
  BY TypeFacts, LastFront DEF Undo
<1>2. r \in Seq(Text) /\ ToSet(r) = ToSet(b.redo) \cup {b.text} BY TypeFacts, Appended
<1>3. ed' = [ed EXCEPT !.buf = c]
  <2>1. ed' = [ed EXCEPT !.buf.text = t, !.buf.undo = u, !.buf.redo = r, !.buf.dirty = TRUE] BY DEF Undo
  <2> HIDE DEF t, u, r
  <2> QED BY <2>1, TypeFacts DEF LiveEditor, Editor, Buffer
<1> HIDE DEF u, r, t
<1>4. /\ c \in Buffer /\ c.path = b.path /\ c.text = t /\ c.undo = u /\ c.redo = r
  BY <1>1, <1>2, TypeFacts DEF Buffer
<1> HIDE DEF c
<1>5. b.text \in TextsOf(c) /\ TextsOf(c) \subseteq TextsOf(b) BY <1>1, <1>2, <1>4 DEF TextsOf
<1>6. SoundWorld(World) => OwnTexts(c)
  BY <1>4, <1>5, TypeFacts DEF SoundWorld, Sound, Own, OwnTexts
<1>7. ed' = [ed EXCEPT !.buf = c, !.agrees = ed.agrees] BY <1>3, TypeFacts DEF Editor
<1> QED BY <1>4, <1>5, <1>6, <1>7, TypeFacts, BufStep DEF Undo

(* The text redone over goes to the undo stack.                             *)
LEMMA RedoStep == ASSUME TypeOK, Holds, Redo PROVE Good
<1> DEFINE b == ed.buf
           u == Append(b.undo, b.text)
           r == Front(b.redo)
           t == Last(b.redo)
           c == [b EXCEPT !.text = t, !.redo = r, !.undo = u, !.dirty = TRUE]
<1>1. /\ r \in Seq(Text) /\ t \in Text /\ t \in ToSet(b.redo) /\ ToSet(r) \subseteq ToSet(b.redo)
  BY TypeFacts, LastFront DEF Redo
<1>2. u \in Seq(Text) /\ ToSet(u) = ToSet(b.undo) \cup {b.text} BY TypeFacts, Appended
<1>3. ed' = [ed EXCEPT !.buf = c]
  <2>1. ed' = [ed EXCEPT !.buf.text = t, !.buf.redo = r, !.buf.undo = u, !.buf.dirty = TRUE] BY DEF Redo
  <2> HIDE DEF t, u, r
  <2> QED BY <2>1, TypeFacts DEF LiveEditor, Editor, Buffer
<1> HIDE DEF u, r, t
<1>4. /\ c \in Buffer /\ c.path = b.path /\ c.text = t /\ c.undo = u /\ c.redo = r
  BY <1>1, <1>2, TypeFacts DEF Buffer
<1> HIDE DEF c
<1>5. b.text \in TextsOf(c) /\ TextsOf(c) \subseteq TextsOf(b) BY <1>1, <1>2, <1>4 DEF TextsOf
<1>6. SoundWorld(World) => OwnTexts(c)
  BY <1>4, <1>5, TypeFacts DEF SoundWorld, Sound, Own, OwnTexts
<1>7. ed' = [ed EXCEPT !.buf = c, !.agrees = ed.agrees] BY <1>3, TypeFacts DEF Editor
<1> QED BY <1>4, <1>5, <1>6, <1>7, TypeFacts, BufStep DEF Redo

(* The text given up by :e! is the only one that may go.                    *)
LEMMA ReloadStep == ASSUME TypeOK, Holds, Reload PROVE Good
<1> DEFINE b == ed.buf
           t == disk[b.path]
           c == Fresh(b.path, t, b.count)
<1>1. t \in Text /\ b.path \in Paths /\ b.count \in Count
  BY TypeFacts, OnDiskType DEF Reload
<1>2. c \in Buffer /\ c.path = b.path /\ c.text = t BY <1>1, FreshType
<1>3. ed' = [ed EXCEPT !.buf = c, !.agrees = TRUE] BY TypeFacts DEF Reload, Editor
<1>4. ASSUME SoundWorld(World) PROVE OwnTexts(c)
  <2>1. t.of = b.path BY <1>1, <1>4, TypeFacts DEF SoundWorld, OwnFiles, Reload
  <2> QED BY <1>1, <2>1, FreshOwn
<1>5. ed.buf.text \in GivenUp BY DEF GivenUp
<1> HIDE DEF c
<1> QED BY <1>2, <1>3, <1>4, <1>5, BufStep DEF Reload, Quiet

(* check_file_changed replaces the live text only when it is saved.         *)
LEMMA PollStep == ASSUME TypeOK, Holds, Poll PROVE Good
<1> DEFINE b == ed.buf
           p == b.path
           c == IF ed' = ed \/ ed' = [ed EXCEPT !.agrees = TRUE] THEN b ELSE Fresh(p, disk[p], b.count)
<1>0. p \in Paths /\ b \in Buffer /\ b.count \in Count BY TypeFacts
<1>1. CASE ed' = ed \/ ed' = [ed EXCEPT !.agrees = TRUE]
  <2>1. PICK a \in BOOLEAN : ed' = [ed EXCEPT !.buf = b, !.agrees = a]
    BY <1>1, TypeFacts DEF Editor
  <2>2. SoundWorld(World) => OwnTexts(b) BY TypeFacts DEF SoundWorld, Sound, Own
  <2>3. b.text \in TextsOf(b) BY DEF TextsOf
  <2> QED BY <1>0, <2>1, <2>2, <2>3, BufStep DEF Poll
<1>2. CASE ~(ed' = ed \/ ed' = [ed EXCEPT !.agrees = TRUE])
  <2> DEFINE f == Fresh(p, disk[p], b.count)
  <2>1. /\ disk[p] # Absent /\ ~b.dirty
        /\ ed' = [ed EXCEPT !.buf = f, !.agrees = TRUE]
    BY <1>2 DEF Poll, Checked
  <2>2. disk[p] \in Text BY <1>0, <2>1, TypeFacts, OnDiskType
  <2>3. f \in Buffer /\ f.path = p BY <1>0, <2>2, FreshType
  <2>4. ASSUME SoundWorld(World) PROVE OwnTexts(f)
    <3>1. disk[p].of = p BY <1>0, <2>1, <2>4, TypeFacts DEF SoundWorld, OwnFiles
    <3> QED BY <1>0, <2>2, <3>1, FreshOwn
  <2> HIDE DEF f
  <2> QED BY <2>1, <2>3, <2>4, BufStep DEF Poll
<1> QED BY <1>1, <1>2

LEMMA SaveStep == ASSUME TypeOK, Holds, NEW o \in Outcomes, Save(o) PROVE Good
<1> DEFINE b == ed.buf
           v == Saved(World, o)
<1>1. /\ v \in Worlds /\ v.ed.tabs = ed.tabs /\ v.ed.active = ed.active
      /\ v.ed.buf.text = b.text /\ (o = "ok" => v.disk[b.path] = b.text)
      /\ o # "ok" => v.rec = rec
      /\ \A q \in Paths \ {b.path} : v.rec[q] = rec[q]
      /\ SoundWorld(World) => SoundWorld(v)
  BY TypeFacts, SavedProps
<1>2. /\ ed' = v.ed /\ disk' = v.disk /\ rec' = v.rec
      /\ faults' = (IF o = "ok" THEN faults ELSE faults + 1) /\ (o = "ok" \/ faults < MaxFaults)
      /\ running' = running /\ autoSave' = autoSave /\ mishaps' = mishaps /\ texts' = texts
  BY DEF Save, Become, Spend, Quiet
<1> HIDE DEF v
<1>3. World' = v BY <1>1, <1>2 DEF World, Worlds
<1>4. TypeOK' /\ Holds'
  <2>1. texts' \in 1..(MaxTexts + 1) /\ faults' \in 0..MaxFaults /\ running' \in BOOLEAN
        /\ autoSave' \in BOOLEAN
    BY <1>2, Marks DEF TypeOK
  <2> QED BY <1>1, <1>2, <1>3, <2>1, Enough
<1>5. KeptStep
  <2>1. ed.buf.text \in TextsOf(ed'.buf) BY <1>1, <1>2 DEF TextsOf
  <2> QED BY <1>1, <1>2, <2>1, KeptStepByBuf
<1>6. SnapStep
  <2>1. b.text \in TextsOf(b) /\ b \in Current(ed) BY DEF TextsOf, Current
  <2> QED BY <1>1, <1>2, <2>1, Marks DEF SnapStep
<1> QED BY <1>4, <1>5, <1>6 DEF Good

(* The tabs change, files and snapshots of dirty buffers stay.              *)
LEMMA TabStep ==
    ASSUME TypeOK, Holds, ed' \in LiveEditor, disk' \in FileMap, rec' = rec,
           running' = running, autoSave' = autoSave, faults' = faults,
           texts' = texts \/ (texts < MaxTexts /\ texts' = texts + 1),
           mishaps' \subseteq Mishaps, mishaps' = {} => mishaps = {},
           SoundWorld(World) /\ mishaps' = {} =>
              Sound(ed') /\ OwnFiles(disk') /\ RowsOf(ed) \subseteq RowsOf(ed')
    PROVE  Good
<1>1. TypeOK'
  <2>1. texts' \in 1..(MaxTexts + 1) BY Marks DEF TypeOK
  <2> QED BY <2>1 DEF TypeOK, LiveEditor, FileMap
<1>2. Holds'
  <2>1. World'.ed = ed' /\ World'.disk = disk' /\ World'.rec = rec BY DEF World
  <2> QED BY <2>1, TypeFacts DEF Holds, SoundWorld
<1>3. KeptStep BY KeptStepByRows
<1>4. SnapStep BY Marks, SnapStepSame
<1> QED BY <1>1, <1>2, <1>3, <1>4 DEF Good

LEMMA SwitchStep == ASSUME TypeOK, Holds, NEW i \in 1..MaxTabs, Switch(i) PROVE Good
<1>1. /\ ed' = SwitchTab(ed, disk, i) /\ disk' = disk /\ rec' = rec /\ faults' = faults
      /\ running' = running /\ autoSave' = autoSave /\ texts' = texts /\ mishaps' = mishaps
  BY DEF Switch, Quiet, Unspent
<1>2. i \in Nat BY Marks
<1>3. ed' \in LiveEditor /\ RowsOf(ed) \subseteq RowsOf(ed') /\ (Sound(ed) => Sound(ed'))
  BY <1>1, <1>2, TypeFacts, SwitchTabProps
<1>4. mishaps' \subseteq Mishaps /\ disk' \in FileMap BY <1>1, TypeFacts DEF TypeOK
<1>5. SoundWorld(World) => Sound(ed') /\ OwnFiles(disk') BY <1>1, <1>3, TypeFacts DEF SoundWorld
<1> QED BY <1>1, <1>3, <1>4, <1>5, TabStep

(* Opening with a full tab bar and no tab of its own is the mishap, all     *)
(* else keeps the rows.                                                     *)
LEMMA OpenStep == ASSUME TypeOK, Holds, NEW p \in Paths, Open(p) PROVE Good
<1> DEFINE d == IF disk[p] = Absent THEN [disk EXCEPT ![p] = Blank(p)] ELSE disk
           a == ed.agrees /\ (ed.buf.path = p => d = disk)
           e == [ed EXCEPT !.agrees = a]
           f == OpenFile(e, d, p)
<1>1. /\ disk' = d /\ ed' = f /\ rec' = rec /\ faults' = faults
      /\ running' = running /\ autoSave' = autoSave /\ texts' = texts
      /\ mishaps' = IF Len(ed.tabs) >= MaxTabs /\ TabOf(ed, f.buf.path) = {}
                    THEN mishaps \cup {"full bar"} ELSE mishaps
  BY DEF Open, Touched
<1>2. d \in FileMap /\ (OwnFiles(disk) => OwnFiles(d))
  <2>1. disk \in FileMap /\ Blank(p) \in Text /\ Blank(p).of = p BY TypeFacts, Texts
  <2> QED BY <2>1 DEF FileMap, OwnFiles
<1>3. a \in BOOLEAN OBVIOUS
<1> HIDE DEF a, d
<1>4. e \in LiveEditor /\ e.buf = ed.buf /\ e.tabs = ed.tabs /\ e.active = ed.active
  BY <1>3, TypeFacts, AgreesProps
<1> HIDE DEF e
<1>5. RowsOf(e) = RowsOf(ed) /\ (Sound(ed) => Sound(e)) /\ \A q : TabOf(e, q) = TabOf(ed, q)
  BY <1>4, TypeFacts, SameEditor
<1>6. /\ f \in LiveEditor
      /\ Sound(e) /\ OwnFiles(d) /\ (Len(e.tabs) < MaxTabs \/ TabOf(e, f.buf.path) # {})
            => Sound(f) /\ RowsOf(e) \subseteq RowsOf(f)
  BY <1>2, <1>4, OpenFileProps
<1> HIDE DEF f
<1>7. mishaps' \subseteq Mishaps /\ (mishaps' = {} => mishaps = {}) BY <1>1 DEF TypeOK, Mishaps
<1>8. ASSUME SoundWorld(World), mishaps' = {}
      PROVE  Sound(ed') /\ OwnFiles(disk') /\ RowsOf(ed) \subseteq RowsOf(ed')
  <2>1. Sound(e) /\ OwnFiles(d) BY <1>2, <1>5, <1>8, TypeFacts DEF SoundWorld
  <2>2. Len(e.tabs) < MaxTabs \/ TabOf(e, f.buf.path) # {}
    <3>1. ~(Len(ed.tabs) >= MaxTabs /\ TabOf(ed, f.buf.path) = {}) BY <1>1, <1>8
    <3>2. Len(ed.tabs) \in Nat /\ MaxTabs \in Nat BY TypeFacts, Marks
    <3>3. Len(ed.tabs) < MaxTabs \/ TabOf(ed, f.buf.path) # {} BY <3>1, <3>2
    <3> QED BY <1>4, <1>5, <3>3
  <2> QED BY <1>1, <1>5, <1>6, <2>1, <2>2
<1> QED BY <1>1, <1>2, <1>6, <1>7, <1>8, TabStep

(* Opening an open file by another spelling is a mishap.                    *)
LEMMA OpenSpelledStep == ASSUME TypeOK, Holds, NEW p \in Paths, OpenSpelled(p) PROVE Good
<1> DEFINE a == ed.agrees /\ (ed.buf.path = p => disk[p] # Absent)
           g == [ed EXCEPT !.agrees = a]
           e == SaveActive(g)
           d == Touched(p)
<1>1. /\ disk' = d /\ rec' = rec /\ faults' = faults /\ mishaps' = mishaps \cup {"spelling"}
      /\ ed' = IF Blocked(e, <<"open", p>>) THEN [e EXCEPT !.guard = <<"open", p>>]
               ELSE Pushed(Loaded(e, d, p))
      /\ running' = running /\ autoSave' = autoSave /\ texts' = texts
  BY DEF OpenSpelled
<1>2. d \in FileMap
  <2>1. disk \in FileMap /\ Blank(p) \in Text BY TypeFacts, Texts
  <2> QED BY <2>1 DEF FileMap, Touched
<1>3. a \in BOOLEAN BY TypeFacts
<1> HIDE DEF a, d
<1>4. g \in LiveEditor BY <1>3, TypeFacts, AgreesProps
<1> HIDE DEF g
<1>5. e \in LiveEditor BY <1>4, SaveActiveProps
<1> HIDE DEF e
<1>6. <<"open", p>> \in Guards BY DEF Guards
<1>7. [e EXCEPT !.guard = <<"open", p>>] \in LiveEditor BY <1>5, <1>6, GuardProps
<1>8. Loaded(e, d, p) \in LiveEditor BY <1>2, <1>5, LoadedProps
<1>9. Pushed(Loaded(e, d, p)) \in LiveEditor BY <1>8, PushedProps
<1>10. ed' \in LiveEditor BY <1>1, <1>7, <1>9
<1>11. mishaps' \subseteq Mishaps /\ mishaps' # {} BY <1>1 DEF TypeOK, Mishaps
<1> QED BY <1>1, <1>2, <1>10, <1>11, TabStep

(* Each tab becomes another buffer.                                         *)
Made(e, b, t, a) == [e EXCEPT !.buf = b, !.tabs = t, !.agrees = a]
LEMMA TabsMade ==
    ASSUME NEW e \in LiveEditor, NEW b \in Buffer, NEW a \in BOOLEAN,
           NEW t \in [DOMAIN e.tabs -> Buffer]
    PROVE  /\ Made(e, b, t, a) \in LiveEditor /\ Made(e, b, t, a).buf = b
           /\ Made(e, b, t, a).tabs = t /\ Made(e, b, t, a).active = e.active
           /\ DOMAIN t = DOMAIN e.tabs /\ (t = <<>> <=> e.tabs = <<>>)
<1>1. e.tabs \in Seq(Buffer) /\ Len(e.tabs) \in Nat /\ DOMAIN e.tabs = 1..Len(e.tabs)
  BY EditorFields DEF LiveEditor
<1>2. DOMAIN t = 1..Len(e.tabs) BY <1>1
<1>3. t \in [1..Len(e.tabs) -> Buffer] BY <1>1
<1>4. t \in Seq(Buffer) BY <1>1, <1>3, SeqDef
<1>5. Len(t) = Len(e.tabs) BY <1>1, <1>2, <1>4, LenProperties
<1>6. t = <<>> <=> e.tabs = <<>> BY <1>1, <1>4, <1>5, EmptySeq
<1> QED BY <1>1, <1>2, <1>4, <1>6 DEF LiveEditor, Editor, Made

(* :cd under a relative path is a mishap.                                   *)
LEMMA ChangeDirStep ==
    ASSUME TypeOK, Holds, NEW p \in Files, NEW q \in Files, ChangeDir(p, q)
    PROVE  Good
<1> DEFINE b == PathMoved(ed.buf, p, q)
           t == [i \in DOMAIN ed.tabs |-> PathMoved(ed.tabs[i], p, q)]
           a == ed.agrees /\ ed.buf.path # p
<1>1. /\ disk' = disk /\ rec' = rec /\ faults' = faults /\ mishaps' = mishaps \cup {"cd"}
      /\ ed' = Made(ed, b, t, a)
      /\ running' = running /\ autoSave' = autoSave /\ texts' = texts
  BY TypeFacts DEF ChangeDir, LiveEditor, Editor, Made
<1>2. \A c \in Buffer : PathMoved(c, p, q) \in Buffer BY Marks DEF PathMoved, Buffer
<1>3. b \in Buffer /\ a \in BOOLEAN BY <1>2, TypeFacts
<1>4. \A i \in DOMAIN ed.tabs : t[i] \in Buffer BY <1>2, TypeFacts, EditorFields
<1>5. t \in [DOMAIN ed.tabs -> Buffer] BY <1>4
<1> HIDE DEF b, t, a
<1>6. ed' \in LiveEditor BY <1>1, <1>3, <1>5, TypeFacts, TabsMade
<1>7. mishaps' \subseteq Mishaps /\ mishaps' # {} BY <1>1 DEF TypeOK, Mishaps
<1> QED BY <1>1, <1>6, <1>7, TypeFacts, TabStep

(* A renamed file's texts all move to the new name.                         *)
LEMMA MovedProps ==
    ASSUME NEW p \in Paths, NEW q \in Paths
    PROVE  /\ \A t \in Text : Moved(t, p, q) \in Text /\ (t.of = p => Moved(t, p, q).of = q)
           /\ \A s \in Seq(Text) : /\ AllMoved(s, p, q) \in Seq(Text)
                                   /\ ToSet(AllMoved(s, p, q)) = {Moved(t, p, q) : t \in ToSet(s)}
<1>1. ASSUME NEW t \in Text PROVE Moved(t, p, q) \in Text /\ (t.of = p => Moved(t, p, q).of = q)
  BY DEF Moved, Text
<1>2. ASSUME NEW s \in Seq(Text)
      PROVE  /\ AllMoved(s, p, q) \in Seq(Text)
             /\ ToSet(AllMoved(s, p, q)) = {Moved(t, p, q) : t \in ToSet(s)}
  <2>1. Len(s) \in Nat /\ DOMAIN s = 1..Len(s) /\ \A i \in DOMAIN s : s[i] \in Text
    BY LenProperties, ElementOfSeq
  <2>2. AllMoved(s, p, q) \in [1..Len(s) -> Text] BY <1>1, <2>1 DEF AllMoved
  <2>3. DOMAIN AllMoved(s, p, q) = DOMAIN s
        /\ \A i \in DOMAIN s : AllMoved(s, p, q)[i] = Moved(s[i], p, q)
    BY DEF AllMoved
  <2>4. ToSet(AllMoved(s, p, q)) = {Moved(t, p, q) : t \in ToSet(s)} BY <2>3 DEF ToSet
  <2> QED BY <2>1, <2>2, <2>4, SeqDef
<1> QED BY <1>1, <1>2

LEMMA RenamedProps ==
    ASSUME NEW b \in Buffer, NEW p \in Paths, NEW q \in Paths
    PROVE  LET c == Renamed(b, p, q) IN
           /\ c \in Buffer /\ c.path = IF b.path = p THEN q ELSE b.path
           /\ c.text = IF b.path = p THEN Moved(b.text, p, q) ELSE b.text
           /\ OwnTexts(b) => OwnTexts(c)
<1> DEFINE c == Renamed(b, p, q)
<1>1. CASE b.path = p
  <2> DEFINE t == Moved(b.text, p, q)
             u == AllMoved(b.undo, p, q)
             r == AllMoved(b.redo, p, q)
  <2>1. c = [b EXCEPT !.path = q, !.text = t, !.undo = u, !.redo = r] BY <1>1 DEF Renamed
  <2>2. /\ t \in Text /\ u \in Seq(Text) /\ r \in Seq(Text)
        /\ ToSet(u) = {Moved(x, p, q) : x \in ToSet(b.undo)}
        /\ ToSet(r) = {Moved(x, p, q) : x \in ToSet(b.redo)}
    BY BufferFields, MovedProps
  <2> HIDE DEF c, u, r
  <2>3. c \in Buffer /\ c.path = q /\ c.text = t /\ c.undo = u /\ c.redo = r
    BY <2>1, <2>2 DEF Buffer
  <2>4. \A x \in TextsOf(c) : \E y \in TextsOf(b) : x = Moved(y, p, q)
    BY <2>2, <2>3 DEF TextsOf
  <2>5. \A y \in TextsOf(b) : y \in Text
    <3>1. \A k \in Seq(Text) : ToSet(k) \subseteq Text
      <4> TAKE k \in Seq(Text)
      <4>1. DOMAIN k = 1..Len(k) /\ \A i \in 1..Len(k) : k[i] \in Text BY LenProperties, ElementOfSeq
      <4> QED BY <4>1 DEF ToSet
    <3> QED BY <3>1, BufferFields DEF TextsOf
  <2>6. ASSUME OwnTexts(b) PROVE OwnTexts(c)
    <3>1. ASSUME NEW x \in TextsOf(c) PROVE x.of = c.path
      <4>1. PICK y \in TextsOf(b) : x = Moved(y, p, q) BY <2>4
      <4>2. y \in Text /\ y.of = p BY <1>1, <2>5, <2>6 DEF OwnTexts
      <4> QED BY <2>3, <4>1, <4>2, MovedProps
    <3> QED BY <3>1 DEF OwnTexts
  <2> QED BY <1>1, <2>3, <2>6 DEF c
<1>2. CASE b.path # p BY <1>2 DEF Renamed
<1> QED BY <1>1, <1>2

(* All tabs of a renamed file follow it.                                    *)
LEMMA FollowedProps ==
    ASSUME NEW e \in LiveEditor, NEW p \in Paths, NEW q \in Paths, NEW a \in BOOLEAN
    PROVE  LET f == Followed(e, p, q, a) IN
           /\ f \in LiveEditor
           /\ \A i \in DOMAIN e.tabs : Renamed(Row(e, i), p, q) \in RowsOf(f)
           /\ Sound(e) /\ (TabOf(e, p) = {} \/ TabOf(e, q) = {}) => Sound(f)
<1> DEFINE f == Followed(e, p, q, a)
           b == Renamed(e.buf, p, q)
           t == [i \in DOMAIN e.tabs |-> Renamed(e.tabs[i], p, q)]
<1>0. e.buf \in Buffer /\ \A i \in DOMAIN e.tabs : e.tabs[i] \in Buffer
  BY EditorFields DEF LiveEditor
<1>1. b \in Buffer /\ t \in [DOMAIN e.tabs -> Buffer] BY <1>0, RenamedProps
<1>2. /\ f = Made(e, b, t, a)
      /\ \A i \in DOMAIN e.tabs : t[i] = Renamed(e.tabs[i], p, q)
  BY DEF Followed, Made
<1>3. b = Renamed(e.buf, p, q) OBVIOUS
<1> HIDE DEF f, b, t
<1>4. /\ f \in LiveEditor /\ f.buf = b /\ f.tabs = t /\ f.active = e.active
      /\ DOMAIN t = DOMAIN e.tabs /\ (t = <<>> <=> e.tabs = <<>>)
  BY <1>1, <1>2, TabsMade
<1>5. \A i \in DOMAIN e.tabs : Row(f, i) = Renamed(Row(e, i), p, q)
  BY <1>2, <1>3, <1>4 DEF Row
<1>6. \A i \in DOMAIN e.tabs : Renamed(Row(e, i), p, q) \in RowsOf(f)
  BY <1>4, <1>5 DEF RowsOf
<1>7. ASSUME Sound(e), TabOf(e, p) = {} \/ TabOf(e, q) = {} PROVE Sound(f)
  <2>1. ASSUME NEW i \in DOMAIN e.tabs
        PROVE  /\ t[i].path = IF e.tabs[i].path = p THEN q ELSE e.tabs[i].path
               /\ OwnTexts(t[i])
    <3>1. t[i] = Renamed(e.tabs[i], p, q) /\ e.tabs[i] \in Buffer BY <1>0, <1>2
    <3>2. OwnTexts(e.tabs[i]) BY <1>7 DEF Sound, Own
    <3>3. /\ Renamed(e.tabs[i], p, q).path = IF e.tabs[i].path = p THEN q ELSE e.tabs[i].path
          /\ OwnTexts(Renamed(e.tabs[i], p, q))
      BY <3>1, <3>2, RenamedProps
    <3> QED BY <3>1, <3>3
  <2>2. b.path = (IF e.buf.path = p THEN q ELSE e.buf.path) /\ OwnTexts(b)
    BY <1>0, <1>3, <1>7, RenamedProps DEF Sound, Own
  <2>3. Placed(f) BY <1>4, <1>7, <2>1, <2>2 DEF Sound, Placed
  <2>4. Distinct(f)
    <3> SUFFICES ASSUME NEW i \in DOMAIN e.tabs, NEW j \in DOMAIN e.tabs, t[i].path = t[j].path
                 PROVE  i = j
      BY <1>4 DEF Distinct
    <3>1. e.tabs[i].path = e.tabs[j].path BY <1>7, <2>1 DEF TabOf
    <3> QED BY <1>7, <3>1 DEF Sound, Distinct
  <2>5. Own(f) BY <1>4, <2>1, <2>2 DEF Own
  <2> QED BY <2>3, <2>4, <2>5 DEF Sound
<1> QED BY <1>4, <1>6, <1>7 DEF f

(* A rename moves the file's text, and the texts of its tabs if they follow;  *)
(* two tabs become one file's only when both were open.                     *)
LEMMA RenameStep ==
    ASSUME TypeOK, Holds, NEW p \in Files, NEW q \in Files, Rename(p, q)
    PROVE  Good
<1> DEFINE d == [disk EXCEPT ![p] = Absent, ![q] = Moved(disk[p], p, q)]
<1>0. p \in Paths /\ q \in Paths /\ p # q /\ disk[p] # Absent BY Marks DEF Rename
<1>1. /\ disk' = d /\ rec' = rec /\ faults' = faults /\ running' = running
      /\ autoSave' = autoSave /\ texts < MaxTexts /\ texts' = texts + 1
  BY DEF Rename
<1>2. d \in FileMap /\ (OwnFiles(disk) => OwnFiles(d))
  <2>1. disk \in FileMap /\ disk[p] \in Text BY <1>0, TypeFacts, OnDiskType
  <2>2. /\ Moved(disk[p], p, q) \in Text
        /\ disk[p].of = p => Moved(disk[p], p, q).of = q
    BY <1>0, <2>1, MovedProps
  <2> QED BY <1>0, <2>1, <2>2 DEF FileMap, OwnFiles
<1> HIDE DEF d
<1>3. CASE ed' = [ed EXCEPT !.agrees = ed.agrees /\ ed.buf.path \notin {p, q}] /\ mishaps' = mishaps
  <2> DEFINE a == ed.agrees /\ ed.buf.path \notin {p, q}
  <2>1. a \in BOOLEAN BY TypeFacts
  <2>2. ed' = [ed EXCEPT !.agrees = a] BY <1>3
  <2> HIDE DEF a
  <2>3. ed' \in LiveEditor /\ ed'.buf = ed.buf /\ ed'.tabs = ed.tabs /\ ed'.active = ed.active
    BY <2>1, <2>2, TypeFacts, AgreesProps
  <2>4. RowsOf(ed') = RowsOf(ed) /\ (Sound(ed) => Sound(ed')) BY <2>3, TypeFacts, SameEditor
  <2>5. SoundWorld(World) => Sound(ed') /\ OwnFiles(disk')
    BY <1>1, <1>2, <2>4, TypeFacts DEF SoundWorld
  <2>6. mishaps' \subseteq Mishaps BY <1>3 DEF TypeOK
  <2> QED BY <1>1, <1>2, <1>3, <2>3, <2>4, <2>5, <2>6, TabStep
<1>4. CASE /\ ed' = Followed(ed, p, q, ed.agrees /\ ed.buf.path # q)
           /\ mishaps' = IF IsOpen(p) /\ IsOpen(q) THEN mishaps \cup {"rename"} ELSE mishaps
  <2> DEFINE a == ed.agrees /\ ed.buf.path # q
  <2>1. a \in BOOLEAN BY TypeFacts
  <2>2. ed' = Followed(ed, p, q, a) BY <1>4
  <2> HIDE DEF a
  <2>3. /\ ed' \in LiveEditor
        /\ \A i \in DOMAIN ed.tabs : Renamed(Row(ed, i), p, q) \in RowsOf(ed')
        /\ Sound(ed) /\ (TabOf(ed, p) = {} \/ TabOf(ed, q) = {}) => Sound(ed')
    BY <1>0, <2>1, <2>2, TypeFacts, FollowedProps
  <2>4. /\ mishaps' \subseteq Mishaps
        /\ mishaps' = {} => mishaps = {} /\ (TabOf(ed, p) = {} \/ TabOf(ed, q) = {})
    BY <1>4 DEF TypeOK, Mishaps, IsOpen
  <2>5. TypeOK'
    <3>1. texts' \in 1..(MaxTexts + 1) BY <1>1, Marks DEF TypeOK
    <3> QED BY <1>1, <1>2, <2>3, <2>4, <3>1 DEF TypeOK, LiveEditor, FileMap
  <2>6. Holds'
    <3>1. World'.ed = ed' /\ World'.disk = disk' /\ World'.rec = rec BY <1>1 DEF World
    <3> QED BY <1>1, <1>2, <2>3, <2>4, <3>1, TypeFacts DEF Holds, SoundWorld
  <2>7. KeptStep
    <3> DEFINE G == {t \in Text : Carried(t)}
    <3> SUFFICES ASSUME mishaps' = {} PROVE Unsaved(ed) \subseteq Held(ed', disk') \cup G
      BY DEF KeptStep
    <3>1. Sound(ed) BY <2>4, TypeFacts DEF Holds, SoundWorld
    <3>2. ASSUME NEW i \in DOMAIN ed.tabs PROVE Row(ed, i).text \in Held(ed', disk') \cup G
      <4> DEFINE b == Row(ed, i)
                 c == Renamed(b, p, q)
      <4>1. b \in Buffer BY TypeFacts, EditorFields DEF Row
      <4>2. c.text \in Held(ed', disk') BY <2>3, RowHeld
      <4>3. c.text = (IF b.path = p THEN Moved(b.text, p, q) ELSE b.text) /\ b.text \in Text
        BY <1>0, <4>1, RenamedProps, BufferFields
      <4> HIDE DEF b, c
      <4>4. CASE b.path = p
        <5>1. Carried(b.text) BY <4>2, <4>3, <4>4 DEF Carried
        <5> QED BY <4>3, <5>1 DEF b
      <4>5. CASE b.path # p BY <4>2, <4>3, <4>5 DEF b
      <4> QED BY <4>4, <4>5
    <3> HIDE DEF G
    <3> QED BY <3>1, <3>2, TypeFacts, KeptRows
  <2>8. SnapStep BY <1>1, Marks, SnapStepSame
  <2> QED BY <2>5, <2>6, <2>7, <2>8 DEF Good
<1> QED BY <1>3, <1>4 DEF Rename

(* A tab closes over a dirty text only after a save that went through.      *)
LEMMA CloseTabStep ==
    ASSUME TypeOK, Holds, NEW o \in Outcomes, NEW i \in 1..MaxTabs, CloseTab(i, o)
    PROVE  Good
<1> DEFINE v == CloseTabAt(World, i, o)
           b == Row(ed, i)
<1>1. i \in DOMAIN ed.tabs BY DEF CloseTab
<1>2. Closes(World, i, v)
  <2>1. CASE i = ed.active BY <1>1, <2>1, TypeFacts, CloseActiveProps DEF CloseTabAt
  <2>2. CASE i # ed.active BY <1>1, <2>2, TypeFacts, CloseBackgroundProps DEF CloseTabAt
  <2> QED BY <2>1, <2>2
<1> HIDE DEF v
<1>3. /\ ed' = v.ed /\ disk' = v.disk /\ rec' = v.rec
      /\ faults' = (IF o = "ok" THEN faults ELSE faults + 1) /\ (o = "ok" \/ faults < MaxFaults)
      /\ running' = running /\ autoSave' = autoSave /\ mishaps' = mishaps /\ texts' = texts
  BY DEF CloseTab, Become, Spend, Quiet, v
<1>4. /\ v \in Worlds
      /\ \A p \in Paths : rec[p] \in Text /\ v.rec[p] = None => p = ed.buf.path /\ v.disk[p] = ed.buf.text
      /\ SoundWorld(World) =>
            /\ SoundWorld(v)
            /\ \A j \in DOMAIN ed.tabs \ {i} : Row(ed, j) \in RowsOf(v.ed)
            /\ b.dirty /\ b.path # Scratch => b \in RowsOf(v.ed) \/ v.disk[b.path] = b.text
  BY <1>2, TypeFacts DEF Closes
<1>5. World' = v BY <1>3, <1>4 DEF World, Worlds
<1>6. TypeOK' /\ Holds'
  <2>1. texts' \in 1..(MaxTexts + 1) /\ faults' \in 0..MaxFaults /\ running' \in BOOLEAN
        /\ autoSave' \in BOOLEAN
    BY <1>3, Marks DEF TypeOK
  <2> QED BY <1>3, <1>4, <1>5, <2>1, Enough
<1>7. KeptStep
  <2> SUFFICES ASSUME mishaps' = {} PROVE Unsaved(ed) \subseteq Held(ed', disk') \cup GivenUp
    BY DEF KeptStep
  <2>1. SoundWorld(World) /\ Sound(ed) BY <1>3, TypeFacts DEF Holds, SoundWorld
  <2>2. ASSUME NEW j \in DOMAIN ed.tabs, Row(ed, j).dirty, Row(ed, j).path # Scratch
        PROVE  Row(ed, j).text \in Held(ed', disk')
    <3>1. CASE Row(ed, j) \in RowsOf(ed') BY <3>1, RowHeld
    <3>2. CASE Row(ed, j) \notin RowsOf(ed')
      <4>1. j = i /\ disk'[b.path] = b.text BY <1>3, <1>4, <2>1, <2>2, <3>2
      <4>2. b \in Buffer BY <1>1, TypeFacts, EditorFields DEF Row
      <4>3. b.path \in Paths BY <4>2, BufferFields
      <4>4. disk'[b.path] \in Held(ed', disk') BY <4>3, FileHeld
      <4> QED BY <4>1, <4>4
    <3> QED BY <3>1, <3>2
  <2> QED BY <2>1, <2>2, TypeFacts, KeptRows
<1>8. SnapStep
  <2>1. ed.buf.text \in TextsOf(ed.buf) /\ ed.buf \in Current(ed) BY DEF TextsOf, Current
  <2> QED BY <1>3, <1>4, <2>1 DEF SnapStep
<1> QED BY <1>6, <1>7, <1>8 DEF Good

(* The editor ends.                                                         *)
LEMMA StopStep ==
    ASSUME TypeOK, Holds, Stopped, disk' \in FileMap, rec' \in SnapMap, faults' \in 0..MaxFaults,
           autoSave' = autoSave, texts' = texts, mishaps' = mishaps,
           SoundWorld(World) => OwnFiles(disk') /\ OwnSnaps(rec')
    PROVE  Good
<1>1. ed' \in LiveEditor /\ Sound(ed') /\ running' = FALSE BY ShutProps DEF Stopped
<1>2. World' \in Worlds /\ World'.ed = ed' /\ World'.disk = disk' /\ World'.rec = rec'
  BY <1>1 DEF World, Worlds
<1>3. TypeOK' /\ Holds'
  <2>1. SoundWorld(World) => SoundWorld(World') BY <1>1, <1>2 DEF SoundWorld
  <2>2. texts' \in 1..(MaxTexts + 1) /\ running' \in BOOLEAN /\ autoSave' \in BOOLEAN
    BY <1>1 DEF TypeOK
  <2> QED BY <1>2, <2>1, <2>2, Enough
<1> QED BY <1>1, <1>3 DEF Good, KeptStep, SnapStep

LEMMA ExitScratchStep == ASSUME TypeOK, Holds, ExitScratch PROVE Good
<1>1. /\ Stopped /\ disk' = disk /\ rec' = Removed(rec, {Scratch}) /\ faults' = faults
      /\ autoSave' = autoSave /\ texts' = texts /\ mishaps' = mishaps
  BY DEF ExitScratch
<1>2. disk' \in FileMap /\ rec' \in SnapMap /\ faults' \in 0..MaxFaults
  BY <1>1, TypeFacts, RemovedProps DEF TypeOK
<1>3. SoundWorld(World) => OwnFiles(disk') /\ OwnSnaps(rec')
  BY <1>1, TypeFacts, RemovedProps DEF SoundWorld
<1> QED BY <1>1, <1>2, <1>3, StopStep

LEMMA ExitCleanStep == ASSUME TypeOK, Holds, ExitClean \/ ExitDiscarding PROVE Good
<1>1. /\ Stopped /\ disk' = disk /\ rec' = Removed(rec, SnapshotsOf(ed)) /\ faults' = faults
      /\ autoSave' = autoSave /\ texts' = texts /\ mishaps' = mishaps
  BY DEF ExitClean, ExitDiscarding
<1>2. disk' \in FileMap /\ rec' \in SnapMap /\ faults' \in 0..MaxFaults
  BY <1>1, TypeFacts, RemovedProps DEF TypeOK
<1>3. SoundWorld(World) => OwnFiles(disk') /\ OwnSnaps(rec')
  BY <1>1, TypeFacts, RemovedProps DEF SoundWorld
<1> QED BY <1>1, <1>2, <1>3, StopStep

LEMMA ExitSavingStep == ASSUME TypeOK, Holds, NEW o \in Outcomes, ExitSaving(o) PROVE Good
<1> DEFINE w == Saved(World, o)
<1>1. w \in Worlds /\ (SoundWorld(World) => SoundWorld(w)) BY TypeFacts, SavedProps
<1>2. /\ disk' = w.disk /\ autoSave' = autoSave /\ texts' = texts /\ mishaps' = mishaps
      /\ IF o = "ok" THEN Stopped /\ rec' = Removed(w.rec, SnapshotsOf(ed))
         ELSE UNCHANGED <<running, ed, rec>>
      /\ faults' = (IF o = "ok" THEN faults ELSE faults + 1) /\ (o = "ok" \/ faults < MaxFaults)
  BY DEF ExitSaving, Spend
<1>3. faults' \in 0..MaxFaults BY <1>2, Marks DEF TypeOK
<1> HIDE DEF w
<1>4. w.disk \in FileMap /\ w.rec \in SnapMap BY <1>1 DEF Worlds
<1>5. CASE o = "ok"
  <2>1. /\ rec' \in SnapMap
        /\ SoundWorld(World) => OwnFiles(disk') /\ OwnSnaps(rec')
    BY <1>1, <1>2, <1>4, <1>5, RemovedProps DEF SoundWorld
  <2> QED BY <1>2, <1>3, <1>4, <1>5, <2>1, StopStep
<1>6. CASE o # "ok"
  <2>1. ed' = ed /\ rec' = rec /\ running' = running BY <1>2, <1>6
  <2>2. World' \in Worlds /\ World'.ed = ed /\ World'.disk = w.disk /\ World'.rec = rec
    BY <1>2, <1>4, <2>1, TypeFacts DEF World, Worlds
  <2>3. SoundWorld(World) => SoundWorld(World') BY <1>1, <2>2, TypeFacts DEF SoundWorld
  <2>4. texts' \in 1..(MaxTexts + 1) /\ running' \in BOOLEAN /\ autoSave' \in BOOLEAN
    BY <1>2, <2>1 DEF TypeOK
  <2>5. TypeOK' /\ Holds' BY <1>2, <1>3, <2>2, <2>3, <2>4, Enough
  <2>6. KeptStep
    <3>1. RowsOf(ed) \subseteq RowsOf(ed') BY <2>1
    <3> QED BY <1>2, <3>1, KeptStepByRows
  <2>7. SnapStep BY <2>1, Marks, SnapStepSame
  <2> QED BY <2>5, <2>6, <2>7 DEF Good
<1> QED BY <1>5, <1>6

LEMMA KillStep == ASSUME TypeOK, Holds, Kill PROVE Good
<1>1. /\ Stopped /\ disk' = disk /\ rec' = rec /\ faults' = faults
      /\ autoSave' = autoSave /\ texts' = texts /\ mishaps' = mishaps
  BY DEF Kill
<1>2. disk' \in FileMap /\ rec' \in SnapMap /\ faults' \in 0..MaxFaults
  BY <1>1, TypeFacts DEF TypeOK
<1>3. SoundWorld(World) => OwnFiles(disk') /\ OwnSnaps(rec') BY <1>1, TypeFacts DEF SoundWorld
<1> QED BY <1>1, <1>2, <1>3, StopStep

LEMMA KillInSaveStep == ASSUME TypeOK, Holds, KillInSave PROVE Good
<1> DEFINE d == Written(disk, ed.buf, "cut")
<1>1. /\ Stopped /\ disk' = d /\ rec' = rec /\ faults' = faults
      /\ autoSave' = autoSave /\ texts' = texts /\ mishaps' = mishaps
  BY DEF KillInSave
<1>2. d \in FileMap /\ (OwnFiles(disk) /\ ed.buf.text.of = ed.buf.path => OwnFiles(d))
  <2>1. "cut" \in Outcomes BY DEF Outcomes
  <2> QED BY <2>1, TypeFacts, WrittenProps
<1> HIDE DEF d
<1>3. rec' \in SnapMap /\ faults' \in 0..MaxFaults BY <1>1, TypeFacts DEF TypeOK
<1>4. SoundWorld(World) => OwnFiles(disk') /\ OwnSnaps(rec')
  BY <1>1, <1>2, TypeFacts DEF SoundWorld, Sound, Own, OwnTexts, TextsOf
<1> QED BY <1>1, <1>2, <1>3, <1>4, StopStep

LEMMA KillInSnapshotStep == ASSUME TypeOK, Holds, KillInSnapshot PROVE Good
<1>1. /\ Stopped /\ disk' = disk /\ rec' = [rec EXCEPT ![ed.buf.path] = None] /\ faults' = faults
      /\ autoSave' = autoSave /\ texts' = texts /\ mishaps' = mishaps
  BY DEF KillInSnapshot
<1>2. /\ rec' \in SnapMap /\ \A p \in Paths : rec'[p] \in {rec[p], None}
  BY <1>1, TypeFacts DEF SnapMap
<1>3. disk' \in FileMap /\ faults' \in 0..MaxFaults BY <1>1, TypeFacts DEF TypeOK
<1>4. SoundWorld(World) => OwnFiles(disk') /\ OwnSnaps(rec')
  BY <1>1, <1>2, TypeFacts, Marks DEF SoundWorld, OwnSnaps
<1> QED BY <1>1, <1>2, <1>3, <1>4, StopStep

LEMMA SetAutoStep == ASSUME TypeOK, Holds, SetAuto PROVE Good
<1>1. /\ running' = running /\ ed' = ed /\ disk' = disk /\ rec' = rec /\ autoSave' \in BOOLEAN
      /\ texts' = texts /\ faults' = faults /\ mishaps' = mishaps
  BY DEF SetAuto
<1>2. World' = World BY <1>1 DEF World
<1>3. TypeOK' /\ Holds'
  <2>1. /\ texts' \in 1..(MaxTexts + 1) /\ faults' \in 0..MaxFaults /\ running' \in BOOLEAN
    BY <1>1 DEF TypeOK
  <2> QED BY <1>1, <1>2, <2>1, TypeFacts, Enough
<1>4. KeptStep
  <2>1. RowsOf(ed) \subseteq RowsOf(ed') BY <1>1
  <2> QED BY <1>1, <2>1, KeptStepByRows
<1>5. SnapStep BY <1>1, Marks, SnapStepSame
<1> QED BY <1>3, <1>4, <1>5 DEF Good

LEMMA OthersStep == ASSUME TypeOK, Holds, NEW p \in Files, Others(p) PROVE Good
<1>1. /\ texts < MaxTexts /\ texts' = texts + 1 /\ running' = running /\ rec' = rec
      /\ autoSave' = autoSave /\ faults' = faults /\ mishaps' = mishaps
      /\ \E t \in {NewText(p), Absent} : disk' = [disk EXCEPT ![p] = t]
      /\ ed' = ed \/ ed' = [ed EXCEPT !.agrees = FALSE]
  BY DEF Others
<1>2. NewText(p) \in Text /\ NewText(p).of = p /\ p \in Paths BY TypeFacts, Texts, Marks
<1>3. disk' \in FileMap /\ (OwnFiles(disk) => OwnFiles(disk'))
  BY <1>1, <1>2, TypeFacts DEF FileMap, OwnFiles
<1>4. ed' \in LiveEditor /\ ed'.buf = ed.buf /\ ed'.tabs = ed.tabs /\ ed'.active = ed.active
  BY <1>1, TypeFacts, AgreesProps
<1>5. RowsOf(ed') = RowsOf(ed) /\ (Sound(ed) => Sound(ed')) BY <1>4, TypeFacts, SameEditor
<1>6. World' \in Worlds /\ World'.ed = ed' /\ World'.disk = disk' /\ World'.rec = rec
  BY <1>1, <1>3, <1>4, TypeFacts DEF World, Worlds
<1>7. TypeOK' /\ Holds'
  <2>1. /\ texts' \in 1..(MaxTexts + 1) /\ faults' \in 0..MaxFaults /\ running' \in BOOLEAN
        /\ autoSave' \in BOOLEAN
    BY <1>1, Marks DEF TypeOK
  <2>2. SoundWorld(World) => SoundWorld(World') BY <1>3, <1>5, <1>6, TypeFacts DEF SoundWorld
  <2> QED BY <1>1, <1>6, <2>1, <2>2, Enough
<1>8. KeptStep BY <1>1, <1>5, KeptStepByRows
<1>9. SnapStep BY <1>1, Marks, SnapStepSame
<1> QED BY <1>7, <1>8, <1>9 DEF Good

(* The recovered text comes from the file's own snapshot.                   *)
LEMMA RecoverStep ==
    ASSUME TypeOK, Holds, NEW o \in Outcomes, NEW p \in Paths, Recover(p, o)
    PROVE  Good
<1> DEFINE x == [path |-> p, text |-> rec[p]]
           d == Written(disk, x, o)
           b == Fresh(p, OnDisk(d, p), 0)
           c == [b EXCEPT !.dirty = TRUE]
<1>1. /\ ~running /\ rec[p] \in Text /\ running' = TRUE /\ disk' = d /\ rec' = Removed(rec, {p})
      /\ ed' = [Shut EXCEPT !.buf = c, !.tabs = <<Stale(p)>>]
      /\ faults' = (IF o = "ok" THEN faults ELSE faults + 1) /\ (o = "ok" \/ faults < MaxFaults)
      /\ autoSave' = autoSave /\ texts' = texts /\ mishaps' = mishaps
  BY DEF Recover, Spend
<1>2. x.path = p /\ x.text = rec[p] OBVIOUS
<1> HIDE DEF x
<1>3. d \in FileMap /\ (OwnFiles(disk) /\ rec[p].of = p => OwnFiles(d))
  BY <1>1, <1>2, TypeFacts, WrittenProps
<1> HIDE DEF d
<1>4. /\ b \in Buffer /\ b.path = p /\ (OwnFiles(d) => OwnTexts(b))
  <2>1. 0 \in Count BY Marks DEF Count
  <2>2. OwnFiles(d) => OnDisk(d, p).of = p BY Texts DEF OwnFiles, OnDisk
  <2> QED BY <1>3, <2>1, <2>2, OnDiskType, FreshType, FreshOwn
<1> HIDE DEF b
<1>5. c \in Buffer /\ c.path = p /\ (OwnTexts(b) => OwnTexts(c))
  <2>1. c \in Buffer /\ c.path = p /\ c.text = b.text /\ c.undo = b.undo /\ c.redo = b.redo
    BY <1>4 DEF Buffer
  <2> HIDE DEF c
  <2> QED BY <1>4, <2>1 DEF OwnTexts, TextsOf
<1> HIDE DEF c
<1>6. Stale(p) \in Buffer /\ Stale(p).path = p /\ OwnTexts(Stale(p)) BY StaleType
<1> DEFINE q == <<Stale(p)>>
<1>7. q \in Seq(Buffer) /\ DOMAIN q = {1} /\ q[1] = Stale(p) BY <1>6
<1> HIDE DEF q
<1>8. ed' \in LiveEditor /\ ed'.buf = c /\ ed'.tabs = q /\ ed'.active = 1
  <2>1. ed' = [Shut EXCEPT !.buf = c, !.tabs = q] BY <1>1 DEF q
  <2>2. Shut \in LiveEditor /\ Shut.active = 1 BY ShutProps DEF Shut
  <2> QED BY <1>5, <1>7, <2>1, <2>2 DEF LiveEditor, Editor
<1>9. ASSUME SoundWorld(World) PROVE Sound(ed') /\ OwnFiles(d)
  <2>1. OwnFiles(d) BY <1>1, <1>3, <1>9, TypeFacts DEF SoundWorld, OwnSnaps
  <2>2. OwnTexts(c) BY <1>4, <1>5, <2>1
  <2> QED BY <1>5, <1>6, <1>7, <1>8, <2>1, <2>2 DEF Sound, Placed, Distinct, Own
<1>10. /\ World' \in Worlds /\ World'.ed = ed' /\ World'.disk = d /\ World'.rec = rec'
  BY <1>1, <1>3, <1>8, TypeFacts, RemovedProps DEF World, Worlds
<1>11. SoundWorld(World) => SoundWorld(World')
  BY <1>1, <1>9, <1>10, TypeFacts, RemovedProps DEF SoundWorld
<1>12. TypeOK' /\ Holds'
  <2>1. /\ texts' \in 1..(MaxTexts + 1) /\ faults' \in 0..MaxFaults /\ running' \in BOOLEAN
        /\ autoSave' \in BOOLEAN
    BY <1>1, Marks DEF TypeOK
  <2> QED BY <1>1, <1>10, <1>11, <2>1, Enough
<1> QED BY <1>1, <1>12 DEF Good, KeptStep, SnapStep

(* Deleting a file closes its tab only when it holds no unsaved text.       *)
LEMMA DeleteStep == ASSUME TypeOK, Holds, NEW p \in Files, Delete(p) PROVE Good
<1> DEFINE e == SaveActive(ed)
           w == [World EXCEPT !.ed = e]
           n == CHOOSE x \in TabOf(e, p) : TRUE
           closed == IF TabOf(e, p) = {} THEN w ELSE CloseTabAt(w, n, "ok")
           open == IF closed.ed.tabs = <<>> THEN OpenFile(closed.ed, disk, Scratch) ELSE closed.ed
           a == open.agrees /\ open.buf.path # p
           blocked == \E i \in TabOf(e, p) : e.tabs[i].dirty
<1>1. /\ rec' = rec /\ faults' = faults /\ running' = running /\ autoSave' = autoSave
      /\ texts' = texts /\ mishaps' = mishaps
      /\ blocked => ed' = e /\ disk' = disk
      /\ ~blocked => ed' = [open EXCEPT !.agrees = a] /\ disk' = [disk EXCEPT ![p] = Absent]
  <2>1. [open EXCEPT !.agrees = a] = [open EXCEPT !.agrees = @ /\ open.buf.path # p] OBVIOUS
  <2> QED BY <2>1 DEF Delete, Quiet
<1>2. p \in Paths /\ Scratch \in Paths BY Marks
<1>3. /\ e \in LiveEditor /\ e \in Editor /\ DOMAIN e.tabs = DOMAIN ed.tabs /\ RowsOf(e) = RowsOf(ed)
      /\ \A i \in DOMAIN ed.tabs : Row(e, i) = e.tabs[i]
      /\ Sound(ed) => Sound(e)
  BY TypeFacts, SaveActiveProps, SaveActiveSound DEF LiveEditor
<1> HIDE DEF e
<1>4. w \in Worlds /\ w.ed = e /\ w.disk = disk /\ w.rec = rec
  BY <1>3, TypeFacts DEF World, Worlds
<1> HIDE DEF w
<1>5. /\ disk' \in FileMap /\ (OwnFiles(disk) => OwnFiles(disk'))
  <2>1. disk \in FileMap BY TypeFacts
  <2>2. disk' = disk \/ disk' = [disk EXCEPT ![p] = Absent] BY <1>1
  <2> QED BY <1>2, <2>1, <2>2 DEF FileMap, OwnFiles
<1>6. ASSUME TabOf(e, p) # {} PROVE n \in TabOf(e, p) /\ Closes(w, n, closed)
  <2>1. n \in TabOf(e, p) BY <1>6
  <2>2. n \in DOMAIN w.ed.tabs BY <1>4, <2>1 DEF TabOf
  <2>3. closed = CloseTabAt(w, n, "ok") /\ "ok" \in Outcomes BY <1>6 DEF Outcomes
  <2> HIDE DEF n, closed
  <2>4. CASE n = w.ed.active BY <1>4, <2>1, <2>2, <2>3, <2>4, CloseActiveProps DEF CloseTabAt
  <2>5. CASE n # w.ed.active BY <1>4, <2>1, <2>2, <2>3, <2>5, CloseBackgroundProps DEF CloseTabAt
  <2> QED BY <2>1, <2>4, <2>5
<1>7. closed \in Worlds
  <2>1. CASE TabOf(e, p) = {} BY <1>4, <2>1
  <2>2. CASE TabOf(e, p) # {} BY <1>6, <2>2 DEF Closes
  <2> QED BY <2>1, <2>2
<1>8. ASSUME SoundWorld(World), ~blocked
      PROVE  Sound(closed.ed) /\ \A b \in RowsOf(e) : b.dirty => b \in RowsOf(closed.ed)
  <2>0. SoundWorld(w) BY <1>3, <1>4, <1>8, TypeFacts DEF SoundWorld
  <2>1. CASE TabOf(e, p) = {} 
    <3>1. closed = w BY <2>1
    <3> HIDE DEF closed
    <3> QED BY <1>4, <2>0, <3>1 DEF SoundWorld
  <2>2. CASE TabOf(e, p) # {}
    <3>1. /\ n \in TabOf(e, p) /\ SoundWorld(closed)
          /\ \A j \in DOMAIN e.tabs \ {n} : Row(e, j) \in RowsOf(closed.ed)
      BY <1>4, <1>6, <2>0, <2>2 DEF Closes
    <3>2. n \in DOMAIN e.tabs /\ ~e.tabs[n].dirty BY <1>8, <3>1 DEF TabOf
    <3>3. Row(e, n) = e.tabs[n] BY <1>3, <3>2
    <3> HIDE DEF n, closed
    <3>4. ASSUME NEW b \in RowsOf(e), b.dirty PROVE b \in RowsOf(closed.ed)
      <4>1. PICK j \in DOMAIN e.tabs : b = Row(e, j) BY DEF RowsOf
      <4>2. j # n BY <3>2, <3>3, <3>4, <4>1
      <4> QED BY <3>1, <4>1, <4>2
    <3> QED BY <3>1, <3>4 DEF SoundWorld
  <2> QED BY <2>1, <2>2
<1> HIDE DEF closed
<1>9. /\ open \in LiveEditor
      /\ Sound(closed.ed) /\ OwnFiles(disk) => Sound(open) /\ RowsOf(closed.ed) \subseteq RowsOf(open)
  <2>1. closed.ed \in LiveEditor BY <1>7 DEF Worlds
  <2>2. CASE closed.ed.tabs = <<>>
    <3> DEFINE f == OpenFile(closed.ed, disk, Scratch)
    <3>1. open = f BY <2>2
    <3>2. /\ f \in LiveEditor
          /\ Sound(closed.ed) /\ OwnFiles(disk) /\ (Len(closed.ed.tabs) < MaxTabs \/ TabOf(closed.ed, f.buf.path) # {})
             => Sound(f) /\ RowsOf(closed.ed) \subseteq RowsOf(f)
      BY <1>2, <2>1, TypeFacts, OpenFileProps
    <3>3. Len(closed.ed.tabs) < MaxTabs
      <4>1. Len(closed.ed.tabs) = 0 BY <2>2
      <4> QED BY <4>1, Marks
    <3> HIDE DEF f, open
    <3> QED BY <3>1, <3>2, <3>3
  <2>3. CASE closed.ed.tabs # <<>>
    <3>1. open = closed.ed BY <2>3
    <3> HIDE DEF open
    <3> QED BY <2>1, <3>1
  <2> QED BY <2>2, <2>3
<1>10. a \in BOOLEAN OBVIOUS
<1> HIDE DEF open, a
<1>11. ASSUME ~blocked
       PROVE  /\ ed' \in LiveEditor /\ RowsOf(ed') = RowsOf(open) /\ (Sound(open) => Sound(ed'))
  <2>1. ed' = [open EXCEPT !.agrees = a] BY <1>1, <1>11
  <2>2. ed' \in LiveEditor /\ ed'.buf = open.buf /\ ed'.tabs = open.tabs /\ ed'.active = open.active
    BY <1>9, <1>10, <2>1, AgreesProps
  <2> QED BY <1>9, <2>2, SameEditor
<1> HIDE DEF blocked
<1>12. ed' \in LiveEditor BY <1>1, <1>3, <1>11
<1>13. ASSUME SoundWorld(World)
       PROVE  Sound(ed') /\ \A b \in RowsOf(ed) : b.dirty => b \in RowsOf(ed')
  <2>0. OwnFiles(disk) /\ Sound(ed) BY <1>13, TypeFacts DEF SoundWorld
  <2>1. CASE blocked BY <1>1, <1>3, <2>0, <2>1
  <2>2. CASE ~blocked BY <1>3, <1>8, <1>9, <1>11, <1>13, <2>0, <2>2
  <2> QED BY <2>1, <2>2
<1>14. World' \in Worlds /\ World'.ed = ed' /\ World'.disk = disk' /\ World'.rec = rec
  BY <1>1, <1>5, <1>12, TypeFacts DEF World, Worlds
<1>15. TypeOK' /\ Holds'
  <2>1. SoundWorld(World) => SoundWorld(World') BY <1>5, <1>13, <1>14, TypeFacts DEF SoundWorld
  <2>2. /\ texts' \in 1..(MaxTexts + 1) /\ faults' \in 0..MaxFaults /\ running' \in BOOLEAN
        /\ autoSave' \in BOOLEAN
    BY <1>1 DEF TypeOK
  <2> QED BY <1>1, <1>14, <2>1, <2>2, Enough
<1>16. KeptStep
  <2> SUFFICES ASSUME mishaps' = {} PROVE Unsaved(ed) \subseteq Held(ed', disk') \cup GivenUp
    BY DEF KeptStep
  <2>1. SoundWorld(World) /\ Sound(ed) BY <1>1, TypeFacts DEF Holds, SoundWorld
  <2>2. ASSUME NEW j \in DOMAIN ed.tabs, Row(ed, j).dirty
        PROVE  Row(ed, j).text \in Held(ed', disk')
    <3>1. Row(ed, j) \in RowsOf(ed) BY DEF RowsOf
    <3>2. Row(ed, j) \in RowsOf(ed') BY <1>13, <2>1, <2>2, <3>1
    <3> QED BY <3>2, RowHeld
  <2> QED BY <2>1, <2>2, TypeFacts, KeptRows
<1>17. SnapStep BY <1>1, Marks, SnapStepSame
<1> QED BY <1>15, <1>16, <1>17 DEF Good

(* Each file is written from its last dirty tab; by Distinct there is no    *)
(* other.                                                                   *)
LEMMA CloseAllStep ==
    ASSUME TypeOK, Holds, NEW o \in Outcomes, NEW failed \in SUBSET (1..MaxTabs), CloseAll(failed, o)
    PROVE  Good
<1> DEFINE e == SaveActive(ed)
           D == {i \in DOMAIN e.tabs : e.tabs[i].dirty /\ e.tabs[i].path # Scratch}
           At(p) == {i \in D : e.tabs[i].path = p}
           last == e.tabs[Max(D)]
           Out(p) == IF Max(At(p)) \in failed THEN o ELSE "ok"
           d == [p \in Paths |-> IF At(p) = {} THEN disk[p]
                                 ELSE Written(disk, e.tabs[Max(At(p))], Out(p))[p]]
           live == IF D = {} THEN e
                   ELSE [e EXCEPT !.buf.path = last.path, !.buf.text = last.text,
                                  !.buf.dirty = Max(D) \in failed,
                                  !.agrees = Max(D) \notin failed]
           c == IF D = {} THEN e.buf
                ELSE [e.buf EXCEPT !.path = last.path, !.text = last.text, !.dirty = Max(D) \in failed]
           a == IF D = {} THEN e.agrees ELSE Max(D) \notin failed
           bare == [e EXCEPT !.buf = c, !.agrees = a, !.tabs = <<>>]
           f == OpenFile(bare, d, Scratch)
<1>1. /\ failed = {} <=> o = "ok"
      /\ disk' = d
      /\ rec' = [p \in Paths |-> IF At(p) \ failed # {} THEN None ELSE rec[p]]
      /\ ed' = OpenFile([live EXCEPT !.tabs = <<>>], d, Scratch)
      /\ mishaps' = IF failed = {} THEN mishaps ELSE mishaps \cup {"close all"}
      /\ running' = running /\ autoSave' = autoSave /\ texts' = texts
      /\ faults' = (IF o = "ok" THEN faults ELSE faults + 1) /\ (o = "ok" \/ faults < MaxFaults)
  BY DEF CloseAll, Spend
<1>2. /\ e \in LiveEditor /\ e \in Editor /\ DOMAIN e.tabs = DOMAIN ed.tabs /\ DOMAIN e.tabs = 1..Len(e.tabs)
      /\ Len(e.tabs) \in Nat /\ e.buf = ed.buf /\ e.buf \in Buffer /\ e.agrees \in BOOLEAN
      /\ \A i \in DOMAIN ed.tabs : Row(ed, i) = e.tabs[i]
      /\ Sound(ed) => Sound(e)
  BY TypeFacts, SaveActiveProps, SaveActiveSound, EditorFields DEF LiveEditor
<1>3. \A i \in DOMAIN e.tabs : e.tabs[i] \in Buffer /\ e.tabs[i].path \in Paths /\ e.tabs[i].text \in Text
  BY <1>2, EditorFields, BufferFields
<1> HIDE DEF e
<1>4. D \in SUBSET (1..Len(e.tabs)) /\ \A p : At(p) \in SUBSET D BY <1>2
<1>5. D # {} => Max(D) \in D BY <1>2, <1>4, MaxPosition
<1>6. \A p : At(p) # {} => Max(At(p)) \in At(p)
  <2> TAKE p
  <2>1. At(p) \in SUBSET (1..Len(e.tabs)) BY <1>4
  <2> HIDE DEF At
  <2> QED BY <1>2, <2>1, MaxPosition
<1>7. D # {} => last \in Buffer /\ last.path \in Paths /\ last.text \in Text BY <1>3, <1>5
<1>8. c \in Buffer /\ a \in BOOLEAN
  <2>1. (Max(D) \in failed) \in BOOLEAN /\ (Max(D) \notin failed) \in BOOLEAN OBVIOUS
  <2> HIDE DEF D, last
  <2> QED BY <1>2, <1>7, <2>1 DEF Buffer
<1>9. [live EXCEPT !.tabs = <<>>] = bare
  <2>1. CASE D = {}
    <3>1. live = e /\ c = e.buf /\ a = e.agrees BY <2>1
    <3> HIDE DEF live, c, a
    <3> QED BY <1>2, <3>1 DEF Editor
  <2>2. CASE D # {}
    <3> DEFINE z == Max(D) \in failed
               y == Max(D) \notin failed
    <3>1. live = [e EXCEPT !.buf.path = last.path, !.buf.text = last.text, !.buf.dirty = z, !.agrees = y]
      BY <2>2
    <3>2. c = [e.buf EXCEPT !.path = last.path, !.text = last.text, !.dirty = z] /\ a = y BY <2>2
    <3> HIDE DEF D, last, z, y, live, c, a
    <3>3. live = [e EXCEPT !.buf = c, !.agrees = a] BY <1>2, <3>1, <3>2 DEF Editor, Buffer
    <3> QED BY <1>2, <3>3 DEF Editor
  <2> QED BY <2>1, <2>2
<1>10. ASSUME NEW p \in Paths, At(p) # {}
       PROVE  LET i == Max(At(p))
                  w == Written(disk, e.tabs[i], Out(p))
              IN /\ i \in DOMAIN e.tabs /\ e.tabs[i].path = p /\ w[p] \in Text \cup {Absent} /\ w \in FileMap
                 /\ failed = {} => w[p] = e.tabs[i].text
  <2> DEFINE i == Max(At(p))
             b == e.tabs[i]
             w == Written(disk, b, Out(p))
  <2>1. i \in DOMAIN e.tabs /\ b.path = p BY <1>6, <1>10
  <2>2. b.path \in Paths /\ b.text \in Text BY <1>3, <2>1
  <2>3. Out(p) \in Outcomes /\ (failed = {} => Out(p) = "ok") BY DEF Outcomes
  <2> HIDE DEF b, i, Out
  <2>4. w \in FileMap /\ (Out(p) = "ok" => w[b.path] = b.text) BY <2>2, <2>3, TypeFacts, WrittenProps
  <2> HIDE DEF w
  <2>5. w[p] \in Text \cup {Absent} BY <2>4 DEF FileMap
  <2> QED BY <2>1, <2>3, <2>4, <2>5 DEF b, i, w
<1>11. d \in FileMap
  <2>1. ASSUME NEW p \in Paths PROVE d[p] \in Text \cup {Absent}
    <3>1. CASE At(p) = {}
      <4>1. d[p] = disk[p] BY <3>1
      <4> HIDE DEF d
      <4> QED BY <4>1, TypeFacts DEF FileMap
    <3>2. CASE At(p) # {}
      <4>1. d[p] = Written(disk, e.tabs[Max(At(p))], Out(p))[p] BY <3>2
      <4> HIDE DEF d, At, Out
      <4> QED BY <1>10, <3>2, <4>1
    <3> QED BY <3>1, <3>2
  <2>2. d = [p \in Paths |-> d[p]] OBVIOUS
  <2> HIDE DEF d
  <2> QED BY <2>1, <2>2 DEF FileMap
<1>12. ASSUME failed = {}, NEW p \in Paths, At(p) # {}
       PROVE  \E i \in DOMAIN e.tabs : i \in At(p) /\ e.tabs[i].path = p /\ d[p] = e.tabs[i].text
  <2>1. d[p] = Written(disk, e.tabs[Max(At(p))], Out(p))[p] BY <1>12
  <2>2. Max(At(p)) \in At(p) BY <1>6, <1>12
  <2> HIDE DEF d, At, Out
  <2> QED BY <1>10, <1>12, <2>1, <2>2
<1>13. /\ rec' \in SnapMap
       /\ \A p \in Paths : rec'[p] = IF At(p) \ failed # {} THEN None ELSE rec[p]
  <2> HIDE DEF At
  <2>1. rec' = [p \in Paths |-> IF At(p) \ failed # {} THEN None ELSE rec[p]] BY <1>1
  <2> QED BY <2>1, TypeFacts DEF SnapMap
<1>14. /\ bare \in LiveEditor /\ bare.buf = c /\ bare.tabs = <<>> /\ Len(bare.tabs) = 0
       /\ \A p : TabOf(bare, p) = {}
       /\ OwnTexts(c) => Sound(bare)
  <2> HIDE DEF c, a
  <2>1. bare \in LiveEditor /\ bare.buf = c /\ bare.tabs = <<>> BY <1>2, <1>8, EmptySeq DEF LiveEditor, Editor
  <2> HIDE DEF bare
  <2>2. Len(bare.tabs) = 0 /\ DOMAIN bare.tabs = {} BY <2>1
  <2>3. \A p : TabOf(bare, p) = {} BY <2>2 DEF TabOf
  <2>4. OwnTexts(c) => Sound(bare) BY <2>1, <2>2 DEF Sound, Placed, Distinct, Own
  <2> QED BY <2>1, <2>2, <2>3, <2>4
<1>15. f \in LiveEditor /\ ed' = f
  <2>1. ed' = f BY <1>1, <1>9
  <2>2. d \in FileMap /\ bare \in LiveEditor /\ Scratch \in Paths
    <3>1. bare \in LiveEditor BY <1>14
    <3> HIDE DEF bare
    <3> QED BY <1>11, <3>1, Marks
  <2> HIDE DEF bare, d
  <2>3. f \in LiveEditor BY <2>2, OpenFileProps
  <2> QED BY <2>1, <2>3
<1>17. ASSUME SoundWorld(World), failed = {} PROVE OwnFiles(d) /\ OwnSnaps(rec') /\ Sound(f)
  <2>0. Sound(ed) /\ Sound(e) /\ OwnFiles(disk) /\ OwnSnaps(rec)
    BY <1>2, <1>17, TypeFacts DEF SoundWorld
  <2>1. ASSUME NEW p \in Paths, d[p] # Absent PROVE d[p].of = p
    <3>1. CASE At(p) = {}
      <4>1. d[p] = disk[p] BY <3>1
      <4> HIDE DEF d
      <4> QED BY <2>0, <2>1, <4>1 DEF OwnFiles
    <3>2. CASE At(p) # {}
      <4> HIDE DEF d, At
      <4>1. PICK i \in DOMAIN e.tabs : e.tabs[i].path = p /\ d[p] = e.tabs[i].text
        BY <1>12, <1>17, <3>2
      <4>2. OwnTexts(e.tabs[i]) BY <2>0 DEF Sound, Own
      <4> QED BY <4>1, <4>2 DEF OwnTexts, TextsOf
    <3> QED BY <3>1, <3>2
  <2>2. OwnFiles(d) 
    <3> HIDE DEF d
    <3> QED BY <2>1 DEF OwnFiles
  <2>3. OwnSnaps(rec')
    <3> HIDE DEF At
    <3> QED BY <1>13, <2>0, Marks DEF OwnSnaps
  <2>4. Len(bare.tabs) < MaxTabs
    <3>1. 0 < MaxTabs BY Marks
    <3> HIDE DEF bare
    <3> QED BY <1>14, <3>1
  <2>5. CASE D = {}
    <3>1. c = e.buf BY <2>5
    <3>2. Sound(bare) BY <1>14, <2>0, <3>1 DEF Sound, Own
    <3> HIDE DEF bare, d
    <3> QED BY <1>11, <1>14, <2>2, <2>3, <2>4, <3>2, Marks, OpenFileProps
  <2>6. CASE D # {}
    <3>1. c = [e.buf EXCEPT !.path = last.path, !.text = last.text, !.dirty = Max(D) \in failed] BY <2>6
    <3>2. ~c.dirty
      <4> HIDE DEF D, last, c
      <4> QED BY <1>2, <1>17, <3>1 DEF Buffer
    <3>3. ~bare.buf.dirty /\ TabOf(bare, Scratch) = {} BY <1>14, <3>2
    <3> HIDE DEF bare, d
    <3>4. Sound(f) BY <1>11, <1>14, <2>2, <2>4, <3>3, Marks, OpenNewSound
    <3> QED BY <2>2, <2>3, <3>4
  <2> QED BY <2>5, <2>6
<1> HIDE DEF f, d
<1>18. mishaps' = {} => mishaps = {} /\ failed = {} BY <1>1
<1>19. TypeOK'
  <2>1. /\ texts' \in 1..(MaxTexts + 1) /\ faults' \in 0..MaxFaults /\ running' \in BOOLEAN
        /\ autoSave' \in BOOLEAN
    <3>1. /\ running' = running /\ autoSave' = autoSave /\ texts' = texts
          /\ faults' = (IF o = "ok" THEN faults ELSE faults + 1) /\ (o = "ok" \/ faults < MaxFaults)
      BY <1>1
    <3> QED BY <3>1, Marks DEF TypeOK
  <2>3. mishaps' \subseteq Mishaps BY <1>1 DEF TypeOK, Mishaps
  <2>2. disk' \in FileMap /\ ed' \in LiveEditor BY <1>1, <1>11, <1>15
  <2> QED BY <1>13, <2>1, <2>2, <2>3 DEF TypeOK, LiveEditor, FileMap, SnapMap
<1>20. Holds'
  <2>1. World'.ed = f /\ World'.disk = d /\ World'.rec = rec' BY <1>1, <1>15 DEF World
  <2> QED BY <1>17, <1>18, <2>1 DEF Holds, SoundWorld
<1>21. KeptStep
  <2> SUFFICES ASSUME mishaps' = {} PROVE Unsaved(ed) \subseteq Held(ed', disk') \cup GivenUp
    BY DEF KeptStep
  <2>1. Sound(ed) /\ Sound(e) /\ failed = {} BY <1>2, <1>18, TypeFacts DEF Holds, SoundWorld
  <2>2. ASSUME NEW j \in DOMAIN ed.tabs, Row(ed, j).dirty, Row(ed, j).path # Scratch
        PROVE  Row(ed, j).text \in Held(ed', disk')
    <3> DEFINE p == e.tabs[j].path
    <3>1. Row(ed, j) = e.tabs[j] /\ p \in Paths /\ j \in DOMAIN e.tabs BY <1>2, <1>3
    <3>2. j \in At(p) BY <2>2, <3>1
    <3>3. PICK i \in DOMAIN e.tabs : e.tabs[i].path = p /\ d[p] = e.tabs[i].text
      BY <1>12, <2>1, <3>1, <3>2
    <3>4. i = j BY <2>1, <3>1, <3>3 DEF Sound, Distinct
    <3>5. disk'[p] = Row(ed, j).text BY <1>1, <3>1, <3>3, <3>4
    <3> HIDE DEF p
    <3> QED BY <3>1, <3>5, FileHeld
  <2> QED BY <2>1, <2>2, TypeFacts, KeptRows
<1>22. SnapStep
  <2> SUFFICES ASSUME mishaps' = {}, NEW p \in Paths, rec[p] \in Text, rec'[p] = None
               PROVE  \E b \in Current(ed) \cup Current(ed') : b.path = p /\ disk'[p] \in TextsOf(b)
    BY DEF SnapStep
  <2>1. At(p) # {}
    <3> HIDE DEF At
    <3> QED BY <1>13, Marks
  <2>2. PICK i \in DOMAIN e.tabs : e.tabs[i].path = p /\ d[p] = e.tabs[i].text
    BY <1>12, <1>18, <2>1
  <2>3. i \in DOMAIN ed.tabs /\ Row(ed, i) = e.tabs[i] BY <1>2
  <2>4. Row(ed, i) \in RowsOf(ed) BY <2>3 DEF RowsOf
  <2>5. Row(ed, i) \in Current(ed) BY <2>4, RowHeld
  <2>6. disk'[p] \in TextsOf(Row(ed, i)) BY <1>1, <2>2, <2>3 DEF TextsOf
  <2> QED BY <2>2, <2>3, <2>5, <2>6
<1> QED BY <1>19, <1>20, <1>21, <1>22 DEF Good

(* The tabs of a stored session and the asked file: each file once.         *)
LEMMA SessionTabs ==
    ASSUME NEW p \in Paths, NEW s \in Sessions, NEW other \in BOOLEAN
    PROVE  LET t == StartTabs(s, p, other) IN
           /\ t \in Seq(Paths) /\ (~other => \A i, j \in DOMAIN t : t[i] = t[j] => i = j)
           /\ s = <<>> => t = <<>>
<1> DEFINE t == StartTabs(s, p, other)
<1>1. /\ s \in Seq(Paths) /\ \A i, j \in DOMAIN s : s[i] = s[j] => i = j
  <2>1. CASE s = <<>> BY <2>1, EmptySeq
  <2>2. CASE \E q \in Paths : s = <<q>> BY <2>2
  <2>3. CASE s \in Paths \X Paths /\ s[1] # s[2]
    <3>1. PICK x \in Paths, y \in Paths : s = <<x, y>> BY <2>3
    <3>2. x # y BY <2>3, <3>1
    <3>3. <<x, y>> \in Seq(Paths) /\ DOMAIN <<x, y>> = {1, 2} OBVIOUS
    <3> QED BY <3>1, <3>2, <3>3
  <2> QED BY <2>1, <2>2, <2>3 DEF Sessions
<1>2. CASE s = <<>> \/ (p \in ToSet(s) /\ ~other) \/ Len(s) >= MaxTabs
  BY <1>1, <1>2 DEF StartTabs
<1>3. CASE ~(s = <<>> \/ (p \in ToSet(s) /\ ~other) \/ Len(s) >= MaxTabs)
  <2>1. t = Append(s, p) BY <1>3 DEF StartTabs
  <2>2. /\ t \in Seq(Paths) /\ DOMAIN t = 1..(Len(s) + 1) /\ t[Len(s) + 1] = p
        /\ \A i \in 1..Len(s) : t[i] = s[i]
    BY <1>1, <2>1, Appended
  <2>3. Len(s) \in Nat /\ DOMAIN s = 1..Len(s) BY <1>1, LenProperties
  <2>4. ~other => \A i \in 1..Len(s) : s[i] # p BY <1>3, <2>3 DEF ToSet
  <2> HIDE DEF t
  <2>5. \A i \in 1..(Len(s) + 1) : i = Len(s) + 1 \/ i \in 1..Len(s) BY <2>3
  <2>6. ASSUME NEW i \in DOMAIN t, NEW j \in DOMAIN t, ~other, t[i] = t[j] PROVE i = j
    BY <1>1, <2>2, <2>3, <2>4, <2>5, <2>6
  <2> QED BY <1>3, <2>2, <2>6 DEF t
<1> QED BY <1>2, <1>3

(* Unless the tab bar is full the asked file is in the active tab.          *)
LEMMA StartStep ==
    ASSUME TypeOK, Holds, NEW p \in Paths, NEW s \in Sessions, NEW other \in BOOLEAN,
           Start(p, s, other)
    PROVE  Good
<1> DEFINE tabs == StartTabs(s, p, other)
           Tab(q) == Fresh(q, OnDisk(disk, q), 0)
           at == {i \in DOMAIN tabs : tabs[i] = p}
           active == IF at # {} /\ ~other THEN CHOOSE i \in at : TRUE
                     ELSE IF tabs = <<>> THEN 1 ELSE Len(tabs)
           row(i) == IF i = active THEN Stale(tabs[i]) ELSE Tab(tabs[i])
           q == [i \in DOMAIN tabs |-> row(i)]
<1>1. /\ ~running /\ running' = TRUE
      /\ ed' = [Shut EXCEPT !.buf = Tab(p), !.active = active, !.tabs = q]
      /\ rec' = IF rec[p] \in Text THEN Removed(rec, {p}) ELSE rec
      /\ mishaps' = IF other THEN mishaps \cup {"spelling"}
                    ELSE IF s # <<>> /\ at = {} THEN mishaps \cup {"full bar"} ELSE mishaps
      /\ disk' = disk /\ autoSave' = autoSave /\ texts' = texts /\ faults' = faults
  BY DEF Start
<1>2. /\ tabs \in Seq(Paths) /\ (~other => \A i, j \in DOMAIN tabs : tabs[i] = tabs[j] => i = j)
      /\ s = <<>> => tabs = <<>>
  BY SessionTabs
<1>3. Len(tabs) \in Nat /\ DOMAIN tabs = 1..Len(tabs) /\ \A i \in DOMAIN tabs : tabs[i] \in Paths
  BY <1>2, LenProperties, ElementOfSeq
<1>4. ASSUME NEW x \in Paths
      PROVE  /\ Tab(x) \in Buffer /\ Tab(x).path = x
             /\ Stale(x) \in Buffer /\ Stale(x).path = x /\ OwnTexts(Stale(x))
             /\ OwnFiles(disk) => OwnTexts(Tab(x))
  <2>1. 0 \in Count BY Marks DEF Count
  <2>2. OnDisk(disk, x) \in Text BY TypeFacts, OnDiskType
  <2>3. OwnFiles(disk) => OnDisk(disk, x).of = x BY Texts DEF OwnFiles, OnDisk
  <2> QED BY <2>1, <2>2, <2>3, FreshType, FreshOwn, StaleType
<1> HIDE DEF tabs, Tab
<1>5. /\ active \in Nat /\ active >= 1
      /\ at # {} /\ ~other => active \in DOMAIN tabs /\ tabs[active] = p
  <2>1. at # {} /\ ~other => active \in at OBVIOUS
  <2>2. (at = {} \/ other) /\ tabs # <<>> => active = Len(tabs) /\ Len(tabs) # 0 BY <1>2, EmptySeq
  <2>3. (at = {} \/ other) /\ tabs = <<>> => active = 1 OBVIOUS
  <2> HIDE DEF active
  <2> QED BY <1>3, <2>1, <2>2, <2>3
<1> HIDE DEF active
<1>6. \A i \in DOMAIN tabs : /\ row(i) \in Buffer /\ row(i).path = tabs[i]
                             /\ OwnFiles(disk) => OwnTexts(row(i))
  BY <1>3, <1>4
<1> HIDE DEF row
<1>7. /\ q \in Seq(Buffer) /\ DOMAIN q = DOMAIN tabs /\ \A i \in DOMAIN tabs : q[i] = row(i)
  <2>1. q \in [1..Len(tabs) -> Buffer] BY <1>3, <1>6
  <2> QED BY <1>3, <2>1, SeqDef
<1>8. tabs = <<>> => q = <<>>
  <2>1. tabs = <<>> => Len(tabs) = 0 OBVIOUS
  <2>2. tabs = <<>> => DOMAIN q = 1..0 BY <1>3, <1>7, <2>1
  <2> HIDE DEF q
  <2>3. tabs = <<>> => Len(q) = 0 BY <1>7, <2>2, LenProperties
  <2> QED BY <1>7, <2>3, EmptySeq
<1> HIDE DEF q
<1>9. ed' \in LiveEditor /\ ed'.buf = Tab(p) /\ ed'.active = active /\ ed'.tabs = q
  BY <1>1, <1>4, <1>5, <1>7, ShutProps DEF LiveEditor, Editor
<1>10. ASSUME OwnFiles(disk), mishaps' = {} PROVE Sound(ed')
  <2>1. ~other /\ (s = <<>> \/ at # {}) BY <1>1, <1>10
  <2>2. Placed(ed')
    <3>1. CASE s = <<>> BY <1>2, <1>8, <1>9, <3>1 DEF Placed
    <3>2. CASE at # {} BY <1>4, <1>5, <1>6, <1>7, <1>9, <2>1, <3>2 DEF Placed
    <3> QED BY <2>1, <3>1, <3>2
  <2>3. Distinct(ed') BY <1>2, <1>6, <1>7, <1>9, <2>1 DEF Distinct
  <2>4. Own(ed') BY <1>4, <1>6, <1>7, <1>9, <1>10 DEF Own
  <2> QED BY <2>2, <2>3, <2>4 DEF Sound
<1>11. rec' \in SnapMap /\ (OwnSnaps(rec) => OwnSnaps(rec')) BY <1>1, TypeFacts, RemovedProps
<1>12. mishaps' \subseteq Mishaps /\ (mishaps' = {} => mishaps = {}) BY <1>1 DEF TypeOK, Mishaps
<1>13. TypeOK' BY <1>1, <1>9, <1>11, <1>12 DEF TypeOK, LiveEditor, SnapMap
<1>14. Holds'
  <2>1. World'.ed = ed' /\ World'.disk = disk /\ World'.rec = rec' BY <1>1 DEF World
  <2> QED BY <1>10, <1>11, <1>12, <2>1, TypeFacts DEF Holds, SoundWorld
<1> QED BY <1>1, <1>13, <1>14 DEF Good, KeptStep, SnapStep

LEMMA StutterStep == ASSUME TypeOK, Holds, UNCHANGED vars PROVE Good
<1>1. World' = World /\ mishaps' = mishaps /\ running' = running /\ ed' = ed /\ disk' = disk
      /\ rec' = rec /\ autoSave' = autoSave /\ texts' = texts /\ faults' = faults
  BY DEF World, vars
<1>2. TypeOK' /\ Holds'
  <2>1. /\ texts' \in 1..(MaxTexts + 1) /\ faults' \in 0..MaxFaults /\ running' \in BOOLEAN
        /\ autoSave' \in BOOLEAN
    BY <1>1 DEF TypeOK
  <2> QED BY <1>1, <2>1, TypeFacts, Enough
<1>3. KeptStep
  <2>1. RowsOf(ed) \subseteq RowsOf(ed') BY <1>1
  <2> QED BY <1>1, <2>1, KeptStepByRows
<1>4. SnapStep BY <1>1, Marks, SnapStepSame
<1> QED BY <1>2, <1>3, <1>4 DEF Good

(* Every step keeps the invariant, every unsaved text and the snapshots     *)
(* needed.                                                                  *)
LEMMA AnyStep == ASSUME TypeOK, Holds, [Next]_vars PROVE Good
<1>1. ASSUME NEW o \in Outcomes, Edit(o) PROVE Good BY <1>1, EditStep
<1>2. ASSUME NEW o \in Outcomes, Save(o) PROVE Good BY <1>2, SaveStep
<1>3. ASSUME NEW o \in Outcomes, ExitSaving(o) PROVE Good BY <1>3, ExitSavingStep
<1>4. ASSUME NEW o \in Outcomes, NEW i \in 1..MaxTabs, CloseTab(i, o) PROVE Good
  BY <1>4, CloseTabStep
<1>5. ASSUME NEW o \in Outcomes, NEW failed \in SUBSET (1..MaxTabs), CloseAll(failed, o) PROVE Good
  BY <1>5, CloseAllStep
<1>6. ASSUME NEW o \in Outcomes, NEW p \in Paths, Recover(p, o) PROVE Good BY <1>6, RecoverStep
<1>7. CASE Undo BY <1>7, UndoStep
<1>8. CASE Redo BY <1>8, RedoStep
<1>9. CASE Reload BY <1>9, ReloadStep
<1>10. CASE Poll BY <1>10, PollStep
<1>11. CASE SetAuto BY <1>11, SetAutoStep
<1>12. ASSUME NEW i \in 1..MaxTabs, Switch(i) PROVE Good BY <1>12, SwitchStep
<1>13. ASSUME NEW p \in Paths, Open(p) PROVE Good BY <1>13, OpenStep
<1>14. ASSUME NEW p \in Files, Delete(p) PROVE Good BY <1>14, DeleteStep
<1>15. ASSUME NEW p \in Files, Others(p) PROVE Good BY <1>15, OthersStep
<1>16. CASE ExitScratch BY <1>16, ExitScratchStep
<1>17. CASE ExitClean \/ ExitDiscarding BY <1>17, ExitCleanStep
<1>18. CASE Kill BY <1>18, KillStep
<1>19. CASE KillInSave BY <1>19, KillInSaveStep
<1>20. CASE KillInSnapshot BY <1>20, KillInSnapshotStep
<1>21. ASSUME NEW p \in Paths, NEW s \in Sessions, NEW other \in BOOLEAN, Start(p, s, other)
       PROVE  Good
  BY <1>21, StartStep
<1>22. CASE UNCHANGED vars BY <1>22, StutterStep
<1>23. ASSUME NEW o \in Outcomes, NEW s \in Outcomes, EditSaving(s, o) PROVE Good
  BY <1>23, EditSavingStep
<1>24. ASSUME NEW p \in Paths, OpenSpelled(p) PROVE Good BY <1>24, OpenSpelledStep
<1>25. ASSUME NEW p \in Files, NEW q \in Files, ChangeDir(p, q) PROVE Good
  BY <1>25, ChangeDirStep
<1>26. ASSUME NEW p \in Files, NEW q \in Files, Rename(p, q) PROVE Good BY <1>26, RenameStep
<1> HIDE DEF Good
<1> QED BY <1>1, <1>2, <1>3, <1>4, <1>5, <1>6, <1>7, <1>8, <1>9, <1>10, <1>11, <1>12, <1>13,
           <1>14, <1>15, <1>16, <1>17, <1>18, <1>19, <1>20, <1>21, <1>22, <1>23, <1>24, <1>25,
           <1>26 DEF Next

LEMMA AtStart == ASSUME Init PROVE TypeOK /\ Holds
<1>1. Shut \in LiveEditor /\ Sound(Shut) BY ShutProps
<1>2. /\ disk \in FileMap /\ OwnFiles(disk) BY Texts DEF Init, FileMap, OwnFiles
<1>3. /\ rec \in SnapMap /\ OwnSnaps(rec) BY Marks DEF Init, SnapMap, OwnSnaps
<1>4. TypeOK
  <2>1. texts \in 1..(MaxTexts + 1) /\ faults \in 0..MaxFaults BY Marks DEF Init
  <2> QED BY <1>1, <1>2, <1>3, <2>1 DEF Init, TypeOK, LiveEditor, FileMap, SnapMap
<1>5. World.ed = Shut /\ World.disk = disk /\ World.rec = rec BY DEF Init, World
<1> QED BY <1>1, <1>2, <1>3, <1>4, <1>5 DEF Holds, SoundWorld

IInv == TypeOK /\ Holds

(* The inductive invariant holds in every reachable state.                  *)
LEMMA Invariant == Spec => []IInv
<1>1. Init => IInv BY AtStart DEF IInv
<1>2. IInv /\ [Next]_vars => IInv' BY AnyStep DEF IInv, Good
<1> QED BY <1>1, <1>2, PTL DEF Spec

(* What it says of the properties of the runs.                              *)
LEMMA InvGives == ASSUME IInv PROVE Consistent /\ FilesDoNotMix
<1>0. TypeOK /\ Holds BY DEF IInv
<1>1. OneTabPerFile
  <2> DEFINE e == SaveActive(ed)
  <2> SUFFICES ASSUME mishaps = {} PROVE \A i, j \in DOMAIN e.tabs : e.tabs[i].path = e.tabs[j].path => i = j
    BY DEF OneTabPerFile
  <2>1. Sound(ed) BY <1>0, TypeFacts DEF Holds, SoundWorld
  <2>2. Sound(e) BY <1>0, <2>1, TypeFacts, SaveActiveSound
  <2> HIDE DEF e
  <2> QED BY <2>2 DEF Sound, Distinct
<1>2. FilesDoNotMix
  <2> SUFFICES ASSUME mishaps = {}
               PROVE  /\ \A p \in Paths : /\ disk[p] # Absent => disk[p].of = p
                                          /\ rec[p] \in Text => rec[p].of = p
                      /\ OwnTexts(ed.buf) /\ \A i \in DOMAIN ed.tabs : OwnTexts(ed.tabs[i])
    BY DEF FilesDoNotMix
  <2> QED BY <1>0, TypeFacts DEF Holds, SoundWorld, Sound, Own, OwnFiles, OwnSnaps
<1> QED BY <1>0, <1>1, <1>2 DEF Consistent

(* The state is well typed and, without a mishap, no file is open in two    *)
(* tabs, the one of the live buffer counted with its real text (open_file,  *)
(* switch_tab, close_tab, Start): of two tabs of one file the one saved     *)
(* last would win.                                                          *)
THEOREM BuffersConsistent == Spec => []Consistent
<1>1. IInv => Consistent BY InvGives
<1> QED BY <1>1, Invariant, PTL

(* Without a mishap no file, no buffer, no undo stack and no recovery       *)
(* snapshot ever holds a text written for another file, whatever is edited, *)
(* saved, switched, opened, closed, deleted, reloaded, killed or recovered  *)
(* in whatever order.                                                       *)
THEOREM TextsStayInTheirFile == Spec => []FilesDoNotMix
<1>1. IInv => FilesDoNotMix BY InvGives
<1> QED BY <1>1, Invariant, PTL

(* While the editor runs no step loses the unsaved text of a buffer that    *)
(* has a tab: afterwards it is in a buffer, in an undo or redo stack or in  *)
(* its file, also when a write fails, unless the user reloaded the file     *)
(* over it; a text whose file is renamed is there under the new name.       *)
THEOREM UnsavedTextIsKept == Spec => KeptWhileOpen
<1>1. IInv /\ [Next]_vars =>
        [running /\ running' /\ mishaps' = {}
         => \A t \in Unsaved(ed) : t \in Held(ed', disk') \cup GivenUp \/ Carried(t)]_vars
  BY AnyStep DEF IInv, Good, KeptStep
<1> QED BY <1>1, Invariant, PTL DEF Spec, KeptWhileOpen

(* While the editor runs a readable recovery snapshot goes away only in a   *)
(* step that leaves the file with a text of its buffer, or by the failing    *)
(* write of the next snapshot: a save that fails does not take the only copy  *)
(* along.                                                                   *)
THEOREM SnapshotsOutliveEdits == Spec => SnapshotOutlivesEdits
<1>1. IInv /\ [Next]_vars =>
        [running /\ running' /\ mishaps' = {} =>
         \A p \in Paths : rec[p] \in Text /\ rec'[p] = None
            => Torn(p) \/ \E b \in Current(ed) \cup Current(ed') :
                              b.path = p /\ disk'[p] \in TextsOf(b)]_vars
  BY AnyStep DEF IInv, Good, SnapStep
<1> QED BY <1>1, Invariant, PTL DEF Spec, SnapshotOutlivesEdits

===============================================================================
