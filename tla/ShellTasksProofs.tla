--------------------------- MODULE ShellTasksProofs ---------------------------
(***************************************************************************)
(* Theorems about command lines and ranfiles, for any ranfile, any lines and   *)
(* any depth: the order `ran` finds fits the dependencies and the checks in    *)
(* resolve_order never fail on what validate lets through, && and || go by     *)
(* the last command, and a stage reads from its left.                         *)
(*                                                                         *)
(* The argument: frames below the top wait in the middle of a stage or of a     *)
(* target (Waits), a frame's search knows of every dependency it has passed     *)
(* that it is done or the next on the path (RanOK), and no path goes on into a  *)
(* cycle, because detect_cycle found none from its first target.              *)
(***************************************************************************)
EXTENDS ShellTasks, SequenceTheorems, TLAPS

(* What target t of ranfile R needs, and the walks of R that come back.         *)
Needs(R, t) == IF t \in DOMAIN R THEN R[t].deps ELSE <<>>
Cyc(R) == CHOOSE f : f = [w \in Walks |-> w[2] \in w[1]
                             \/ \E d \in Elems(Needs(R, w[2])) : f[<<w[1] \cup {w[2]}, d>>]]
Sound(R) == \A t \in DOMAIN R : Elems(Needs(R, t)) \subseteq DOMAIN R /\ ~Cyc(R)[<<{}, t>>]

LineOK(f) ==
    /\ DOMAIN f = {"is", "segs", "stages", "no", "carry", "ok", "kept", "last"} /\ f.is = "line"
    /\ f.segs \in Seq(Segment) /\ f.stages \in Seq(Stage)
    /\ f.ok \in BOOLEAN /\ f.last = f.ok
    /\ f.no \in Nat /\ f.carry \in 0..f.no /\ f.kept \subseteq 1..f.no
    /\ f.stages # <<>> =>
           /\ f.no > 0 /\ f.carry < f.no /\ f.no \notin f.kept
           /\ f.carry \notin f.kept /\ (f.carry + 1)..(f.no - 1) \subseteq f.kept

Entry(R) == [target : DOMAIN R, next : Nat \ {0}]
(* Passed(k) is what entry k of the path has been through.                     *)
Done(f) == Elems(f.order)
Passed(R, f, k) == {Needs(R, f.path[k].target)[n] :
                      n \in {m \in DOMAIN Needs(R, f.path[k].target) : m < f.path[k].next}}
Before(path, k) == {path[j].target : j \in 1..(k - 1)}
Fits(R, order) ==
    \A i \in DOMAIN order :
        /\ \A d \in Elems(Needs(R, order[i])) : \E j \in 1..(i - 1) : order[j] = d
        /\ \A j \in DOMAIN order : order[j] = order[i] => j = i
RanOK(R, f) ==
    /\ DOMAIN f = {"is", "path", "seen", "order", "at", "met"} /\ f.is = "ran"
    /\ Sound(R) /\ f.path \in Seq(Entry(R)) /\ f.order \in Seq(DOMAIN R)
    /\ f.at \in 1..(Len(f.order) + 1) /\ f.met = FALSE /\ (f.path # <<>> => f.at = 1)
    /\ f.seen = OnPath(f) \cup Done(f) /\ OnPath(f) \cap Done(f) = {}
    /\ \A i, j \in DOMAIN f.path : f.path[i].target = f.path[j].target => i = j
    /\ Fits(R, f.order)
    /\ \A k \in DOMAIN f.path :
           /\ Passed(R, f, k) \subseteq
                  Done(f) \cup (IF k + 1 \in DOMAIN f.path THEN {f.path[k + 1].target} ELSE {})
           /\ ~Cyc(R)[<<Before(f.path, k), f.path[k].target>>]

FrameOK(R, i, f) == IF i % 2 = 1 THEN LineOK(f) ELSE RanOK(R, f)
Waits(i, f) == IF i % 2 = 1 THEN f.stages # <<>> ELSE f.path = <<>> /\ f.at \in DOMAIN f.order
Backs(n) == IF n = 0 THEN {"none"} ELSE IF n % 2 = 1 THEN {"none", "ran"}
            ELSE {"none", "succeeded", "failed", "error"}
StackOK(R, st, b) ==
    /\ st \in Seq(Elems(st)) /\ Len(st) <= MaxDepth /\ b \in Backs(Len(st))
    /\ \A i \in DOMAIN st : /\ FrameOK(R, i, st[i])
                            /\ i < Len(st) \/ b # "none" => Waits(i, st[i])
Inv == /\ IsRanfile(ranfile) /\ StackOK(ranfile, stack, back)
       /\ flag \in BOOLEAN /\ (Len(stack) > 1 \/ back = "ran" => ~flag)

-------------------------------------------------------------------------------
(* The search for cycles                                                    *)

LEMMA CycleIs == Cycle = Cyc(ranfile) BY DEF Cycle, Cyc, Deps, Needs

(* It answers: the equation of Cycle has a solution, the largest set of walks   *)
(* that go on for ever or come back.                                        *)
LEMMA CycUnfolds ==
    ASSUME NEW R, IsRanfile(R), NEW S \in SUBSET Targets, NEW t \in Targets
    PROVE  Cyc(R)[<<S, t>>] <=> t \in S \/ \E d \in Elems(Needs(R, t)) : Cyc(R)[<<S \cup {t}, d>>]
<1> DEFINE On(w, d) == <<w[1] \cup {w[2]}, d>>
           Post(A) == \A w \in A : w[2] \in w[1] \/ \E d \in Elems(Needs(R, w[2])) : On(w, d) \in A
           g == [w \in Walks |-> \E A \in SUBSET Walks : w \in A /\ Post(A)]
           Solves(f) == f = [w \in Walks |-> w[2] \in w[1] \/ \E d \in Elems(Needs(R, w[2])) : f[On(w, d)]]
<1>1. ASSUME NEW w \in Walks PROVE \A d \in Elems(Needs(R, w[2])) : On(w, d) \in Walks
  <2>1. Elems(Needs(R, w[2])) \subseteq Targets BY DEF IsRanfile, Needs, Elems
  <2> QED BY <2>1 DEF Walks
<1>2. ASSUME NEW w \in Walks
      PROVE  g[w] <=> (w[2] \in w[1] \/ \E d \in Elems(Needs(R, w[2])) : g[On(w, d)])
  <2>1. ASSUME g[w] PROVE w[2] \in w[1] \/ \E d \in Elems(Needs(R, w[2])) : g[On(w, d)]
    <3>1. PICK A \in SUBSET Walks : w \in A /\ Post(A) BY <2>1
    <3> HIDE DEF On
    <3> QED BY <1>1, <3>1
  <2>2. ASSUME w[2] \in w[1] PROVE g[w]
    <3>1. {w} \in SUBSET Walks /\ Post({w}) BY <2>2
    <3> QED BY <3>1
  <2>3. ASSUME NEW d \in Elems(Needs(R, w[2])), g[On(w, d)] PROVE g[w]
    <3> HIDE DEF On
    <3>1. PICK A \in SUBSET Walks : On(w, d) \in A /\ Post(A) BY <1>1, <2>3
    <3>2. A \cup {w} \in SUBSET Walks /\ Post(A \cup {w}) BY <3>1
    <3> QED BY <3>2
  <2> QED BY <2>1, <2>2, <2>3
<1>3. Solves(g)
  <2>0. \A w \in Walks : g[w] \in BOOLEAN OBVIOUS
  <2> HIDE DEF g
  <2>1. g = [w \in Walks |-> g[w]] BY DEF g
  <2>2. \A w \in Walks : g[w] = (w[2] \in w[1] \/ \E d \in Elems(Needs(R, w[2])) : g[On(w, d)])
    BY <1>2, <2>0
  <2> QED BY <2>1, <2>2
<1>4. Cyc(R) = CHOOSE f : Solves(f) BY DEF Cyc
<1>5. Solves(Cyc(R))
  <2> HIDE DEF g, Solves
  <2> QED BY <1>3, <1>4
<1>6. <<S, t>> \in Walks BY DEF Walks
<1>7. Cyc(R)[<<S, t>>] = (<<S, t>>[2] \in <<S, t>>[1]
                          \/ \E d \in Elems(Needs(R, <<S, t>>[2])) : Cyc(R)[On(<<S, t>>, d)])
  <2> HIDE DEF On
  <2> QED BY <1>5, <1>6
<1> QED BY <1>7

LEMMA ValidIs == ASSUME Valid PROVE Sound(ranfile)
BY CycleIs DEF Valid, Sound, OnCycle, Deps, Needs

-------------------------------------------------------------------------------
(* The stack                                                                *)

LEMMA InElems == ASSUME NEW T, NEW s \in Seq(T) PROVE s \in Seq(Elems(s)) BY DEF Elems
LEMMA AnySeq == ASSUME NEW s, s \in Seq(Elems(s)), NEW x
                PROVE  LET q == Append(s, x) IN
                       /\ q \in Seq(Elems(q)) /\ Len(q) = Len(s) + 1 /\ q[Len(q)] = x
                       /\ \A i \in 1..Len(s) : q[i] = s[i]
<1> DEFINE T == Elems(s) \cup {x}  q == Append(s, x)
<1>1. s \in Seq(T) /\ x \in T BY DEF Elems
<1>2. q \in Seq(T) /\ Len(q) = Len(s) + 1 /\ q[Len(q)] = x /\ \A i \in 1..Len(s) : q[i] = s[i]
  <2> HIDE DEF T
  <2> QED BY <1>1, AppendProperties
<1> HIDE DEF T, q
<1>3. q \in Seq(Elems(q)) BY <1>2, InElems
<1> QED BY <1>2, <1>3 DEF q

LEMMA Front ==
    ASSUME NEW T, NEW s \in Seq(T), NEW n \in Nat, n <= Len(s)
    PROVE  /\ SubSeq(s, 1, n) \in Seq(T) /\ Len(SubSeq(s, 1, n)) = n
           /\ \A i \in 1..n : SubSeq(s, 1, n)[i] = s[i]
<1>1. \A i \in 1..n : s[i] \in T OBVIOUS
<1>2. /\ SubSeq(s, 1, n) \in Seq(T) /\ Len(SubSeq(s, 1, n)) = IF 1 <= n THEN n - 1 + 1 ELSE 0
      /\ \A i \in 1..(n - 1 + 1) : SubSeq(s, 1, n)[i] = s[1 + i - 1]
  BY <1>1, SubSeqProperties
<1> QED BY <1>2

LEMMA Shorter == ASSUME NEW s, s \in Seq(Elems(s)), s # <<>>
                 PROVE  LET q == SubSeq(s, 1, Len(s) - 1) IN
                        /\ q \in Seq(Elems(q)) /\ Len(q) = Len(s) - 1
                        /\ \A i \in 1..(Len(s) - 1) : q[i] = s[i]
<1>1. Len(s) \in Nat \ {0} BY EmptySeq
<1>2. PICK n \in Nat : n = Len(s) - 1 BY <1>1
<1>3. SubSeq(s, 1, n) \in Seq(Elems(s)) /\ Len(SubSeq(s, 1, n)) = n
      /\ \A i \in 1..n : SubSeq(s, 1, n)[i] = s[i]
  <2>1. n <= Len(s) BY <1>1, <1>2
  <2> DEFINE T == Elems(s)
  <2>2. s \in Seq(T) OBVIOUS
  <2> HIDE DEF T
  <2>3. SubSeq(s, 1, n) \in Seq(T) BY <2>1, <2>2, Front
  <2>4. Len(SubSeq(s, 1, n)) = n BY <2>1, <2>2, Front
  <2>5. \A i \in 1..n : SubSeq(s, 1, n)[i] = s[i] BY <2>1, <2>2, Front
  <2> QED BY <2>3, <2>4, <2>5 DEF T
<1>4. SubSeq(s, 1, n) \in Seq(Elems(SubSeq(s, 1, n))) BY <1>3, InElems
<1> QED BY <1>2, <1>3, <1>4

(* The frame on top becomes another.                                        *)
LEMMA BecomesKept ==
    ASSUME Inv, stack # <<>>, NEW f, Becomes(f), FrameOK(ranfile, Len(stack), f), ranfile' = ranfile,
           back' = "none"
    PROVE  /\ StackOK(ranfile', stack', back') /\ Len(stack') = Len(stack) /\ stack' # <<>>
           /\ stack'[Len(stack)] = f /\ \A i \in 1..(Len(stack) - 1) : stack'[i] = stack[i]
<1>1. stack \in Seq(Elems(stack)) /\ Len(stack) \in Nat \ {0} BY EmptySeq DEF Inv, StackOK
<1>2. /\ Below \in Seq(Elems(Below)) /\ Len(Below) = Len(stack) - 1
      /\ \A i \in 1..(Len(stack) - 1) : Below[i] = stack[i]
  BY <1>1, Shorter DEF Below
<1>3. /\ stack' \in Seq(Elems(stack')) /\ Len(stack') = Len(stack) /\ stack'[Len(stack)] = f
      /\ \A i \in 1..(Len(stack) - 1) : stack'[i] = stack[i]
  BY <1>1, <1>2, AnySeq DEF Becomes
<1>4. DOMAIN stack' = 1..Len(stack) /\ DOMAIN stack = 1..Len(stack) /\ stack' # <<>> BY <1>1, <1>3
<1>5. ASSUME NEW i \in DOMAIN stack'
      PROVE  FrameOK(ranfile, i, stack'[i]) /\ (i < Len(stack') => Waits(i, stack'[i]))
  <2>1. CASE i = Len(stack) BY <1>1, <1>3, <2>1
  <2>2. CASE i # Len(stack)
    <3>1. i \in 1..(Len(stack) - 1) /\ i \in DOMAIN stack /\ i < Len(stack) BY <1>1, <1>4, <2>2
    <3> QED BY <1>3, <3>1 DEF Inv, StackOK
  <2> QED BY <2>1, <2>2
<1>6. back' \in Backs(Len(stack')) BY DEF Backs
<1> QED BY <1>3, <1>4, <1>5, <1>6 DEF Inv, StackOK

(* A frame is put on top of one that waits.                                   *)
LEMMA CallsKept ==
    ASSUME Inv, NEW f, Calls(f), FrameOK(ranfile, Len(stack) + 1, f), Len(stack) < MaxDepth,
           stack # <<>> => Waits(Len(stack), Top), ranfile' = ranfile, back' = "none"
    PROVE  /\ StackOK(ranfile', stack', back') /\ Len(stack') = Len(stack) + 1
           /\ \A i \in 1..Len(stack) : stack'[i] = stack[i]
<1>1. stack \in Seq(Elems(stack)) /\ Len(stack) \in Nat /\ MaxDepth \in Nat
  BY DepthAssumption DEF Inv, StackOK
<1>2. /\ stack' \in Seq(Elems(stack')) /\ Len(stack') = Len(stack) + 1 /\ stack'[Len(stack) + 1] = f
      /\ \A i \in 1..Len(stack) : stack'[i] = stack[i]
  BY <1>1, AnySeq DEF Calls
<1>3. ASSUME NEW i \in DOMAIN stack'
      PROVE  FrameOK(ranfile, i, stack'[i]) /\ (i < Len(stack') => Waits(i, stack'[i]))
  <2>0. i \in 1..(Len(stack) + 1) BY <1>1, <1>2
  <2>1. CASE i = Len(stack) + 1 BY <1>1, <1>2, <2>1
  <2>2. CASE i = Len(stack)
    <3>1. i \in DOMAIN stack /\ stack # <<>> /\ stack'[i] = Top BY <1>1, <1>2, <2>0, <2>2 DEF Top
    <3> QED BY <1>2, <2>2, <3>1 DEF Inv, StackOK, Top
  <2>3. CASE i < Len(stack)
    <3>1. i \in DOMAIN stack /\ stack'[i] = stack[i] BY <1>1, <1>2, <2>0, <2>3
    <3> QED BY <2>3, <3>1 DEF Inv, StackOK
  <2> QED BY <1>1, <2>0, <2>1, <2>2, <2>3
<1>4. back' \in Backs(Len(stack')) BY DEF Backs
<1> QED BY <1>1, <1>2, <1>3, <1>4 DEF Inv, StackOK

(* The frame on top ends; the one below has waited for it.                     *)
LEMMA ReturnsKept ==
    ASSUME Inv, stack # <<>>, NEW how, Returns(how), ranfile' = ranfile,
           how \in IF Len(stack) % 2 = 1 THEN {"succeeded", "failed", "error"} ELSE {"ran"}
    PROVE  /\ StackOK(ranfile', stack', back') /\ Len(stack') = Len(stack) - 1
           /\ \A i \in 1..(Len(stack) - 1) : stack'[i] = stack[i]
           /\ back' = "ran" => how = "ran"
<1>1. stack \in Seq(Elems(stack)) /\ Len(stack) \in Nat \ {0} /\ MaxDepth \in Nat
  BY EmptySeq, DepthAssumption DEF Inv, StackOK
<1>2. /\ stack' \in Seq(Elems(stack')) /\ Len(stack') = Len(stack) - 1 /\ stack' = Below
      /\ \A i \in 1..(Len(stack) - 1) : stack'[i] = stack[i]
  BY <1>1, Shorter DEF Below, Returns
<1>3. ASSUME NEW i \in DOMAIN stack' PROVE FrameOK(ranfile, i, stack'[i]) /\ Waits(i, stack'[i])
  <2>1. i \in DOMAIN stack /\ i < Len(stack) /\ stack'[i] = stack[i] BY <1>1, <1>2
  <2> QED BY <2>1 DEF Inv, StackOK
<1>4. stack' = <<>> <=> Len(stack) - 1 = 0 BY <1>2, EmptySeq
<1>5. back' = IF Len(stack) - 1 = 0 THEN "none" ELSE how BY <1>2, <1>4 DEF Returns
<1>6. Len(stack) % 2 \in {0, 1} /\ (Len(stack) % 2 = 1 <=> (Len(stack) - 1) % 2 # 1) BY <1>1
<1>7. back' \in Backs(Len(stack')) BY <1>1, <1>2, <1>5, <1>6 DEF Backs
<1> QED BY <1>1, <1>2, <1>3, <1>5, <1>7 DEF Inv, StackOK

(* What is on top, and what it is.                                           *)
LEMMA TopIs ==
    ASSUME Inv, stack # <<>>
    PROVE  /\ Len(stack) \in Nat \ {0} /\ Len(stack) \in DOMAIN stack
           /\ FrameOK(ranfile, Len(stack), Top) /\ (back # "none" => Waits(Len(stack), Top))
           /\ Top.is = "line" <=> Len(stack) % 2 = 1
           /\ Top.is = "ran" <=> Len(stack) % 2 # 1
           /\ Top.is = "line" => LineOK(Top)
           /\ Top.is = "ran" => RanOK(ranfile, Top) /\ Len(stack) > 1
<1>1. Len(stack) \in Nat \ {0} /\ Len(stack) \in DOMAIN stack BY EmptySeq DEF Inv, StackOK
<1>2. FrameOK(ranfile, Len(stack), Top) /\ (back # "none" => Waits(Len(stack), Top))
  BY <1>1 DEF Inv, StackOK, Top
<1>3. CASE Len(stack) % 2 = 1
  <2>1. LineOK(Top) BY <1>2, <1>3 DEF FrameOK
  <2>2. Top.is = "line" BY <2>1 DEF LineOK
  <2> QED BY <1>1, <1>2, <1>3, <2>1, <2>2
<1>4. CASE Len(stack) % 2 # 1
  <2>1. RanOK(ranfile, Top) BY <1>2, <1>4 DEF FrameOK
  <2>2. Top.is = "ran" BY <2>1 DEF RanOK
  <2>3. Len(stack) > 1 BY <1>1, <1>4
  <2> QED BY <1>1, <1>2, <1>4, <2>1, <2>2, <2>3
<1> QED BY <1>3, <1>4

-------------------------------------------------------------------------------
(* The command line                                                         *)

LEMMA TypedKept ==
    ASSUME Inv, NEW line \in Lines, Typed(line) PROVE Inv'
<1>1. LineFrame(line).segs \in Seq(Segment) /\ LineOK(LineFrame(line))
  BY LinesAssumption DEF IsLine, LineFrame, LineOK
<1>2. stack' = <<LineFrame(line)>> /\ Len(stack') = 1 /\ stack'[1] = LineFrame(line)
      /\ DOMAIN stack' = {1} /\ stack' \in Seq(Elems(stack'))
  BY DEF Typed, Elems
<1>3. stack = <<>> /\ back = "none" /\ back' = back /\ ranfile' = ranfile /\ flag' = flag
  BY DEF Typed, Inv, StackOK, Backs
<1>4. MaxDepth \in Nat \ {0} BY DepthAssumption
<1>5. StackOK(ranfile', stack', back')
  BY <1>1, <1>2, <1>3, <1>4 DEF StackOK, FrameOK, Backs
<1> QED BY <1>2, <1>3, <1>5 DEF Inv

LEMMA ForeignFailsKept == ASSUME Inv, ForeignFails PROVE Inv'
<1>1. stack = <<>> /\ stack' = stack /\ ranfile' = ranfile /\ flag' = TRUE /\ back' = back BY DEF ForeignFails
<1>2. Len(stack) = 0 /\ back = "none" BY <1>1 DEF Inv, StackOK, Backs
<1> QED BY <1>1, <1>2 DEF Inv

LEMMA NextSegmentOK ==
    ASSUME NEW f, LineOK(f), f.segs # <<>>, f.stages = <<>>
    PROVE  /\ LineOK([f EXCEPT !.segs = Tail(@)])
           /\ LineOK([f EXCEPT !.segs = Tail(@), !.stages = Head(f.segs).stages, !.no = 1, !.carry = 0,
                              !.ok = TRUE, !.kept = {}, !.last = TRUE])
           /\ Head(f.segs) \in Segment /\ Head(f.segs).stages # <<>>
<1>1. Tail(f.segs) \in Seq(Segment) /\ Head(f.segs) \in Segment BY HeadTailProperties DEF LineOK
<1>2. Head(f.segs).stages \in Seq(Stage) \ {<<>>} BY <1>1 DEF Segment
<1> HIDE DEF Segment
<1>3. LineOK([f EXCEPT !.segs = Tail(@)]) BY <1>1 DEF LineOK
<1>4. LineOK([f EXCEPT !.segs = Tail(@), !.stages = Head(f.segs).stages, !.no = 1, !.carry = 0,
                       !.ok = TRUE, !.kept = {}, !.last = TRUE])
  BY <1>1, <1>2 DEF LineOK
<1> QED BY <1>1, <1>2, <1>3, <1>4

(* A stage hands its output on, or keeps it in a file.                          *)
LEMMA HandsOnOK ==
    ASSUME NEW f, LineOK(f), f.stages # <<>>, NEW g, DOMAIN g = DOMAIN f, g.is = f.is,
           g.segs = f.segs, g.stages \in Seq(Stage), g.no = f.no + 1, g.ok \in BOOLEAN, g.last = g.ok,
           g.carry = f.no, g.kept = f.kept
    PROVE  LineOK(g)
<1>1. f.no \in Nat /\ f.no > 0 /\ f.no \notin f.kept /\ f.kept \subseteq 1..f.no BY DEF LineOK
<1>2. f.no + 1 \in Nat /\ f.no \in 0..(f.no + 1) /\ f.no < f.no + 1 /\ f.no + 1 > 0
      /\ f.kept \subseteq 1..(f.no + 1) /\ f.no + 1 \notin f.kept
      /\ (f.no + 1)..((f.no + 1) - 1) = {}
  BY <1>1
<1>3. (g.carry + 1)..(g.no - 1) \subseteq g.kept BY <1>2
<1> QED BY <1>1, <1>2, <1>3 DEF LineOK
LEMMA KeepsOK ==
    ASSUME NEW f, LineOK(f), f.stages # <<>>, NEW g, DOMAIN g = DOMAIN f, g.is = f.is,
           g.segs = f.segs, g.stages \in Seq(Stage), g.no = f.no + 1, g.ok \in BOOLEAN, g.last = g.ok,
           g.carry = f.carry, g.kept = f.kept \cup {f.no}
    PROVE  LineOK(g)
<1>1. /\ f.no \in Nat /\ f.no > 0 /\ f.no \notin f.kept /\ f.kept \subseteq 1..f.no
      /\ f.carry \in 0..f.no /\ f.carry < f.no /\ f.carry \notin f.kept
      /\ (f.carry + 1)..(f.no - 1) \subseteq f.kept
  BY DEF LineOK
<1>2. f.no + 1 \in Nat /\ f.carry \in 0..(f.no + 1) /\ f.carry < f.no + 1 /\ f.no + 1 > 0
      /\ f.kept \cup {f.no} \subseteq 1..(f.no + 1) /\ f.no + 1 \notin f.kept \cup {f.no}
      /\ f.carry \notin f.kept \cup {f.no}
  BY <1>1
<1>3. (g.carry + 1)..(g.no - 1) \subseteq g.kept BY <1>1
<1> QED BY <1>1, <1>2, <1>3 DEF LineOK

LEMMA AdvancedOK ==
    ASSUME NEW f, LineOK(f), f.stages # <<>>, NEW failed \in BOOLEAN
    PROVE  LineOK(Advanced(f, failed, ~failed))
<1>1. Tail(f.stages) \in Seq(Stage) BY HeadTailProperties DEF LineOK
<1> DEFINE g == Advanced(f, failed, ~failed)
<1>2. /\ DOMAIN g = DOMAIN f /\ g.is = f.is /\ g.segs = f.segs /\ g.stages = Tail(f.stages)
      /\ g.no = f.no + 1 /\ g.ok = ~failed /\ g.last = ~failed
      /\ g.carry = IF ~Head(f.stages).out THEN f.no ELSE f.carry
      /\ g.kept = IF Head(f.stages).out THEN f.kept \cup {f.no} ELSE f.kept
  BY DEF Advanced, HandsOn, LineOK
<1>0. g.ok \in BOOLEAN /\ g.last = g.ok /\ g.stages \in Seq(Stage) BY <1>1, <1>2
<1> HIDE DEF g
<1>5. SUFFICES LineOK(g) BY DEF g
<1>3. CASE Head(f.stages).out
  <2>1. g.carry = f.carry /\ g.kept = f.kept \cup {f.no} BY <1>2, <1>3
  <2> QED BY <1>0, <1>2, <2>1, KeepsOK
<1>4. CASE ~Head(f.stages).out
  <2>1. g.carry = f.no /\ g.kept = f.kept BY <1>2, <1>4
  <2> QED BY <1>0, <1>2, <2>1, HandsOnOK
<1> QED BY <1>3, <1>4

LEMMA LineTop ==
    ASSUME Inv, OnLine PROVE LineOK(Top) /\ Len(stack) % 2 = 1 /\ Len(stack) \in Nat \ {0} /\ stack # <<>>
BY TopIs DEF OnLine
LEMMA LineStays ==
    ASSUME Inv, OnLine, NEW f, LineOK(f), Becomes(f), ranfile' = ranfile, back' = "none",
           flag' \in BOOLEAN, Len(stack) > 1 => ~flag'
    PROVE  Inv'
<1>1. FrameOK(ranfile, Len(stack), f) /\ stack # <<>> BY LineTop DEF FrameOK
<1>2. StackOK(ranfile', stack', back') /\ Len(stack') = Len(stack) BY <1>1, BecomesKept
<1> QED BY <1>2 DEF Inv
LEMMA LineReturns ==
    ASSUME Inv, OnLine, NEW how \in {"succeeded", "failed", "error"}, Returns(how), ranfile' = ranfile,
           flag' \in BOOLEAN, Len(stack) > 1 => ~flag'
    PROVE  Inv'
<1>1. /\ StackOK(ranfile', stack', back') /\ Len(stack') = Len(stack) - 1
      /\ back' = "ran" => how = "ran"
  BY LineTop, ReturnsKept
<1> QED BY <1>1, LineTop DEF Inv

LEMMA NextSegmentKept == ASSUME Inv, NextSegment PROVE Inv'
<1>1. LineOK(Top) /\ Top.segs # <<>> /\ Top.stages = <<>> /\ OnLine /\ back' = "none"
  BY LineTop DEF NextSegment, OnLine
<1>2. PICK f : LineOK(f) /\ Becomes(f) BY <1>1, NextSegmentOK DEF NextSegment
<1> QED BY <1>1, <1>2, LineStays DEF NextSegment, Inv

LEMMA EndLineKept == ASSUME Inv, EndLine PROVE Inv'
BY LineReturns DEF EndLine, Inv

LEMMA RunCommandKept == ASSUME Inv, NEW outcome \in Outcomes, RunCommand(outcome) PROVE Inv'
<1>1. LineOK(Top) /\ Top.stages # <<>> /\ OnLine /\ back = "none" /\ ranfile' = ranfile
  BY LineTop DEF RunCommand, OnLine
<1>2. CASE outcome = "error"
  <2>1. Returns("error") /\ flag' \in {FALSE, flag} BY <1>2 DEF RunCommand
  <2>2. flag' \in BOOLEAN /\ (Len(stack) > 1 => ~flag')
    <3>1. CASE flag' = FALSE BY <3>1
    <3>2. CASE flag' = flag BY <3>2 DEF Inv
    <3> QED BY <2>1, <3>1, <3>2
  <2> QED BY <1>1, <2>1, <2>2, LineReturns
<1>3. CASE outcome = "exit"
  <2>1. Returns("succeeded") /\ flag' = FALSE BY <1>3 DEF RunCommand
  <2> QED BY <1>1, <2>1, LineReturns
<1>4. CASE outcome \in {"ok", "fails"}
  <2>1. /\ Becomes(Advanced(Top, outcome = "fails", ~(outcome = "fails")))
        /\ flag' = FALSE /\ back' = back
    <3>1. (outcome = "ok") = ~(outcome = "fails") BY <1>4
    <3>2. (Reset(flag) \/ outcome = "fails") = (outcome = "fails") BY DEF Reset
    <3>3. /\ Becomes(Advanced(Top, Reset(flag) \/ outcome = "fails", outcome = "ok"))
          /\ flag' = FALSE /\ back' = back
      BY <1>4 DEF RunCommand
    <3> QED BY <3>1, <3>2, <3>3
  <2>2. LineOK(Advanced(Top, outcome = "fails", ~(outcome = "fails"))) BY <1>1, AdvancedOK
  <2> QED BY <1>1, <2>1, <2>2, LineStays
<1> QED BY <1>2, <1>3, <1>4 DEF Outcomes

LEMMA RunBareKept == ASSUME Inv, RunBare PROVE Inv'
<1>1. LineOK(Top) /\ Top.stages # <<>> /\ OnLine /\ back = "none" /\ ranfile' = ranfile /\ flag' = flag
  BY LineTop DEF RunBare, OnLine
<1>2. Tail(Top.stages) \in Seq(Stage) BY <1>1, HeadTailProperties DEF LineOK
<1> DEFINE in == Head(Top.stages).in
           g == [Top EXCEPT !.stages = Tail(@), !.no = @ + 1,
                            !.carry = IF in THEN Top.no ELSE @,
                            !.kept = IF in THEN @ ELSE @ \cup {Top.no}]
<1>3. CASE Becomes(g) /\ back' = back
  <2>1. /\ DOMAIN g = DOMAIN Top /\ g.is = Top.is /\ g.segs = Top.segs /\ g.stages = Tail(Top.stages)
        /\ g.no = Top.no + 1 /\ g.ok = Top.ok /\ g.last = Top.last
        /\ g.carry = IF in THEN Top.no ELSE Top.carry
        /\ g.kept = IF in THEN Top.kept ELSE Top.kept \cup {Top.no}
    BY <1>1 DEF LineOK
  <2> HIDE DEF g, in
  <2>2. CASE in
    <3>1. g.carry = Top.no /\ g.kept = Top.kept BY <2>1, <2>2
    <3>2. Top.ok \in BOOLEAN /\ Top.last = Top.ok BY <1>1 DEF LineOK
    <3>3. LineOK(g) BY <1>1, <1>2, <2>1, <3>1, <3>2, HandsOnOK
    <3> QED BY <1>1, <1>3, <3>3, LineStays DEF Inv
  <2>3. CASE ~in
    <3>1. g.carry = Top.carry /\ g.kept = Top.kept \cup {Top.no} BY <2>1, <2>3
    <3>2. Top.ok \in BOOLEAN /\ Top.last = Top.ok BY <1>1 DEF LineOK
    <3>3. LineOK(g) BY <1>1, <1>2, <2>1, <3>1, <3>2, KeepsOK
    <3> QED BY <1>1, <1>3, <3>3, LineStays DEF Inv
  <2> QED BY <2>2, <2>3
<1>4. CASE Returns("error") BY <1>1, <1>4, LineReturns DEF Inv
<1> QED BY <1>3, <1>4 DEF RunBare

-------------------------------------------------------------------------------
(* ran: finding the order                                                    *)

LEMMA NewRanOK ==
    ASSUME NEW R, IsRanfile(R), Sound(R), NEW t \in DOMAIN R PROVE RanOK(R, RanFrame(t))
<1> DEFINE f == RanFrame(t)  e == [target |-> t, next |-> 1]
<1>1. /\ DOMAIN f = {"is", "path", "seen", "order", "at", "met"} /\ f.is = "ran"
      /\ f.path = <<e>> /\ f.seen = {t} /\ f.order = <<>> /\ f.at = 1 /\ f.met = FALSE
  BY DEF RanFrame
<1> HIDE DEF f
<1>2. f.path \in Seq(Entry(R)) /\ DOMAIN f.path = {1} /\ f.path[1].target = t /\ f.path[1].next = 1
      /\ 2 \notin DOMAIN f.path
  BY <1>1 DEF Entry
<1>3. DOMAIN f.order = {} /\ Len(f.order) = 0 /\ f.order \in Seq(DOMAIN R) BY <1>1
<1>4. OnPath(f) = {t} /\ Done(f) = {} BY <1>2, <1>3 DEF OnPath, Done, Elems
<1>5. Fits(R, f.order) BY <1>3 DEF Fits
<1>6. Before(f.path, 1) = {} BY DEF Before
<1>7. DOMAIN Needs(R, t) \subseteq Nat \ {0} BY DEF IsRanfile, Needs
<1>8. Passed(R, f, 1) = {} BY <1>2, <1>7 DEF Passed
<1>9. ~Cyc(R)[<<{}, t>>] BY DEF Sound
<1>10. \A k \in DOMAIN f.path :
           /\ Passed(R, f, k) \subseteq
                  Done(f) \cup (IF k + 1 \in DOMAIN f.path THEN {f.path[k + 1].target} ELSE {})
           /\ ~Cyc(R)[<<Before(f.path, k), f.path[k].target>>]
  BY <1>2, <1>6, <1>8, <1>9
<1>11. \A i, j \in DOMAIN f.path : f.path[i].target = f.path[j].target => i = j BY <1>2
<1>12. f.at \in 1..(Len(f.order) + 1) BY <1>1, <1>3
<1>13. f.seen = OnPath(f) \cup Done(f) /\ OnPath(f) \cap Done(f) = {} BY <1>1, <1>4
<1>14. RanOK(R, f) BY <1>1, <1>2, <1>3, <1>5, <1>10, <1>11, <1>12, <1>13 DEF RanOK
<1> QED BY <1>14 DEF f

(* What Look may meet: detect_cycle went the same way from the first target.     *)
LEMMA Meets ==
    ASSUME NEW R, IsRanfile(R), NEW f, RanOK(R, f), f.path # <<>>,
           NEW d \in Elems(Needs(R, Current(f).target))
    PROVE  d \in DOMAIN R /\ d \notin OnPath(f) /\ ~Cyc(R)[<<OnPath(f), d>>]
<1> DEFINE n == Len(f.path)  t == Current(f).target
<1>1. n \in Nat \ {0} /\ n \in DOMAIN f.path /\ DOMAIN f.path = 1..n BY EmptySeq DEF RanOK
<1>0. \A i \in DOMAIN f.path : f.path[i].target \in DOMAIN R
  <2>1. f.path \in Seq(Entry(R)) BY DEF RanOK
  <2>2. \A i \in DOMAIN f.path : f.path[i] \in Entry(R) BY <2>1
  <2> QED BY <2>2 DEF Entry
<1>2. t \in DOMAIN R /\ t = f.path[n].target BY <1>0, <1>1 DEF Current
<1>3. DOMAIN R \subseteq Targets BY DEF IsRanfile
<1>4. d \in DOMAIN R BY <1>2 DEF RanOK, Sound
<1>5. Before(f.path, n) \cup {t} = OnPath(f) BY <1>1, <1>2 DEF Before, OnPath
<1>6. OnPath(f) \in SUBSET Targets BY <1>0, <1>3 DEF OnPath
<1>7. ~Cyc(R)[<<Before(f.path, n), t>>] BY <1>1, <1>2 DEF RanOK
<1>8. Before(f.path, n) \in SUBSET Targets BY <1>5, <1>6
<1> HIDE DEF n, t
<1>9. ~Cyc(R)[<<OnPath(f), d>>]
  <2>1. ~\E x \in Elems(Needs(R, t)) : Cyc(R)[<<Before(f.path, n) \cup {t}, x>>]
    BY <1>2, <1>3, <1>7, <1>8, CycUnfolds
  <2> QED BY <1>5, <2>1 DEF t
<1>10. d \notin OnPath(f) BY <1>3, <1>4, <1>6, <1>9, CycUnfolds
<1> QED BY <1>4, <1>9, <1>10

LEMMA SteppedIs ==
    ASSUME NEW R, NEW f, RanOK(R, f), f.path # <<>>
    PROVE  LET q == Stepped(f)  n == Len(f.path) IN
           /\ n \in Nat \ {0} /\ q \in Seq(Entry(R)) /\ Len(q) = n
           /\ \A i \in 1..n : q[i].target = f.path[i].target
           /\ q[n].next = f.path[n].next + 1 /\ \A i \in 1..(n - 1) : q[i] = f.path[i]
<1> DEFINE n == Len(f.path)  q == Stepped(f)
<1>1. n \in Nat \ {0} /\ DOMAIN f.path = 1..n /\ f.path \in Seq(Entry(R)) BY EmptySeq DEF RanOK
<1>2. f.path[n] \in Entry(R) BY <1>1
<1>3. [f.path[n] EXCEPT !.next = @ + 1] \in Entry(R) BY <1>2 DEF Entry
<1>4. q = [f.path EXCEPT ![n] = [f.path[n] EXCEPT !.next = @ + 1]] BY DEF Stepped
<1> HIDE DEF q, n
<1>5. q \in Seq(Entry(R)) /\ Len(q) = n
  BY <1>1, <1>3, <1>4
<1>6. q[n] = [f.path[n] EXCEPT !.next = @ + 1] /\ \A i \in 1..(n - 1) : q[i] = f.path[i] BY <1>1, <1>4
<1>7. q[n].target = f.path[n].target /\ q[n].next = f.path[n].next + 1 BY <1>2, <1>6 DEF Entry
<1>8. ASSUME NEW i \in 1..n PROVE q[i].target = f.path[i].target
  <2>1. i = n \/ i \in 1..(n - 1) BY <1>1
  <2> QED BY <1>6, <1>7, <2>1
<1> QED BY <1>1, <1>5, <1>6, <1>7, <1>8 DEF q, n

(* A path is sound if its entries are, each with what comes after it.            *)
PathOK(R, path, done) ==
    /\ path \in Seq(Entry(R))
    /\ \A i, j \in DOMAIN path : path[i].target = path[j].target => i = j
    /\ \A k \in DOMAIN path :
           /\ \A m \in DOMAIN Needs(R, path[k].target) : m < path[k].next =>
                  LET x == Needs(R, path[k].target)[m] IN
                  x \in done \/ (k + 1 \in DOMAIN path /\ x = path[k + 1].target)
           /\ ~Cyc(R)[<<Before(path, k), path[k].target>>]

LEMMA PathIs == ASSUME NEW R, NEW f PROVE
    RanOK(R, f) <=>
        /\ DOMAIN f = {"is", "path", "seen", "order", "at", "met"} /\ f.is = "ran"
        /\ Sound(R) /\ f.order \in Seq(DOMAIN R)
        /\ f.at \in 1..(Len(f.order) + 1) /\ f.met = FALSE /\ (f.path # <<>> => f.at = 1)
        /\ f.seen = OnPath(f) \cup Done(f) /\ OnPath(f) \cap Done(f) = {}
        /\ Fits(R, f.order) /\ PathOK(R, f.path, Done(f))
<1>1. ASSUME NEW k \in DOMAIN f.path
      PROVE  (Passed(R, f, k) \subseteq
                  Done(f) \cup (IF k + 1 \in DOMAIN f.path THEN {f.path[k + 1].target} ELSE {}))
             <=> (\A m \in DOMAIN Needs(R, f.path[k].target) : m < f.path[k].next =>
                  LET x == Needs(R, f.path[k].target)[m] IN
                  x \in Done(f) \/ (k + 1 \in DOMAIN f.path /\ x = f.path[k + 1].target))
  <2>1. CASE k + 1 \in DOMAIN f.path BY <2>1 DEF Passed
  <2>2. CASE k + 1 \notin DOMAIN f.path BY <2>2 DEF Passed
  <2> QED BY <2>1, <2>2
<1> QED BY <1>1 DEF RanOK, PathOK

LEMMA SteppedPath ==
    ASSUME NEW R, IsRanfile(R), NEW f, RanOK(R, f), f.path # <<>>,
           LET e == Current(f) IN
           /\ e.next <= Len(Needs(R, e.target)) /\ Needs(R, e.target)[e.next] \in Done(f)
    PROVE  PathOK(R, Stepped(f), Done(f))
<1> DEFINE p == f.path  n == Len(f.path)  q == Stepped(f)  e == Current(f)
<1>1. /\ n \in Nat \ {0} /\ q \in Seq(Entry(R)) /\ Len(q) = n
      /\ \A i \in 1..n : q[i].target = p[i].target
      /\ q[n].next = p[n].next + 1 /\ \A i \in 1..(n - 1) : q[i] = p[i]
  BY SteppedIs
<1>2. PathOK(R, p, Done(f)) BY PathIs
<1>3. DOMAIN p = 1..n /\ DOMAIN q = 1..n /\ e = p[n] /\ p[n] \in Entry(R)
  BY <1>1, <1>2 DEF PathOK, Current
<1>4. \A k \in 1..n : Before(q, k) = Before(p, k) BY <1>1 DEF Before
<1>5. p[n].next \in Nat BY <1>3 DEF Entry
<1>7. e.next <= Len(Needs(R, e.target)) /\ Needs(R, e.target)[e.next] \in Done(f) OBVIOUS
<1> HIDE DEF q, n, e, p
<1>6. ASSUME NEW k \in 1..n, NEW m \in DOMAIN Needs(R, q[k].target), m < q[k].next
      PROVE  LET x == Needs(R, q[k].target)[m] IN
             x \in Done(f) \/ (k + 1 \in DOMAIN q /\ x = q[k + 1].target)
  <2>0. q[k].target = p[k].target BY <1>1
  <2>1. CASE k = n
    <3>1. Needs(R, p[n].target) \in Seq(Targets) BY <1>3 DEF IsRanfile, Needs, Entry
    <3>2. m \in Nat /\ m < p[n].next + 1 BY <1>1, <1>6, <2>0, <2>1, <3>1
    <3>3. m = p[n].next \/ m < p[n].next BY <1>5, <3>2
    <3>4. CASE m = p[n].next BY <1>3, <1>7, <2>0, <2>1, <3>4
    <3>5. CASE m < p[n].next
      <4>1. n + 1 \notin DOMAIN p BY <1>1, <1>3
      <4> QED BY <1>2, <1>3, <2>0, <2>1, <3>5, <4>1 DEF PathOK
    <3> QED BY <3>3, <3>4, <3>5
  <2>2. CASE k # n
    <3>1. k \in 1..(n - 1) /\ k + 1 \in 1..n BY <1>1, <2>2
    <3>2. q[k] = p[k] /\ q[k + 1].target = p[k + 1].target BY <1>1, <3>1
    <3>3. m \in DOMAIN Needs(R, p[k].target) /\ m < p[k].next BY <1>6, <3>2
    <3> QED BY <1>2, <1>3, <3>1, <3>2, <3>3 DEF PathOK
  <2> QED BY <2>1, <2>2
<1>8. \A i, j \in DOMAIN q : q[i].target = q[j].target => i = j BY <1>1, <1>2, <1>3 DEF PathOK
<1>9. \A k \in DOMAIN q : ~Cyc(R)[<<Before(q, k), q[k].target>>] BY <1>1, <1>2, <1>3, <1>4 DEF PathOK
<1>10. PathOK(R, q, Done(f)) BY <1>1, <1>3, <1>6, <1>8, <1>9 DEF PathOK
<1> QED BY <1>10 DEF q

LEMMA PushedPath ==
    ASSUME NEW R, IsRanfile(R), NEW f, RanOK(R, f), f.path # <<>>,
           LET e == Current(f) IN
           /\ e.next <= Len(Needs(R, e.target)) /\ Needs(R, e.target)[e.next] \notin Done(f)
    PROVE  LET d == Needs(R, Current(f).target)[Current(f).next]
               r == Append(Stepped(f), [target |-> d, next |-> 1]) IN
           PathOK(R, r, Done(f)) /\ {r[i].target : i \in DOMAIN r} = OnPath(f) \cup {d}
<1> DEFINE p == f.path  n == Len(f.path)  q == Stepped(f)  e == Current(f)
           d == Needs(R, e.target)[e.next]  a == [target |-> d, next |-> 1]  r == Append(q, a)
<1>1. /\ n \in Nat \ {0} /\ q \in Seq(Entry(R)) /\ Len(q) = n
      /\ \A i \in 1..n : q[i].target = p[i].target
      /\ q[n].next = p[n].next + 1 /\ \A i \in 1..(n - 1) : q[i] = p[i]
  BY SteppedIs
<1>2. PathOK(R, p, Done(f)) BY PathIs
<1>3. DOMAIN p = 1..n /\ e = p[n] /\ p[n] \in Entry(R) BY <1>1, <1>2 DEF PathOK, Current
<1>4. Needs(R, e.target) \in Seq(Targets) /\ e.next \in Nat \ {0} BY <1>3 DEF IsRanfile, Needs, Entry
<1>5. d \in Elems(Needs(R, e.target)) BY <1>4 DEF Elems
<1>6. d \in DOMAIN R /\ d \notin OnPath(f) /\ ~Cyc(R)[<<OnPath(f), d>>] BY <1>5, Meets
<1>7. a \in Entry(R) /\ a.target = d /\ a.next = 1 BY <1>6 DEF Entry
<1> HIDE DEF q, n, e, p, a, d
<1>8. /\ r \in Seq(Entry(R)) /\ Len(r) = n + 1 /\ r[n + 1] = a /\ \A i \in 1..n : r[i] = q[i]
      /\ DOMAIN r = 1..(n + 1)
  BY <1>1, <1>7, AppendProperties
<1> HIDE DEF r
<1>9. \A i \in 1..n : r[i].target = p[i].target BY <1>1, <1>8
<1>10. r[n + 1].target = d /\ r[n + 1].next = 1 BY <1>7, <1>8
<1>11. OnPath(f) = {p[i].target : i \in 1..n} BY <1>3 DEF OnPath, p
<1>12. {r[i].target : i \in DOMAIN r} = OnPath(f) \cup {d}
  <2>1. 1..(n + 1) = (1..n) \cup {n + 1} BY <1>1
  <2> QED BY <1>8, <1>9, <1>10, <1>11, <2>1
<1>13. ASSUME NEW k \in 1..(n + 1)
       PROVE  ~Cyc(R)[<<Before(r, k), r[k].target>>]
  <2>1. CASE k \in 1..n
    <3>1. Before(r, k) = Before(p, k)
      <4>1. \A j \in 1..(k - 1) : j \in 1..n BY <1>1, <2>1
      <4>2. \A j \in 1..(k - 1) : r[j].target = p[j].target BY <1>9, <4>1
      <4> QED BY <4>2 DEF Before
    <3> QED BY <1>2, <1>3, <1>9, <2>1, <3>1 DEF PathOK
  <2>2. CASE k = n + 1
    <3>1. Before(r, n + 1) = OnPath(f) BY <1>1, <1>9, <1>11 DEF Before
    <3> QED BY <1>6, <1>10, <2>2, <3>1
  <2> QED BY <1>1, <2>1, <2>2
<1>14. ASSUME NEW k \in 1..(n + 1), NEW m \in DOMAIN Needs(R, r[k].target), m < r[k].next
       PROVE  LET x == Needs(R, r[k].target)[m] IN
              x \in Done(f) \/ (k + 1 \in DOMAIN r /\ x = r[k + 1].target)
  <2>1. CASE k = n + 1
    <3>1. Needs(R, d) \in Seq(Targets) BY <1>6 DEF IsRanfile, Needs
    <3>2. m \in Nat \ {0} /\ m < 1 BY <1>10, <1>14, <2>1, <3>1
    <3> QED BY <3>2
  <2>2. CASE k = n
    <3>1. r[n] = q[n] /\ r[n].target = p[n].target /\ r[n].next = p[n].next + 1 BY <1>1, <1>8, <1>9
    <3>2. m \in Nat /\ p[n].next \in Nat /\ m < p[n].next + 1 BY <1>3, <1>4, <1>14, <2>2, <3>1
    <3>3. m = p[n].next \/ m < p[n].next BY <3>2
    <3>4. CASE m = p[n].next
      <4>1. Needs(R, r[k].target)[m] = d BY <1>3, <2>2, <3>1, <3>4 DEF d
      <4> QED BY <1>1, <1>8, <1>10, <2>2, <4>1
    <3>5. CASE m < p[n].next
      <4>1. n + 1 \notin DOMAIN p BY <1>1, <1>3
      <4>2. m \in DOMAIN Needs(R, p[n].target) /\ n \in DOMAIN p BY <1>1, <1>3, <1>14, <2>2, <3>1
      <4>3. Needs(R, p[n].target)[m] \in Done(f) BY <1>2, <3>5, <4>1, <4>2 DEF PathOK
      <4> QED BY <2>2, <3>1, <4>3
    <3> QED BY <3>3, <3>4, <3>5
  <2>3. CASE k \in 1..(n - 1)
    <3>1. k \in 1..n /\ k + 1 \in 1..n BY <1>1, <2>3
    <3>2. r[k] = p[k] /\ r[k + 1].target = p[k + 1].target BY <1>1, <1>8, <1>9, <2>3, <3>1
    <3>3. m \in DOMAIN Needs(R, p[k].target) /\ m < p[k].next BY <1>14, <3>2
    <3>4. k + 1 \in DOMAIN r BY <1>1, <1>8, <3>1
    <3> QED BY <1>2, <1>3, <3>1, <3>2, <3>3, <3>4 DEF PathOK
  <2> QED BY <1>1, <2>1, <2>2, <2>3
<1>15. ASSUME NEW i \in 1..(n + 1), NEW j \in 1..(n + 1), r[i].target = r[j].target PROVE i = j
  <2>1. CASE i \in 1..n /\ j \in 1..n BY <1>2, <1>3, <1>9, <1>15, <2>1 DEF PathOK
  <2>2. CASE i = n + 1 /\ j \in 1..n BY <1>6, <1>9, <1>10, <1>11, <1>15, <2>2
  <2>3. CASE j = n + 1 /\ i \in 1..n BY <1>6, <1>9, <1>10, <1>11, <1>15, <2>3
  <2> QED BY <1>1, <2>1, <2>2, <2>3
<1>16. PathOK(R, r, Done(f)) BY <1>8, <1>13, <1>14, <1>15 DEF PathOK
<1> QED BY <1>12, <1>16 DEF r, q, a, d, e

LEMMA PoppedPath ==
    ASSUME NEW R, IsRanfile(R), NEW f, RanOK(R, f), f.path # <<>>
    PROVE  LET t == Current(f).target  q == Popped(f.path) IN
           /\ PathOK(R, q, Done(f) \cup {t}) /\ t \in OnPath(f)
           /\ {q[i].target : i \in DOMAIN q} = OnPath(f) \ {t}
<1> DEFINE p == f.path  n == Len(f.path)  q == Popped(f.path)  t == Current(f).target
<1>1. PathOK(R, p, Done(f)) /\ p \in Seq(Entry(R)) BY PathIs DEF PathOK
<1>2. n \in Nat \ {0} /\ n - 1 \in Nat /\ DOMAIN p = 1..n /\ t = p[n].target BY <1>1, EmptySeq DEF Current
<1>3. q \in Seq(Entry(R)) /\ Len(q) = n - 1 /\ \A i \in 1..(n - 1) : q[i] = p[i]
  <2> DEFINE l == n - 1
  <2>1. l \in Nat /\ l <= Len(p) BY <1>2
  <2>2. q = SubSeq(p, 1, l) BY DEF Popped
  <2> HIDE DEF l, p, q
  <2>3. q \in Seq(Entry(R)) /\ Len(q) = l /\ \A i \in 1..l : q[i] = p[i] BY <1>1, <2>1, <2>2, Front
  <2> QED BY <2>3 DEF l
<1>4. OnPath(f) = {p[i].target : i \in 1..n} BY <1>2 DEF OnPath
<1>5. t \in OnPath(f) BY <1>2, <1>4
<1> HIDE DEF p, n, q, t
<1>6. DOMAIN q = 1..(n - 1) BY <1>2, <1>3
<1>7. {q[i].target : i \in DOMAIN q} = OnPath(f) \ {t}
  <2>1. ASSUME NEW i \in 1..(n - 1) PROVE p[i].target # t
    <3>1. i \in 1..n /\ i # n BY <1>2
    <3> QED BY <1>1, <1>2, <3>1 DEF PathOK
  <2>2. ASSUME NEW x \in OnPath(f), x # t PROVE \E i \in 1..(n - 1) : x = p[i].target
    <3>1. PICK i \in 1..n : x = p[i].target BY <1>4, <2>2
    <3>2. i # n BY <1>2, <2>2, <3>1
    <3>3. i \in 1..(n - 1) BY <1>2, <3>2
    <3> QED BY <3>1, <3>3
  <2>3. \A i \in 1..(n - 1) : p[i].target \in OnPath(f)
    <3>1. \A i \in 1..(n - 1) : i \in 1..n BY <1>2
    <3> QED BY <1>4, <3>1
  <2> QED BY <1>3, <1>6, <2>1, <2>2, <2>3
<1>8. ASSUME NEW k \in 1..(n - 1), NEW m \in DOMAIN Needs(R, q[k].target), m < q[k].next
      PROVE  LET x == Needs(R, q[k].target)[m] IN
             x \in Done(f) \cup {t} \/ (k + 1 \in DOMAIN q /\ x = q[k + 1].target)
  <2>1. q[k] = p[k] /\ k \in 1..n /\ k + 1 \in 1..n BY <1>2, <1>3
  <2>2. LET x == Needs(R, p[k].target)[m] IN x \in Done(f) \/ x = p[k + 1].target
    BY <1>1, <1>2, <1>8, <2>1 DEF PathOK
  <2>3. CASE k + 1 = n BY <1>2, <2>1, <2>2, <2>3
  <2>4. CASE k + 1 # n
    <3>1. k + 1 \in 1..(n - 1) BY <1>2, <2>1, <2>4
    <3> QED BY <1>3, <1>6, <2>1, <2>2, <3>1
  <2> QED BY <2>3, <2>4
<1>9. ASSUME NEW k \in 1..(n - 1) PROVE ~Cyc(R)[<<Before(q, k), q[k].target>>]
  <2>1. k \in 1..n /\ \A j \in 1..(k - 1) : q[j] = p[j] BY <1>2, <1>3
  <2>2. Before(q, k) = Before(p, k) BY <2>1 DEF Before
  <2> QED BY <1>1, <1>2, <1>3, <2>1, <2>2 DEF PathOK
<1>10. ASSUME NEW i \in 1..(n - 1), NEW j \in 1..(n - 1), q[i].target = q[j].target PROVE i = j
  <2>1. i \in 1..n /\ j \in 1..n BY <1>2
  <2> QED BY <1>1, <1>2, <1>3, <1>10, <2>1 DEF PathOK
<1>11. PathOK(R, q, Done(f) \cup {t}) BY <1>3, <1>6, <1>8, <1>9, <1>10 DEF PathOK
<1> QED BY <1>5, <1>7, <1>11 DEF q, t

LEMMA RanTop ==
    ASSUME Inv, stack # <<>>, Top.is = "ran"
    PROVE  RanOK(ranfile, Top) /\ Len(stack) > 1 /\ Len(stack) % 2 # 1 /\ Len(stack) \in Nat /\ ~flag
BY TopIs DEF Inv
LEMMA RanStays ==
    ASSUME Inv, stack # <<>>, Top.is = "ran", NEW f, RanOK(ranfile, f), Becomes(f), ranfile' = ranfile,
           back' = "none", flag' = flag
    PROVE  Inv'
<1>1. FrameOK(ranfile, Len(stack), f) BY RanTop DEF FrameOK
<1>2. StackOK(ranfile', stack', back') /\ Len(stack') = Len(stack) BY <1>1, BecomesKept
<1> QED BY <1>2, RanTop DEF Inv
LEMMA RanReturns ==
    ASSUME Inv, stack # <<>>, Top.is = "ran", Returns("ran"), ranfile' = ranfile, flag' = flag
    PROVE  Inv'
<1>1. StackOK(ranfile', stack', back') /\ Len(stack') = Len(stack) - 1 BY RanTop, ReturnsKept
<1> QED BY <1>1, RanTop DEF Inv

LEMMA LookKept == ASSUME Inv, Look PROVE Inv'
<1> DEFINE f == Top  e == Current(f)  d == Needs(ranfile, e.target)[e.next]
<1>1. stack # <<>> /\ f.is = "ran" /\ back' = "none" /\ f.path # <<>> /\ ranfile' = ranfile /\ flag' = flag
  BY DEF Look, OnRan
<1>2. RanOK(ranfile, f) /\ IsRanfile(ranfile) BY <1>1, RanTop DEF Inv
<1>3. \A t : Deps(t) = Needs(ranfile, t) BY DEF Deps, Needs
<1>4. e.next <= Len(Needs(ranfile, e.target))
      /\ IF d \in OnPath(f) \/ d \notin DOMAIN ranfile THEN Becomes([f EXCEPT !.met = TRUE, !.path = <<>>, !.order = <<>>])
         ELSE IF d \in f.seen THEN Becomes([f EXCEPT !.path = Stepped(f)])
         ELSE Becomes([f EXCEPT !.path = Append(Stepped(f), [target |-> d, next |-> 1]),
                                !.seen = @ \cup {d}])
  BY <1>3 DEF Look
<1> HIDE DEF f
<1>5. d \in Elems(Needs(ranfile, e.target))
  <2>1. f.path \in Seq(Entry(ranfile)) /\ Len(f.path) \in DOMAIN f.path BY <1>1, <1>2, EmptySeq DEF RanOK
  <2>2. e \in Entry(ranfile) BY <2>1 DEF Current
  <2>3. Needs(ranfile, e.target) \in Seq(Targets) /\ e.next \in Nat \ {0} BY <1>2, <2>2 DEF IsRanfile, Needs, Entry
  <2> QED BY <1>4, <2>3 DEF Elems
<1>6. d \in DOMAIN ranfile /\ d \notin OnPath(f) BY <1>1, <1>2, <1>5, Meets
<1>7. /\ DOMAIN f = {"is", "path", "seen", "order", "at", "met"} /\ f.is = "ran"
      /\ Sound(ranfile) /\ f.order \in Seq(DOMAIN ranfile)
      /\ f.at \in 1..(Len(f.order) + 1) /\ f.met = FALSE /\ f.at = 1
      /\ f.seen = OnPath(f) \cup Done(f) /\ OnPath(f) \cap Done(f) = {}
      /\ Fits(ranfile, f.order) /\ PathOK(ranfile, f.path, Done(f))
  BY <1>1, <1>2, PathIs
<1>8. CASE d \in f.seen
  <2> DEFINE g == [f EXCEPT !.path = Stepped(f)]
  <2>1. d \in Done(f) BY <1>6, <1>7, <1>8
  <2>2. PathOK(ranfile, Stepped(f), Done(f)) BY <1>1, <1>2, <1>4, <2>1, SteppedPath
  <2>3. /\ DOMAIN g = DOMAIN f /\ g.is = "ran" /\ g.path = Stepped(f) /\ g.seen = f.seen
        /\ g.order = f.order /\ g.at = f.at /\ g.met = FALSE
    BY <1>7
  <2>4. OnPath(g) = OnPath(f)
    <3>1. LET q == Stepped(f)  n == Len(f.path) IN
          /\ n \in Nat \ {0} /\ q \in Seq(Entry(ranfile)) /\ Len(q) = n
          /\ \A i \in 1..n : q[i].target = f.path[i].target
      BY <1>1, <1>2, SteppedIs
    <3>2. f.path \in Seq(Entry(ranfile)) BY <1>7 DEF PathOK
    <3>3. DOMAIN Stepped(f) = 1..Len(f.path) /\ DOMAIN f.path = 1..Len(f.path) BY <3>1, <3>2
    <3> HIDE DEF g
    <3> QED BY <2>3, <3>1, <3>3 DEF OnPath
  <2>5. Becomes(g) BY <1>4, <1>6, <1>8
  <2> HIDE DEF g
  <2>6. Done(g) = Done(f) BY <2>3 DEF Done
  <2>7. RanOK(ranfile, g) BY <1>7, <2>2, <2>3, <2>4, <2>6, PathIs
  <2> QED BY <1>1, <2>5, <2>7, RanStays DEF f
<1>9. CASE d \notin f.seen
  <2> DEFINE r == Append(Stepped(f), [target |-> d, next |-> 1])
             g == [f EXCEPT !.path = r, !.seen = @ \cup {d}]
  <2>1. d \notin Done(f) BY <1>7, <1>9
  <2>2. PathOK(ranfile, r, Done(f)) /\ {r[i].target : i \in DOMAIN r} = OnPath(f) \cup {d}
    BY <1>1, <1>2, <1>4, <2>1, PushedPath
  <2>5. Becomes(g) BY <1>4, <1>6, <1>9
  <2> HIDE DEF r
  <2>3. /\ DOMAIN g = DOMAIN f /\ g.is = "ran" /\ g.path = r /\ g.seen = f.seen \cup {d}
        /\ g.order = f.order /\ g.at = f.at /\ g.met = FALSE
    BY <1>7
  <2> HIDE DEF g
  <2>4. OnPath(g) = OnPath(f) \cup {d} BY <2>2, <2>3 DEF OnPath
  <2>6. Done(g) = Done(f) BY <2>3 DEF Done
  <2>8. g.seen = OnPath(g) \cup Done(g) /\ OnPath(g) \cap Done(g) = {} BY <1>7, <2>1, <2>3, <2>4, <2>6
  <2>9. PathOK(ranfile, g.path, Done(g)) BY <2>2, <2>3, <2>6
  <2>7. RanOK(ranfile, g) BY <1>7, <2>3, <2>8, <2>9, PathIs
  <2> QED BY <1>1, <2>5, <2>7, RanStays DEF f
<1> QED BY <1>8, <1>9

LEMMA CloseKept == ASSUME Inv, Close PROVE Inv'
<1> DEFINE f == Top  e == Current(f)  t == e.target  q == Popped(f.path)
           g == [f EXCEPT !.path = Popped(@), !.order = Append(@, e.target)]
<1>1. /\ stack # <<>> /\ f.is = "ran" /\ back' = "none" /\ f.path # <<>> /\ ranfile' = ranfile
      /\ flag' = flag /\ Becomes(g)
  BY DEF Close, OnRan
<1>2. RanOK(ranfile, f) /\ IsRanfile(ranfile) BY <1>1, RanTop DEF Inv
<1>3. e.next > Len(Needs(ranfile, t)) BY DEF Close, Deps, Needs
<1> HIDE DEF f
<1>4. /\ DOMAIN f = {"is", "path", "seen", "order", "at", "met"} /\ f.is = "ran"
      /\ Sound(ranfile) /\ f.order \in Seq(DOMAIN ranfile)
      /\ f.at \in 1..(Len(f.order) + 1) /\ f.met = FALSE /\ f.at = 1
      /\ f.seen = OnPath(f) \cup Done(f) /\ OnPath(f) \cap Done(f) = {}
      /\ Fits(ranfile, f.order) /\ PathOK(ranfile, f.path, Done(f))
  BY <1>1, <1>2, PathIs
<1>5. PathOK(ranfile, q, Done(f) \cup {t}) /\ t \in OnPath(f) /\ {q[i].target : i \in DOMAIN q} = OnPath(f) \ {t}
  BY <1>1, <1>2, PoppedPath
<1>6. f.path \in Seq(Entry(ranfile)) /\ Len(f.path) \in DOMAIN f.path /\ Len(f.path) + 1 \notin DOMAIN f.path
  BY <1>1, <1>4, EmptySeq DEF PathOK
<1>7. e \in Entry(ranfile) /\ e = f.path[Len(f.path)] BY <1>6 DEF Current
<1>8. t \in DOMAIN ranfile /\ Needs(ranfile, t) \in Seq(Targets) /\ e.next \in Nat
  BY <1>2, <1>7 DEF IsRanfile, Needs, Entry
<1>9. Elems(Needs(ranfile, t)) \subseteq Done(f)
  <2>1. ASSUME NEW m \in DOMAIN Needs(ranfile, t) PROVE Needs(ranfile, t)[m] \in Done(f)
    <3>1. m < e.next BY <1>3, <1>8
    <3> QED BY <1>4, <1>6, <1>7, <3>1 DEF PathOK
  <2> QED BY <2>1 DEF Elems
<1>10. t \notin Done(f) BY <1>4, <1>5
<1>11. g = [f EXCEPT !.path = q, !.order = Append(f.order, t)] BY <1>4
<1> HIDE DEF g, q, t, e
<1>12. /\ DOMAIN g = DOMAIN f /\ g.is = "ran" /\ g.path = q /\ g.seen = f.seen
       /\ g.order = Append(f.order, t) /\ g.at = f.at /\ g.met = FALSE
  BY <1>4, <1>11
<1> DEFINE l == Len(f.order)
<1>13. /\ g.order \in Seq(DOMAIN ranfile) /\ Len(g.order) = l + 1 /\ l \in Nat
       /\ g.order[l + 1] = t /\ \A i \in 1..l : g.order[i] = f.order[i]
  BY <1>4, <1>8, <1>12, AppendProperties
<1>14. DOMAIN f.order = 1..l /\ DOMAIN g.order = 1..(l + 1) BY <1>4, <1>13
<1> HIDE DEF l
<1>15. Done(g) = Done(f) \cup {t}
  <2>1. 1..(l + 1) = (1..l) \cup {l + 1} BY <1>13
  <2> QED BY <1>13, <1>14, <2>1 DEF Done, Elems
<1>16. OnPath(g) = OnPath(f) \ {t} BY <1>5, <1>12 DEF OnPath
<1>17. Fits(ranfile, g.order)
  <2>1. ASSUME NEW i \in 1..(l + 1), NEW x \in Elems(Needs(ranfile, g.order[i]))
        PROVE  \E j \in 1..(i - 1) : g.order[j] = x
    <3>1. CASE i = l + 1
      <4>1. x \in Done(f) BY <1>9, <1>13, <2>1, <3>1
      <4>2. PICK j \in 1..l : f.order[j] = x BY <1>14, <4>1 DEF Done, Elems
      <4>3. j \in 1..(i - 1) BY <1>13, <3>1
      <4> QED BY <1>13, <4>2, <4>3
    <3>2. CASE i \in 1..l
      <4>1. x \in Elems(Needs(ranfile, f.order[i])) BY <1>13, <2>1, <3>2
      <4>2. PICK j \in 1..(i - 1) : f.order[j] = x BY <1>4, <1>14, <3>2, <4>1 DEF Fits
      <4>3. j \in 1..l BY <1>13, <3>2
      <4> QED BY <1>13, <4>2, <4>3
    <3> QED BY <1>13, <3>1, <3>2
  <2>2. ASSUME NEW i \in 1..(l + 1), NEW j \in 1..(l + 1), g.order[j] = g.order[i] PROVE j = i
    <3>1. \A k \in 1..l : f.order[k] # t BY <1>10, <1>14 DEF Done, Elems
    <3>2. CASE i \in 1..l /\ j \in 1..l
      <4>1. f.order[j] = f.order[i] BY <1>13, <2>2, <3>2
      <4> QED BY <1>4, <1>14, <3>2, <4>1 DEF Fits
    <3>3. CASE i = l + 1 /\ j \in 1..l BY <1>13, <2>2, <3>1, <3>3
    <3>4. CASE j = l + 1 /\ i \in 1..l BY <1>13, <2>2, <3>1, <3>4
    <3> QED BY <1>13, <3>2, <3>3, <3>4
  <2> QED BY <1>14, <2>1, <2>2 DEF Fits
<1>18. g.at \in 1..(Len(g.order) + 1) /\ g.at = 1 BY <1>4, <1>12, <1>13
<1>19. g.seen = OnPath(g) \cup Done(g) /\ OnPath(g) \cap Done(g) = {} BY <1>4, <1>5, <1>10, <1>12, <1>15, <1>16
<1>20. PathOK(ranfile, g.path, Done(g)) BY <1>5, <1>12, <1>15
<1>21. RanOK(ranfile, g) BY <1>4, <1>12, <1>13, <1>17, <1>18, <1>19, <1>20, PathIs
<1> QED BY <1>1, <1>21, RanStays DEF f

-------------------------------------------------------------------------------
(* ran: between the command lines                                             *)

LEMMA RunRanKept == ASSUME Inv, RunRan PROVE Inv'
<1> DEFINE t == Head(Top.stages).cmd
<1>1. /\ OnLine /\ LineOK(Top) /\ Top.stages # <<>> /\ back = "none" /\ stack # <<>> /\ Top.is = "line"
      /\ Len(stack) % 2 = 1 /\ Len(stack) \in Nat \ {0} /\ Len(stack) < MaxDepth /\ ranfile' = ranfile /\ flag' = FALSE
  BY LineTop DEF RunRan, OnLine, Reset
<1>2. Waits(Len(stack), Top) BY <1>1 DEF Waits
<1>3. CASE Valid /\ t \in DOMAIN ranfile
  <2>1. Calls(RanFrame(t)) /\ back' = "none" BY <1>1, <1>3 DEF RunRan
  <2>2. RanOK(ranfile, RanFrame(t)) BY <1>3, ValidIs, NewRanOK DEF Inv
  <2>3. FrameOK(ranfile, Len(stack) + 1, RanFrame(t)) BY <1>1, <2>2 DEF FrameOK
  <2>4. StackOK(ranfile', stack', back') BY <1>1, <1>2, <2>1, <2>3, CallsKept
  <2> QED BY <1>1, <2>4 DEF Inv
<1>4. CASE ~(Valid /\ t \in DOMAIN ranfile)
  <2>1. stack' = stack /\ back' = "ran" BY <1>4 DEF RunRan
  <2>2. ASSUME NEW i \in DOMAIN stack PROVE Waits(i, stack[i])
    <3>1. i \in 1..Len(stack) BY DEF Inv, StackOK
    <3>2. CASE i = Len(stack) BY <1>2, <3>2 DEF Top
    <3>3. CASE i < Len(stack) BY <3>3 DEF Inv, StackOK
    <3> QED BY <1>1, <3>1, <3>2, <3>3
  <2>3. back' \in Backs(Len(stack')) BY <1>1, <2>1 DEF Backs
  <2>4. StackOK(ranfile', stack', back') BY <1>1, <2>1, <2>2, <2>3 DEF Inv, StackOK
  <2> QED BY <1>1, <2>4 DEF Inv
<1> QED BY <1>3, <1>4

LEMMA RanBackKept == ASSUME Inv, RanBack PROVE Inv'
<1>1. back = "ran" /\ back' = "none" /\ ranfile' = ranfile /\ flag' = FALSE
      /\ Becomes(Advanced(Top, flag, TRUE))
  BY DEF RanBack
<1>2. Len(stack) % 2 = 1 /\ stack # <<>>
  <2>1. "ran" \in Backs(Len(stack)) BY <1>1 DEF Inv, StackOK
  <2>2. Len(stack) # 0 /\ Len(stack) % 2 = 1 BY <2>1 DEF Backs
  <2> QED BY <2>2, EmptySeq
<1>3. LineOK(Top) /\ Waits(Len(stack), Top) BY <1>1, <1>2, TopIs
<1>4. Top.stages # <<>> /\ flag = FALSE BY <1>1, <1>2, <1>3 DEF Waits, Inv
<1>5. LineOK(Advanced(Top, FALSE, ~FALSE)) BY <1>3, <1>4, AdvancedOK
<1>6. Advanced(Top, flag, TRUE) = Advanced(Top, FALSE, ~FALSE) BY <1>4
<1>7. FrameOK(ranfile, Len(stack), Advanced(Top, flag, TRUE)) BY <1>2, <1>5, <1>6 DEF FrameOK
<1>8. StackOK(ranfile', stack', back') BY <1>1, <1>2, <1>7, BecomesKept
<1> QED BY <1>1, <1>8 DEF Inv

LEMMA GoesOnOK ==
    ASSUME NEW R, NEW f, RanOK(R, f), f.path = <<>>, f.at \in DOMAIN f.order
    PROVE  RanOK(R, [f EXCEPT !.at = @ + 1])
<1> DEFINE g == [f EXCEPT !.at = @ + 1]
<1>1. /\ DOMAIN g = DOMAIN f /\ g.is = f.is /\ g.path = <<>> /\ g.seen = f.seen
      /\ g.order = f.order /\ g.at = f.at + 1 /\ g.met = FALSE
  BY DEF RanOK
<1> HIDE DEF g
<1>2. OnPath(g) = OnPath(f) /\ Done(g) = Done(f) BY <1>1 DEF OnPath, Done
<1>3. f.order \in Seq(DOMAIN R) BY DEF RanOK
<1>4. g.at \in 1..(Len(g.order) + 1) BY <1>1, <1>3
<1>5. RanOK(R, g) BY <1>1, <1>2, <1>4, PathIs
<1> QED BY <1>5 DEF g

LEMMA TurnIs ==
    ASSUME Inv, NEW cmd, Turn(cmd)
    PROVE  /\ stack # <<>> /\ Top.is = "ran" /\ RanOK(ranfile, Top) /\ back = "none"
           /\ Top.path = <<>> /\ Top.at \in DOMAIN Top.order
           /\ Top.order[Top.at] \in DOMAIN ranfile /\ RanOK(ranfile, [Top EXCEPT !.at = @ + 1])
           /\ Waits(Len(stack), Top)
<1>1. stack # <<>> /\ Top.is = "ran" /\ back = "none" /\ Top.path = <<>> /\ Top.at \in DOMAIN Top.order
  BY DEF Turn, OnRan
<1>2. RanOK(ranfile, Top) /\ Len(stack) % 2 # 1 BY <1>1, RanTop
<1>3. Top.order[Top.at] \in DOMAIN ranfile BY <1>1, <1>2 DEF RanOK
<1> QED BY <1>1, <1>2, <1>3, GoesOnOK DEF Waits

LEMMA RunNoneKept == ASSUME Inv, RunNone PROVE Inv'
BY TurnIs, RanStays DEF RunNone, GoesOn
LEMMA RunDirectKept == ASSUME Inv, NEW ok \in BOOLEAN, RunDirect(ok) PROVE Inv'
<1>1. CASE ok BY <1>1, TurnIs, RanStays DEF RunDirect, GoesOn
<1>2. CASE ~ok BY <1>2, TurnIs, RanReturns DEF RunDirect
<1> QED BY <1>1, <1>2
LEMMA RunLineKept == ASSUME Inv, RunLine PROVE Inv'
<1> DEFINE line == ranfile[Top.order[Top.at]].line
<1>1. Turn("line") /\ Len(stack) < MaxDepth /\ ranfile' = ranfile /\ flag' = flag BY DEF RunLine
<1>2. /\ stack # <<>> /\ Top.is = "ran" /\ back = "none" /\ Top.order[Top.at] \in DOMAIN ranfile
      /\ Waits(Len(stack), Top)
  BY <1>1, TurnIs
<1>3. CASE StartsWithRan(line)
  <2>1. Returns("ran") BY <1>3 DEF RunLine
  <2> QED BY <1>1, <1>2, <2>1, RanReturns
<1>4. CASE ~StartsWithRan(line)
  <2>1. Calls(LineFrame(line)) /\ back' = "none" BY <1>2, <1>4 DEF RunLine
  <2>2. line \in Seq(Segment) BY <1>2 DEF Inv, IsRanfile, IsLine
  <2>3. LineOK(LineFrame(line)) BY <2>2 DEF LineFrame, LineOK
  <2>4. Len(stack) \in Nat /\ Len(stack) % 2 # 1 /\ ~flag BY <1>2, RanTop
  <2>5. (Len(stack) + 1) % 2 = 1 BY <2>4
  <2>6. FrameOK(ranfile, Len(stack) + 1, LineFrame(line)) BY <2>3, <2>5 DEF FrameOK
  <2>7. StackOK(ranfile', stack', back') BY <1>1, <1>2, <2>1, <2>6, CallsKept
  <2> QED BY <1>1, <2>4, <2>7 DEF Inv
<1> QED BY <1>3, <1>4

LEMMA LineBackKept == ASSUME Inv, LineBack PROVE Inv'
<1>1. /\ back \in {"succeeded", "failed", "error"} /\ ranfile' = ranfile /\ flag' = flag
      /\ IF back = "error" THEN Returns("ran") ELSE GoesOn /\ back' = "none"
  BY DEF LineBack
<1>2. Len(stack) % 2 # 1 /\ stack # <<>>
  <2>1. back \in Backs(Len(stack)) BY DEF Inv, StackOK
  <2>2. Len(stack) # 0 /\ Len(stack) % 2 # 1 BY <1>1, <2>1 DEF Backs
  <2> QED BY <2>2, EmptySeq
<1>3. Top.is = "ran" /\ Waits(Len(stack), Top) BY <1>1, <1>2, TopIs
<1>4. RanOK(ranfile, [Top EXCEPT !.at = @ + 1]) BY <1>2, <1>3, RanTop, GoesOnOK DEF Waits
<1>5. CASE back = "error" BY <1>1, <1>2, <1>3, <1>5, RanReturns
<1>6. CASE back # "error" BY <1>1, <1>2, <1>3, <1>4, <1>6, RanStays DEF GoesOn
<1> QED BY <1>5, <1>6

LEMMA EndRanKept == ASSUME Inv, EndRan PROVE Inv'
BY RanReturns DEF EndRan, OnRan

LEMMA OverflowKept == ASSUME Inv, Overflow PROVE Inv'
<1>1. stack' = <<>> /\ flag' = FALSE /\ back' = "none" /\ ranfile' = ranfile BY DEF Overflow
<1>2. Len(stack') = 0 /\ stack' \in Seq(Elems(stack')) /\ DOMAIN stack' = {} BY <1>1
<1>3. MaxDepth \in Nat BY DepthAssumption
<1>4. StackOK(ranfile', stack', back') BY <1>1, <1>2, <1>3 DEF StackOK, Backs
<1> QED BY <1>1, <1>4 DEF Inv

-------------------------------------------------------------------------------
(* The theorems                                                              *)

LEMMA Starts == ASSUME Init PROVE Inv
<1>1. stack = <<>> /\ flag = FALSE /\ back = "none" /\ ranfile \in Ranfiles BY DEF Init
<1>2. Len(stack) = 0 /\ stack \in Seq(Elems(stack)) /\ DOMAIN stack = {} BY <1>1
<1>3. StackOK(ranfile, stack, back) BY <1>1, <1>2, DepthAssumption DEF StackOK, Backs
<1> QED BY <1>1, <1>2, <1>3, RanfilesAssumption DEF Inv

LEMMA Keeps == ASSUME Inv, [Next]_vars PROVE Inv'
<1>1. CASE UNCHANGED vars BY <1>1 DEF vars, Inv
<1>2. CASE \E line \in Lines : Typed(line) BY <1>2, TypedKept
<1>3. CASE ForeignFails BY <1>3, ForeignFailsKept
<1>4. CASE Run
  <2>1. CASE NextSegment BY <2>1, NextSegmentKept
  <2>2. CASE EndLine BY <2>2, EndLineKept
  <2>3. CASE \E outcome \in Outcomes : RunCommand(outcome) BY <2>3, RunCommandKept
  <2>4. CASE RunBare BY <2>4, RunBareKept
  <2>5. CASE RunRan BY <2>5, RunRanKept
  <2>6. CASE RanBack BY <2>6, RanBackKept
  <2>7. CASE Look BY <2>7, LookKept
  <2>8. CASE Close BY <2>8, CloseKept
  <2>9. CASE RunNone BY <2>9, RunNoneKept
  <2>10. CASE \E ok \in BOOLEAN : RunDirect(ok) BY <2>10, RunDirectKept
  <2>11. CASE RunLine BY <2>11, RunLineKept
  <2>12. CASE LineBack BY <2>12, LineBackKept
  <2>13. CASE EndRan BY <2>13, EndRanKept
  <2>14. CASE Overflow BY <2>14, OverflowKept
  <2> QED BY <1>4, <2>1, <2>2, <2>3, <2>4, <2>5, <2>6, <2>7, <2>8, <2>9, <2>10, <2>11, <2>12, <2>13,
             <2>14 DEF Run
<1> QED BY <1>1, <1>2, <1>3, <1>4 DEF Next

LEMMA Stays == Spec => []Inv
<1>1. Init => Inv BY Starts
<1>2. Inv /\ [Next]_vars => Inv' BY Keeps
<1> QED BY <1>1, <1>2, PTL DEF Spec

LEMMA FramesAre ==
    ASSUME Inv, NEW f \in Elems(stack)
    PROVE  (f.is = "line" => LineOK(f)) /\ (f.is = "ran" => RanOK(ranfile, f))
<1>1. PICK i \in DOMAIN stack : f = stack[i] BY DEF Elems
<1>2. FrameOK(ranfile, i, f) BY <1>1 DEF Inv, StackOK
<1>3. CASE i % 2 = 1
  <2>1. LineOK(f) BY <1>2, <1>3 DEF FrameOK
  <2>2. f.is = "line" BY <2>1 DEF LineOK
  <2> QED BY <2>1, <2>2
<1>4. CASE i % 2 # 1
  <2>1. RanOK(ranfile, f) BY <1>2, <1>4 DEF FrameOK
  <2>2. f.is = "ran" BY <2>1 DEF RanOK
  <2> QED BY <2>1, <2>2
<1> QED BY <1>3, <1>4

(* For every ranfile and depth: the order that ran works through has each target  *)
(* once and after everything it needs, and the checks for cycles and missing     *)
(* targets in resolve_order never fail on what validate let through.             *)
THEOREM OrderFits == Spec => []Ordered
<1>1. ASSUME Inv PROVE Ordered
  <2>1. ASSUME NEW f \in Frames("ran") PROVE Fits(ranfile, f.order) /\ f.met = FALSE
    BY <1>1, <2>1, FramesAre DEF Frames, RanOK
  <2>2. \A t : Deps(t) = Needs(ranfile, t) BY DEF Deps, Needs
  <2>3. DepsFirst BY <2>1, <2>2 DEF DepsFirst, Fits
  <2>4. AlwaysAnOrder BY <2>1 DEF AlwaysAnOrder
  <2> QED BY <2>3, <2>4 DEF Ordered
<1> QED BY <1>1, Stays, PTL

LEMMA LineTyped == ASSUME NEW f, LineOK(f) PROVE IsLineFrame(f)
BY DEF LineOK, IsLineFrame, IsLine
LEMMA RanTyped == ASSUME Inv, NEW f, RanOK(ranfile, f) PROVE IsRanFrame(f)
<1>1. DOMAIN ranfile \subseteq Targets BY DEF Inv, IsRanfile
<1>2. \A i \in DOMAIN f.path : f.path[i].target \in DOMAIN ranfile
  <2>1. f.path \in Seq(Entry(ranfile)) BY DEF RanOK
  <2>2. \A i \in DOMAIN f.path : f.path[i] \in Entry(ranfile) BY <2>1
  <2> QED BY <2>2 DEF Entry
<1>3. OnPath(f) \subseteq Targets BY <1>1, <1>2 DEF OnPath
<1>4. Done(f) \subseteq Targets BY <1>1 DEF RanOK, Done, Elems
<1> QED BY <1>3, <1>4 DEF RanOK, IsRanFrame

(* The stack of frames is well formed for every depth: lines and ran alternate,   *)
(* what a frame returns is for the one below, and a stage reads the output of the *)
(* nearest stage on its left that did not send it into a file.                  *)
THEOREM StackWellFormed == Spec => []Consistent
<1>1. ASSUME Inv PROVE Consistent
  <2> USE <1>1
  <2>1. ASSUME NEW f \in Frames("line"), f.stages # <<>>
        PROVE  f.carry \notin f.kept /\ (f.carry + 1)..(f.no - 1) \subseteq f.kept
    BY <2>1, FramesAre DEF Frames, LineOK
  <2>2. ReadsFromLeft BY <2>1 DEF ReadsFromLeft
  <2>3. ASSUME NEW i \in DOMAIN stack
        PROVE  IF i % 2 = 1 THEN IsLineFrame(stack[i]) ELSE IsRanFrame(stack[i])
    <3>1. FrameOK(ranfile, i, stack[i]) BY DEF Inv, StackOK
    <3> QED BY <3>1, LineTyped, RanTyped DEF FrameOK
  <2>4. back \in CASE stack = <<>> -> {"none"}
                   [] Len(stack) % 2 = 1 -> {"none", "ran"}
                   [] OTHER -> {"none", "succeeded", "failed", "error"}
    <3>1. back \in Backs(Len(stack)) /\ Len(stack) \in Nat /\ (stack = <<>> <=> Len(stack) = 0)
      BY EmptySeq DEF Inv, StackOK
    <3>2. CASE Len(stack) = 0 BY <3>1, <3>2 DEF Backs
    <3>3. CASE Len(stack) # 0 BY <3>1, <3>3 DEF Backs
    <3> QED BY <3>2, <3>3
  <2>5. TypeOK BY <2>3, <2>4 DEF TypeOK, Inv, StackOK
  <2> QED BY <2>2, <2>5 DEF Consistent
<1> QED BY <1>1, Stays, PTL

(* Only NextSegment takes a segment off a line.                                *)
SameSegs == \A i \in DOMAIN stack \cap DOMAIN stack' :
                stack[i].is = "line" /\ stack'[i].is = "line" => stack'[i].segs = stack[i].segs

LEMMA SameBelow ==
    ASSUME Inv, stack # <<>>,
           \/ \E f : Becomes(f) /\ (f.is = "line" => f.segs = Top.segs)
           \/ \E f : Calls(f)
           \/ \E how : Returns(how)
    PROVE  SameSegs
<1>1. stack \in Seq(Elems(stack)) /\ Len(stack) \in Nat \ {0} /\ DOMAIN stack = 1..Len(stack)
  BY EmptySeq DEF Inv, StackOK
<1>2. /\ Below \in Seq(Elems(Below)) /\ Len(Below) = Len(stack) - 1
      /\ \A i \in 1..(Len(stack) - 1) : Below[i] = stack[i]
  BY <1>1, Shorter DEF Below
<1>3. ASSUME NEW f, Becomes(f), f.is = "line" => f.segs = Top.segs PROVE SameSegs
  <2>1. /\ Len(stack') = Len(stack) /\ stack'[Len(stack)] = f
        /\ \A i \in 1..(Len(stack) - 1) : stack'[i] = stack[i]
    <3> DEFINE q == Append(Below, f)
    <3>1. Len(q) = Len(Below) + 1 /\ q[Len(q)] = f /\ \A i \in 1..Len(Below) : q[i] = Below[i]
      BY <1>2, AnySeq
    <3>2. stack' = q BY <1>3 DEF Becomes
    <3> HIDE DEF q
    <3> QED BY <1>1, <1>2, <3>1, <3>2
  <2>2. ASSUME NEW i \in DOMAIN stack, stack[i].is = "line", stack'[i].is = "line"
        PROVE  stack'[i].segs = stack[i].segs
    <3>1. CASE i = Len(stack) BY <1>3, <2>1, <2>2, <3>1 DEF Top
    <3>2. CASE i # Len(stack)
      <4>1. i \in 1..(Len(stack) - 1) BY <1>1, <3>2
      <4> QED BY <2>1, <4>1
    <3> QED BY <3>1, <3>2
  <2> QED BY <2>2 DEF SameSegs
<1>4. ASSUME NEW f, Calls(f) PROVE SameSegs
  <2>1. \A i \in 1..Len(stack) : stack'[i] = stack[i] BY <1>1, <1>4, AnySeq DEF Calls
  <2> QED BY <1>1, <2>1 DEF SameSegs
<1>5. ASSUME NEW how, Returns(how) PROVE SameSegs
  <2>1. stack' = Below BY <1>5 DEF Returns
  <2>2. DOMAIN stack' = 1..(Len(stack) - 1) BY <1>1, <1>2, <2>1
  <2> QED BY <1>2, <2>1, <2>2 DEF SameSegs
<1> QED BY <1>3, <1>4, <1>5

LEMMA OthersSame ==
    ASSUME Inv, [Next]_vars, ~NextSegment PROVE SameSegs
<1>1. CASE stack' = stack BY <1>1 DEF SameSegs
<1>2. CASE stack = <<>> BY <1>2 DEF SameSegs
<1>3. CASE stack' = <<>> BY <1>3 DEF SameSegs
<1>4. ASSUME NEW failed, NEW own, LineOK(Top)
      PROVE  Advanced(Top, failed, own).segs = Top.segs
  BY <1>4 DEF Advanced, LineOK
<1>5. CASE EndLine BY <1>2, <1>5, SameBelow DEF EndLine
<1>6. ASSUME NEW outcome \in Outcomes, RunCommand(outcome) PROVE SameSegs
  <2>1. LineOK(Top) /\ stack # <<>> BY <1>6, LineTop DEF RunCommand
  <2>2. \/ \E how : Returns(how)
        \/ Becomes(Advanced(Top, Reset(flag) \/ outcome = "fails", outcome = "ok"))
    BY <1>6 DEF RunCommand, Outcomes
  <2> QED BY <1>4, <2>1, <2>2, SameBelow
<1>7. CASE RunBare
  <2>1. LineOK(Top) /\ stack # <<>> BY <1>7, LineTop DEF RunBare
  <2> DEFINE s == Head(Top.stages)
             g == [Top EXCEPT !.stages = Tail(@), !.no = @ + 1,
                              !.carry = IF s.in THEN Top.no ELSE @,
                              !.kept = IF s.in THEN @ ELSE @ \cup {Top.no}]
  <2>2. g.segs = Top.segs BY <2>1 DEF LineOK
  <2>3. Becomes(g) \/ Returns("error") BY <1>7 DEF RunBare
  <2> HIDE DEF g
  <2> QED BY <2>1, <2>2, <2>3, SameBelow
<1>8. CASE RunRan
  <2>1. stack # <<>> /\ (stack' = stack \/ \E f : Calls(f)) BY <1>8 DEF RunRan, OnLine
  <2> QED BY <1>1, <2>1, SameBelow
<1>9. CASE RanBack
  <2>1. Becomes(Advanced(Top, flag, TRUE)) /\ back = "ran" BY <1>9 DEF RanBack
  <2>2. Len(stack) % 2 = 1 /\ stack # <<>>
    <3>1. "ran" \in Backs(Len(stack)) BY <2>1 DEF Inv, StackOK
    <3>2. Len(stack) # 0 /\ Len(stack) % 2 = 1 BY <3>1 DEF Backs
    <3> QED BY <3>2, EmptySeq
  <2>3. LineOK(Top) BY <2>1, <2>2, TopIs
  <2> QED BY <1>4, <2>1, <2>2, <2>3, SameBelow
<1>10. ASSUME NEW f, Becomes(f), f.is = Top.is, stack # <<>>, Top.is = "ran" PROVE SameSegs
  BY <1>10, SameBelow
<1>11. CASE Look
  <2>1. stack # <<>> /\ Top.is = "ran" /\ RanOK(ranfile, Top) BY <1>11, RanTop DEF Look, OnRan
  <2>2. "is" \in DOMAIN Top BY <2>1 DEF RanOK
  <2>3. PICK d : IF d \in OnPath(Top) \/ d \notin DOMAIN ranfile
                 THEN Becomes([Top EXCEPT !.met = TRUE, !.path = <<>>, !.order = <<>>])
                 ELSE IF d \in Top.seen THEN Becomes([Top EXCEPT !.path = Stepped(Top)])
                 ELSE Becomes([Top EXCEPT !.path = Append(Stepped(Top), [target |-> d, next |-> 1]),
                                          !.seen = @ \cup {d}])
    BY <1>11 DEF Look
  <2>4. CASE Becomes([Top EXCEPT !.met = TRUE, !.path = <<>>, !.order = <<>>])
    <3>1. [Top EXCEPT !.met = TRUE, !.path = <<>>, !.order = <<>>].is = Top.is BY <2>2
    <3> QED BY <1>10, <2>1, <2>4, <3>1
  <2>5. CASE Becomes([Top EXCEPT !.path = Stepped(Top)])
    <3>1. [Top EXCEPT !.path = Stepped(Top)].is = Top.is BY <2>2
    <3> QED BY <1>10, <2>1, <2>5, <3>1
  <2> DEFINE g == [Top EXCEPT !.path = Append(Stepped(Top), [target |-> d, next |-> 1]), !.seen = @ \cup {d}]
  <2>6. CASE Becomes(g)
    <3>1. g.is = Top.is BY <2>2
    <3> HIDE DEF g
    <3> QED BY <1>10, <2>1, <2>6, <3>1
  <2> QED BY <2>3, <2>4, <2>5, <2>6
<1>12. CASE Close
  <2>1. stack # <<>> /\ Top.is = "ran" /\ RanOK(ranfile, Top) BY <1>12, RanTop DEF Close, OnRan
  <2>2. "is" \in DOMAIN Top BY <2>1 DEF RanOK
  <2> DEFINE g == [Top EXCEPT !.path = Popped(@), !.order = Append(@, Current(Top).target)]
  <2>3. Becomes(g) BY <1>12 DEF Close
  <2>4. g.is = Top.is BY <2>2
  <2> HIDE DEF g
  <2> QED BY <1>10, <2>1, <2>3, <2>4
<1>13. ASSUME GoesOn, stack # <<>>, Top.is = "ran" PROVE SameSegs
  <2>1. RanOK(ranfile, Top) BY <1>13, RanTop
  <2>2. [Top EXCEPT !.at = @ + 1].is = Top.is BY <2>1 DEF RanOK
  <2> QED BY <1>10, <1>13, <2>2 DEF GoesOn
<1>14. CASE RunNone BY <1>13, <1>14, TurnIs DEF RunNone
<1>15. ASSUME NEW ok \in BOOLEAN, RunDirect(ok) PROVE SameSegs
  <2>1. GoesOn \/ \E how : Returns(how) BY <1>15 DEF RunDirect
  <2>2. stack # <<>> /\ Top.is = "ran" BY <1>15, TurnIs DEF RunDirect
  <2> QED BY <1>13, <2>1, <2>2, SameBelow
<1>16. CASE RunLine
  <2>1. (\E f : Calls(f)) \/ \E how : Returns(how) BY <1>16 DEF RunLine
  <2>2. stack # <<>> BY <1>16, TurnIs DEF RunLine
  <2> QED BY <2>1, <2>2, SameBelow
<1>17. CASE LineBack
  <2>1. GoesOn \/ \E how : Returns(how) BY <1>17 DEF LineBack
  <2>2. back \in {"succeeded", "failed", "error"} BY <1>17 DEF LineBack
  <2>3. Len(stack) % 2 # 1 /\ stack # <<>>
    <3>1. back \in Backs(Len(stack)) BY DEF Inv, StackOK
    <3>2. Len(stack) # 0 /\ Len(stack) % 2 # 1 BY <2>2, <3>1 DEF Backs
    <3> QED BY <3>2, EmptySeq
  <2>4. Top.is = "ran" BY <2>3, TopIs
  <2> QED BY <1>13, <2>1, <2>3, <2>4, SameBelow
<1>18. CASE EndRan BY <1>2, <1>18, SameBelow DEF EndRan
<1>19. CASE Overflow BY <1>3, <1>19 DEF Overflow
<1>20. CASE Run
  BY <1>5, <1>6, <1>7, <1>8, <1>9, <1>11, <1>12, <1>14, <1>15, <1>16, <1>17, <1>18, <1>19, <1>20 DEF Run
<1>21. CASE \E line \in Lines : Typed(line) BY <1>2, <1>21 DEF Typed
<1>22. CASE ForeignFails BY <1>1, <1>22 DEF ForeignFails
<1>23. CASE UNCHANGED vars BY <1>1, <1>23 DEF vars
<1> QED BY <1>20, <1>21, <1>22, <1>23 DEF Next

(* For all lines: a segment after && or || runs or is skipped by how the last     *)
(* command of the segment before ended, never by a failure another stage, a       *)
(* command inside ran or an earlier line left in the flag.                      *)
THEOREM GoesByTheLast == Spec => ChosenByLast
<1> DEFINE Chosen == \A i \in DOMAIN stack \cap DOMAIN stack' :
             LET f == stack[i]  g == stack'[i]  op == Head(f.segs).op IN
             f.is = "line" /\ g.is = "line" /\ g.segs # f.segs /\ g.segs = Tail(f.segs)
             /\ ~IsBlank(Head(f.segs).stages) =>
                (g.stages # <<>> <=> (op = "and" => f.last) /\ (op = "or" => ~f.last))
<1>1. ASSUME Inv, [Next]_vars PROVE Chosen
  <2> USE <1>1
  <2>1. CASE ~NextSegment
    <3>1. SameSegs BY <2>1, OthersSame
    <3> QED BY <3>1 DEF SameSegs
  <2>2. CASE NextSegment
    <3> DEFINE s == Head(Top.segs)
               g == IF Skips(s.op, Top.ok) \/ IsBlank(s.stages) THEN [Top EXCEPT !.segs = Tail(@)]
                    ELSE [Top EXCEPT !.segs = Tail(@), !.stages = s.stages, !.no = 1, !.carry = 0,
                              !.ok = TRUE, !.kept = {}, !.last = TRUE]
    <3>1. LineOK(Top) /\ stack # <<>> /\ Top.segs # <<>> /\ Top.stages = <<>> /\ Becomes(g)
          /\ ranfile' = ranfile /\ back' = "none" /\ Len(stack) % 2 = 1 /\ Len(stack) \in Nat \ {0}
      BY <2>2, LineTop DEF NextSegment, OnLine
    <3>2. LineOK(g) /\ s.stages # <<>> BY <3>1, NextSegmentOK
    <3>3. ~IsBlank(s.stages) =>
              (g.stages # <<>> <=> (s.op = "and" => Top.last) /\ (s.op = "or" => ~Top.last))
      <4>1. CASE Skips(s.op, Top.ok)
        <5>1. g.stages = <<>> BY <3>1, <4>1 DEF LineOK
        <5> QED BY <3>1, <4>1, <5>1 DEF LineOK, Skips
      <4>2. CASE ~Skips(s.op, Top.ok) /\ ~IsBlank(s.stages)
        <5>1. g.stages # <<>> BY <3>1, <3>2, <4>2 DEF LineOK
        <5> QED BY <3>1, <4>2, <5>1 DEF LineOK, Skips
      <4> QED BY <4>1, <4>2
    <3> HIDE DEF g
    <3>4. FrameOK(ranfile, Len(stack), g) BY <3>1, <3>2 DEF FrameOK
    <3>5. stack'[Len(stack)] = g /\ \A i \in 1..(Len(stack) - 1) : stack'[i] = stack[i]
      BY <3>1, <3>4, BecomesKept
    <3>6. DOMAIN stack = 1..Len(stack) BY DEF Inv, StackOK
    <3>7. ASSUME NEW i \in DOMAIN stack \cap DOMAIN stack', stack'[i].segs # stack[i].segs
          PROVE  i = Len(stack)
      <4>1. i \notin 1..(Len(stack) - 1) BY <3>5, <3>7
      <4> QED BY <3>1, <3>6, <4>1
    <3> QED BY <3>3, <3>5, <3>7 DEF Top
  <2> QED BY <2>1, <2>2
<1> QED BY <1>1, Stays, PTL DEF ChosenByLast, Spec
===============================================================================
