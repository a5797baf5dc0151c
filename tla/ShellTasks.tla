----------------------------- MODULE ShellTasks -----------------------------
(***************************************************************************)
(* Command lines and ranfiles: `a && b || c | d > f` as the shell runs it     *)
(* (src/src/shell/pipeline.rs), and `ran <target>`, which orders the targets *)
(* of a ranfile by their dependencies and runs their commands                 *)
(* (src/src/ranfile/), each of them a command line again.  One thread, a stack *)
(* of frames, and one global failure flag.                                  *)
(*                                                                         *)
(* A command is a `ran` of a target or one that runs outside, whose outcome is *)
(* any of Outcomes.  Output is known by the number of the stage it is from.    *)
(***************************************************************************)
EXTENDS Integers, Sequences, FiniteSets

CONSTANTS Targets,    \* names of targets
          Ranfiles,   \* what the ranfile may be: name -> [deps, cmd, line]
          Lines,      \* what the user may type: sequences of [op, stages]
          MaxDepth    \* bound: frames on the stack

Outcomes == {"ok", "fails", "exit", "error"}
Ops == {"first", "and", "or"}
(* `in` and `out` are redirections of its own; a stage may be only that.       *)
Stage == [cmd : Targets \cup {"none", "outside"}, in : BOOLEAN, out : BOOLEAN]
Segment == [op : Ops, stages : Seq(Stage) \ {<<>>}]
IsLine(l) == l \in Seq(Segment)
IsRanfile(r) == /\ DOMAIN r \subseteq Targets
                /\ \A t \in DOMAIN r : /\ r[t].deps \in Seq(Targets) /\ IsLine(r[t].line)
                                       /\ r[t].cmd \in {"none", "direct", "line"}

ASSUME LinesAssumption == \A l \in Lines : IsLine(l)
ASSUME RanfilesAssumption == \A r \in Ranfiles : IsRanfile(r)
ASSUME NamesAssumption == {"none", "outside"} \cap Targets = {}
ASSUME DepthAssumption == MaxDepth \in Nat \ {0}

VARIABLES ranfile,
          stack,    \* frames, the running one last
          flag,     \* FAILED
          back      \* what the frame that has just ended returns
vars == <<ranfile, stack, flag, back>>

(* segs are still to come, stages those of the running segment still to run;  *)
(* carry is the output handed on and ok what && and || see.  History: kept, the *)
(* stages whose output went into a file; last, the last stage's own outcome.    *)
LineFrame(line) == [is |-> "line", segs |-> line, stages |-> <<>>, no |-> 0, carry |-> 0,
                    ok |-> TRUE, kept |-> {}, last |-> TRUE]
(* path is the recursion of the depth-first search; met: it gave up.           *)
RanFrame(t) == [is |-> "ran", path |-> <<[target |-> t, next |-> 1]>>, seen |-> {t}, order |-> <<>>,
                at |-> 1, met |-> FALSE]

Init == ranfile \in Ranfiles /\ stack = <<>> /\ flag = FALSE /\ back = "none"

Top == stack[Len(stack)]
Below == SubSeq(stack, 1, Len(stack) - 1)
OnLine == stack # <<>> /\ Top.is = "line" /\ back = "none"
OnRan == stack # <<>> /\ Top.is = "ran" /\ back = "none"
Becomes(frame) == stack' = Append(Below, frame)
Calls(frame) == stack' = Append(stack, frame)
Returns(how) == stack' = Below /\ back' = IF Below = <<>> THEN "none" ELSE how

-------------------------------------------------------------------------------
(* The command line                                                         *)

Typed(line) ==
    /\ stack = <<>> /\ stack' = <<LineFrame(line)>>
    /\ UNCHANGED <<ranfile, flag, back>>

(* In the ps, bash and zsh modes another shell runs the line.                *)
ForeignFails ==
    /\ stack = <<>> /\ flag' = TRUE
    /\ UNCHANGED <<ranfile, stack, back>>

Skips(op, ok) == (op = "and" /\ ~ok) \/ (op = "or" /\ ok)
IsBlank(stages) == \A i \in DOMAIN stages : stages[i].cmd = "none" /\ ~stages[i].out
NextSegment ==
    LET f == Top  s == Head(f.segs) IN
    /\ OnLine /\ f.stages = <<>> /\ f.segs # <<>>
    /\ Becomes(IF Skips(s.op, f.ok) \/ IsBlank(s.stages) THEN [f EXCEPT !.segs = Tail(@)]
               ELSE [f EXCEPT !.segs = Tail(@), !.stages = s.stages, !.no = 1, !.carry = 0,
                              !.ok = TRUE, !.kept = {}, !.last = TRUE])
    /\ UNCHANGED <<ranfile, flag, back>>
EndLine ==
    /\ OnLine /\ Top.stages = <<>> /\ Top.segs = <<>>
    /\ Returns(IF Top.ok THEN "succeeded" ELSE "failed")
    /\ UNCHANGED <<ranfile, flag>>

ResetNever(f) == f                             \* mutant: an old failure is still there
Reset(f) == FALSE
HandsOnAlways(s) == TRUE                       \* mutant: also what went into a file
HandsOn(s) == ~s.out
(* The stage is over, with the flag as it is: the next one or the next segment. *)
Advanced(f, failed, own) ==
    [f EXCEPT !.stages = Tail(@), !.no = @ + 1, !.ok = ~failed, !.last = own,
              !.carry = IF HandsOn(Head(f.stages)) THEN f.no ELSE @,
              !.kept = IF Head(f.stages).out THEN @ \cup {f.no} ELSE @]

(* A command that runs outside.  An error, also of a file that cannot be opened, *)
(* ends the whole line, whatever comes after it.                             *)
RunCommand(outcome) ==
    /\ OnLine /\ Top.stages # <<>> /\ Head(Top.stages).cmd = "outside"
    /\ CASE outcome = "error" -> /\ Returns("error")
                                 /\ flag' \in {FALSE} \cup (IF Head(Top.stages).in THEN {flag} ELSE {})
         [] outcome = "exit" -> Returns("succeeded") /\ flag' = FALSE
         [] OTHER -> /\ Becomes(Advanced(Top, Reset(flag) \/ outcome = "fails", outcome = "ok"))
                     /\ flag' = FALSE /\ UNCHANGED back
    /\ UNCHANGED ranfile
(* Only a redirection: the input goes into the file and to the next stage.      *)
RunBare ==
    LET f == Top  s == Head(f.stages) IN
    /\ OnLine /\ f.stages # <<>> /\ s.cmd = "none"
    /\ \/ /\ Becomes([f EXCEPT !.stages = Tail(@), !.no = @ + 1,
                                !.carry = IF s.in THEN f.no ELSE @,
                                !.kept = IF s.in THEN @ ELSE @ \cup {f.no}])
          /\ UNCHANGED back
       \/ (s.in \/ s.out) /\ Returns("error")
    /\ UNCHANGED <<ranfile, flag>>

-------------------------------------------------------------------------------
(* ran                                                                      *)

Deps(t) == IF t \in DOMAIN ranfile THEN ranfile[t].deps ELSE <<>>
Elems(s) == {s[i] : i \in DOMAIN s}
(* detect_cycle: w is what it is in the middle of, and the target it is at.    *)
Walks == (SUBSET Targets) \X Targets
Cycle[w \in Walks] == w[2] \in w[1] \/ \E d \in Elems(Deps(w[2])) : Cycle[<<w[1] \cup {w[2]}, d>>]
OnCycle(t) == Cycle[<<{}, t>>]
Valid == /\ DOMAIN ranfile # {}
         /\ \A t \in DOMAIN ranfile : Elems(Deps(t)) \subseteq DOMAIN ranfile
         /\ \A t \in DOMAIN ranfile : ~OnCycle(t)

RunRan ==
    LET t == Head(Top.stages).cmd IN
    /\ OnLine /\ Top.stages # <<>> /\ t \in Targets /\ Len(stack) < MaxDepth
    /\ flag' = Reset(flag)
    /\ IF Valid /\ t \in DOMAIN ranfile THEN Calls(RanFrame(t)) /\ UNCHANGED back
       ELSE UNCHANGED stack /\ back' = "ran"
    /\ UNCHANGED ranfile
(* However it went, ran answers Ok.                                         *)
RanBack ==
    /\ back = "ran" /\ back' = "none"
    /\ Becomes(Advanced(Top, flag, TRUE)) /\ flag' = FALSE
    /\ UNCHANGED ranfile

(* resolve_order: the next dependency of the target on top of the path.      *)
OnPath(f) == {f.path[i].target : i \in DOMAIN f.path}
Current(f) == f.path[Len(f.path)]
Popped(s) == SubSeq(s, 1, Len(s) - 1)
Stepped(f) == [f.path EXCEPT ![Len(f.path)].next = @ + 1]
Look ==
    LET f == Top  e == Current(f)  d == Deps(e.target)[e.next] IN
    /\ OnRan /\ f.path # <<>> /\ e.next <= Len(Deps(e.target))
    /\ IF d \in OnPath(f) \/ d \notin DOMAIN ranfile THEN Becomes([f EXCEPT !.met = TRUE, !.path = <<>>, !.order = <<>>])
       ELSE IF d \in f.seen THEN Becomes([f EXCEPT !.path = Stepped(f)])
       ELSE Becomes([f EXCEPT !.path = Append(Stepped(f), [target |-> d, next |-> 1]),
                              !.seen = @ \cup {d}])
    /\ UNCHANGED <<ranfile, flag, back>>
CloseEarly ==                                 \* mutant: a target is put before what it needs
    LET f == Top  e == Current(f) IN
    /\ OnRan /\ f.path # <<>>
    /\ Becomes([f EXCEPT !.path = Popped(@), !.order = Append(@, e.target)])
    /\ UNCHANGED <<ranfile, flag, back>>
Close ==
    LET f == Top  e == Current(f) IN
    /\ OnRan /\ f.path # <<>> /\ e.next > Len(Deps(e.target))
    /\ Becomes([f EXCEPT !.path = Popped(@), !.order = Append(@, e.target)])
    /\ UNCHANGED <<ranfile, flag, back>>

(* run_target: the command of the next target in the order.                  *)
Turn(cmd) == /\ OnRan /\ Top.path = <<>> /\ Top.at \in DOMAIN Top.order
             /\ ranfile[Top.order[Top.at]].cmd = cmd
GoesOn == Becomes([Top EXCEPT !.at = @ + 1])
RunNone == Turn("none") /\ GoesOn /\ UNCHANGED <<ranfile, flag, back>>
RunDirect(ok) ==
    /\ Turn("direct")
    /\ IF ok THEN GoesOn /\ UNCHANGED back ELSE Returns("ran")
    /\ UNCHANGED <<ranfile, flag>>
(* A line that begins with ran is refused, one that has it later is not.     *)
StartsWithRan(line) == line[1].stages[1].cmd \in Targets
RunLine ==
    LET line == ranfile[Top.order[Top.at]].line IN
    /\ Turn("line") /\ Len(stack) < MaxDepth
    /\ IF StartsWithRan(line) THEN Returns("ran")
       ELSE Calls(LineFrame(line)) /\ UNCHANGED back
    /\ UNCHANGED <<ranfile, flag>>
LineBackAgain ==                              \* mutant: the command is tried until it does not fail
    /\ back \in {"succeeded", "failed", "error"} /\ back' = "none"
    /\ IF back = "error" THEN UNCHANGED stack ELSE GoesOn
    /\ UNCHANGED <<ranfile, flag>>
(* Only an error stops it: a command that failed does not.                   *)
LineBack ==
    /\ back \in {"succeeded", "failed", "error"}
    /\ IF back = "error" THEN Returns("ran") ELSE GoesOn /\ back' = "none"
    /\ UNCHANGED <<ranfile, flag>>
EndRan ==
    /\ OnRan /\ Top.path = <<>> /\ Top.at \notin DOMAIN Top.order
    /\ Returns("ran")
    /\ UNCHANGED <<ranfile, flag>>

(* Lines that call ran again and again: the thread runs out of stack.          *)
Overflow ==
    /\ Len(stack) = MaxDepth /\ stack' = <<>> /\ flag' = FALSE /\ back' = "none"
    /\ UNCHANGED ranfile

Run ==
    \/ NextSegment \/ EndLine \/ (\E outcome \in Outcomes : RunCommand(outcome)) \/ RunBare
    \/ RunRan \/ RanBack
    \/ Look \/ Close
    \/ RunNone \/ (\E ok \in BOOLEAN : RunDirect(ok)) \/ RunLine \/ LineBack \/ EndRan
    \/ Overflow
Next ==
    \/ \E line \in Lines : Typed(line)
    \/ ForeignFails
    \/ Run

Spec == Init /\ [][Next]_vars
(* One thread runs the line to its end: it is never left alone.                *)
FairSpec == Spec /\ WF_vars(Run)

-------------------------------------------------------------------------------
(* Types                                                                    *)

IsLineFrame(f) ==
    /\ f.is = "line" /\ IsLine(f.segs)
    /\ f.stages \in Seq(Stage)
    /\ f.no \in Nat /\ f.carry \in 0..f.no /\ f.kept \subseteq 1..f.no
    /\ f.ok \in BOOLEAN /\ f.last \in BOOLEAN
IsRanFrame(f) ==
    /\ f.is = "ran" /\ OnPath(f) \subseteq f.seen /\ f.seen \subseteq Targets
    /\ f.order \in Seq(DOMAIN ranfile) /\ f.at \in 1..(Len(f.order) + 1) /\ f.met \in BOOLEAN
    /\ f.path # <<>> => f.at = 1
(* The frames are a line, then a ran, then a line ..., and what a frame returns is *)
(* for the one below: mutual recursion of execute_command and cmd_ran.       *)
TypeOK ==
    /\ IsRanfile(ranfile) /\ flag \in BOOLEAN /\ Len(stack) <= MaxDepth
    /\ \A i \in DOMAIN stack : IF i % 2 = 1 THEN IsLineFrame(stack[i]) ELSE IsRanFrame(stack[i])
    /\ back \in CASE stack = <<>> -> {"none"}
                  [] Len(stack) % 2 = 1 -> {"none", "ran"}
                  [] OTHER -> {"none", "succeeded", "failed", "error"}

Frames(is) == {f \in Elems(stack) : f.is = is}

(* A target comes after everything it needs and is run once, whatever shape the *)
(* dependencies have (resolve_order), also when ran calls ran.               *)
DepsFirst ==
    \A f \in Frames("ran") : \A i \in DOMAIN f.order :
        /\ \A d \in Elems(Deps(f.order[i])) : \E j \in 1..(i - 1) : f.order[j] = d
        /\ \A j \in DOMAIN f.order : f.order[j] = f.order[i] => j = i

(* What validate lets through, resolve_order can put in order: its own checks     *)
(* for cycles and missing targets never fail.                                *)
AlwaysAnOrder == \A f \in Frames("ran") : ~f.met
(* A ran finds an order that fits the dependencies.                           *)
Ordered == DepsFirst /\ AlwaysAnOrder

(* A segment after && or || is chosen by how the last command of the segment    *)
(* before ended, never by a failure that another stage, a command inside ran or  *)
(* an earlier line left in the flag (pipeline::run, take_failed).             *)
ChosenByLast ==
    [][\A i \in DOMAIN stack \cap DOMAIN stack' :
         LET f == stack[i]  g == stack'[i]  op == Head(f.segs).op IN
         f.is = "line" /\ g.is = "line" /\ g.segs # f.segs /\ g.segs = Tail(f.segs)
         /\ ~IsBlank(Head(f.segs).stages) =>
            (g.stages # <<>> <=> (op = "and" => f.last) /\ (op = "or" => ~f.last))]_vars

(* A stage reads the output of the nearest stage on its left that did not send   *)
(* it into a file (run_segment's carry).                                     *)
ReadsFromLeft ==
    \A f \in Frames("line") : f.stages # <<>> =>
        /\ f.carry \notin f.kept
        /\ (f.carry + 1)..(f.no - 1) \subseteq f.kept
(* The stack of frames is well formed, down to the stages of its pipelines.      *)
Consistent == TypeOK /\ ReadsFromLeft

(* Every line comes to an end: validated ranfiles have no endless order, and a   *)
(* ran that calls itself dies of it.                                         *)
Ends == stack # <<>> ~> stack = <<>>
===============================================================================
