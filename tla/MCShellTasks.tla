---------------------------- MODULE MCShellTasks ----------------------------
(* Ranfiles of three targets with every order of up to two dependencies, the     *)
(* cyclic ones and one with an undefined name among them, and four kinds of line. *)
EXTENDS ShellTasks
CONSTANTS a, b, c

Cmd(name) == [cmd |-> name, in |-> FALSE, out |-> FALSE]
To(name) == [cmd |-> name, in |-> FALSE, out |-> TRUE]
From(name) == [cmd |-> name, in |-> TRUE, out |-> FALSE]
Seg(o, ss) == [op |-> o, stages |-> ss]
One == Cmd("outside")

MCLines == {<<Seg("first", <<Cmd(a)>>), Seg("and", <<One>>), Seg("or", <<Cmd(b)>>)>>,
            <<Seg("first", <<One, To("outside"), To("none"), One, From("none"), One>>), Seg("or", <<Cmd(c), One>>)>>,
            <<Seg("first", <<From("outside")>>), Seg("and", <<Cmd("none")>>), Seg("or", <<One>>), Seg("and", <<To("outside")>>)>>}

Again == <<Seg("first", <<One>>), Seg("and", <<Cmd(a)>>)>>
Piped == <<Seg("first", <<To("outside"), One>>), Seg("or", <<One>>)>>
Direct == <<Seg("first", <<Cmd(c)>>)>>
Deps2 == {<<>>} \cup {<<x>> : x \in Targets} \cup {<<x, y>> : x \in Targets, y \in Targets}
Cmds == {[t \in Targets |-> CASE t = a -> <<"line", Piped>> [] t = b -> <<"direct", Direct>> [] OTHER -> <<"line", Piped>>],
         [t \in Targets |-> CASE t = a -> <<"none", Piped>> [] t = b -> <<"line", Direct>> [] OTHER -> <<"line", Again>>]}
WithTargets(D) == {[t \in D |-> [deps |-> ds[t], cmd |-> k[t][1], line |-> k[t][2]]] : ds \in [D -> Deps2], k \in Cmds}
MCRanfiles == WithTargets(Targets) \cup {r \in WithTargets({a, b}) : c \in {r[a].deps[i] : i \in DOMAIN r[a].deps}}
===============================================================================
