------------------------------- MODULE FileTree -------------------------------
(***************************************************************************)
(* What the file list of `serve files` promises its users: a tree of folders *)
(* and files.  Something is added inside a folder that is there, a folder's  *)
(* content goes away whole, and a rename changes a name and nothing else.    *)
(* The promise ends with the first thing the server does not guard against   *)
(* (ServeCatalog says what): whatever the table then holds, it is not tidy.  *)
(***************************************************************************)
EXTENDS Naturals

VARIABLES tree,     \* a set of nodes [id, name, dir, under, file]
          tidy

Root == 0
IdsOf(T) == {n.id : n \in T}
Folders(T) == {Root} \cup {n.id : n \in {m \in T : m.dir}}

Init == tree = {} /\ tidy = TRUE

(* One node more, in a folder of the tree.                                  *)
Add(T, U) == \E n \in U \ T : /\ U = T \cup {n}
                              /\ n.under \in Folders(T) /\ n.id \notin IdsOf(T)

(* Gone is all that was below one folder, or the things of one name in it with *)
(* all that was below them.                                                 *)
Remove(T, U) ==
    LET gone == T \ U  ids == IdsOf(gone) IN
    /\ U \subseteq T /\ \A n \in U : n.under \notin ids
    /\ \E f \in Folders(T) :
         LET top == {n \in gone : n.under = f}  here == {n \in T : n.under = f} IN
         /\ \A n \in gone : n.under \in ids \cup {f}
         /\ top = here \/ \E m \in top : top = {n \in here : n.name = m.name}

(* The things of one name in a folder get another that nothing there had.    *)
Rename(T, U) ==
    \E n \in T \ U, m \in U \ T :
        LET named == {k \in T : k.under = n.under /\ k.name = n.name} IN
        /\ m.id = n.id /\ \A k \in T : k.under = n.under => k.name # m.name
        /\ U = (T \ named) \cup {[k EXCEPT !.name = m.name] : k \in named}

Step(T, U) == Add(T, U) \/ Remove(T, U) \/ Rename(T, U)
Spec == Init /\ [][~tidy' \/ (tidy /\ Step(tree, tree'))]_<<tree, tidy>>
===============================================================================
