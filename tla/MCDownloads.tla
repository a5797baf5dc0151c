---------------------------- MODULE MCDownloads ----------------------------
(* Downloads for TLC: a.zip and a.tar are staged in the same a.part, and x.part   *)
(* in itself.                                                               *)
EXTENDS Downloads, TLC

CONSTANTS zip, tar, iso, prt, aPart, bPart, u1, u2
Staging == [f \in Files |-> CASE f = prt -> prt [] f = iso -> bPart [] OTHER -> aPart]
Asked == {<<u1, zip>>, <<u2, iso>>, <<u2, tar>>, <<u2, prt>>}

Symmetry == Permutations(Procs)

(* Bounds: no look at what comes after something the code does not guard      *)
(* against, but a failed rename; a.zip is downloaded beside b.iso, in turn with *)
(* a.tar, and alone once its server's file has changed or a rename failed;      *)
(* of the files, a.zip alone is ever finished.                               *)
Used == ({records[i].file : i \in DOMAIN records} \cup {run[p].file : p \in Procs}) \ {None}
Busy == {p \in Procs : run[p].at # "idle"}
InBounds == /\ mishaps \subseteq {"rename"}
            /\ Cardinality({tar, iso, prt} \cap Used) <= 1
            /\ tar \in Used => Cardinality(Busy) <= 1
            /\ serves[u2] = 1
            /\ faults > 0 \/ serves[u1] > 1 => Cardinality(Used) <= 1
            /\ disk[tar] = Absent /\ disk[iso] = Absent
===============================================================================
