---------------------------- MODULE MCServeCatalog ----------------------------
(* ServeCatalog for TLC: threads and names are interchangeable, and LIKE takes *)
(* every name for every other.                                             *)
EXTENDS ServeCatalog, TLC

Symmetry == Permutations(Threads) \cup Permutations(Names)
AllAlike == Names \X Names

(* Bounds: one token, fault or crash at a time; no look at what comes after    *)
(* something was put where no folder is; and after a mishap other than a cut   *)
(* one request at a time.                                                  *)
Busy == {c \in Threads : th[c].at # "idle"}
InBounds == /\ Cardinality(tokens) + crashes + faults <= 1
            /\ "no folder" \notin mishaps
            /\ mishaps \subseteq {"cut"} \/ Cardinality(Busy) <= 1
===============================================================================
