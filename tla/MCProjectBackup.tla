---------------------------- MODULE MCProjectBackup ----------------------------
(* Model values for ProjectBackup: the ordinary files and the contents are   *)
(* interchangeable.                                                        *)
EXTENDS ProjectBackup, TLC

Symmetry == Permutations(Files \ (Large \cup Reports)) \cup Permutations(Contents)
================================================================================
