---------------------------- MODULE MCEditorBuffers ----------------------------
(* EditorBuffers for TLC: the files are interchangeable.                     *)
EXTENDS EditorBuffers

(* Every property is about executions without a mishap: no need to look past one. *)
InStep == mishaps = {}
Symmetry == Permutations(Files)
===============================================================================
