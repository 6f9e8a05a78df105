------------------------------- MODULE MCExplorer -------------------------------
(* Small instances of Explorer for TLC. *)
EXTENDS Explorer, TLC

AnyPath == Permutations(Paths)
================================================================================
