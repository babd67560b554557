--------------------------- MODULE MCNamedDaemons ---------------------------
(* NamedDaemons on a small instance: three processes at a time, so two     *)
(* daemons and a command between them, and an inode more than can be open. *)
EXTENDS NamedDaemons, TLC

Symmetry == Permutations(Proc) \cup Permutations(Inode)
=============================================================================
