---------------------------- MODULE MCLinuxStore ----------------------------
(* A small instance of LinuxStore for TLC: two process ids, so that a       *)
(* temporary name is met again after a crash, and four files.               *)
EXTENDS LinuxStore, TLC

\* Files, records and process ids are interchangeable.
Symmetric == Permutations(Inodes) \cup Permutations(Targets) \cup Permutations(Pids)
=============================================================================
