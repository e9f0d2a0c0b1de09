--------------------------- MODULE MCWindowsStore ---------------------------
(* A small instance of WindowsStore for TLC: two process ids, so that a      *)
(* temporary name is met again, two records and four files.                  *)
EXTENDS WindowsStore, TLC

\* Files, records and process ids are interchangeable.
Symmetric == Permutations(Inodes) \cup Permutations(Targets) \cup Permutations(Pids)
=============================================================================
