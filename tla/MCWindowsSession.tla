--------------------------- MODULE MCWindowsSession ---------------------------
(* Overlapping exchanges on Windows, for TLC.                               *)
EXTENDS WindowsSession, TLC

\* Exchanges are interchangeable in the safety properties.
Symmetric == Permutations(Sessions)

\* The window waits: enough to show what helpers leave to each other.
Patient == \A s \in Sessions : client[s] \notin {"stop", "done", "aborted"}
=============================================================================
