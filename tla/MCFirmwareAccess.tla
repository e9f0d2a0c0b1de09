-------------------------- MODULE MCFirmwareAccess --------------------------
(* A small instance of FirmwareAccess for TLC.                              *)
EXTENDS FirmwareAccess, TLC

\* A native read of Windows is one step; on Linux one is many, and a deletion
\* with a creation must fit between two of them.
MCMaxMeddles == [Linux |-> 2, Windows |-> 1]

\* No definition tells one identifier from another.
Symmetry == Permutations(Ids)

\* Privileges come disabled; at most one of them is enabled or not held.  The
\* options are long only where each of them is there and listed.
MCInit ==
  /\ Init
  /\ \A b \in Ids : data[b][0].len > 1 => entry[b] # None /\ b \in data["BootOrder"][0].says
  /\ host = "Windows" => \A p, q \in Privileges : "off" \in {token[p], token[q]} \/ p = q

MCSpec == MCInit /\ [][Next]_vars
=============================================================================
