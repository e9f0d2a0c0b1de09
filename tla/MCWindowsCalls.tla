--------------------------- MODULE MCWindowsCalls ---------------------------
(* What the processes of Windows do through native calls, for TLC: one       *)
(* overlapped operation on the pipe, of every kind and on either side, or    *)
(* operations of the store on its objects.  The two share no state; a        *)
(* behaviour is one of either, and the other is at rest throughout.          *)
EXTENDS OverlappedIo, StoreAccess

-----------------------------------------------------------------------------
(* Access lists. *)

System == Allow("System", FullControl, {})
Administrators == Allow("Administrators", FullControl, {})
Exact == <<System, Administrators>>

\* Each differs from an entry of the store in one respect.
Entries ==
  {System, Administrators} \cup
  {Allow(sid, FullControl, {}) : sid \in {"Everyone", "Ordinary", "Somebody", "garbled"}} \cup
  {[System EXCEPT !.kind = k] : k \in {"Deny", "other"}} \cup
  {[Administrators EXCEPT !.mask = m] : m \in {{}, {"read"}, FullControl \cup {"beyond"}}} \cup
  {[System EXCEPT !.flags = {f}] : f \in {"inheritOnly", "containerInherit", "audit"}}

Lists ==
  {<<>>} \cup {<<e>> : e \in Entries}
    \cup {<<e, f>> : e \in Entries, f \in {System, Administrators}}
    \cup {<<f, e>> : e \in Entries, f \in {System, Administrators}}
    \cup {<<e>> \o Exact : e \in Entries} \cup {Exact \o <<e>> : e \in Entries}

Security(owners, dacls, lists) ==
  [owner : owners, dacl : dacls, protected : BOOLEAN, aces : lists]

\* ProgramData with and without the standard entries.
Standard ==
  <<Allow("System", FullControl, {"containerInherit"}),
    Allow("Administrators", FullControl, {"containerInherit"}),
    Allow("Ordinary", FullControl, {"containerInherit"})>>
MCRootLists == {Standard, Exact, <<System>>, Append(Standard, [System EXCEPT !.kind = "Deny"])}

\* What the other administrator puts in place of a file or of the directory:
\* what the store would have made there, or that with one difference.
MCAttributes ==
  {[kind |-> k, reparse |-> r, sec |-> [Secured("Administrators") EXCEPT !.protected = p]] :
     k \in {"File", "Directory"}, <<r, p>> \in (BOOLEAN \X BOOLEAN) \ {<<TRUE, FALSE>>}}

\* An instance of StoreAccessInit: the directory and the record, as the
\* installation leaves them or in any shape, with a temporary file or without;
\* or a record of any descriptor, and nobody interferes.
Placed(d, r, t) ==
  places = [n \in PlaceNames |-> IF n = StoreName THEN d ELSE IF n = RecordName THEN r ELSE t]
Root(protected, list) ==
  [owner |-> "System", dacl |-> "sound", protected |-> protected, aces |-> list]
Installed(k) == [kind |-> k, reparse |-> FALSE, sec |-> Secured("Administrators")]

\* Three objects that differ; which they are does not matter.
Directory == CHOOSE o \in Objects : TRUE
RecordFile == CHOOSE o \in Objects : o # Directory
TemporaryFile == CHOOSE o \in Objects : o \notin {Directory, RecordFile}

MCAccessInit ==
  /\ task = "none" /\ at = 1 /\ said = "none" /\ changed = FALSE
  /\ handles = [n \in PlaceNames |-> NoObject]
  /\ LET d == Directory
         r == RecordFile
         t == TemporaryFile
     IN   \/ /\ \E record \in {r, NoObject} :
                  \/ /\ root = Root(TRUE, Standard) /\ Placed(d, record, NoObject)
                     /\ \E a \in MCAttributes, o \in {d} \cup ({r} \cap {record}) :
                          objects = [x \in Objects |->
                            IF x = o THEN a ELSE Installed(IF x = d THEN "Directory" ELSE "File")]
                  \/ /\ root \in {Root(p, l) : p \in BOOLEAN, l \in RootLists}
                     /\ \E temporary \in {t, NoObject} : Placed(d, record, temporary)
                     /\ objects =
                          [x \in Objects |-> Installed(IF x = d THEN "Directory" ELSE "File")]
             /\ acts = 0
          \/ /\ Placed(d, r, NoObject)
             /\ \E sec \in Security({"Administrators"}, {"sound"}, Lists)
                            \cup Security({"System", "Somebody", "garbled"}, {"sound"}, {Exact})
                            \cup Security({"System"}, {"absent", "garbled"}, {Exact}) :
                  objects = [x \in Objects |->
                     IF x = r THEN [Installed("File") EXCEPT !.sec = sec]
                     ELSE Installed(IF x = d THEN "Directory" ELSE "File")]
             /\ root = Root(TRUE, Standard)
             /\ acts = MaxActs
  /\ met = {}

\* At rest.
AccessRests ==
  /\ root = <<>> /\ places = <<>> /\ objects = <<>> /\ acts = 0 /\ task = "rests" /\ at = 1
  /\ handles = <<>> /\ said = "none" /\ changed = FALSE /\ met = {}
IoRests ==
  /\ side = "client" /\ kind = "Read" /\ kernel = "idle" /\ pc = "rests"
  /\ why = "none" /\ cancel = "none" /\ returned = "none" /\ trace = <<>>

MCInit == (IoInit /\ AccessRests) \/ (MCAccessInit /\ IoRests)

MCThread == Thread /\ UNCHANGED accessVars

MCNext ==
  \/ MCThread
  \/ (\E r \in Terminal : KernelEnds(r)) /\ UNCHANGED accessVars
  \/ task # "rests" /\ StoreAccessNext /\ UNCHANGED ioVars

\* The fairness of OverlappedIo.
MCSpec == MCInit /\ [][MCNext]_<<ioVars, accessVars>> /\ WF_<<ioVars, accessVars>>(MCThread)
=============================================================================
