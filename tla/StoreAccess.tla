----------------------------- MODULE StoreAccess -----------------------------
(***************************************************************************)
(* How the Windows store gets at its objects (platform/src/windows/        *)
(* store.rs): the native calls behind open, load, create, replace and      *)
(* remove, what is checked of an object between two of them, and the       *)
(* reduction of a security descriptor to the facts the policy asks for.    *)
(*                                                                         *)
(* WindowsStore takes each of these operations as one step that may fail.  *)
(* Here another administrator renames, replaces and reprotects objects     *)
(* between any two native calls, as far as the sharing modes of the held   *)
(* handles let him.                                                        *)
(*                                                                         *)
(* Data abstraction: an access mask is the set of the kinds of right in    *)
(* it, a path that the held handles say is the name it was opened by, and  *)
(* every check of offsets, lengths and alignments in a descriptor is one   *)
(* mark "garbled".                                                         *)
(***************************************************************************)
EXTENDS Partial, FiniteSets

CONSTANTS
  Objects,      \* identities of file-system objects
  NoObject,
  Attributes,   \* what an object met by its name can be: [kind, reparse, sec]
  RootLists,    \* access lists that the folder ProgramData can have
  MaxActs       \* bound: acts of the other administrator

ASSUME ActsAssumption == MaxActs \in Nat /\ NoObject \notin Objects

StoreName == "BootHop"
RecordName == "targets.json"
TemporaryName == "temporary"
ChildNames == {RecordName, TemporaryName}
PlaceNames == ChildNames \cup {StoreName}

(***************************************************************************)
(* Security descriptors: [owner, dacl, protected, aces], where an entry is *)
(* [kind, sid, mask, flags].                                               *)
(***************************************************************************)

Rights == {"read", "write", "beyond"}
FullControl == {"read", "write"}
RootReadAllowed == {"read"}
Trusted == {"System", "Administrators"}

Sids == Trusted \cup {"Everyone", "AuthenticatedUsers", "Ordinary", "Somebody", "garbled"}
Ace ==
  [kind : {"Allow", "Deny", "other"}, sid : Sids, mask : SUBSET Rights,
   flags : SUBSET {"inheritOnly", "containerInherit", "inherited", "audit"}]
Descriptor ==
  [owner : Sids, dacl : {"sound", "absent", "garbled"}, protected : BOOLEAN, aces : Seq(Ace)]
Attribute == [kind : {"File", "Directory"}, reparse : BOOLEAN, sec : Descriptor]

ASSUME AttributesAssumption == Attributes \subseteq Attribute

\* sid_kind
SidKind(sid) ==
  IF sid \in Trusted \cup {"Everyone", "AuthenticatedUsers", "Ordinary"} THEN sid ELSE "Unknown"

AceKind(type) == IF type \in {"Allow", "Deny"} THEN type ELSE "Unknown"

Facts(ordinary, mutating, inherited, explicit) ==
  [system_full_control |-> TRUE, administrators_full_control |-> TRUE,
   ordinary_user_access |-> ordinary, ordinary_user_mutation |-> mutating,
   inherited_ordinary_user_mutation |-> inherited, explicit |-> explicit]
ProtectedDacl == Facts(FALSE, FALSE, FALSE, TRUE)

\* reduce_security_descriptor for ProgramData, which need not be protected.
ReduceRoot(owner, protected, aces) ==
  LET Full(ace) == SidKind(ace.sid) \in Trusted /\ FullControl \subseteq ace.mask
      others == {ace \in aces : ~Full(ace)}
      mutating == {ace \in others : ace.mask \ RootReadAllowed # {}}
  IN  When(/\ \A ace \in aces : AceKind(ace.kind) = "Allow" /\ ace.mask # {}
           /\ Trusted = {SidKind(ace.sid) : ace \in aces \ others},
           [owner |-> owner,
            dacl |-> Facts(others # {}, mutating # {},
                           \E ace \in mutating : ace.flags \ {"audit"} # {}, protected)])

\* A protected list that the folder above can still add to.
ReduceInheriting(owner, protected, aces) ==
  When(/\ \A i \in DOMAIN aces : /\ aces[i].flags = {} /\ AceKind(aces[i].kind) = "Allow"
                                 /\ aces[i].mask = FullControl
       /\ Len(aces) = 2 /\ {SidKind(aces[i].sid) : i \in DOMAIN aces} = Trusted,
       [owner |-> owner, dacl |-> ProtectedDacl])

\* reduce_security_descriptor for the store: its two entries, each once, of
\* exactly full control and handed down to nothing.
ReduceProtected(owner, protected, aces) ==
  When(/\ protected
       /\ \A i \in DOMAIN aces : /\ aces[i].flags = {} /\ AceKind(aces[i].kind) = "Allow"
                                 /\ aces[i].mask = FullControl
       /\ Len(aces) = 2 /\ {SidKind(aces[i].sid) : i \in DOMAIN aces} = Trusted,
       [owner |-> owner, dacl |-> ProtectedDacl])

\* parse_native_descriptor: what must be readable of the owner, of the list and
\* of an entry, each within its bounds and aligned.
OwnerReads(sec) == sec.owner # "garbled"
DaclReads(sec) == sec.dacl = "sound"
AceReads(ace) == ace.sid # "garbled"

ParseNativeDescriptor(sec, isRoot) ==
  LET owner == SidKind(sec.owner)
      aces == {sec.aces[i] : i \in DOMAIN sec.aces}
  IN  IF \/ ~OwnerReads(sec) \/ ~DaclReads(sec) \/ \E ace \in aces : ~AceReads(ace)
         \/ owner \notin Trusted \/ aces = {} THEN <<>>
      ELSE IF isRoot THEN ReduceRoot(owner, sec.protected, aces)
                   ELSE ReduceProtected(owner, sec.protected, sec.aces)

IsProtected(dacl) ==
  /\ dacl.system_full_control /\ dacl.administrators_full_control
  /\ ~dacl.ordinary_user_access /\ ~dacl.ordinary_user_mutation
  /\ ~dacl.inherited_ordinary_user_mutation

ValidateSecurity(sec) ==
  Then(ParseNativeDescriptor(sec, FALSE),
       LAMBDA s : When(s.owner \in Trusted /\ IsProtected(s.dacl) /\ s.dacl.explicit, s)) # <<>>

ValidateRootSecurity(sec) ==
  Then(ParseNativeDescriptor(sec, TRUE),
       LAMBDA s : When(/\ s.owner \in Trusted /\ s.dacl.system_full_control
                       /\ s.dacl.administrators_full_control, s)) # <<>>

\* secured_create: the list that the store gives its files.
Allow(sid, mask, flags) == [kind |-> "Allow", sid |-> sid, mask |-> mask, flags |-> flags]
Secured(owner) ==
  [owner |-> owner, dacl |-> "sound", protected |-> TRUE,
   aces |-> <<Allow("System", FullControl, {}), Allow("Administrators", FullControl, {})>>]

(***************************************************************************)
(* The operations, each the native calls and checks it consists of.        *)
(***************************************************************************)

VARIABLES
  root,      \* security descriptor of ProgramData
  places,    \* name -> object
  objects,   \* object -> its attributes
  acts,      \* acts of the other administrator so far
  task,      \* the operation under way
  at,        \* its next step
  handles,   \* name -> object that the handle opened by it holds
  said,      \* what the operation returned: "ok", "missing", "error", "ambiguous"
  changed,   \* history: the operation has changed the directory
  met        \* history: what held at a moment since the operation began

accessVars == <<root, places, objects, acts, task, at, handles, said, changed, met>>

Step(does, name) == [does |-> does, name |-> name]
Checked(name) == <<Step("type", name), Step("secure", name)>>
OpenChild(name) == <<Step("open", name), Step("contain", name)>>
Hierarchy == <<Step("root", StoreName)>> \o Checked(StoreName)

\* WindowsProtectedStore::open
OpenScript == <<Step("root", StoreName)>> \o OpenChild(StoreName) \o Checked(StoreName)

\* load_inner, from validate_hierarchy to the second validate_file.
LoadScript ==
  Hierarchy \o OpenChild(RecordName) \o Checked(RecordName) \o <<Step("read", RecordName)>>
            \o Checked(RecordName)

\* create_exclusive_file; save_inner checks a first record at once.
CreateScript(name) ==
  <<Step("create", name), Step("contain", name)>>
    \o (IF name = RecordName THEN Checked(name) ELSE <<>>)

\* replace_file: both files are opened again, must be two, and are checked
\* before the call; what the name leads to after it must be the new one.
ReplaceScript ==
  OpenChild(RecordName) \o OpenChild(TemporaryName) \o <<Step("differ", RecordName)>>
    \o Checked(RecordName) \o Checked(TemporaryName) \o <<Step("replace", RecordName)>>
    \o OpenChild(RecordName) \o Checked(RecordName) \o <<Step("same", RecordName)>>

\* remove_file
RemoveScript ==
  OpenChild(TemporaryName) \o Checked(TemporaryName)
    \o <<Step("remove", TemporaryName), Step("parent", StoreName)>>

\* revalidate_directory_and_record
RevalidateScript ==
  Checked(StoreName) \o OpenChild(RecordName) \o Checked(RecordName)

Scripts ==
  [open |-> OpenScript, load |-> LoadScript, first |-> CreateScript(RecordName),
   create |-> CreateScript(TemporaryName), check |-> Checked(TemporaryName),
   replace |-> ReplaceScript, remove |-> RemoveScript,
   revalidate |-> RevalidateScript]

(***************************************************************************)
(* The reference: what AccessCheck of the system makes of a descriptor.    *)
(***************************************************************************)

Groups ==
  [system |-> {"System", "Everyone", "AuthenticatedUsers"},
   administrator |-> {"Administrators", "Everyone", "AuthenticatedUsers", "Ordinary"},
   user |-> {"Everyone", "AuthenticatedUsers", "Ordinary", "Somebody"}]

\* A right is granted by the first entry that says something of it, if that
\* entry is none that only waits to be handed down; an entry of a kind that
\* the store does not know may grant it; the owner can rewrite the list.
Access(sec, who) ==
  LET Says(i, right, kinds) ==
        /\ sec.aces[i].kind \in kinds /\ right \in sec.aces[i].mask
        /\ sec.aces[i].sid \in Groups[who] /\ "inheritOnly" \notin sec.aces[i].flags
  IN  IF sec.dacl = "absent" THEN Rights
      ELSE {right \in Rights :
              \E i \in DOMAIN sec.aces :
                 /\ Says(i, right, {"Allow", "other"})
                 /\ \A j \in 1..i - 1 : ~Says(j, right, {"Deny"})}
           \cup (IF sec.owner \in Groups[who] THEN {"write"} ELSE {})

\* What the standard list of ProgramData hands down to a list that is not
\* protected: users may write.
HandedDown(sec) ==
  IF sec.protected THEN sec
  ELSE [sec EXCEPT !.aces = Append(@, Allow("Ordinary", FullControl, {"inherited"}))]

\* Users have no right at all, SYSTEM and the administrators have every one,
\* and nothing done to the folder above changes that.
Guarded(sec) ==
  \A s \in {sec, HandedDown(sec)} :
     /\ Access(s, "user") = {}
     /\ FullControl \subseteq Access(s, "system") \cap Access(s, "administrator")

Plain(o, kind) == objects[o].kind = kind /\ ~objects[o].reparse

\* <<object, fact>> pairs that hold now.
Holding ==
  {<<o, "guarded">> : o \in {x \in Objects : Guarded(objects[x].sec)}}
  \cup {<<places[n], n>> : n \in {m \in PlaceNames : places[m] # NoObject}}
  \cup {<<o, objects[o].kind>> : o \in {x \in Objects : ~objects[x].reparse}}

StoreAccessInit ==
  /\ root \in {[owner |-> "System", dacl |-> "sound", protected |-> p, aces |-> l] :
                 p \in BOOLEAN, l \in RootLists}
  /\ objects \in [Objects -> Attributes]
  /\ places \in [PlaceNames -> Objects \cup {NoObject}]
  /\ \A m, n \in PlaceNames : m # n /\ places[m] # NoObject => places[m] # places[n]
  /\ acts = 0 /\ task = "none" /\ at = 1
  /\ handles = [n \in PlaceNames |-> NoObject]
  /\ said = "none" /\ changed = FALSE /\ met = {}

(***************************************************************************)
(* One operation after another.                                            *)
(***************************************************************************)

world == <<root, places, objects, acts>>

\* A helper opens the store, loads the record once or twice, and saves: over no
\* record it creates it, over another one it creates and checks a temporary
\* file, and replaces the record or, after a failed check or write, removes it.
Follows ==
  [open |-> {"load"}, load |-> {"load", "create"}, first |-> {"revalidate"},
   create |-> {"check"}, check |-> {"replace", "remove"}, replace |-> {"revalidate"},
   remove |-> {}, revalidate |-> {}]

Enter(t) ==
  /\ \/ task = "none" /\ t = "open"
     \/ said = "ok" /\ t \in Follows[task]
     \/ said = "missing" /\ t \in {"load", "first"}
     \/ said = "error" /\ task = "check" /\ t = "remove"
  /\ task' = t /\ at' = 1 /\ said' = "none" /\ changed' = FALSE
  /\ handles' = [n \in PlaceNames |->
                   IF n = StoreName \/ t = "check" THEN handles[n] ELSE NoObject]
  /\ met' = Holding
  /\ UNCHANGED world

\* The answer is given, or the helper dies.
Leave ==
  /\ task # "none"
  /\ task' = "none" /\ at' = 1 /\ said' = "none" /\ changed' = FALSE
  /\ handles' = [n \in PlaceNames |-> NoObject]
  /\ met' = {}
  /\ UNCHANGED world

Doing(does) ==
  task # "none" /\ said = "none" /\ Scripts[task][at].does = does

Name == Scripts[task][at].name

\* Only a change of the directory or of an object makes more hold.
Witness == met' = IF task = "none" THEN {} ELSE met \cup Holding'

Pass ==
  /\ at' = at + 1
  /\ said' = IF at = Len(Scripts[task]) THEN "ok" ELSE "none"
  /\ UNCHANGED task

\* Once the directory has changed, a failed check leaves the outcome open.
Refuse ==
  /\ said' = IF changed THEN "ambiguous" ELSE "error"
  /\ UNCHANGED <<task, at>>

\* Every native call may fail.
CallFails ==
  /\ task # "none" /\ said = "none"
  /\ Refuse
  /\ UNCHANGED <<world, handles, changed, met>>

CheckRoot ==
  /\ Doing("root")
  /\ IF ValidateRootSecurity(root) THEN Pass ELSE Refuse
  /\ UNCHANGED <<world, handles, changed, met>>

\* CreateFileW by name, through the held directory's path and without
\* following a reparse point at its end.
Open ==
  /\ Doing("open")
  /\ \/ /\ places[Name] # NoObject
        /\ handles' = [handles EXCEPT ![Name] = places[Name]] /\ Pass
     \/ /\ places[Name] = NoObject /\ task # "load"
        /\ Refuse /\ UNCHANGED handles
     \/ /\ places[Name] = NoObject /\ task = "load"
        /\ said' = "missing" /\ UNCHANGED <<task, at, handles>>
  /\ UNCHANGED <<world, changed, met>>

\* is_direct_child: the final path of the handle lies in the directory.
Contain ==
  /\ Doing("contain")
  /\ IF \E n \in PlaceNames : /\ (n = StoreName) = (Name = StoreName)
                              /\ places[n] = handles[Name]
       THEN Pass ELSE Refuse
  /\ UNCHANGED <<world, handles, changed, met>>

\* metadata: a file or a directory as expected, and no reparse point.
CheckType ==
  /\ Doing("type")
  /\ IF Plain(handles[Name], IF Name = StoreName THEN "Directory" ELSE "File")
       THEN Pass ELSE Refuse
  /\ UNCHANGED <<world, handles, changed, met>>

CheckSecurity ==
  /\ Doing("secure")
  /\ IF ValidateSecurity(objects[handles[Name]].sec) THEN Pass ELSE Refuse
  /\ UNCHANGED <<world, handles, changed, met>>

Read == Doing("read") /\ Pass /\ UNCHANGED <<world, handles, changed, met>>

\* secured_create with CREATE_NEW; the owner is the default of the token.
CreateNew ==
  /\ Doing("create")
  /\ \/ /\ places[Name] # NoObject /\ Refuse
        /\ UNCHANGED <<places, objects, handles, changed>>
     \/ /\ places[Name] = NoObject
        /\ \E o \in Objects, owner \in {"Administrators", "Somebody"} :
             /\ o \notin {places[n] : n \in PlaceNames} \cup {handles[n] : n \in PlaceNames}
             /\ places' = [places EXCEPT ![Name] = o]
             /\ objects' = [objects EXCEPT
                              ![o] = [kind |-> "File", reparse |-> FALSE, sec |-> Secured(owner)]]
             /\ handles' = [handles EXCEPT ![Name] = o]
        /\ changed' = TRUE /\ Pass
  /\ UNCHANGED <<root, acts>> /\ Witness

Differ ==
  /\ Doing("differ")
  /\ IF handles[RecordName] # handles[TemporaryName] THEN Pass ELSE Refuse
  /\ UNCHANGED <<world, handles, changed, met>>

\* ReplaceFileW acts on the names.  If it fails the store does not look at what
\* it left: both files, or the new one under either name.
ReplaceFile ==
  /\ Doing("replace") /\ changed' = TRUE
  /\ LET Renamed == [places EXCEPT ![RecordName] = places[TemporaryName],
                                   ![TemporaryName] = NoObject]
         Unnamed == [places EXCEPT ![RecordName] = NoObject]
         there == NoObject \notin {places[n] : n \in ChildNames}
     IN  \/ there /\ places' = Renamed /\ Pass
         \/ /\ places' \in {places} \cup (IF there THEN {Renamed, Unnamed} ELSE {})
            /\ said' = "ambiguous" /\ UNCHANGED <<task, at>>
  /\ UNCHANGED <<root, objects, acts, handles>> /\ Witness

\* The record is now the file that was checked as the replacement.
Same ==
  /\ Doing("same")
  /\ IF handles[RecordName] = handles[TemporaryName] THEN Pass ELSE Refuse
  /\ UNCHANGED <<world, handles, changed, met>>

RemoveFile ==
  /\ Doing("remove")
  /\ \/ /\ places[TemporaryName] # NoObject
        /\ places' = [places EXCEPT ![TemporaryName] = NoObject]
        /\ changed' = TRUE /\ Pass
     \/ /\ said' \in {"error", "ambiguous"} /\ UNCHANGED <<places, changed, task, at>>
  /\ UNCHANGED <<root, objects, acts, handles>> /\ Witness

\* parent_unchanged: the held directory is still the same and where it was.
CheckParent ==
  Doing("parent") /\ Pass /\ UNCHANGED <<world, handles, changed, met>>

StoreStep ==
  \/ CallFails \/ CheckRoot \/ Open \/ Contain \/ CheckType \/ CheckSecurity \/ Read
  \/ CreateNew \/ Differ \/ ReplaceFile \/ Same \/ RemoveFile \/ CheckParent

(***************************************************************************)
(* The other administrator.  The directory, once held, shares no deletion  *)
(* and keeps its place; files can go while they are held.                  *)
(***************************************************************************)

Acting ==
  /\ acts' = acts + 1
  /\ UNCHANGED <<root, task, at, handles, said, changed>> /\ Witness

Movable(n) == n # StoreName \/ handles[StoreName] = NoObject

TakeAway(n) ==
  /\ places[n] # NoObject /\ Movable(n)
  /\ places' = [places EXCEPT ![n] = NoObject] /\ UNCHANGED objects
  /\ Acting

\* A new object, in place of what may be there.
PutThere(n, o, attributes) ==
  /\ Movable(n)
  /\ o \notin {places[m] : m \in PlaceNames} \cup {handles[m] : m \in PlaceNames}
  /\ places' = [places EXCEPT ![n] = o]
  /\ objects' = [objects EXCEPT ![o] = attributes]
  /\ Acting

\* A second name of a file.
Link(m, n) ==
  /\ {m, n} = ChildNames /\ places[m] # NoObject
  /\ places' = [places EXCEPT ![n] = places[m]] /\ UNCHANGED objects
  /\ Acting

Reprotect(o, sec) ==
  /\ objects' = [objects EXCEPT ![o].sec = sec] /\ UNCHANGED places
  /\ Acting

Interferes ==
  \/ \E n \in PlaceNames : TakeAway(n)
  \/ \E n \in PlaceNames, o \in Objects, a \in Attributes : PutThere(n, o, a)
  \/ \E m, n \in ChildNames : Link(m, n)
  \/ \E o \in Objects, sec \in {a.sec : a \in Attributes} : Reprotect(o, sec)

StoreAccessNext ==
  \/ \E t \in DOMAIN Scripts : Enter(t)
  \/ Leave \/ StoreStep
  \/ acts < MaxActs /\ Interferes

StoreAccessSpec == StoreAccessInit /\ [][StoreAccessNext]_accessVars

(***************************************************************************)
(* Properties.                                                             *)
(***************************************************************************)

\* The object was, at moments of this operation, what it is taken for: plain,
\* in its place, and nobody's but the administrators' by the system's own rule.
Vouched(o, n) ==
  /\ <<o, IF n = StoreName THEN "Directory" ELSE "File">> \in met
  /\ <<o, "guarded">> \in met
  /\ \E m \in IF n = StoreName THEN {n} ELSE ChildNames : <<o, m>> \in met

\* What the operations of the store report is true although another
\* administrator works in the same directory: the store and the record they
\* hand on were guarded objects in their places during the operation, a file
\* is replaced only by one that was guarded too, and an ordinary error of a
\* creation or removal means that nothing was created or removed
\* (store.rs: NATIVE_AMBIGUITY; the checks before and after each call).
OutcomesAreTrue ==
  /\ said = "ok" /\ task \in {"open", "load", "revalidate"} => Vouched(handles[StoreName], StoreName)
  /\ said = "ok" /\ task \in {"load", "first", "revalidate", "replace"} =>
        Vouched(handles[RecordName], RecordName)
  /\ said = "error" /\ task \in {"first", "create", "remove"} => ~changed

=============================================================================
