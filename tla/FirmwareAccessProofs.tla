------------------------ MODULE FirmwareAccessProofs ------------------------
(***************************************************************************)
(* The safety of FirmwareAccess and of the privilege scopes in it, for any *)
(* set of identifiers, any limits, any number of scopes and any number of  *)
(* writes of the other tool.                                               *)
(*                                                                         *)
(* A scope undoes what it did as long as it knows what that was.  A read   *)
(* is genuine because every content has a mark of its own and marks only   *)
(* grow: metadata that is the same before and after leaves no room for     *)
(* another content in between.  An inventory is whole because the stamp of *)
(* the directory only grows too.                                           *)
(***************************************************************************)
EXTENDS FirmwareAccess, TLAPS

Points == {"none", "lookup", "enable", "operate", "restore", "close", "ended"}

Scopes == [at : Points, priv : Privileges, prior : Priors, said : Outcomes, unclean : BOOLEAN]

ScopeTypeOK ==
  /\ token \in [Privileges -> Attributes]
  /\ atStart \in [Privileges -> Attributes]
  /\ handles \in Nat
  /\ leaky \in BOOLEAN
  /\ scope \in Scopes

Idle == scope.at \in {"none", "ended"}

\* Replaying what the scope remembers gives the token of the start.
Undoable ==
  \/ scope.prior = "invalid"
  \/ scope.prior = "empty" /\ token = atStart
  \/ scope.prior \in {"on", "off"} /\ [token EXCEPT ![scope.priv] = scope.prior] = atStart

\* What holds of a scope at each of its points unless an earlier one leaked.
Progress ==
  /\ Idle => token = atStart /\ handles = 0
  /\ ~Idle => handles = 1
  /\ scope.at \in {"lookup", "enable"} => token = atStart /\ ~scope.unclean
  /\ scope.at \in {"operate", "restore"} => Undoable /\ ~scope.unclean
  /\ scope.at = "close" => scope.unclean \/ token = atStart

ScopeInv ==
  /\ ScopeTypeOK
  /\ ~Idle => handles > 0
  /\ ~leaky => Progress

\* What one AdjustTokenPrivileges can do to a typed token.
LEMMA AdjustedType ==
  ASSUME ScopeTypeOK, NEW p \in Privileges, NEW v \in {"on", "off"},
         NEW a \in Adjusted(p, v)
  PROVE  /\ a.token \in [Privileges -> Attributes]
         /\ a.prior \in Priors
         /\ a.good \in BOOLEAN
         /\ a.good => a.token = [token EXCEPT ![p] = v]
         /\ a.prior = "empty" => a.token = token
         /\ a.prior \in {"on", "off"} => [a.token EXCEPT ![p] = a.prior] = token
PROOF
<1>1. token \in [Privileges -> Attributes] /\ [token EXCEPT ![p] = v] \in [Privileges -> Attributes]
  BY DEF ScopeTypeOK, Attributes
<1>2. CASE a = [token |-> token, prior |-> "invalid", good |-> FALSE]
  BY <1>1, <1>2 DEF Priors
<1>3. CASE a = [token |-> token, prior |-> "empty", good |-> FALSE]
  BY <1>1, <1>3 DEF Priors
<1>4. CASE a = [token |-> [token EXCEPT ![p] = v], prior |-> "invalid", good |-> FALSE]
  BY <1>1, <1>4 DEF Priors
<1>5. CASE /\ token[p] # "absent"
           /\ a = [token |-> [token EXCEPT ![p] = v], good |-> TRUE,
                   prior |-> IF token[p] = v THEN "empty" ELSE token[p]]
  <2>1. token[p] \in {"on", "off"}
    BY <1>1, <1>5 DEF Attributes
  <2>2. [[token EXCEPT ![p] = v] EXCEPT ![p] = token[p]] = token
    BY <1>1
  <2>3. CASE token[p] = v
    BY <1>1, <1>5, <2>3 DEF Priors
  <2>4. CASE token[p] # v
    BY <1>1, <1>5, <2>1, <2>2, <2>4 DEF Priors
  <2> QED BY <2>3, <2>4
<1> QED BY <1>2, <1>3, <1>4, <1>5 DEF Adjusted

\* Before and between scopes.
LEMMA NoScopeType ==
  /\ NoScope \in Scopes
  /\ NoScope.at = "none" /\ NoScope.prior = "empty" /\ NoScope.unclean = FALSE
PROOF
<1> DEFINE any == CHOOSE p \in Privileges : TRUE
<1>1. any \in Privileges
  BY SomePrivilege
<1>2. NoScope = [at |-> "none", priv |-> any, prior |-> "empty", said |-> "ok", unclean |-> FALSE]
  BY DEF NoScope
<1> HIDE DEF any
<1> QED BY <1>1, <1>2 DEF Scopes, Points, Priors, Outcomes

LEMMA ScopeInitially == ScopeInit => ScopeInv
PROOF
<1> SUFFICES ASSUME ScopeInit PROVE ScopeInv
  OBVIOUS
<1>1. scope = NoScope /\ handles = 0 /\ atStart = token /\ token \in [Privileges -> Attributes]
  BY DEF ScopeInit
<1>2. leaky \in BOOLEAN
  BY DEF ScopeInit
<1>3. ScopeTypeOK
  BY <1>1, <1>2, NoScopeType, Zenon DEF ScopeTypeOK
<1>4. scope.at = "none"
  BY <1>1, NoScopeType
<1> QED BY <1>1, <1>3, <1>4 DEF ScopeInv, Progress, Idle

LEMMA ScopePreserved == ScopeInv /\ [ScopeNext]_scopeVars => ScopeInv'
PROOF
<1> SUFFICES ASSUME ScopeInv, [ScopeNext]_scopeVars PROVE ScopeInv'
  OBVIOUS
<1>0. ASSUME NEW v \in {"on", "off"}, NEW b \in Adjusted(scope.priv, v)
      PROVE  /\ b.token \in [Privileges -> Attributes]
             /\ b.good \in BOOLEAN
             /\ b.good => b.token = [token EXCEPT ![scope.priv] = v]
  <2>1. ScopeTypeOK /\ scope.priv \in Privileges
    BY DEF ScopeInv, ScopeTypeOK, Scopes
  <2> QED BY <2>1, AdjustedType
<1> USE DEF ScopeInv, ScopeTypeOK, Scopes, Progress, Idle, Undoable
<1>1. ASSUME NEW p \in Privileges, Acquire(p) PROVE ScopeInv'
  <2>1. CASE /\ handles' = handles + 1
             /\ scope' = [NoScope EXCEPT !.at = "lookup", !.priv = p]
    <3>1. scope' \in Scopes /\ scope'.at = "lookup" /\ scope'.unclean = FALSE
      BY <1>1, <2>1, NoScopeType DEF Points
    <3>2. handles' > 0 /\ handles' \in Nat /\ UNCHANGED <<token, atStart, leaky>> /\ scope.at = "none"
      BY <1>1, <2>1 DEF Acquire
    <3> QED BY <2>1, <3>1, <3>2
  <2>2. CASE /\ scope' = [NoScope EXCEPT !.at = "ended", !.priv = p, !.said = "failed"]
             /\ UNCHANGED handles
    BY <1>1, <2>2, NoScopeType DEF Acquire, Points, Priors, Outcomes
  <2> QED BY <1>1, <2>1, <2>2 DEF Acquire
<1>2. CASE Lookup
  BY <1>2 DEF Lookup, Points, Outcomes
<1>3. CASE Enable
  <2>1. PICK a \in Adjusted(scope.priv, "on") :
          /\ token' = a.token
          /\ scope' = [scope EXCEPT !.prior = a.prior,
                                    !.at = IF a.good THEN "operate" ELSE "restore",
                                    !.said = IF a.good THEN @ ELSE "failed"]
    BY <1>3 DEF Enable
  <2>2. /\ a.token \in [Privileges -> Attributes]
        /\ a.prior \in Priors
        /\ a.good \in BOOLEAN
        /\ a.prior = "empty" => a.token = token
        /\ a.prior \in {"on", "off"} => [a.token EXCEPT ![scope.priv] = a.prior] = token
    BY AdjustedType
  <2>3. scope.at = "enable" /\ UNCHANGED <<handles, atStart, leaky>>
    BY <1>3 DEF Enable
  <2>4. scope'.priv = scope.priv /\ scope'.prior = a.prior /\ scope'.unclean = scope.unclean
        /\ scope'.at \in {"operate", "restore"}
    BY <2>1, <2>2
  <2>5. ScopeTypeOK'
    BY <2>1, <2>2, <2>3 DEF Points, Outcomes
  <2>6. ~leaky => Undoable'
    BY <2>1, <2>2, <2>3, <2>4 DEF Priors
  <2> QED BY <2>1, <2>3, <2>4, <2>5, <2>6
<1>4. ASSUME NEW outcome \in Outcomes, Operated(outcome) PROVE ScopeInv'
  BY <1>4 DEF Operated, Points, Outcomes
<1>5. CASE Restore
  <2>1. CASE scope.prior \in {"empty", "invalid"}
    BY <1>5, <2>1 DEF Restore, Points
  <2>2. CASE scope.prior \in {"on", "off"}
    <3> DEFINE Replayed(b) == /\ b.token \in [Privileges -> Attributes]
                              /\ b.good \in BOOLEAN
                              /\ b.good => b.token = [token EXCEPT ![scope.priv] = scope.prior]
    <3>0. ASSUME NEW b \in Adjusted(scope.priv, scope.prior) PROVE Replayed(b)
      <4>1. CASE scope.prior = "on"
        BY <1>0, <4>1
      <4>2. CASE scope.prior = "off"
        BY <1>0, <4>2
      <4> QED BY <2>2, <4>1, <4>2
    <3>1. PICK a \in Adjusted(scope.priv, scope.prior) :
            /\ token' = a.token
            /\ scope' = [scope EXCEPT !.at = "close", !.unclean = ~a.good]
      BY <1>5, <2>2 DEF Restore
    <3>2. Replayed(a)
      BY <3>0, Zenon
    <3>3. scope.at = "restore" /\ UNCHANGED <<handles, atStart, leaky>>
      BY <1>5 DEF Restore
    <3>4. scope'.at = "close" /\ scope'.unclean = ~a.good
      BY <3>1, <3>2
    <3>5. ScopeTypeOK'
      BY <3>1, <3>2, <3>3 DEF Points
    <3> QED BY <2>2, <3>1, <3>2, <3>3, <3>4, <3>5
  <2> QED BY <2>1, <2>2 DEF Priors
<1>6. CASE Close
  <2>1. scope' \in Scopes /\ scope'.at = "ended" /\ scope.at = "close"
    BY <1>6 DEF Close, Points
  <2>2. leaky' \in BOOLEAN /\ (~leaky' => ~leaky /\ ~scope'.unclean)
    BY <1>6, Zenon DEF Close
  <2>3. ScopeTypeOK'
    BY <1>6, <2>1, <2>2 DEF Close
  <2>4. scope'.unclean \/ (scope'.unclean = scope.unclean /\ handles' = handles - 1)
    BY <1>6 DEF Close
  <2>5. ~leaky' => token' = atStart' /\ handles' = 0
    BY <1>6, <2>1, <2>2, <2>4 DEF Close
  <2> QED BY <2>1, <2>3, <2>5
<1>7. CASE Dispose
  BY <1>7, NoScopeType DEF Dispose, Points, Priors, Outcomes
<1>8. CASE UNCHANGED scopeVars
  BY <1>8 DEF scopeVars
<1> QED BY <1>1, <1>2, <1>3, <1>4, <1>5, <1>6, <1>7, <1>8 DEF ScopeNext, ScopeStep

\* So do scopes one after another, whoever opens them.
LEMMA ScopesRestored == ScopeSpec => []ScopeRestores
PROOF
<1>1. ScopeInv => ScopeRestores
  BY DEF ScopeInv, Progress, Idle, ScopeRestores
<1> QED BY <1>1, ScopeInitially, ScopePreserved, PTL DEF ScopeSpec

-----------------------------------------------------------------------------
(***************************************************************************)
(* The inductive invariant of FirmwareAccess.                              *)
(***************************************************************************)

Calls == {"env", "options", "original", "recheck", "readback", "reboot", "observe", "done"}
Steps == {"start", "probe", "directory", "names", "pick", "before", "chunk", "after",
          "reopen", "scope"}
Contents == [mark : Marks, len : Nat \ {0}, says : SUBSET Ids]

Reads ==
  [step : Steps, name : Names, buffer : Nat, native : {"none", "failed", "small", "read", "accepted"},
   marks : SUBSET Marks, count : Nat, says : SUBSET Ids, file : Marks,
   before : {None} \cup (Marks \X Marks \X (Nat \ {0}))]

\* The firmware: marks and incarnations are no younger than the last write, and
\* what is there now has been seen.
FirmwareInv ==
  /\ host \in OSes
  /\ clock \in 0..MaxMeddles[host]
  /\ entry \in [Names -> Marks \cup {None}]
  /\ data \in [Names -> [Marks -> Contents]]
  /\ \A n \in Names, i \in Marks : data[n][i].mark <= clock
  /\ \A n \in Names : entry[n] # None => entry[n] <= clock
  /\ dirStamp \in 0..clock
  /\ Present \subseteq had
  /\ had \subseteq Names \X (Marks \cup {None})

\* Which steps go with which call, on which host.
ControlInv ==
  /\ call \in Calls /\ read \in Reads
  /\ call \notin {"env", "options"} => read.name = "BootNext"
  /\ call = "options" => read.name # "BootNext"
  /\ read.step = "scope" <=> scope.at # "none"
  /\ IF host = "Linux" THEN scope.at = "none"
     ELSE /\ read.step \in {"start", "scope", "pick"}
          /\ read.step = "scope" => call \notin {"env", "done"}
          /\ read.step = "pick" => call = "options"

\* The content of the inode that is read, unless it is another one than at the
\* first fstat.
Snapshot ==
  LET c == data[read.name][read.file]
  IN  /\ read.before \in Marks \X Marks \X (Nat \ {0})
      /\ read.before[1] = read.file
      /\ read.before[2] <= c.mark
      /\ read.before[2] = c.mark => read.before[3] = c.len /\ read.marks \subseteq {c.mark}
      /\ read.marks = {} => read.count = 0

\* What has been read was in the firmware.
ReadInv ==
  /\ \A m \in read.marks : <<read.name, m>> \in had
  /\ read.native = "read" => \E m \in Marks : read.marks = {m}
  /\ host = "Linux" =>
       /\ read.native = "none"
       /\ read.step \in {"start", "directory", "before"} => read.marks = {} /\ read.count = 0
       /\ read.step \in {"before", "chunk", "after", "reopen"} => read.file <= clock
       /\ read.step \in {"chunk", "after", "reopen"} => Snapshot
       /\ read.step = "reopen" => read.count = read.before[3]

\* What the inventory will consist of, and what it consists of so far.
Target == IF host = "Linux" THEN found ELSE listed
Got == {b \in Ids : inv[b] # {}}

\* Past the references, the walk has a list of options to read.
Fetching == read.name \in Ids \/ read.step = "pick"

\* Got and todo share out the target.
WalkInv ==
  /\ inv \in [Ids -> SUBSET Marks] 
  /\ listed \subseteq Ids /\ found \subseteq Ids /\ todo \subseteq Ids /\ dirSeen \in Nat
  /\ \A b \in Got : Genuine(b, inv[b])
  /\ IF call = "options" /\ Fetching
     THEN /\ listed \subseteq Target /\ todo \subseteq Target /\ Got = Target \ todo
          /\ read.name \in Ids /\ read.step # "pick" => read.name \in todo
     ELSE Got = {}
  /\ call = "options" /\ read.step = "names" => read.name = "BootCurrent" /\ found \cap todo = {}
  /\ read.step = "directory" => call = "options" /\ read.name = "BootOrder"
  /\ call = "options" /\ read.name \in {"BootOrder", "BootCurrent"}
       /\ read.step \notin {"names", "pick"} => found = {}
  /\ call # "options" => listed = {} /\ found = {} /\ todo = {}

\* If the directory still has its stamp, no name came or went since.
Unchanged ==
  /\ \A n \in Names : IF entry[n] = None THEN \A m \in Marks : <<n, m>> \notin had
                      ELSE <<n, None>> \notin had
  /\ read.step = "names" => \A b \in Ids \ todo : b \in found <=> entry[b] # None
  /\ Fetching => \A b \in Ids : b \in found <=> entry[b] # None

StampInv ==
  host = "Linux" /\ call = "options" /\ read.step # "directory" =>
    dirSeen <= dirStamp /\ (dirSeen = dirStamp => Unchanged)

\* A request to restart is on its way only in the last step but one, and never
\* from a process whose token is not as it was.
PowerInv ==
  /\ dispatched \in BOOLEAN
  /\ call \notin {"observe", "done"} => reply = None
  /\ call = "observe" => reply = "Rejected"
  /\ call \notin {"reboot", "observe", "done"} => ~dispatched
  /\ call = "reboot" => (dispatched <=> read.native = "accepted")
  /\ read.native = "accepted" => call = "reboot"
  /\ leaky => \/ call \in {"observe", "done"}
              \/ scope.at = "ended" /\ scope.unclean
  /\ leaky => reply # "Accepted"
  /\ host = "Linux" => ~leaky
  /\ RebootEvidence

IInv == FirmwareInv /\ ControlInv /\ ReadInv /\ WalkInv /\ StampInv /\ PowerInv

-----------------------------------------------------------------------------

\* Marks are numbers, and a write that the bound allows has one.
LEMMA MarksFacts ==
  /\ Marks \subseteq Nat /\ None \notin Marks /\ 0 \in Marks
  /\ FirmwareInv => clock \in Marks
  /\ FirmwareInv /\ clock < MaxMeddles[host] => clock + 1 \in Marks
PROOF
<1>1. \A os \in OSes : MaxMeddles[os] \in Nat /\ 0..MaxMeddles[os] \subseteq Marks
  BY LimitAssumption DEF Marks, OSes
<1>2. Marks \subseteq Nat
  BY <1>1 DEF Marks
<1>3. None \notin Marks
  BY <1>2, LimitAssumption
<1>4. 0 \in Marks
  BY <1>1 DEF OSes
<1>5. ASSUME FirmwareInv PROVE clock \in Marks
  BY <1>1, <1>5 DEF FirmwareInv
<1>6. ASSUME FirmwareInv, clock < MaxMeddles[host] PROVE clock + 1 \in Marks
  BY <1>1, <1>6 DEF FirmwareInv
<1> QED BY <1>2, <1>3, <1>4, <1>5, <1>6

\* The fixed variables and the options have different names.
LEMMA NamesFacts ==
  /\ {"BootOrder", "BootCurrent", "BootNext"} \subseteq Names /\ Ids \subseteq Names
  /\ "BootOrder" \notin Ids /\ "BootCurrent" \notin Ids /\ "BootNext" \notin Ids
  /\ \A n \in Names : n \in Ids \/ n \in {"BootOrder", "BootCurrent", "BootNext"}
BY IdsAssumption DEF Names

LEMMA FreshFields ==
  ASSUME NEW n \in Names
  PROVE  /\ Fresh(n) \in Reads
         /\ Fresh(n).step = "start" /\ Fresh(n).name = n /\ Fresh(n).native = "none"
         /\ Fresh(n).marks = {} /\ Fresh(n).count = 0 /\ Fresh(n).says = {}
BY MarksFacts, LimitAssumption DEF Fresh, Reads, Steps

\* What a firmware of these variables and contents holds.
LEMMA FirmwareContents ==
  ASSUME NEW e \in [Names -> Marks \cup {None}], NEW d \in [Names -> [Marks -> Contents]]
  PROVE  LET holds == {<<n, IF e[n] = None THEN None ELSE d[n][e[n]].mark>> : n \in Names}
         IN  /\ holds \subseteq Names \X (Marks \cup {None})
             /\ \A n \in Names : e[n] = None =>
                  <<n, None>> \in holds /\ \A m \in Marks : <<n, m>> \notin holds
             /\ \A n \in Names : e[n] # None =>
                  <<n, d[n][e[n]].mark>> \in holds /\ <<n, None>> \notin holds
PROOF
<1> DEFINE V(n) == IF e[n] = None THEN None ELSE d[n][e[n]].mark
           holds == {<<n, V(n)>> : n \in Names}
<1>1. \A n \in Names : e[n] # None => e[n] \in Marks /\ d[n][e[n]].mark \in Marks
  BY DEF Contents
<1>2. \A n \in Names : V(n) \in Marks \cup {None}
  BY <1>1
<1>3. \A n \in Names : \A v : <<n, v>> \in holds <=> v = V(n)
  OBVIOUS
<1> QED BY <1>1, <1>2, <1>3, MarksFacts

\* What is in the firmware now.
LEMMA PresentFacts ==
  ASSUME FirmwareInv
  PROVE  /\ Present \subseteq Names \X (Marks \cup {None})
         /\ \A n \in Names : entry[n] = None => <<n, None>> \in Present
         /\ \A n \in Names : entry[n] # None =>
              /\ entry[n] \in Marks /\ <<n, data[n][entry[n]].mark>> \in Present
              /\ <<n, None>> \notin Present
         /\ \A n \in Names : entry[n] = None => \A m \in Marks : <<n, m>> \notin Present
BY FirmwareContents DEF Present, FirmwareInv

-----------------------------------------------------------------------------

LEMMA InvInit == Init => IInv
PROOF
<1> SUFFICES ASSUME Init PROVE IInv
  OBVIOUS
<1>1. read = Fresh("BootOrder") /\ call = "env" /\ clock = 0 /\ dirStamp = 0 /\ had = Present
      /\ inv = [b \in Ids |-> {}] /\ listed = {} /\ found = {} /\ todo = {}
      /\ reply = None /\ dispatched = FALSE
  BY DEF Init
<1>2. FirmwareInv
  <2>1. entry \in [Names -> Marks \cup {None}] /\ \A n \in Names : entry[n] # None => entry[n] = 0
    BY MarksFacts DEF Init
  <2>2. /\ data \in [Names -> [Marks -> Contents]]
        /\ \A n \in Names, i \in Marks : data[n][i].mark = 0
    <3>1. PICK order \in SUBSET Ids, current \in Ids, len \in 1..MaxLength :
            data = [n \in Names |-> [i \in Marks |->
                 [mark |-> 0, len |-> IF n \in Ids THEN len ELSE 1,
                  says |-> CASE n = "BootOrder" -> order
                             [] n = "BootCurrent" -> {current}
                             [] OTHER -> {}]]]
      BY DEF Init
    <3>2. len \in Nat \ {0}
      BY LimitAssumption
    <3>3. \A n \in Names, i \in Marks :
            data[n][i] \in Contents /\ data[n][i].mark = 0
      BY <3>1, <3>2, MarksFacts DEF Contents
    <3> QED BY <3>1, <3>3
  <2>3. Present \subseteq Names \X (Marks \cup {None})
    <3>1. \A n \in Names : entry[n] # None => data[n][entry[n]].mark = 0
      BY <2>1, <2>2, MarksFacts
    <3> QED BY <3>1, MarksFacts DEF Present
  <2>4. host \in OSes /\ MaxMeddles[host] \in Nat
    BY LimitAssumption DEF Init, OSes
  <2> QED BY <1>1, <2>1, <2>2, <2>3, <2>4 DEF FirmwareInv
<1>3. ControlInv
  BY <1>1, FreshFields, NamesFacts, NoScopeType DEF ControlInv, Calls, Init, ScopeInit
<1>4. ReadInv /\ WalkInv /\ StampInv
  <2>1. \A b \in Ids : inv[b] = {}
    BY <1>1
  <2>2. Got = {} /\ inv \in [Ids -> SUBSET Marks]
    BY <1>1, <2>1 DEF Got
  <2>3. ReadInv /\ StampInv
    BY <1>1, FreshFields, NamesFacts DEF ReadInv, StampInv
  <2>4. call # "options" /\ read.step = "start" /\ listed = {} /\ found = {} /\ todo = {}
        /\ dirSeen = 0
    BY <1>1, FreshFields, NamesFacts DEF Init
  <2>5. WalkInv
    BY <2>2, <2>4 DEF WalkInv
  <2> QED BY <2>3, <2>5
<1>5. PowerInv
  <2>1. None \notin {"Accepted", "Rejected"} /\ ~leaky /\ read.native = "none"
    BY <1>1, FreshFields, NamesFacts, LimitAssumption DEF Init, ScopeInit
  <2> QED BY <1>1, <2>1 DEF PowerInv, RebootEvidence
<1> QED BY <1>2, <1>3, <1>4, <1>5 DEF IInv

-----------------------------------------------------------------------------
(* Steps that many actions have in common. *)

\* The firmware is as before, and has been seen to be so.
LEMMA FirmwareKept ==
  ASSUME FirmwareInv, UNCHANGED <<host, firmware>>, had' \in {had, Present}
  PROVE  FirmwareInv' /\ Present' = Present
PROOF
<1>1. Present' = Present
  BY DEF Present, firmware
<1> QED BY <1>1, PresentFacts DEF FirmwareInv, firmware

\* A call that ends forgets its reads and its walk.
LEMMA ReturnClears ==
  ASSUME IInv, Return, UNCHANGED <<host, firmware>>, scope'.at = "none",
         call' \in Calls \ {"env", "options"}
  PROVE  /\ FirmwareInv' /\ ControlInv' /\ ReadInv' /\ WalkInv' /\ StampInv'
         /\ read'.native = "none"
PROOF
<1>1. FirmwareInv'
  BY FirmwareKept DEF IInv, Return
<1>2. /\ read' \in Reads /\ read'.step = "start" /\ read'.name = "BootNext"
      /\ read'.native = "none" /\ read'.marks = {} /\ read'.count = 0
  BY FreshFields, NamesFacts DEF Return
<1>3. ControlInv'
  BY <1>2 DEF IInv, ControlInv
<1>4. ReadInv'
  BY <1>2 DEF ReadInv
<1>5. WalkInv'
  <2>1. inv' \in [Ids -> SUBSET Marks] /\ Got' = {}
    BY DEF Return, Got
  <2> QED BY <1>2, <2>1 DEF Return, WalkInv
<1>6. StampInv'
  BY DEF StampInv
<1> QED BY <1>1, <1>2, <1>3, <1>4, <1>5, <1>6

\* It leaves the request to restart alone, and none is made after a leak.
LEMMA ReturnStep ==
  ASSUME IInv, Return, UNCHANGED <<host, firmware, power>>, leaky' = leaky, scope'.at = "none",
         call' \in {"original", "recheck", "readback", "reboot", "done"},
         call' # "done" => ~leaky /\ call \notin {"reboot", "observe", "done"}
  PROVE  IInv'
PROOF
<1>1. /\ FirmwareInv' /\ ControlInv' /\ ReadInv' /\ WalkInv' /\ StampInv'
      /\ read'.native = "none"
  BY ReturnClears DEF Calls
<1>2. UNCHANGED <<host, reply, dispatched, leaky>>
  BY DEF power
<1>3. PowerInv'
  BY <1>1, <1>2 DEF IInv, PowerInv, RebootEvidence
<1> QED BY <1>1, <1>3 DEF IInv

\* While one variable is read, the walk stands still.
LEMMA ReadOnlyStep ==
  ASSUME IInv, UNCHANGED <<host, firmware, walk, call, had>>,
         read' \in Reads, read'.name = read.name,
         {read.step, read'.step} \cap {"names", "pick", "directory"} = {}
  PROVE  FirmwareInv' /\ WalkInv' /\ StampInv'
PROOF
<1>1. FirmwareInv'
  BY FirmwareKept DEF IInv
<1>2. /\ UNCHANGED <<dirSeen, listed, found, todo, total, inv, host, call, had, entry, dirStamp>>
      /\ Fetching' = Fetching /\ Got' = Got /\ Target' = Target
  BY DEF walk, firmware, Fetching, Got, Target
<1>3. WalkInv'
  BY <1>2 DEF IInv, WalkInv, Genuine
<1>4. StampInv'
  BY <1>2 DEF IInv, StampInv, Unchanged
<1> QED BY <1>1, <1>3, <1>4

\* A variable that read_options has read finds its place in the walk.
LEMMA CollectStep ==
  ASSUME IInv, NEW marks \in SUBSET Marks, NEW count, NEW says \in SUBSET Ids,
         UNCHANGED <<host, firmware, power>>, leaky' = leaky, scope'.at = "none", ~leaky,
         read.step \notin {"names", "pick", "directory"}, call = "options",
         Genuine(read.name, marks),
         Collect(marks, count, says)
  PROVE  IInv'
PROOF
<1>1. CASE Fail
  BY <1>1, ReturnStep DEF Fail
<1>2. CASE ~Fail
  <2>0. /\ total' = total + count /\ UNCHANGED <<dirSeen, found, call, had>>
        /\ \/ /\ read.name = "BootOrder"
              /\ listed' = says /\ UNCHANGED <<todo, inv>>
              /\ read' = Fresh("BootCurrent")
           \/ /\ read.name = "BootCurrent"
              /\ listed' = listed \cup says /\ UNCHANGED inv
              /\ todo' = IF host = "Linux" THEN Ids ELSE listed'
              /\ read' = [read EXCEPT !.step = IF host = "Linux" THEN "names" ELSE "pick"]
           \/ /\ read.name \in Ids
              /\ inv' = [inv EXCEPT ![read.name] = marks]
              /\ todo' = todo \ {read.name} /\ UNCHANGED listed
              /\ read' = [read EXCEPT !.step = "pick"]
    BY <1>2 DEF Collect, Stay
  <2>1. FirmwareInv' /\ UNCHANGED <<entry, dirStamp, host, reply, dispatched>>
    BY <2>0, FirmwareKept DEF IInv, firmware, power
  <2>2. read \in Reads /\ inv \in [Ids -> SUBSET Marks] /\ read.name \in Names
    BY DEF IInv, ControlInv, WalkInv, Reads
  <2>3. ASSUME read' \in Reads, read'.step # "scope", read'.native \in {read.native, "none"},
               read'.name # "BootNext",
               IF host = "Linux" THEN TRUE ELSE read'.step \in {"start", "pick"}
        PROVE  ControlInv' /\ PowerInv'
    <3>1. ControlInv'
      BY <2>0, <2>1, <2>3 DEF IInv, ControlInv
    <3>2. PowerInv'
      BY <2>0, <2>1, <2>3 DEF IInv, PowerInv, RebootEvidence
    <3> QED BY <3>1, <3>2
  <2>4. CASE /\ read.name = "BootOrder"
             /\ listed' = says /\ UNCHANGED <<todo, inv>>
             /\ read' = Fresh("BootCurrent")
    <3>1. /\ read' \in Reads /\ read'.step = "start" /\ read'.name = "BootCurrent"
          /\ read'.native = "none" /\ read'.marks = {} /\ read'.count = 0
      BY <2>4, FreshFields, NamesFacts
    <3>2. ReadInv'
      BY <3>1 DEF ReadInv
    <3>3. Got = {} /\ found = {} /\ Got' = Got
      BY <2>4, NamesFacts DEF IInv, WalkInv, Fetching, Got
    <3>4. WalkInv'
      BY <2>0, <2>4, <3>1, <3>3, NamesFacts DEF IInv, WalkInv, Fetching
    <3>5. StampInv'
      BY <2>0, <2>1, <3>1, <2>4, NamesFacts DEF IInv, StampInv, Unchanged, Fetching
    <3> QED BY <2>1, <2>3, <3>1, <3>2, <3>4, <3>5 DEF IInv
  <2>5. CASE /\ read.name = "BootCurrent"
             /\ listed' = listed \cup says /\ UNCHANGED inv
             /\ todo' = IF host = "Linux" THEN Ids ELSE listed'
             /\ read' = [read EXCEPT !.step = IF host = "Linux" THEN "names" ELSE "pick"]
    <3>1. /\ read' \in Reads /\ read'.name = "BootCurrent" /\ read'.native = read.native
          /\ read'.marks = read.marks /\ read'.count = read.count
          /\ read'.step = IF host = "Linux" THEN "names" ELSE "pick"
      BY <2>2, <2>5 DEF Reads, Steps
    <3>2. ReadInv'
      BY <2>0, <2>1, <2>5, <3>1 DEF IInv, ReadInv
    <3>3. Got = {} /\ found = {} /\ Got' = Got
      BY <2>5, NamesFacts DEF IInv, WalkInv, Fetching, Got
    <3>4. WalkInv'
      BY <2>0, <2>1, <2>5, <3>1, <3>3, NamesFacts DEF IInv, WalkInv, Fetching, Target
    <3>5. StampInv'
      BY <2>0, <2>1, <3>1, <2>5, NamesFacts DEF IInv, StampInv, Unchanged, Fetching
    <3> QED BY <2>1, <2>3, <3>1, <3>2, <3>4, <3>5 DEF IInv
  <2>6. CASE /\ read.name \in Ids
             /\ inv' = [inv EXCEPT ![read.name] = marks]
             /\ todo' = todo \ {read.name} /\ UNCHANGED listed
             /\ read' = [read EXCEPT !.step = "pick"]
    <3>1. /\ read' \in Reads /\ read'.name = read.name /\ read'.native = read.native
          /\ read'.marks = read.marks /\ read'.count = read.count /\ read'.step = "pick"
      BY <2>2, <2>6 DEF Reads, Steps
    <3>2. ReadInv'
      BY <2>0, <2>1, <2>6, <3>1 DEF IInv, ReadInv
    <3>3. marks # {} /\ inv' \in [Ids -> SUBSET Marks] /\ Got' = Got \cup {read.name}
      BY <2>2, <2>6 DEF Got, Genuine
    <3>4. \A b \in Got' : Genuine(b, inv[b])'
      <4>1. \A b \in Ids \ {read.name} : inv'[b] = inv[b]
        BY <2>2, <2>6
      <4>2. inv'[read.name] = marks
        BY <2>2, <2>6
      <4>3. \A b \in Got' : Genuine(b, inv'[b])
        BY <2>0, <3>3, <4>1, <4>2 DEF IInv, WalkInv, Got
      <4> QED BY <2>0, <4>3 DEF Genuine
    <3>5. /\ listed \subseteq Target /\ todo \subseteq Target /\ Got = Target \ todo
          /\ read.name \in todo /\ Target' = Target
      BY <2>0, <2>1, <2>6 DEF IInv, WalkInv, Fetching, Target
    <3>6. WalkInv'
      BY <2>0, <2>1, <2>6, <3>1, <3>3, <3>4, <3>5, NamesFacts DEF IInv, WalkInv, Fetching
    <3>7. StampInv'
      BY <2>0, <2>1, <3>1, <2>6, NamesFacts DEF IInv, StampInv, Unchanged, Fetching
    <3> QED BY <2>1, <2>2, <2>3, <2>6, <3>1, <3>2, <3>6, <3>7, NamesFacts DEF IInv
  <2> QED BY <2>0, <2>4, <2>5, <2>6
<1> QED BY <1>1, <1>2

\* So do all values that a call returns.
LEMMA AcceptStep ==
  ASSUME IInv, NEW marks, NEW count, NEW says \in SUBSET Ids,
         UNCHANGED <<host, firmware, power>>, leaky' = leaky, scope'.at = "none",
         call # "observe" => ~leaky,
         read.step \notin {"names", "pick", "directory"},
         call = "options" => marks \in SUBSET Marks /\ Genuine(read.name, marks),
         Accept(marks, count, says)
  PROVE  IInv'
PROOF
<1>1. CASE call = "options" /\ Collect(marks, count, says)
  BY <1>1, CollectStep
<1>2. CASE call = "original" /\ GoOn(IF marks = {None} THEN "recheck" ELSE "readback")
  BY <1>2, ReturnStep DEF GoOn
<1>3. CASE call = "recheck" /\ GoOn("readback")
  BY <1>3, ReturnStep DEF GoOn
<1>4. CASE call = "readback" /\ GoOn("reboot")
  BY <1>4, ReturnStep DEF GoOn
<1>5. CASE call = "readback" /\ Fail
  BY <1>5, ReturnStep DEF Fail
<1>6. CASE call = "observe" /\ GoOn("done")
  BY <1>6, ReturnStep DEF GoOn
<1> QED BY <1>1, <1>2, <1>3, <1>4, <1>5, <1>6 DEF Accept

-----------------------------------------------------------------------------
(* The actions, one lemma for those of one part. *)

\* The check of the environment, and the start of the enumeration.
LEMMA EnvironmentStep ==
  ASSUME IInv, CheckDirectory \/ CheckProbe \/ CheckFirmwareType
  PROVE  IInv'
PROOF
<1>1. /\ call = "env" /\ UNCHANGED <<scopeVars, host, firmware, power>>
      /\ Fail \/ Start \/ (host = "Linux" /\ read.step = "start" /\ Stay /\ UNCHANGED walk
                           /\ read' = [read EXCEPT !.step = "probe"])
  BY DEF CheckDirectory, CheckProbe, CheckFirmwareType
<1>2. /\ scope.at = "none" /\ scope' = scope /\ leaky' = leaky /\ ~leaky
      /\ UNCHANGED <<host, reply, dispatched>>
  BY <1>1 DEF IInv, ControlInv, PowerInv, scopeVars, power
<1>3. CASE Fail
  BY <1>1, <1>2, <1>3, ReturnStep DEF Fail
<1>4. CASE Start
  <2>1. /\ read' \in Reads /\ read'.name = "BootOrder" /\ read'.native = "none"
        /\ read'.marks = {} /\ read'.count = 0
        /\ read'.step = IF host = "Linux" THEN "directory" ELSE "start"
    BY <1>4, FreshFields, NamesFacts DEF Start, Reads, Steps
  <2>2. call' = "options" /\ had' = Present /\ UNCHANGED walk
    BY <1>4 DEF Start
  <2>3. FirmwareInv'
    BY <1>1, <2>2, FirmwareKept DEF IInv
  <2>4. ControlInv'
    BY <1>2, <2>1, <2>2 DEF IInv, ControlInv, Calls, FirmwareInv, OSes
  <2>5. ReadInv'
    BY <1>2, <2>1 DEF ReadInv
  <2>6. WalkInv'
    <3>1. /\ Got = {} /\ Got' = Got /\ found' = found /\ found = {}
          /\ UNCHANGED <<inv, listed, todo, dirSeen>>
      BY <1>1, <2>2 DEF IInv, WalkInv, Got, walk
    <3> QED BY <2>1, <2>2, <3>1, NamesFacts DEF IInv, WalkInv, Fetching
  <2>7. StampInv'
    BY <1>2, <2>1 DEF StampInv
  <2>8. PowerInv'
    BY <1>1, <1>2, <2>1, <2>2 DEF IInv, PowerInv, RebootEvidence
  <2> QED BY <2>3, <2>4, <2>5, <2>6, <2>7, <2>8 DEF IInv
<1>5. CASE /\ host = "Linux" /\ read.step = "start" /\ Stay /\ UNCHANGED walk
           /\ read' = [read EXCEPT !.step = "probe"]
  <2>1. /\ read' \in Reads /\ read'.step = "probe" /\ read'.name = read.name
        /\ read'.native = read.native /\ read'.marks = read.marks /\ read'.count = read.count
        /\ call' = call /\ had' = had
    BY <1>5 DEF IInv, ControlInv, Reads, Steps, Stay
  <2>2. FirmwareInv' /\ WalkInv' /\ StampInv'
    BY <1>1, <1>5, <2>1, ReadOnlyStep
  <2>3. ControlInv' /\ ReadInv'
    BY <1>1, <1>2, <1>5, <2>1 DEF IInv, ControlInv, ReadInv
  <2>4. PowerInv'
    BY <1>1, <1>2, <2>1 DEF IInv, PowerInv, RebootEvidence
  <2> QED BY <2>2, <2>3, <2>4 DEF IInv
<1> QED BY <1>1, <1>3, <1>4, <1>5

\* The walk of the directory, and the end of the enumeration.
LEMMA WalkStep ==
  ASSUME IInv,
         \/ DirectoryBefore \/ Discovered \/ Finish
         \/ \E b \in Ids : ReadName(b) \/ Pick(b)
  PROVE  IInv'
PROOF
<1>1. /\ call = "options" /\ UNCHANGED <<scopeVars, host, firmware, power>>
      /\ read.step \in {"directory", "names", "pick"}
  BY DEF DirectoryBefore, Discovered, Finish, ReadName, Pick, InOptions
<1>2. /\ scope.at = "none" /\ scope' = scope /\ leaky' = leaky /\ ~leaky
      /\ UNCHANGED <<host, reply, dispatched, entry, dirStamp>>
  BY <1>1 DEF IInv, ControlInv, PowerInv, scopeVars, power, firmware
<1>3. ASSUME call' = call, read' \in Reads, read'.native \in {read.native, "none"}
      PROVE  PowerInv'
  BY <1>1, <1>2, <1>3 DEF IInv, PowerInv, RebootEvidence
<1>4. read \in Reads /\ read.name \in Names /\ read.name # "BootNext"
  BY <1>1 DEF IInv, ControlInv, Reads
<1>5. CASE DirectoryBefore
  <2>1. /\ read' \in Reads /\ read'.step = "start" /\ read'.name = read.name
        /\ read'.native = read.native /\ read'.marks = read.marks /\ read'.count = read.count
        /\ call' = call /\ had' = Present /\ dirSeen' = dirStamp
        /\ read.step = "directory" /\ UNCHANGED <<listed, found, todo, total, inv>>
    BY <1>4, <1>5 DEF DirectoryBefore, Reads, Steps, InOptions
  <2>2. host = "Linux" /\ read.marks = {} /\ read.count = 0 /\ read.native = "none"
        /\ read.name = "BootOrder"
    BY <1>1, <2>1 DEF IInv, ControlInv, ReadInv, WalkInv, FirmwareInv, OSes
  <2>3. FirmwareInv'
    BY <1>1, <2>1, FirmwareKept DEF IInv
  <2>4. ControlInv'
    BY <1>1, <1>2, <2>1, <2>2 DEF IInv, ControlInv
  <2>5. ReadInv'
    BY <1>2, <2>1, <2>2 DEF ReadInv
  <2>6. WalkInv'
    <3>1. Got = {} /\ Got' = Got
      BY <2>1, <2>2, NamesFacts DEF IInv, WalkInv, Got, Fetching
    <3>2. dirSeen' \in Nat
      BY <2>1 DEF IInv, FirmwareInv
    <3> QED BY <1>1, <2>1, <2>2, <3>1, <3>2, NamesFacts DEF IInv, WalkInv, Fetching
  <2>7. StampInv'
    <3>1. dirSeen' <= dirStamp'
      BY <1>2, <2>1 DEF IInv, FirmwareInv
    <3>2. \A n \in Names : IF entry[n] = None THEN \A m \in Marks : <<n, m>> \notin Present
                           ELSE <<n, None>> \notin Present
      BY PresentFacts DEF IInv
    <3> QED BY <1>2, <2>1, <2>2, <3>1, <3>2, NamesFacts DEF StampInv, Unchanged, Fetching
  <2> QED BY <1>3, <2>1, <2>3, <2>4, <2>5, <2>6, <2>7 DEF IInv
<1>6. ASSUME NEW b \in Ids, ReadName(b) PROVE IInv'
  <2>1. /\ call' = call /\ had' = had /\ read' = read /\ read.step = "names" /\ b \in todo
        /\ todo' = todo \ {b} /\ found' = found \cup {x \in {b} : entry[x] # None}
        /\ UNCHANGED <<dirSeen, listed, total, inv>>
    BY <1>6 DEF ReadName, InOptions, Stay
  <2>2. host = "Linux" /\ read.name = "BootCurrent"
    BY <1>1, <2>1 DEF IInv, ControlInv, WalkInv, FirmwareInv, OSes
  <2>3. FirmwareInv'
    BY <1>1, <2>1, FirmwareKept DEF IInv
  <2>4. ControlInv'
    BY <1>1, <1>2, <2>1 DEF IInv, ControlInv
  <2>5. ReadInv'
    BY <1>2, <2>1, <2>2 DEF IInv, ReadInv
  <2>6. WalkInv'
    <3>1. Got = {} /\ Got' = Got
      BY <2>1, <2>2, NamesFacts DEF IInv, WalkInv, Got, Fetching
    <3> QED BY <1>1, <2>1, <2>2, <3>1, NamesFacts DEF IInv, WalkInv, Fetching
  <2>7. StampInv'
    <3>1. ASSUME Unchanged PROVE Unchanged'
      <4>1. ~Fetching' /\ read'.step = "names"
        BY <2>1, <2>2, NamesFacts DEF Fetching
      <4>2. \A x \in Ids \ todo : x \in found <=> entry[x] # None
        BY <2>1, <3>1 DEF Unchanged
      <4>3. \A x \in Ids \ todo' : x \in found' <=> entry[x] # None
        <5>1. \A x \in Ids \ todo' : x # b => x \in Ids \ todo
          BY <2>1
        <5>2. \A x \in Ids : x # b => (x \in found' <=> x \in found)
          BY <2>1
        <5>3. entry[b] # None => b \in found'
          BY <2>1
        <5>4. b \notin found
          BY <1>1, <2>1 DEF IInv, WalkInv
        <5> QED BY <2>1, <4>2, <5>1, <5>2, <5>3, <5>4
      <4> QED BY <1>2, <2>1, <3>1, <4>1, <4>3 DEF Unchanged
    <3> QED BY <1>1, <1>2, <2>1, <2>2, <3>1 DEF IInv, StampInv
  <2> QED BY <1>3, <1>4, <2>1, <2>3, <2>4, <2>5, <2>6, <2>7 DEF IInv
<1>7. CASE Discovered
  <2>1. read.step = "names" /\ todo = {}
    BY <1>7 DEF Discovered, InOptions
  <2>2. CASE Fail
    BY <1>1, <1>2, <2>2, ReturnStep DEF Fail
  <2>3. CASE /\ listed \subseteq found /\ todo' = found
             /\ read' = [read EXCEPT !.step = "pick"] /\ Stay
             /\ UNCHANGED <<dirSeen, listed, found, total, inv>>
    <3>1. /\ read' \in Reads /\ read'.step = "pick" /\ read'.name = read.name
          /\ read'.native = read.native /\ read'.marks = read.marks /\ read'.count = read.count
          /\ call' = call /\ had' = had
      BY <1>4, <2>3 DEF Reads, Steps, Stay
    <3>2. host = "Linux" /\ read.name = "BootCurrent"
      BY <1>1, <2>1 DEF IInv, ControlInv, WalkInv, FirmwareInv, OSes
    <3>3. FirmwareInv'
      BY <1>1, <3>1, FirmwareKept DEF IInv
    <3>4. ControlInv'
      BY <1>1, <1>2, <3>1, <3>2 DEF IInv, ControlInv
    <3>5. ReadInv'
      BY <1>2, <3>1, <3>2 DEF IInv, ReadInv
    <3>6. WalkInv'
      <4>1. Got = {} /\ Got' = Got /\ Target' = found
        BY <1>2, <2>1, <2>3, <3>2, NamesFacts DEF IInv, WalkInv, Got, Fetching, Target
      <4> QED BY <1>1, <2>3, <3>1, <3>2, <4>1, NamesFacts DEF IInv, WalkInv, Fetching
    <3>7. StampInv'
      <4>1. ASSUME Unchanged PROVE Unchanged'
        BY <1>2, <2>1, <2>3, <3>1, <4>1 DEF Unchanged
      <4> QED BY <1>1, <1>2, <2>1, <2>3, <3>1, <3>2, <4>1 DEF IInv, StampInv
    <3> QED BY <1>3, <3>1, <3>3, <3>4, <3>5, <3>6, <3>7 DEF IInv
  <2> QED BY <1>7, <2>2, <2>3 DEF Discovered
<1>8. ASSUME NEW b \in Ids, Pick(b) PROVE IInv'
  <2>1. /\ read' \in Reads /\ read'.step = "start" /\ read'.name = b
        /\ read'.native = "none" /\ read'.marks = {} /\ read'.count = 0
        /\ read.step = "pick" /\ b \in todo /\ call' = call /\ had' = had
        /\ UNCHANGED <<dirSeen, listed, found, todo, total, inv>>
    BY <1>8, FreshFields, NamesFacts DEF Pick, InOptions, Stay, walk
  <2>2. FirmwareInv'
    BY <1>1, <2>1, FirmwareKept DEF IInv
  <2>3. ControlInv'
    BY <1>1, <1>2, <2>1, NamesFacts DEF IInv, ControlInv
  <2>4. ReadInv'
    BY <2>1 DEF ReadInv
  <2>5. WalkInv'
    <3>1. Got' = Got /\ Target' = Target /\ Fetching /\ Fetching'
      BY <1>2, <2>1 DEF Got, Fetching, Target
    <3> QED BY <1>1, <2>1, <3>1, NamesFacts DEF IInv, WalkInv, Genuine
  <2>6. StampInv'
    <3>1. ASSUME Unchanged PROVE Unchanged'
      BY <1>2, <2>1, <3>1 DEF Unchanged, Fetching
    <3> QED BY <1>1, <1>2, <2>1, <3>1 DEF IInv, StampInv
  <2> QED BY <1>3, <2>1, <2>2, <2>3, <2>4, <2>5, <2>6 DEF IInv
<1>9. CASE Finish
  BY <1>1, <1>2, <1>9, ReturnStep DEF Finish, Fail, GoOn
<1> QED BY <1>5, <1>6, <1>7, <1>8, <1>9

\* A variable whose metadata is the same before and after was read whole.
LEMMA ReopenedIsGenuine ==
  ASSUME FirmwareInv, ControlInv, ReadInv, host = "Linux", read.step = "reopen",
         entry[read.name] # None, Metadata(entry[read.name]) = read.before
  PROVE  Genuine(read.name, read.marks)
PROOF
<1> DEFINE file == entry[read.name]
           m == data[read.name][file].mark
           len == data[read.name][file].len
<1>1. read \in Reads /\ Snapshot /\ read.count = read.before[3]
  BY DEF ControlInv, ReadInv
<1>2. read.before = <<file, m, len>>
  BY DEF Metadata
<1>3. file \in Marks /\ m \in Marks /\ len \in Nat \ {0}
  BY <1>1 DEF FirmwareInv, Reads, Contents
<1>4. file = read.file /\ read.before[2] = m /\ read.before[3] = len
  BY <1>1, <1>2 DEF Snapshot
<1>5. read.marks = {m}
  BY <1>1, <1>3, <1>4 DEF Snapshot
<1> QED BY <1>3, <1>5 DEF ReadInv, Genuine

\* Linux reads a variable between two looks at its metadata.
LEMMA LinuxReadStep ==
  ASSUME IInv, OpenVariable \/ StatBefore \/ ReadChunk \/ StatAfter \/ Reopen \/ CallFails
  PROVE  IInv'
PROOF
<1>1. /\ host = "Linux" /\ call \notin {"env", "reboot", "done"}
      /\ UNCHANGED <<scopeVars, host, firmware, power>>
  BY DEF OpenVariable, StatBefore, ReadChunk, StatAfter, Reopen, CallFails, Reading
<1>2. /\ scope.at = "none" /\ scope' = scope /\ leaky' = leaky /\ ~leaky
      /\ UNCHANGED <<reply, dispatched, entry, data, clock, dirStamp>>
  BY <1>1 DEF IInv, ControlInv, PowerInv, scopeVars, power, firmware
<1>3. /\ read \in Reads /\ read.name \in Names
      /\ data \in [Names -> [Marks -> Contents]]
  BY DEF IInv, ControlInv, Reads, FirmwareInv
<1>4. CASE Fail
  BY <1>1, <1>2, <1>4, ReturnStep DEF Fail
<1>5. ASSUME Stay, UNCHANGED walk, read' \in Reads, read'.name = read.name,
             read'.native = read.native, ReadInv',
             {read.step, read'.step} \subseteq {"start", "before", "chunk", "after", "reopen"}
      PROVE  IInv'
  <2>1. call' = call /\ had' = had
    BY <1>5 DEF Stay
  <2>2. FirmwareInv' /\ WalkInv' /\ StampInv'
    BY <1>1, <1>5, <2>1, ReadOnlyStep
  <2>3. ControlInv'
    BY <1>1, <1>2, <1>5, <2>1 DEF IInv, ControlInv
  <2>4. PowerInv'
    BY <1>1, <1>2, <1>5, <2>1 DEF IInv, PowerInv, RebootEvidence
  <2> QED BY <1>5, <2>2, <2>3, <2>4 DEF IInv
<1>6. CASE OpenVariable
  <2>1. CASE /\ entry[read.name] # None
             /\ read' = [read EXCEPT !.step = "before", !.file = entry[read.name]]
             /\ Stay /\ UNCHANGED walk
    <3>1. entry[read.name] \in Marks /\ entry[read.name] <= clock
      BY <1>3, <2>1 DEF IInv, FirmwareInv
    <3>2. /\ read' \in Reads /\ read'.step = "before" /\ read'.name = read.name
          /\ read'.native = read.native /\ read'.marks = read.marks /\ read'.count = read.count
          /\ read'.file = entry[read.name] /\ read.step = "start"
      BY <1>3, <1>6, <2>1, <3>1 DEF Reads, Steps, OpenVariable, Reading
    <3>3. ReadInv'
      BY <1>1, <1>2, <2>1, <3>1, <3>2 DEF IInv, ReadInv, Stay
    <3> QED BY <1>5, <2>1, <3>2, <3>3
  <2>2. CASE read.name = "BootNext" /\ Accept({None}, 0, {})
    <3>1. call \in Calls /\ call # "options" /\ read.step = "start"
      BY <1>6, <2>2 DEF IInv, ControlInv, OpenVariable, Reading
    <3> QED BY <1>1, <1>2, <2>2, <3>1, AcceptStep
  <2> QED BY <1>4, <1>6, <2>1, <2>2 DEF OpenVariable
<1>7. CASE StatBefore
  <2>1. CASE /\ read' = [read EXCEPT !.step = "chunk", !.before = Metadata(read.file)]
             /\ Stay /\ UNCHANGED walk
    <3>1. /\ read.file \in Marks /\ data[read.name][read.file] \in Contents
          /\ read.step = "before"
      BY <1>3, <1>7 DEF Reads, StatBefore, Reading
    <3>2. Metadata(read.file) \in Marks \X Marks \X (Nat \ {0})
      BY <3>1 DEF Metadata, Contents
    <3>3. /\ read' \in Reads /\ read'.step = "chunk" /\ read'.name = read.name
          /\ read'.native = read.native /\ read'.marks = read.marks /\ read'.count = read.count
          /\ read'.file = read.file /\ read'.before = Metadata(read.file)
      BY <1>3, <2>1, <3>2 DEF Reads, Steps
    <3>4. read.marks = {} /\ read.count = 0 /\ read.file <= clock /\ read.native = "none"
      BY <1>1, <3>1 DEF IInv, ReadInv
    <3>5. Snapshot'
      <4>1. data[read.name][read.file].mark \in Nat
        BY <3>1, MarksFacts DEF Contents
      <4> QED BY <1>2, <3>2, <3>3, <3>4, <4>1 DEF Snapshot, Metadata
    <3>6. ReadInv'
      BY <1>1, <1>2, <2>1, <3>3, <3>4, <3>5 DEF ReadInv, Stay
    <3> QED BY <1>5, <2>1, <3>1, <3>3, <3>6
  <2> QED BY <1>4, <1>7, <2>1 DEF StatBefore
<1>8. CASE ReadChunk
  <2> DEFINE c == data[read.name][read.file]
  <2>1. read.step = "chunk" /\ read.file \in Marks /\ c \in Contents
    BY <1>3, <1>8 DEF Reads, ReadChunk, Reading
  <2>2. Snapshot /\ read.file <= clock /\ read.native = "none"
    BY <1>1, <2>1 DEF IInv, ReadInv
  <2>3. CASE /\ Linked
             /\ read' = [read EXCEPT !.marks = @ \cup {c.mark}, !.count = @ + 1, !.says = c.says]
             /\ Stay /\ UNCHANGED walk
    <3>1. c.mark \in Marks /\ c.says \subseteq Ids
      BY <2>1 DEF Contents
    <3>2. /\ read' \in Reads /\ read'.step = "chunk" /\ read'.name = read.name
          /\ read'.native = read.native /\ read'.marks = read.marks \cup {c.mark}
          /\ read'.file = read.file /\ read'.before = read.before
      <4> DEFINE marks == read.marks \cup {c.mark}
                 count == read.count + 1
      <4>1. marks \in SUBSET Marks /\ count \in Nat /\ c.says \in SUBSET Ids
        BY <1>3, <3>1 DEF Reads
      <4>2. read' = [read EXCEPT !.marks = marks, !.count = count, !.says = c.says]
        BY <2>3
      <4> HIDE DEF c, marks, count
      <4>3. /\ read' \in Reads /\ read'.step = read.step /\ read'.name = read.name
            /\ read'.native = read.native /\ read'.marks = marks
            /\ read'.file = read.file /\ read'.before = read.before
        BY <1>3, <4>1, <4>2 DEF Reads
      <4> QED BY <2>1, <4>3 DEF marks
    <3>3. <<read.name, c.mark>> \in had
      BY <1>3, <2>3, PresentFacts DEF Linked, IInv, FirmwareInv
    <3>4. Snapshot'
      BY <1>2, <2>2, <3>2 DEF Snapshot
    <3>5. ReadInv'
      BY <1>1, <1>2, <2>2, <2>3, <3>2, <3>3, <3>4 DEF IInv, ReadInv, Stay
    <3> QED BY <1>5, <2>1, <2>3, <3>2, <3>5
  <2>4. CASE read' = [read EXCEPT !.step = "after"] /\ Stay /\ UNCHANGED walk
    <3>1. /\ read' \in Reads /\ read'.step = "after" /\ read'.name = read.name
          /\ read'.native = read.native /\ read'.marks = read.marks /\ read'.count = read.count
          /\ read'.file = read.file /\ read'.before = read.before
      BY <1>3, <2>4 DEF Reads, Steps
    <3>2. Snapshot'
      BY <1>2, <2>2, <3>1 DEF Snapshot
    <3>3. ReadInv'
      BY <1>1, <1>2, <2>2, <2>4, <3>1, <3>2 DEF IInv, ReadInv, Stay
    <3> QED BY <1>5, <2>1, <2>4, <3>1, <3>3
  <2> QED BY <1>4, <1>8, <2>3, <2>4 DEF ReadChunk
<1>9. CASE StatAfter
  <2>1. Snapshot /\ read.file <= clock /\ read.native = "none" /\ read.step = "after"
    BY <1>1, <1>9 DEF IInv, ReadInv, StatAfter, Reading
  <2>2. CASE /\ read.count = read.before[3]
             /\ read' = [read EXCEPT !.step = "reopen"] /\ Stay /\ UNCHANGED walk
    <3>1. /\ read' \in Reads /\ read'.step = "reopen" /\ read'.name = read.name
          /\ read'.native = read.native /\ read'.marks = read.marks /\ read'.count = read.count
          /\ read'.file = read.file /\ read'.before = read.before
      BY <1>3, <2>2 DEF Reads, Steps
    <3>2. Snapshot'
      BY <1>2, <2>1, <3>1 DEF Snapshot
    <3>3. ReadInv'
      BY <1>1, <1>2, <2>1, <2>2, <3>1, <3>2 DEF IInv, ReadInv, Stay
    <3> QED BY <1>5, <2>1, <2>2, <3>1, <3>3
  <2> QED BY <1>4, <1>9, <2>2 DEF StatAfter
<1>10. CASE Reopen
  <2>1. CASE /\ entry[read.name] # None /\ Metadata(entry[read.name]) = read.before
             /\ Accept(read.marks, read.count, read.says)
    <3>1. read.step = "reopen" /\ read.marks \in SUBSET Marks /\ read.says \in SUBSET Ids
      BY <1>3, <1>10 DEF Reopen, Reading, Reads
    <3>2. Genuine(read.name, read.marks)
      BY <1>1, <2>1, <3>1, ReopenedIsGenuine DEF IInv
    <3>3. call \in Calls
      BY DEF IInv, ControlInv
    <3> QED BY <1>1, <1>2, <2>1, <3>1, <3>2, <3>3, AcceptStep DEF Calls
  <2> QED BY <1>4, <1>10, <2>1 DEF Reopen
<1>11. CASE CallFails
  BY <1>4, <1>11 DEF CallFails
<1> QED BY <1>6, <1>7, <1>8, <1>9, <1>10, <1>11

\* What the steps of a scope make of it.
LEMMA ScopeFacts ==
  ASSUME ScopeInv
  PROVE  /\ \A p \in Privileges : Acquire(p) =>
              /\ scope.at = "none" /\ scope'.at \in {"lookup", "ended"} /\ leaky' = leaky
         /\ \A o \in Outcomes : Operated(o) =>
              /\ scope.at = "operate" /\ scope'.at = "restore" /\ leaky' = leaky
         /\ Dispose => scope.at = "ended" /\ scope'.at = "none" /\ leaky' = leaky
         /\ ScopeStep =>
              /\ scope.at \notin {"none", "ended"} /\ scope'.at # "none"
              /\ leaky' => leaky \/ (scope'.at = "ended" /\ scope'.unclean)
PROOF
<1>1. scope \in Scopes
  BY DEF ScopeInv, ScopeTypeOK
<1>2. ASSUME NEW p \in Privileges, Acquire(p)
      PROVE  scope.at = "none" /\ scope'.at \in {"lookup", "ended"} /\ leaky' = leaky
  BY <1>2, NoScopeType DEF Acquire, Scopes
<1>3. ASSUME NEW o \in Outcomes, Operated(o)
      PROVE  scope.at = "operate" /\ scope'.at = "restore" /\ leaky' = leaky
  BY <1>1, <1>3 DEF Operated, Scopes
<1>4. ASSUME Dispose
      PROVE  scope.at = "ended" /\ scope'.at = "none" /\ leaky' = leaky
  BY <1>4, NoScopeType DEF Dispose
<1>5. ASSUME ScopeStep
      PROVE  /\ scope.at \notin {"none", "ended"} /\ scope'.at # "none"
             /\ leaky' => leaky \/ (scope'.at = "ended" /\ scope'.unclean)
  <2>1. CASE Lookup
    BY <1>1, <2>1 DEF Lookup, Scopes
  <2>2. CASE Enable
    <3>1. PICK a \in Adjusted(scope.priv, "on") :
            scope' = [scope EXCEPT !.prior = a.prior,
                                   !.at = IF a.good THEN "operate" ELSE "restore",
                                   !.said = IF a.good THEN @ ELSE "failed"]
      BY <2>2 DEF Enable
    <3>2. scope'.at \in {"operate", "restore"}
      BY <1>1, <3>1 DEF Scopes
    <3> QED BY <2>2, <3>2 DEF Enable
  <2>3. CASE Restore
    <3>1. scope'.at = "close"
      BY <1>1, <2>3 DEF Restore, Scopes
    <3> QED BY <2>3, <3>1 DEF Restore
  <2>4. CASE Close
    BY <1>1, <2>4 DEF Close, Scopes
  <2> QED BY <1>5, <2>1, <2>2, <2>3, <2>4 DEF ScopeStep
<1> QED BY <1>2, <1>3, <1>4, <1>5

\* Windows reads a variable, or asks for a restart, within a scope.
LEMMA WindowsStep ==
  ASSUME IInv, ScopeInv, EnterRead \/ NativeRead \/ InScope \/ EnterReboot \/ InitiateShutdown
  PROVE  IInv'
PROOF
<1>1. UNCHANGED <<host, firmware, walk, call, had, reply>>
  BY DEF EnterRead, NativeRead, InScope, EnterReboot, InitiateShutdown, Stay, power
<1>2. /\ read \in Reads /\ read.name \in Names
      /\ data \in [Names -> [Marks -> Contents]]
  BY DEF IInv, ControlInv, Reads, FirmwareInv
<1>3. /\ Acquire("SystemEnvironment") =>
           scope.at = "none" /\ scope'.at # "none" /\ leaky' = leaky
      /\ Acquire("Shutdown") => scope.at = "none" /\ scope'.at # "none" /\ leaky' = leaky
      /\ Operated("ok") \/ Operated("failed") \/ Operated("panic") =>
           scope.at = "operate" /\ scope'.at # "none" /\ leaky' = leaky
  BY ScopeFacts, PrivilegesAssumption DEF Outcomes
<1>4. ASSUME host = "Windows", scope'.at # "none", leaky' => leaky \/ (scope'.at = "ended" /\ scope'.unclean),
             scope.at # "ended",
             read' \in Reads, read'.step = "scope", read'.name = read.name,
             read.step \in {"start", "scope"}, call \notin {"env", "done"},
             ReadInv', call = "reboot" => (dispatched' <=> read'.native = "accepted"),
             read'.native = "accepted" => call = "reboot",
             dispatched' \in BOOLEAN, call # "reboot" => dispatched' = dispatched
      PROVE  IInv'
  <2>1. FirmwareInv' /\ WalkInv' /\ StampInv'
    BY <1>1, <1>4, ReadOnlyStep
  <2>2. ControlInv'
    BY <1>1, <1>4 DEF IInv, ControlInv
  <2>3. PowerInv'
    BY <1>1, <1>4, LimitAssumption DEF IInv, PowerInv, RebootEvidence
  <2> QED BY <1>4, <2>1, <2>2, <2>3 DEF IInv
<1>5. CASE EnterRead
  <2>1. /\ host = "Windows" /\ call \notin {"env", "reboot", "done"} /\ read.step = "start"
        /\ Acquire("SystemEnvironment") /\ UNCHANGED <<reply, dispatched>>
        /\ read' = [read EXCEPT !.step = "scope", !.native = "failed"]
    BY <1>5 DEF EnterRead, power
  <2>2. /\ read' \in Reads /\ read'.step = "scope" /\ read'.name = read.name
        /\ read'.native = "failed" /\ read'.marks = read.marks
    BY <1>2, <2>1 DEF Reads, Steps
  <2>3. ReadInv'
    BY <1>1, <2>1, <2>2 DEF IInv, ReadInv
  <2> QED BY <1>3, <1>4, <2>1, <2>2, <2>3 DEF IInv, PowerInv
<1>6. CASE NativeRead
  <2>1. /\ host = "Windows" /\ call \notin {"env", "reboot", "done"} /\ read.step = "scope"
        /\ Operated("ok") \/ Operated("failed") \/ Operated("panic")
        /\ UNCHANGED <<reply, dispatched>>
    BY <1>6 DEF NativeRead, Attempting, power
  <2>2. /\ read' \in Reads /\ read'.step = "scope" /\ read'.name = read.name
        /\ read'.native = "accepted" => read.native = "accepted"
        /\ ReadInv'
    <3>1. CASE UNCHANGED read
      BY <1>1, <1>2, <2>1, <3>1 DEF IInv, ReadInv
    <3>2. CASE entry[read.name] # None /\ read' = [read EXCEPT !.native = "small"]
      <4>1. /\ read' \in Reads /\ read'.step = read.step /\ read'.name = read.name
            /\ read'.native = "small" /\ read'.marks = read.marks
        BY <1>2, <3>2 DEF Reads
      <4> QED BY <1>1, <2>1, <4>1 DEF IInv, ReadInv
    <3>3. ASSUME NEW c \in Contents, c = data[read.name][entry[read.name]], entry[read.name] # None,
                 read' = [read EXCEPT !.native = "read", !.marks = {c.mark},
                                      !.count = c.len, !.says = c.says]
          PROVE  /\ read' \in Reads /\ read'.step = "scope" /\ read'.name = read.name
                 /\ read'.native = "read"
                 /\ ReadInv'
      <4>1. c.mark \in Marks /\ c.len \in Nat /\ c.says \in SUBSET Ids
        BY DEF Contents
      <4>2. /\ read' \in Reads /\ read'.step = read.step /\ read'.name = read.name
            /\ read'.native = "read" /\ read'.marks = {c.mark}
        BY <1>2, <3>3, <4>1 DEF Reads
      <4>3. <<read.name, c.mark>> \in had
        BY <1>2, <3>3, PresentFacts DEF IInv, FirmwareInv
      <4> QED BY <1>1, <2>1, <4>1, <4>2, <4>3 DEF ReadInv
    <3>4. entry[read.name] # None => data[read.name][entry[read.name]] \in Contents
      BY <1>2 DEF IInv, FirmwareInv
    <3> QED BY <1>6, <2>1, <3>1, <3>2, <3>3, <3>4 DEF NativeRead
  <2> QED BY <1>3, <1>4, <2>1, <2>2 DEF IInv, PowerInv
<1>7. CASE InScope
  <2>1. ScopeStep /\ read' = read /\ UNCHANGED <<reply, dispatched>>
    BY <1>7 DEF InScope, power
  <2>2. /\ scope.at \notin {"none", "ended"} /\ scope'.at # "none"
        /\ leaky' => leaky \/ (scope'.at = "ended" /\ scope'.unclean)
    BY <2>1, ScopeFacts
  <2>3. host = "Windows" /\ read.step = "scope" /\ call \notin {"env", "done"}
    BY <2>2 DEF IInv, ControlInv, FirmwareInv, OSes
  <2>4. ReadInv'
    BY <1>1, <2>1 DEF IInv, ReadInv, Snapshot, firmware
  <2> QED BY <1>2, <1>4, <2>1, <2>2, <2>3, <2>4 DEF IInv, PowerInv
<1>8. CASE EnterReboot
  <2>1. /\ host = "Windows" /\ call = "reboot" /\ read.step = "start"
        /\ Acquire("Shutdown") /\ UNCHANGED <<reply, dispatched>>
        /\ read' = [read EXCEPT !.step = "scope"]
    BY <1>8 DEF EnterReboot, power
  <2>2. /\ read' \in Reads /\ read'.step = "scope" /\ read'.name = read.name
        /\ read'.native = read.native /\ read'.marks = read.marks
    BY <1>2, <2>1 DEF Reads, Steps
  <2>3. ReadInv'
    BY <1>1, <2>1, <2>2 DEF IInv, ReadInv
  <2> QED BY <1>3, <1>4, <2>1, <2>2, <2>3 DEF IInv, PowerInv
<1>9. CASE InitiateShutdown
  <2>1. /\ host = "Windows" /\ call = "reboot"
        /\ \/ Operated("ok") /\ dispatched' = TRUE
           \/ Operated("failed") /\ UNCHANGED dispatched
        /\ read' = [read EXCEPT !.native = IF dispatched' THEN "accepted" ELSE "failed"]
    BY <1>9 DEF InitiateShutdown
  <2>2. dispatched' \in BOOLEAN
    BY <2>1 DEF IInv, PowerInv
  <2>3. read.step = "scope"
    BY <1>3, <2>1 DEF IInv, ControlInv
  <2>4. /\ read' \in Reads /\ read'.step = "scope" /\ read'.name = read.name
        /\ read'.native = IF dispatched' THEN "accepted" ELSE "failed"
        /\ read'.marks = read.marks
    BY <1>2, <2>1, <2>3 DEF Reads
  <2>5. ReadInv'
    BY <1>1, <2>1, <2>4 DEF IInv, ReadInv
  <2> QED BY <1>3, <1>4, <2>1, <2>2, <2>3, <2>4, <2>5
<1> QED BY <1>5, <1>6, <1>7, <1>8, <1>9

\* The scope of a read has ended: a failed one ends the call.
LEMMA ConcludeStep ==
  ASSUME IInv, ScopeInv, Conclude
  PROVE  IInv'
PROOF
<1>1. /\ host = "Windows" /\ call \notin {"env", "reboot", "done"} /\ read.step = "scope"
      /\ Dispose /\ UNCHANGED <<host, firmware, power>>
  BY DEF Conclude, Attempting
<1>2. scope.at = "ended" /\ scope'.at = "none" /\ leaky' = leaky
  BY <1>1, ScopeFacts
<1>3. read \in Reads /\ read.name \in Names /\ call \in Calls
  BY DEF IInv, ControlInv, Reads
<1>4. CASE Fail
  BY <1>1, <1>2, <1>4, ReturnStep DEF Fail
<1>5. CASE Answer = "ok" /\ ~Fail
  <2>1. call # "observe" => ~leaky
    BY <1>1, <1>2, <1>3, <1>5 DEF IInv, PowerInv, Answer
  <2>2. CASE read.native = "read" /\ Accept(read.marks, read.count, read.says)
    <3>1. read.marks \in SUBSET Marks /\ read.says \in SUBSET Ids
      BY <1>3 DEF Reads
    <3>2. Genuine(read.name, read.marks)
      BY <2>2 DEF IInv, ReadInv, Genuine
    <3> QED BY <1>1, <1>2, <1>3, <2>1, <2>2, <3>1, <3>2, AcceptStep DEF Calls
  <2>3. CASE /\ read' = [read EXCEPT !.step = "start", !.buffer = Required]
             /\ Stay /\ UNCHANGED walk
    <3>1. Required \in Nat
      BY <1>3, LimitAssumption DEF Required, Reads
    <3>2. /\ read' \in Reads /\ read'.step = "start" /\ read'.name = read.name
          /\ read'.native = read.native /\ read'.marks = read.marks
      BY <1>3, <2>3, <3>1 DEF Reads, Steps
    <3>3. call' = call /\ had' = had /\ UNCHANGED <<reply, dispatched>>
      BY <1>1, <2>3 DEF Stay, power
    <3>4. FirmwareInv' /\ WalkInv' /\ StampInv'
      BY <1>1, <2>3, <3>2, <3>3, ReadOnlyStep
    <3>5. ControlInv' /\ ReadInv'
      BY <1>1, <1>2, <3>2, <3>3 DEF IInv, ControlInv, ReadInv
    <3>6. PowerInv'
      BY <1>1, <1>2, <2>1, <3>2, <3>3 DEF IInv, PowerInv, RebootEvidence
    <3> QED BY <3>4, <3>5, <3>6 DEF IInv
  <2> QED BY <1>5, <2>2, <2>3 DEF Conclude
<1> QED BY <1>4, <1>5 DEF Conclude

\* The answer to the request to restart says what became of it.
LEMMA RebootStep ==
  ASSUME IInv, ScopeInv, RebootWithFlags \/ ConcludeReboot
  PROVE  IInv'
PROOF
<1>1. CASE RebootWithFlags
  <2>1. PICK m \in Messages : dispatched' = m[2] /\ Answered(OutcomeOf(ReplyOf(m[1])))
    BY <1>1 DEF RebootWithFlags
  <2>2. host = "Linux" /\ UNCHANGED <<scopeVars, host, firmware>>
    BY <1>1 DEF RebootWithFlags
  <2>3. /\ scope.at = "none" /\ scope' = scope /\ leaky' = leaky /\ ~leaky
    BY <2>2 DEF IInv, ControlInv, PowerInv, scopeVars
  <2>4. /\ m[2] \in BOOLEAN
        /\ OutcomeOf(ReplyOf(m[1])) = "Accepted" => m[2]
        /\ OutcomeOf(ReplyOf(m[1])) = "Rejected" => ~m[2]
    <3>1. CASE m = <<"return", TRUE>>
      BY <3>1 DEF OutcomeOf, ReplyOf
    <3>2. CASE m = <<"returnOther", TRUE>>
      BY <3>2 DEF OutcomeOf, ReplyOf
    <3>3. CASE m = <<"errorOther", FALSE>>
      BY <3>3 DEF OutcomeOf, ReplyOf
    <3>4. CASE m \in {"noReply", "disconnected", "ioTimedOut", "ioOther"} \X BOOLEAN
      BY <3>4 DEF OutcomeOf, ReplyOf
    <3> QED BY <2>1, <3>1, <3>2, <3>3, <3>4 DEF Messages
  <2>5. /\ call' \in {"observe", "done"} /\ Return /\ reply' = OutcomeOf(ReplyOf(m[1]))
        /\ call' = "observe" => reply' = "Rejected"
    BY <2>1 DEF Answered
  <2>6. /\ FirmwareInv' /\ ControlInv' /\ ReadInv' /\ WalkInv' /\ StampInv'
        /\ read'.native = "none"
    BY <2>2, <2>3, <2>5, ReturnClears DEF Calls
  <2>7. RebootEvidence'
    BY <2>1, <2>4, <2>5 DEF RebootEvidence
  <2>8. PowerInv'
    BY <2>1, <2>3, <2>4, <2>5, <2>6, <2>7 DEF PowerInv
  <2> QED BY <2>6, <2>8 DEF IInv
<1>2. CASE ConcludeReboot
  <2>1. /\ host = "Windows" /\ call = "reboot" /\ Dispose /\ UNCHANGED <<host, firmware, dispatched>>
        /\ Answered(Classify(read.native = "accepted", Answer))
    BY <1>2 DEF ConcludeReboot
  <2>2. scope'.at = "none" /\ leaky' = leaky
    BY <2>1, ScopeFacts
  <2>3. /\ call' \in {"observe", "done"} /\ Return
        /\ reply' = Classify(read.native = "accepted", Answer)
        /\ call' = "observe" => reply' = "Rejected"
    BY <2>1 DEF Answered
  <2>4. /\ FirmwareInv' /\ ControlInv' /\ ReadInv' /\ WalkInv' /\ StampInv'
        /\ read'.native = "none"
    BY <2>1, <2>2, <2>3, ReturnClears DEF Calls
  <2>5. /\ dispatched <=> read.native = "accepted"
        /\ dispatched \in BOOLEAN
    BY <2>1 DEF IInv, PowerInv
  <2>6. leaky => Answer # "ok"
    BY <2>1 DEF IInv, PowerInv, Answer
  <2>7. leaky' => reply' # "Accepted"
    BY <2>2, <2>3, <2>6 DEF Classify
  <2>8. RebootEvidence'
    BY <2>1, <2>3, <2>5 DEF RebootEvidence, Classify
  <2>9. PowerInv'
    BY <2>1, <2>3, <2>4, <2>5, <2>7, <2>8 DEF PowerInv
  <2> QED BY <2>4, <2>9 DEF IInv
<1> QED BY <1>1, <1>2

\* The other tool gives a content that is there, or a new incarnation, a mark
\* that no content had before.
LEMMA MeddleStep ==
  ASSUME IInv, NEW n \in Names, Rewrite(n) \/ Create(n) \/ Delete(n)
  PROVE  IInv'
PROOF
<1>1. /\ clock < MaxMeddles[host] /\ clock' = clock + 1 /\ had' = had \cup Present'
      /\ UNCHANGED <<scopeVars, host, call, read, walk, power>>
      /\ scope' = scope /\ leaky' = leaky
  BY DEF Rewrite, Create, Delete, Meddles, Meddled, scopeVars
<1>2. /\ UNCHANGED <<dirSeen, listed, found, todo, total, inv, reply, dispatched>>
  BY <1>1 DEF walk, power
<1>3. /\ clock + 1 \in Marks /\ clock \in Nat /\ Marks \subseteq Nat /\ None \notin Marks
      /\ MaxMeddles[host] \in Nat
  BY <1>1, MarksFacts, LimitAssumption DEF IInv, FirmwareInv, OSes
<1>4. /\ read \in Reads /\ read.name \in Names /\ read.file \in Marks
      /\ data \in [Names -> [Marks -> Contents]] /\ entry \in [Names -> Marks \cup {None}]
  BY DEF IInv, ControlInv, FirmwareInv, Reads
<1>0. /\ clock + 1 <= clock + 1
      /\ \A i \in Nat : i <= clock => i <= clock + 1 /\ i < clock + 1
  BY <1>3
<1>5. ASSUME NEW c \in Written(n) PROVE c \in Contents /\ c.mark = clock + 1
  BY <1>3, LimitAssumption DEF Written, Contents
<1>6. \A x \in Names, i \in Marks :
        /\ data[x][i].mark <= clock
        /\ entry[x] # None => entry[x] <= clock
  BY DEF IInv, FirmwareInv
<1>7. /\ entry' \in [Names -> Marks \cup {None}] /\ data' \in [Names -> [Marks -> Contents]]
      /\ \A x \in Names, i \in Marks :
           data'[x][i] = data[x][i] \/ data'[x][i].mark = clock + 1
      /\ \A x \in Names : entry'[x] # None => entry'[x] <= clock + 1
      /\ \/ dirStamp' = clock + 1
         \/ dirStamp' = dirStamp /\ entry' = entry
  <2>1. CASE Rewrite(n)
    <3>1. PICK c \in Written(n) : data' = [data EXCEPT ![n][entry[n]] = c]
      BY <2>1 DEF Rewrite
    <3>2. c \in Contents /\ c.mark = clock + 1
      BY <1>5
    <3>3. entry' = entry /\ dirStamp' = dirStamp /\ entry[n] \in Marks
      BY <1>4, <2>1 DEF Rewrite
    <3>4. data' \in [Names -> [Marks -> Contents]]
      BY <1>4, <3>1, <3>2, <3>3
    <3>5. \A x \in Names, i \in Marks :
            data'[x][i] = IF x = n /\ i = entry[n] THEN c ELSE data[x][i]
      BY <1>4, <3>1, <3>3
    <3>6. \A x \in Names : entry[x] # None => entry[x] \in Nat /\ entry[x] <= clock
      BY <1>3, <1>4, <1>6
    <3> QED BY <1>0, <1>4, <3>2, <3>3, <3>4, <3>5, <3>6
  <2>2. CASE Create(n)
    <3>1. PICK c \in Written(n) : data' = [data EXCEPT ![n][clock + 1] = c]
      BY <2>2 DEF Create
    <3>2. c \in Contents /\ c.mark = clock + 1
      BY <1>5
    <3>3. entry' = [entry EXCEPT ![n] = clock + 1] /\ dirStamp' = clock + 1
      BY <2>2 DEF Create
    <3>4. data' \in [Names -> [Marks -> Contents]]
      BY <1>3, <1>4, <3>1, <3>2
    <3>5. \A x \in Names, i \in Marks :
            data'[x][i] = IF x = n /\ i = clock + 1 THEN c ELSE data[x][i]
      BY <1>3, <1>4, <3>1
    <3>6. \A x \in Names : entry[x] # None => entry[x] \in Nat /\ entry[x] <= clock
      BY <1>3, <1>4, <1>6
    <3>7. /\ entry' \in [Names -> Marks \cup {None}]
          /\ \A x \in Names : entry'[x] # None => entry'[x] <= clock + 1
      BY <1>0, <1>3, <1>4, <3>3, <3>6
    <3> QED BY <3>2, <3>3, <3>4, <3>5, <3>7
  <2>3. CASE Delete(n)
    <3>1. \A x \in Names : entry[x] # None => entry[x] \in Nat /\ entry[x] <= clock
      BY <1>3, <1>4, <1>6
    <3>2. entry' = [entry EXCEPT ![n] = None] /\ dirStamp' = clock + 1 /\ data' = data
      BY <2>3 DEF Delete
    <3>3. /\ entry' \in [Names -> Marks \cup {None}]
          /\ \A x \in Names : entry'[x] # None => entry'[x] <= clock + 1
      BY <1>0, <1>4, <3>1, <3>2
    <3> QED BY <1>4, <3>2, <3>3
  <2> QED BY <2>1, <2>2, <2>3
<1>8. FirmwareInv'
  <2>1. Present' \subseteq Names \X (Marks \cup {None})
    BY <1>7, FirmwareContents DEF Present
  <2>2. clock' \in 0..MaxMeddles[host]
    BY <1>1, <1>3
  <2>3. \A x \in Names, i \in Marks : data'[x][i].mark <= clock'
    <3>1. \A x \in Names, i \in Marks : data[x][i].mark \in Nat /\ data[x][i].mark <= clock
      BY <1>3, <1>4, <1>6 DEF Contents
    <3> QED BY <1>0, <1>1, <1>7, <3>1
  <2>4. dirStamp' \in 0..clock'
    BY <1>1, <1>3, <1>7 DEF IInv, FirmwareInv
  <2> QED BY <1>1, <1>7, <2>1, <2>2, <2>3, <2>4 DEF IInv, FirmwareInv
<1>9. ControlInv' /\ PowerInv'
  BY <1>1, <1>2 DEF IInv, ControlInv, PowerInv, RebootEvidence
<1>10. ReadInv'
  <2>1. ASSUME Snapshot, read.file <= clock PROVE Snapshot'
    <3> DEFINE c == data[read.name][read.file]
    <3>1. c \in Contents /\ c.mark \in Nat /\ c.mark <= clock
      BY <1>3, <1>4, <1>6 DEF Contents
    <3>2. data'[read.name][read.file] = c \/ data'[read.name][read.file].mark = clock + 1
      BY <1>4, <1>7
    <3>3. read.before[2] \in Nat
      BY <1>3, <2>1 DEF Snapshot
    <3> QED BY <1>1, <1>3, <2>1, <3>1, <3>2, <3>3 DEF Snapshot
  <2>2. read.file <= clock => read.file <= clock'
    BY <1>0, <1>1, <1>3, <1>4
  <2> QED BY <1>1, <2>1, <2>2 DEF IInv, ReadInv
<1>11. WalkInv'
  <2>1. Got' = Got /\ Target' = Target /\ Fetching' = Fetching
    BY <1>1, <1>2 DEF Got, Target, Fetching
  <2>2. \A b \in Got : Genuine(b, inv[b]) => Genuine(b, inv[b])'
    BY <1>1, <1>2 DEF Genuine
  <2> QED BY <1>1, <1>2, <2>1, <2>2 DEF IInv, WalkInv
<1>12. StampInv'
  <2> SUFFICES ASSUME host = "Linux", call = "options", read.step # "directory"
               PROVE  dirSeen' <= dirStamp' /\ (dirSeen' = dirStamp' => Unchanged')
    BY <1>1 DEF StampInv
  <2>1. dirSeen <= dirStamp /\ (dirSeen = dirStamp => Unchanged)
    BY DEF IInv, StampInv
  <2>2. CASE dirStamp' = clock + 1
    <3>1. dirStamp \in Nat /\ dirStamp <= clock /\ dirSeen \in Nat
      BY <1>3 DEF IInv, FirmwareInv, WalkInv
    <3> QED BY <1>2, <1>3, <2>1, <2>2, <3>1
  <2>3. CASE dirStamp' = dirStamp /\ entry' = entry
    <3>1. \A x \in Names : IF entry[x] = None THEN \A m \in Marks : <<x, m>> \notin Present'
                           ELSE <<x, None>> \notin Present'
      <4>1. \A x \in Names : \A v : <<x, v>> \in Present' <=>
              v = IF entry'[x] = None THEN None ELSE data'[x][entry'[x]].mark
        BY DEF Present
      <4>2. \A x \in Names : entry[x] # None => data'[x][entry[x]].mark \in Marks
        BY <1>4, <1>7 DEF Contents
      <4> QED BY <1>3, <2>3, <4>1, <4>2
    <3>2. Unchanged => Unchanged'
      BY <1>1, <1>2, <2>3, <3>1 DEF Unchanged, Fetching
    <3> QED BY <1>2, <2>1, <2>3, <3>2
  <2> QED BY <1>7, <2>2, <2>3
<1> QED BY <1>8, <1>9, <1>10, <1>11, <1>12 DEF IInv

-----------------------------------------------------------------------------

\* Every step of the calls is one of their scopes or leaves these alone.
LEMMA ScopeRefined == [Next]_vars => [ScopeNext]_scopeVars
PROOF
<1> SUFFICES ASSUME [Next]_vars PROVE [ScopeNext]_scopeVars
  OBVIOUS
<1>1. CASE \/ CheckDirectory \/ CheckProbe \/ CheckFirmwareType
           \/ DirectoryBefore \/ Discovered \/ Finish
           \/ \E b \in Ids : ReadName(b) \/ Pick(b)
  BY <1>1 DEF CheckDirectory, CheckProbe, CheckFirmwareType, DirectoryBefore, Discovered,
              Finish, ReadName, Pick
<1>2. CASE \/ OpenVariable \/ StatBefore \/ ReadChunk \/ StatAfter \/ Reopen \/ CallFails
           \/ RebootWithFlags
  BY <1>2 DEF OpenVariable, StatBefore, ReadChunk, StatAfter, Reopen, CallFails, RebootWithFlags
<1>3. CASE EnterRead \/ EnterReboot
  BY <1>3, PrivilegesAssumption DEF EnterRead, EnterReboot, ScopeNext
<1>4. CASE NativeRead \/ InitiateShutdown
  BY <1>4 DEF NativeRead, InitiateShutdown, ScopeNext, Outcomes
<1>5. CASE Conclude \/ ConcludeReboot \/ InScope
  BY <1>5 DEF Conclude, ConcludeReboot, InScope, ScopeNext
<1>6. CASE \E n \in Names : Rewrite(n) \/ Create(n) \/ Delete(n)
  BY <1>6 DEF Rewrite, Create, Delete, Meddled
<1>7. CASE UNCHANGED vars
  BY <1>7 DEF vars
<1> QED BY <1>1, <1>2, <1>3, <1>4, <1>5, <1>6, <1>7 DEF Next

\* A privilege that could not be put back is never forgotten.
LEMMA LeakStays == [ScopeNext]_scopeVars => (leaky => leaky')
BY DEF ScopeNext, scopeVars, Acquire, ScopeStep, Lookup, Enable, Restore, Close, Dispose,
       Operated

LEMMA InvStep == IInv /\ ScopeInv /\ [Next]_vars => IInv'
PROOF
<1> SUFFICES ASSUME IInv, ScopeInv, [Next]_vars PROVE IInv'
  OBVIOUS
<1>1. CASE CheckDirectory \/ CheckProbe \/ CheckFirmwareType
  BY <1>1, EnvironmentStep
<1>2. CASE \/ DirectoryBefore \/ Discovered \/ Finish
           \/ \E b \in Ids : ReadName(b) \/ Pick(b)
  BY <1>2, WalkStep
<1>3. CASE OpenVariable \/ StatBefore \/ ReadChunk \/ StatAfter \/ Reopen \/ CallFails
  BY <1>3, LinuxReadStep
<1>4. CASE EnterRead \/ NativeRead \/ InScope \/ EnterReboot \/ InitiateShutdown
  BY <1>4, WindowsStep
<1>5. CASE Conclude
  BY <1>5, ConcludeStep
<1>6. CASE RebootWithFlags \/ ConcludeReboot
  BY <1>6, RebootStep
<1>7. CASE \E n \in Names : Rewrite(n) \/ Create(n) \/ Delete(n)
  BY <1>7, MeddleStep
<1>8. CASE UNCHANGED vars
  <2>1. UNCHANGED <<scopeVars, host, firmware, call, read, walk, power, had>>
    BY <1>8 DEF vars
  <2>2. FirmwareInv'
    BY <2>1, FirmwareKept DEF IInv
  <2>3. /\ UNCHANGED <<scope, leaky, host, entry, data, dirStamp, clock, call, read, had>>
        /\ UNCHANGED <<dirSeen, listed, found, todo, total, inv, reply, dispatched>>
    BY <2>1 DEF scopeVars, firmware, walk, power
  <2>4. ControlInv' /\ PowerInv'
    BY <2>3 DEF IInv, ControlInv, PowerInv, RebootEvidence
  <2>5. ReadInv'
    BY <2>3 DEF IInv, ReadInv, Snapshot
  <2>6. Got' = Got /\ Target' = Target /\ Fetching' = Fetching
    BY <2>3 DEF Got, Target, Fetching
  <2>7. WalkInv' /\ StampInv'
    BY <2>3, <2>6 DEF IInv, WalkInv, StampInv, Unchanged, Genuine
  <2> QED BY <2>2, <2>4, <2>5, <2>7 DEF IInv
<1> QED BY <1>1, <1>2, <1>3, <1>4, <1>5, <1>6, <1>7, <1>8 DEF Next

LEMMA Invariants == Spec => [](IInv /\ ScopeInv)
PROOF
<1>1. Init => ScopeInv
  BY ScopeInitially DEF Init
<1> QED BY <1>1, InvInit, InvStep, ScopeRefined, ScopePreserved, PTL DEF Spec

\* A scope that did not report PrivilegeRestoreFailed, after others that did
\* not, leaves token and handles as the process started with them, for the
\* scopes that the calls of the adapter open (privilege.rs,
\* restore_and_close).
THEOREM TokenRestored == Spec => []ScopeRestores
PROOF
<1>1. Init => ScopeInit
  BY DEF Init
<1>2. Spec => ScopeSpec
  BY <1>1, ScopeRefined, PTL DEF Spec, ScopeSpec
<1> QED BY <1>2, ScopesRestored, PTL

\* A reboot reported as accepted was taken, one reported as rejected was not,
\* whatever the scope around the request ran into (classify_reboot_result;
\* reboot_via).
THEOREM RebootReported == Spec => []RebootEvidence
PROOF
<1>1. IInv => RebootEvidence
  BY DEF IInv, PowerInv
<1> QED BY <1>1, Invariants, PTL

\* A privilege that could not be put back belongs to a scope that has just
\* ended, or to a flow that has nothing left to do but to observe.
LEMMA LeakedWhere ==
  ASSUME IInv, ScopeInv, leaky
  PROVE  /\ host = "Windows" /\ reply # "Accepted"
         /\ call \notin {"observe", "done"} =>
              scope.at = "ended" /\ Answer # "ok" /\ read.step = "scope"
BY DEF IInv, PowerInv, ControlInv, FirmwareInv, OSes, Answer

\* On Windows only the end of a scope and the checks before the first one take
\* the flow from one call to the next.
LEMMA LeakedCall ==
  ASSUME IInv, ScopeInv, leaky, Next, call' # call
  PROVE  call' = "done" \/ (call = "reboot" /\ call' = "observe")
PROOF
<1>1. host = "Windows"
  BY LeakedWhere
<1>2. Conclude \/ ConcludeReboot \/ CheckFirmwareType \/ Finish \/ Discovered
  <2>1. ~(\/ CheckDirectory \/ OpenVariable \/ StatBefore \/ ReadChunk \/ StatAfter
          \/ Reopen \/ CallFails \/ RebootWithFlags)
    BY <1>1 DEF CheckDirectory, OpenVariable, StatBefore, ReadChunk, StatAfter, Reopen,
           CallFails, Reading, RebootWithFlags
  <2>2. ~CheckProbe
    BY <1>1 DEF CheckProbe, IInv, ControlInv
  <2>3. ~(\/ DirectoryBefore \/ EnterRead \/ NativeRead \/ InScope \/ EnterReboot
          \/ InitiateShutdown \/ \E b \in Ids : ReadName(b) \/ Pick(b))
    BY DEF DirectoryBefore, EnterRead, NativeRead, InScope, EnterReboot, InitiateShutdown,
           ReadName, Pick, Stay
  <2>4. ~ \E n \in Names : Rewrite(n) \/ Create(n) \/ Delete(n)
    BY DEF Rewrite, Create, Delete, Meddled
  <2> QED BY <2>1, <2>2, <2>3, <2>4 DEF Next
<1>3. CASE Conclude
  <2>1. CASE call = "observe"
    BY <1>3, <2>1 DEF Conclude, Fail, Accept, GoOn, Stay
  <2>2. CASE call # "observe"
    <3>1. Answer # "ok"
      BY <1>3, <2>2, LeakedWhere DEF Conclude, Attempting
    <3> QED BY <1>3, <3>1 DEF Conclude, Fail
  <2> QED BY <2>1, <2>2
<1>4. CASE ConcludeReboot
  BY <1>4 DEF ConcludeReboot, Answered
<1>5. CASE CheckFirmwareType \/ Finish \/ Discovered
  <2>1. read.step = "scope" /\ scope.at # "none"
    BY <1>5, LeakedWhere DEF CheckFirmwareType, Finish, Discovered, InOptions
  <2>2. call = "env"
    BY <1>5, <2>1 DEF CheckFirmwareType, Finish, Discovered, InOptions
  <2> QED BY <1>1, <2>1, <2>2 DEF IInv, ControlInv
<1> QED BY <1>2, <1>3, <1>4, <1>5

\* After a privilege that could not be put back no restart is sent and none is
\* reported as accepted, the flow gets no further than to the observation that
\* follows a rejected restart, and only that one enters another scope
\* (privilege.rs: restoration failure supersedes the result).
THEOREM LeakIsFinal == Spec => NothingAfterLeak
PROOF
<1> DEFINE Confined ==
      /\ dispatched' = dispatched /\ reply' # "Accepted"
      /\ call' # call => call' = "done" \/ (call = "reboot" /\ call' = "observe")
      /\ scope.at = "none" /\ scope'.at # "none" => call = "observe"
<1>1. IInv /\ ScopeInv /\ [Next]_vars => [leaky => Confined]_vars
  <2> SUFFICES ASSUME IInv, ScopeInv, Next, leaky PROVE Confined
    OBVIOUS
  <2>1. dispatched' = dispatched
    <3>1. CASE RebootWithFlags
      BY <3>1, LeakedWhere DEF RebootWithFlags
    <3>2. CASE InitiateShutdown
      <4>1. scope.at = "operate" /\ call = "reboot"
        BY <3>2, ScopeFacts DEF InitiateShutdown, Outcomes
      <4> QED BY <4>1, LeakedWhere
    <3>3. Next => RebootWithFlags \/ InitiateShutdown \/ UNCHANGED dispatched
      BY DEF Next, power, CheckDirectory, CheckProbe, CheckFirmwareType, DirectoryBefore,
             Discovered, Finish, ReadName, Pick, OpenVariable, StatBefore, ReadChunk, StatAfter,
             Reopen, CallFails, EnterRead, NativeRead, Conclude, InScope, EnterReboot,
             ConcludeReboot, Rewrite, Create, Delete, Meddled
    <3> QED BY <3>1, <3>2, <3>3
  <2>2. IInv' /\ (leaky' => reply' # "Accepted")
    BY InvStep DEF IInv, PowerInv
  <2>3. leaky'
    BY ScopeRefined, LeakStays
  <2>4. ASSUME scope.at = "none", scope'.at # "none" PROVE call = "observe"
    <3>1. \/ EnterRead \/ EnterReboot
          \/ \E o \in Outcomes : Operated(o)
          \/ Dispose \/ ScopeStep
      BY <2>4 DEF Next, scopeVars, CheckDirectory, CheckProbe, CheckFirmwareType, DirectoryBefore,
             Discovered, Finish, ReadName, Pick, OpenVariable, StatBefore, ReadChunk, StatAfter,
             Reopen, CallFails, NativeRead, Conclude, InScope, InitiateShutdown, RebootWithFlags,
             ConcludeReboot, Rewrite, Create, Delete, Meddled, Outcomes
    <3>2. EnterRead \/ EnterReboot
      BY <2>4, <3>1, ScopeFacts
    <3> QED BY <2>4, <3>2, LeakedWhere DEF EnterRead, EnterReboot
  <2> QED BY <2>1, <2>2, <2>3, <2>4, LeakedCall
<1> QED BY <1>1, Invariants, PTL DEF Spec, NothingAfterLeak

\* An inventory is handed on only when each of its options was there and none
\* is missing, and a BootNext or its absence only when it was there.
LEMMA ReturnedWasThere ==
  ASSUME IInv, ScopeInv, Next
  PROVE  /\ call = "options" /\ call' = "original" => InventoryIsWhole
         /\ call # call' /\ call' \in {"recheck", "readback", "reboot"} => NextIsGenuine
PROOF
<1>1. ASSUME call = "options", call' = "original" PROVE InventoryIsWhole
  <2>1. Finish
    BY <1>1 DEF Next, CheckDirectory, CheckProbe, CheckFirmwareType, DirectoryBefore,
           Discovered, ReadName, Pick, OpenVariable, StatBefore, ReadChunk, StatAfter,
           Reopen, CallFails, EnterRead, NativeRead, Conclude, InScope, EnterReboot,
           RebootWithFlags, InitiateShutdown, ConcludeReboot, Rewrite, Create, Delete, Meddled,
           Stay, Fail, Accept, Collect, GoOn, Start
  <2>2. /\ read.step = "pick" /\ todo = {}
        /\ host = "Linux" => dirStamp = dirSeen
    BY <1>1, <2>1 DEF Finish, InOptions, Fail
  <2>3. listed \subseteq Target /\ Got = Target
    BY <1>1, <2>2 DEF IInv, WalkInv, Fetching
  <2>4. listed \subseteq Ids /\ \A b \in Got : Genuine(b, inv[b])
    BY DEF IInv, WalkInv
  <2>5. ASSUME host = "Linux", NEW b \in Ids PROVE Constant(b, inv[b] # {})
    <3>1. Unchanged /\ Fetching /\ b \in Names
      BY <1>1, <2>2, <2>5, NamesFacts DEF IInv, StampInv, Fetching
    <3>2. inv[b] # {} <=> entry[b] # None
      BY <2>3, <2>5, <3>1 DEF Unchanged, Got, Target
    <3> QED BY <3>1, <3>2 DEF Unchanged, Constant
  <2> QED BY <2>3, <2>4, <2>5 DEF InventoryIsWhole, Got
<1>2. ASSUME call # call', call' \in {"recheck", "readback", "reboot"} PROVE NextIsGenuine
  <2>1. \/ OpenVariable \/ Reopen \/ Conclude
    BY <1>2 DEF Next, CheckDirectory, CheckProbe, CheckFirmwareType, DirectoryBefore,
           Discovered, Finish, ReadName, Pick, StatBefore, ReadChunk, StatAfter,
           CallFails, EnterRead, NativeRead, InScope, EnterReboot,
           RebootWithFlags, InitiateShutdown, ConcludeReboot, Rewrite, Create, Delete, Meddled,
           Stay, Fail, GoOn, Start, Answered
  <2>2. call \in {"original", "recheck", "readback"} /\ read.name = "BootNext"
    <3>1. call \notin {"options", "observe", "env", "reboot", "done"}
      BY <1>2, <2>1 DEF OpenVariable, Reopen, Conclude, Reading, Attempting, Accept, Collect,
           Fail, GoOn, Stay
    <3> QED BY <3>1 DEF IInv, ControlInv, Calls
  <2>3. CASE OpenVariable
    <3>1. /\ host = "Linux" /\ entry["BootNext"] = None
          /\ call \in {"original", "recheck"}
      BY <1>2, <2>2, <2>3 DEF OpenVariable, Reading, Accept, Fail, Stay
    <3>2. <<"BootNext", None>> \in had
      BY <3>1, PresentFacts, NamesFacts DEF IInv, FirmwareInv
    <3> QED BY <3>1, <3>2 DEF NextIsGenuine
  <2>4. CASE Reopen
    <3>1. /\ host = "Linux" /\ read.step = "reopen" /\ entry[read.name] # None
          /\ Metadata(entry[read.name]) = read.before
      BY <1>2, <2>4 DEF Reopen, Reading, Fail
    <3> QED BY <2>2, <3>1, ReopenedIsGenuine DEF IInv, NextIsGenuine
  <2>5. CASE Conclude
    <3>1. read.native = "read"
      BY <1>2, <2>5 DEF Conclude, Fail, Stay
    <3> QED BY <2>2, <3>1 DEF IInv, ReadInv, NextIsGenuine, Genuine
  <2> QED BY <2>1, <2>3, <2>4, <2>5
<1> QED BY <1>1, <1>2

\* Each variable that a call of the adapter returns to the flow has the content
\* the firmware held at some moment of the call, not the same moment for all of
\* them, and the names of an inventory are complete, for any number of
\* variables and of other writes and for any limits (read_options and read_next
\* of both hosts).
THEOREM GenuineReads == Spec => ReadsAreGenuine
PROOF
<1>1. IInv /\ ScopeInv /\ [Next]_vars =>
        [/\ call = "options" /\ call' = "original" => InventoryIsWhole
         /\ call # call' /\ call' \in {"recheck", "readback", "reboot"} => NextIsGenuine]_vars
  BY ReturnedWasThere
<1> QED BY <1>1, Invariants, PTL DEF Spec, ReadsAreGenuine

=============================================================================
