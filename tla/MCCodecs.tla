------------------------------ MODULE MCCodecs ------------------------------
(* The two machines about documents for TLC. They share no state, so each   *)
(* behaviour is one of either and the other is idle throughout.             *)
EXTENDS RecordedIdentity, Records, ResponseExchange, WireDocuments

MCInit ==
    \/ /\ RecordedIdentityInit
       /\ phase = "idle" /\ damaged = FALSE
       /\ asked = <<>> /\ frame = <<>> /\ understood = <<>> /\ outcome = <<>> /\ heard = <<>>
    \/ /\ ResponseExchangeInit
       /\ step = "idle" /\ accepted = FALSE
       /\ option = <<>> /\ configured = <<>> /\ written = <<>> /\ stored = <<>>

MCNext ==
    \/ Configure /\ UNCHANGED exchangeVars
    \/ EditVariable /\ UNCHANGED exchangeVars
    \/ EditRecord /\ UNCHANGED exchangeVars
    \/ Switch /\ UNCHANGED exchangeVars
    \/ Greet /\ UNCHANGED identityVars
    \/ Ask /\ UNCHANGED identityVars
    \/ Answer /\ UNCHANGED identityVars
    \/ Deliver /\ UNCHANGED identityVars
    \/ Damage /\ UNCHANGED identityVars

MCSpec == MCInit /\ [][MCNext]_<<identityVars, exchangeVars>>
-----------------------------------------------------------------------------
(* Variables of a firmware. *)
Low(n, width) == [i \in 1 .. width |-> IF i = 1 THEN n ELSE 0]
High(width) == [i \in 1 .. width |-> 255]

DriveNode(start, size, signature, format) ==
    <<4, 1, 42, 0>> \o Low(1, 4) \o start \o size \o Low(signature, 16) \o <<format, 2>>
PathNode(path) == <<4, 4, 6 + 2 * Len(path), 0>> \o UnitBytes(path) \o <<0, 0>>
EndNode(subtype) == <<127, subtype, 4, 0>>
Variable(attributes, name, list, data) ==
    attributes \o <<Len(list), 0>> \o UnitBytes(name) \o <<0, 0>> \o list \o data

Plain == DriveNode(Low(8, 8), Low(16, 8), 3, 2)
Program == PathNode(<<92, 97, 92, 98>>)
Short == PathNode(<<92, 97>>)
Whole1(list) == Variable(Active, <<65>>, list, <<>>)

\* Two supported entries, one with data, one hidden and with a surrogate pair
\* in its name; and entries that must not be taken: no active option, an
\* unpaired surrogate, two instances, two paths, another node in between, a
\* path that climbs, has an empty part or another slash, another partition
\* format, an empty partition, one past the end of all disks, a path not ended.
MCSupported ==
    { Variable(Active, <<65>>, Plain \o Program \o EndNode(255), <<5, 6>>),
      Variable(ActiveHidden, <<55357, 56832>>, Plain \o Short \o EndNode(255), <<>>) }

MCVariables == MCSupported \union
    { Variable(Low(8, 4), <<65>>, Plain \o Short \o EndNode(255), <<>>),
      Variable(Active, <<55357>>, Plain \o Short \o EndNode(255), <<>>),
      Whole1(Plain \o Short \o EndNode(1) \o Short \o EndNode(255)),
      Whole1(Plain \o Short \o EndNode(255) \o EndNode(255)),
      Whole1(Plain \o <<3, 1, 5, 0, 9>> \o Short \o EndNode(255)),
      Whole1(Plain \o PathNode(<<92, 46, 46>>) \o EndNode(255)),
      Whole1(Plain \o PathNode(<<92, 97, 92>>) \o EndNode(255)),
      Whole1(Plain \o PathNode(<<92, 97, 47>>) \o EndNode(255)),
      Whole1(DriveNode(Low(8, 8), Low(16, 8), 3, 1) \o Short \o EndNode(255)),
      Whole1(DriveNode(Low(8, 8), Low(0, 8), 3, 2) \o Short \o EndNode(255)),
      Whole1(DriveNode(High(8), Low(1, 8), 3, 2) \o Short \o EndNode(255)),
      Whole1(Plain \o Short) }
-----------------------------------------------------------------------------
(* What core::execute answers. *)
U(name) == [is |-> name]
W(name, value) == [is |-> name, with |-> value]
Stages(names) == [i \in DOMAIN names |-> U(names[i])]

Linux == U("Linux")
Ready == W("Ready", [boot_id |-> 1, os |-> Linux])
Candidate(id, description, classification) ==
    [ boot_id |-> id, description_utf16 |-> description, classification |-> U(classification),
      ambiguous |-> [lit |-> "false"] ]

\* The lists an inventory makes: the target with a short or a long name, alone
\* or after another entry; and orders that name entries twice.
Long == [i \in 1 .. 12 |-> 65]
Lists(classification) ==
    { <<Candidate(1, description, classification)>> : description \in {<<65>>, Long} }
    \union { <<Candidate(2, <<66>>, "Unsupported"), Candidate(1, <<65>>, classification)>> }
Orders == { <<>>, [i \in 1 .. 8 |-> W("DuplicateBootOrder", i)] }

Report(candidates, record, stages, diagnostics) ==
    W("Ok", [candidates |-> candidates, record |-> record, stages |-> Stages(stages),
             diagnostics |-> diagnostics])
Failure(cause, stages, residual, rollback, diagnostics) ==
    W("Err", W("FlowFailure", [ cause |-> cause, stages |-> Stages(stages),
                                residual_assessment |-> residual, rollback_assessment |-> rollback,
                                diagnostics |-> diagnostics ]))

Io == W("PlatformIo", [operation |-> U("Flush"), raw_code |-> -5])
Denied == W("FirmwareReadFailed", [raw_code |-> 13])

Inspections ==
    { Report(c, r, <<>>, d) : c \in Lists("NeedsConfirmation") \union Lists("Unsupported"),
                              r \in {Ready, U("Missing")}, d \in Orders }
    \union { W("Err", U("NotUefi")), W("Err", U("IdentityMismatch")),
             W("Err", W("UnsupportedRecordVersion", [found |-> 2])) }

Configurations ==
    { Report(c, Ready, <<"TargetValidated">>, d) : c \in Lists("NeedsConfirmation"), d \in Orders }
    \union { Failure(Io, <<"TargetValidated">>, U("NotChecked"), U("NotNeeded"), d) : d \in Orders }
    \union { W("Err", U("TargetMissing")), W("Err", Io) }

Verified == <<"TargetValidated", "BootNextVerified">>
Rejected == Append(Verified, "RebootRejected")

Switches ==
    { Report(c, Ready, Verified \o s, d) :
        c \in Lists("NeedsConfirmation"), d \in Orders,
        s \in {<<"RebootAccepted">>, <<"RebootUnknown", "ResidualPossible">>} }
    \union UNION { { Failure(Denied, <<"TargetValidated">>, U("NotChecked"), U("NotNeeded"), d),
             Failure(U("ReadbackFailed"), <<"TargetValidated", "ResidualPossible">>,
                     U("NotChecked"), U("NotNeeded"), d),
             Failure(U("RebootRejected"), Rejected, W("Observed", <<1>>), U("NotNeeded"), d),
             Failure(U("RebootRejected"), Rejected \o <<"RollbackAttempted", "RollbackRestored">>,
                     W("Observed", <<1>>), U("Restored"), d),
             Failure(U("RebootRejected"), Rejected \o <<"RollbackUnsafe", "ResidualPossible">>,
                     W("Observed", <<>>), U("Unsafe"), d),
             Failure(U("RebootRejected"), Rejected \o <<"RollbackUnsafe", "ResidualPossible">>,
                     W("ReadFailed", Denied), U("Unsafe"), d),
             Failure(U("RebootRejected"),
                     Rejected \o <<"RollbackAttempted", "RollbackFailed", "ResidualPossible">>,
                     W("Observed", <<1>>), W("Failed", Io), d) } : d \in Orders }
    \union { W("Err", U("NotConfigured")), W("Err", U("UnexpectedOs")) }

For(request, results) == {[request |-> request, result |-> r] : r \in results}

MCOutcomes ==
    For(U("Inspect"), Inspections)
    \union For(W("Configure", [boot_id |-> 1, os |-> Linux]), Configurations)
    \union For(W("Switch", [os |-> Linux]), Switches)
=============================================================================
