-------------------------- MODULE RecordedIdentity --------------------------
(* The life of a recorded target: an operator configures a boot entry, its  *)
(* identity is written to the protected store, the firmware's variable or   *)
(* the stored document may be changed by somebody else, and a switch reads  *)
(* both again and decides whether the entry is still the one configured.    *)
EXTENDS LoadOptions

CONSTANTS
    Variables,      \* byte strings the firmware may hold when Configure runs
    Bytes,          \* the bytes somebody may write into one
    TargetOs,       \* expected_target(host)
    TargetId,       \* the BootId under which the firmware holds the entry
    ToDocument(_),      \* encode_record: <<doc>>, or <<>> for a record too large
    FromDocument(_),    \* decode_record: <<record>>, or <<>> for another document
    Rewritten(_),       \* what somebody may make of a document
    SameRecord(_, _)    \* the second is another form of the first

Identify(bytes) == Then(ParseLoadOption(bytes), Canonicalize)
TargetRecord(identity) == [os |-> TargetOs, boot_id |-> TargetId, identity |-> identity]

ASSUME BytesAssumption ==
    Bytes \subseteq Byte /\ Variables \subseteq Seq(Byte)

\* The record of an entry fits its file and is read back as it was written; a
\* document that is no other form of it is refused or read as another record.
ASSUME RecordAssumption ==
    \A variable \in Variables : \A identity \in ToSet(Identify(variable)) :
        LET record == TargetRecord(identity)
        IN  \E doc \in ToSet(ToDocument(record)) :
                /\ ToDocument(record) = <<doc>>
                /\ FromDocument(doc) = <<record>> /\ SameRecord(doc, doc)
                /\ \A other \in Rewritten(doc) :
                      IF SameRecord(doc, other) THEN FromDocument(other) = <<record>>
                      ELSE \A read \in ToSet(FromDocument(other)) :
                              <<read.os, read.boot_id, read.identity>> # <<TargetOs, TargetId, identity>>

VARIABLES
    step,           \* "start", "refused", "configured", "changed", "judged"
    option,         \* the bytes of the variable
    configured,     \* its bytes when it was configured
    written,        \* the document the store was given: <<>> or <<doc>>
    stored,         \* the document it gives back
    accepted        \* did the switch take the entry for its target?

identityVars == <<step, option, configured, written, stored, accepted>>

RecordedIdentityInit ==
    /\ step = "start"
    /\ option \in Variables
    /\ configured = <<>> /\ written = <<>> /\ stored = <<>>
    /\ accepted = FALSE

\* Request::Configure: read_options parses, canonicalize identifies, and
\* save_record encodes; the first that fails ends the request.
Configure ==
    /\ step = "start"
    /\ stored' = Then(Identify(option), LAMBDA identity : ToDocument(TargetRecord(identity)))
    /\ written' = stored'
    /\ step' = IF stored' = <<>> THEN "refused" ELSE "configured"
    /\ configured' = option
    /\ UNCHANGED <<option, accepted>>

\* The bytes with one byte changed, added or removed, or the end cut off.
Edited(bytes) ==
    UNION { { [bytes EXCEPT ![i] = b] : b \in Bytes }
            \union { SubSeq(bytes, 1, i) \o <<b>> \o SubSeq(bytes, i + 1, Len(bytes)) : b \in Bytes }
            \union { SubSeq(bytes, 1, i - 1) \o SubSeq(bytes, i + 1, Len(bytes)), SubSeq(bytes, 1, i - 1) }
            : i \in DOMAIN bytes }

\* Another program rewrites the variable.
EditVariable ==
    /\ step = "configured" /\ step' = "changed"
    /\ option' \in Edited(option)
    /\ UNCHANGED <<configured, written, stored, accepted>>

\* The document comes back other than it was written.
EditRecord ==
    /\ step = "configured" /\ step' = "changed"
    /\ \E doc \in Rewritten(stored[1]) : stored' = <<doc>>
    /\ UNCHANGED <<option, configured, written, accepted>>

\* Request::Switch up to validate_target.
Switch ==
    LET Matches(record, current) ==
            /\ record.os = TargetOs /\ record.boot_id = TargetId
            /\ ValidateTarget(record.identity, current)
    IN  /\ step \in {"configured", "changed"} /\ step' = "judged"
        /\ accepted' = \E record \in ToSet(Then(stored, FromDocument)),
                          current \in ToSet(ParseLoadOption(option)) : Matches(record, current)
        /\ UNCHANGED <<option, configured, written, stored>>

RecordedIdentityNext == Configure \/ EditVariable \/ EditRecord \/ Switch

RecordedIdentitySpec == RecordedIdentityInit /\ [][RecordedIdentityNext]_identityVars
-----------------------------------------------------------------------------
(* What the identity is to be, said of the bytes alone. *)

\* The bytes up to and with the zero that ends the description.
DescriptionEnd(bytes) ==
    LET ends == {k \in 8 .. Len(bytes) : k % 2 = 0 /\ bytes[k - 1] = 0 /\ bytes[k] = 0}
    IN  IF ends = {} THEN Len(bytes) ELSE CHOOSE k \in ends : \A j \in ends : k <= j

\* The length of the path list, the path list and the optional data.
Essence(bytes) ==
    SubSeq(bytes, 5, 6) \o SubSeq(bytes, DescriptionEnd(bytes) + 1, Len(bytes))

\* An entry the firmware boots, under a name that can be shown.
Bootable(bytes) ==
    /\ Len(bytes) \in 8 .. MaxOptionBytes
    /\ SubSeq(bytes, 1, 4) \in {Active, ActiveHidden}
    /\ ValidUtf16(Units(SubSeq(bytes, 7, DescriptionEnd(bytes) - 2)))

\* The part of the essence that the header calls the path list.
PathList(bytes) == SubSeq(bytes, DescriptionEnd(bytes) + 1,
                          DescriptionEnd(bytes) + Word(SubSeq(bytes, 5, 6)))

\* A path list that names a partition of a GPT disk, a file on it and no more.
NamesGptFile(list) ==
    LET file == Len(list) - 46      \* the length of the second node
    IN  /\ file > 6 /\ file % 2 = 0
        /\ SubSeq(list, 1, 4) = <<4, 1, 42, 0>>
        /\ ValidateHardDrive([ partition_number |-> SubSeq(list, 5, 8),
                               partition_start_lba |-> SubSeq(list, 9, 16),
                               partition_size_lba |-> SubSeq(list, 17, 24),
                               partition_signature_uefi_bytes |-> SubSeq(list, 25, 40),
                               mbr_type |-> list[41], signature_type |-> list[42] ])
        /\ SubSeq(list, 43, 46) = <<4, 4, file % 256, file \div 256>>
        /\ ValidFilePath(Units(SubSeq(list, 47, Len(list) - 6)))
        /\ SubSeq(list, Len(list) - 5, Len(list)) = <<0, 0, 127, 255, 4, 0>>

\* An entry that can be configured.
Supported(bytes) ==
    /\ Bootable(bytes)
    /\ DescriptionEnd(bytes) + Word(SubSeq(bytes, 5, 6)) <= Len(bytes)
    /\ NamesGptFile(PathList(bytes))

\* A switch accepts an entry exactly when nothing that identifies it has
\* changed since it was configured: no byte of its path list or its optional
\* data, and nothing of the record. Name and visibility may change. No byte
\* string takes the place of another, and no other form of the document
\* passes for the record. An entry of any other form than a file on a GPT
\* partition is not configured at all (identity.rs:canonicalize,
\* record.rs:decode_record).
IdentityIsExact ==
    /\ step = "refused" => ~Supported(option)
    /\ step \in {"configured", "changed", "judged"} => Supported(configured)
    /\ step = "judged" =>
          (accepted <=> /\ Bootable(option)
                        /\ Essence(option) = Essence(configured)
                        /\ SameRecord(written[1], stored[1]))
=============================================================================
