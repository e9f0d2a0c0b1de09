------------------------------ MODULE Records ------------------------------
(* crates/core/src/record.rs: the document in which the protected store     *)
(* keeps the recorded target. Reading it back is strict in its own way: the *)
(* version first, then every marker of a component, then the typed record,  *)
(* then the rules every identity obeys. Errors are <<>>.                    *)
EXTENDS LoadOptions, TLC

CONSTANT MaxRecordSize      \* MAX_RECORD_BYTES, in members and elements

\* The wire structs of record.rs, and the envelopes its preflight reads.
Header(fields) == << <<"type", "u8">>, <<"subtype", "u8">>, <<"length", "u16">> >> \o fields

LOCAL Shape == INSTANCE Serde WITH Types <- [none |-> <<>>]

RecordTypes ==
    [ u8 |-> Shape!Number(0, 255), u16 |-> Shape!Number(0, 65535),
      u32 |-> [kind |-> "wide", bytes |-> 4], u64 |-> [kind |-> "wide", bytes |-> 8],
      count |-> Shape!Number(0, 2147483647),
      String |-> [kind |-> "text"], RawValue |-> [kind |-> "any"],
      Signature |-> [kind |-> "array", of |-> "u8", count |-> 16],
      Path |-> Shape!VecOf("u16"), Nodes |-> Shape!VecOf("WireNode"),
      Raw |-> Shape!OptionOf("RawValue"), RawNodes |-> Shape!VecOf("RawValue"),
      VersionEnvelope |-> Shape!Envelope(<< <<"version", "count">> >>),
      RawTargetEnvelope |-> Shape!Envelope(<< <<"target", "Raw">> >>),
      RawIdentityEnvelope |-> Shape!Envelope(<< <<"identity", "Raw">> >>),
      RawIdentityMarkers |-> Shape!Envelope(<< <<"kind", "Raw">>, <<"version", "Raw">> >>),
      RawIdentityBody |-> Shape!Envelope(<< <<"nodes", "Raw">>, <<"optional_data", "Raw">> >>),
      RawNodeMarker |-> Shape!Envelope(<< <<"kind", "Raw">> >>),
      RawOpaqueMarkers |-> Shape!Envelope(<< <<"kind", "Raw">>, <<"version", "Raw">>,
                                             <<"algorithm", "Raw">> >>),
      WireRecord |-> Shape!Struct(<< <<"version", "count">>, <<"target", "WireTarget">> >>),
      WireTarget |-> Shape!Struct(<< <<"os", "WireOs">>, <<"boot_id", "u16">>,
                                     <<"identity", "WireIdentity">> >>),
      WireOs |-> Shape!UnitEnum({"Windows", "Linux"}),
      WireIdentity |-> Shape!Struct(<< <<"kind", "String">>, <<"version", "count">>,
                                       <<"file_path_list_length", "u16">>, <<"nodes", "Nodes">>,
                                       <<"optional_data", "WireOpaque">> >>),
      WireNode |-> [kind |-> "tagged", tag |-> "kind", other |-> "Unsupported",
                    variants |-> [v \in {"HardDrive", "FilePath", "EndEntire"} |-> v]],
      HardDrive |-> Shape!Struct(Header(<< <<"partition_number", "u32">>,
                        <<"partition_start_lba", "u64">>, <<"partition_size_lba", "u64">>,
                        <<"partition_signature_uefi_bytes", "Signature">>,
                        <<"mbr_type", "u8">>, <<"signature_type", "u8">> >>)),
      FilePath |-> Shape!Struct(Header(<< <<"path_utf16", "Path">>, <<"terminator", "u16">> >>)),
      EndEntire |-> Shape!Struct(Header(<<>>)),
      WireOpaque |-> Shape!Struct(<< <<"kind", "String">>, <<"version", "count">>,
                        <<"algorithm", "String">>, <<"byte_length", "count">>,
                        <<"digest", "String">> >>) ]

LOCAL Json == INSTANCE Serde WITH Types <- RecordTypes
LOCAL Str(s) == Json!Str(s)
LOCAL With(name, value) == Json!With(name, value)
LOCAL Unit(name) == Json!Unit(name)
-----------------------------------------------------------------------------
\* encode_digest, decode_digest: 64 lower-case hexadecimal digits.
EncodeDigest(digest) == [hex |-> digest, form |-> "lower"]
IsDigest(text) == "hex" \in DOMAIN text /\ text.form = "lower"

\* From<&TargetRecord> for WireRecord
FromRecord(record) ==
    LET identity == record.identity
        Node(i, fields) == With(identity.nodes[i].kind,
                                [ type |-> identity.nodes[i].type, subtype |-> identity.nodes[i].subtype,
                                  length |-> identity.nodes[i].length ] @@ fields)
        drive == identity.nodes[1].says
    IN  [ version |-> 1,
          target |-> [ os |-> Unit(record.os), boot_id |-> record.boot_id, identity |->
            [ kind |-> Str("CanonicalIdentity"), version |-> 1,
              file_path_list_length |-> identity.file_path_list_length,
              nodes |-> << Node(1, [ partition_number |-> [wide |-> drive.partition_number],
                                     partition_start_lba |-> [wide |-> drive.partition_start_lba],
                                     partition_size_lba |-> [wide |-> drive.partition_size_lba],
                                     partition_signature_uefi_bytes |-> drive.partition_signature_uefi_bytes,
                                     mbr_type |-> drive.mbr_type, signature_type |-> drive.signature_type ]),
                           Node(2, [path_utf16 |-> identity.nodes[2].says, terminator |-> 0]),
                           Node(3, <<>>) >>,
              optional_data |-> [ kind |-> Str("OpaqueExact"), version |-> 1, algorithm |-> Str("Sha256"),
                                  byte_length |-> identity.byte_length,
                                  digest |-> EncodeDigest(identity.digest) ] ] ] ]

EncodeRecord(record) ==
    IF ~ValidateCanonicalIdentity(record.identity) THEN <<>>
    ELSE Then(<< Json!Serialize("WireRecord", FromRecord(record)) >>,
              LAMBDA doc : When(Json!Size(doc) <= MaxRecordSize, doc))

\* A member of a component that is read as far as its marker; decode_marker.
Under(type, field, doc) == Then(Json!Deserialize(type, doc), LAMBDA read : read[field])
Marks(type, field, doc, known) == Then(Under(type, field, doc), LAMBDA raw : Json!Deserialize(
                                    IF field = "version" THEN "count" ELSE "String", raw)) \in known

\* preflight_identity_components: every marker names what this version knows.
Preflight(doc) ==
    LET Opaque(opaque) ==
            When(/\ Marks("RawOpaqueMarkers", "kind", opaque, {<< Str("OpaqueExact") >>})
                 /\ Marks("RawOpaqueMarkers", "version", opaque, {<<1>>})
                 /\ Marks("RawOpaqueMarkers", "algorithm", opaque, {<< Str("Sha256") >>}),
                 TRUE)
        Nodes(nodes) ==
            \A i \in DOMAIN nodes :
                Marks("RawNodeMarker", "kind", nodes[i],
                      {<< Str("HardDrive") >>, << Str("FilePath") >>, << Str("EndEntire") >>})
        Identity(identity) ==
            IF /\ Marks("RawIdentityMarkers", "kind", identity, {<< Str("CanonicalIdentity") >>})
               /\ Marks("RawIdentityMarkers", "version", identity, {<<1>>})
               /\ Then(Then(Under("RawIdentityBody", "nodes", identity),
                            LAMBDA raw : Json!Deserialize("RawNodes", raw)),
                       LAMBDA nodes : When(Nodes(nodes), TRUE)) # <<>>
            THEN Then(Under("RawIdentityBody", "optional_data", identity), Opaque)
            ELSE <<>>
    IN  Then(Then(Under("RawTargetEnvelope", "target", doc),
                  LAMBDA target : Under("RawIdentityEnvelope", "identity", target)),
             Identity) # <<>>

\* TryFrom<WireRecord> for TargetRecord: the components again, the three nodes
\* in their order, the digest, and the rules of an identity.
IntoRecord(wire) ==
    LET identity == wire.target.identity
        opaque == identity.optional_data
        nodes == identity.nodes
        drive == nodes[1].with
        Node(i, says) == [ kind |-> nodes[i].is, type |-> nodes[i].with.type,
                           subtype |-> nodes[i].with.subtype, length |-> nodes[i].with.length,
                           says |-> says ]
        Record ==
            [ os |-> wire.target.os.is, boot_id |-> wire.target.boot_id, identity |->
              [ file_path_list_length |-> identity.file_path_list_length,
                nodes |-> << Node(1, [ partition_number |-> drive.partition_number.wide,
                                       partition_start_lba |-> drive.partition_start_lba.wide,
                                       partition_size_lba |-> drive.partition_size_lba.wide,
                                       partition_signature_uefi_bytes |-> drive.partition_signature_uefi_bytes,
                                       mbr_type |-> drive.mbr_type,
                                       signature_type |-> drive.signature_type ]),
                             Node(2, nodes[2].with.path_utf16), Node(3, <<>>) >>,
                byte_length |-> opaque.byte_length,
                digest |-> opaque.digest.hex ] ]
    IN  IF /\ wire.version = 1 /\ identity.kind = Str("CanonicalIdentity") /\ identity.version = 1
           /\ opaque.kind = Str("OpaqueExact") /\ opaque.version = 1 /\ opaque.algorithm = Str("Sha256")
           /\ [i \in DOMAIN nodes |-> nodes[i].is] = <<"HardDrive", "FilePath", "EndEntire">>
           /\ IsDigest(opaque.digest)
        THEN Then(<<Record>>,
                  LAMBDA record : When(/\ nodes[2].with.terminator = 0
                                       /\ ValidateCanonicalIdentity(record.identity), record))
        ELSE <<>>

DecodeRecord(doc) ==
    IF \/ Json!Size(doc) > MaxRecordSize
       \/ Json!Deserialize("VersionEnvelope", doc) # << [version |-> 1] >>
       \/ ~Preflight(doc)
    THEN <<>>
    ELSE Then(Json!Deserialize("WireRecord", doc), IntoRecord)
-----------------------------------------------------------------------------
\* What somebody may make of the document in the store: another shape, or
\* another value in one place.
Tampered(doc) == Json!Reshaped(doc) \union Json!Revalued(doc)

\* Documents of one record: members in any order, and the system by its name
\* or as an object of that name, which serde reads as well and decode_record,
\* unlike the wire protocol, does not compare with its own form.
Synonyms(doc, other) ==
    LET plain == Json!Normal(doc)
        variant == Json!Normal([obj |-> << <<plain.map["target"].map["os"].str, Json!Null>> >>])
    IN  \/ Json!Normal(other) = plain /\ Json!Size(other) = Json!Size(doc)
        \/ /\ Json!Normal(other) = [plain EXCEPT !.map["target"].map["os"] = variant]
           /\ Json!Size(other) = Json!Size(doc) + 1
=============================================================================
