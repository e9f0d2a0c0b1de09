---------------------------- MODULE LoadOptions ----------------------------
(* crates/core: how the bytes of a Boot#### variable become the identity by *)
(* which a boot entry is recognised (load_option.rs, device_path.rs,        *)
(* identity.rs). Bytes are bytes here: the 42 bytes of a hard drive node    *)
(* and the four of a header are those of the code, and a number wider than  *)
(* two bytes is kept as its little-endian bytes. What fails is <<>>: which  *)
(* of the errors the code names is of no consequence to the flow.           *)
EXTENDS Partial, SequencesExt

CONSTANT MaxOptionBytes     \* MAX_LOAD_OPTION_BYTES, 1 MiB in the code

ASSUME MaxOptionBytesAssumption == MaxOptionBytes \in Nat

Byte == 0 .. 255

Active == <<1, 0, 0, 0>>
ActiveHidden == <<9, 0, 0, 0>>
Separator == 92
Slash == 47
Dot == 46

\* bytes.get(from..from + count), from counted from 0.
Get(bytes, from, count) ==
    When(from + count <= Len(bytes), SubSeq(bytes, from + 1, from + count))

Word(pair) == pair[1] + 256 * pair[2]

Zeros(bytes) == \A i \in DOMAIN bytes : bytes[i] = 0

\* The UTF-16 units of an even number of bytes.
Units(bytes) == [i \in 1 .. Len(bytes) \div 2 |-> Word(<<bytes[2 * i - 1], bytes[2 * i]>>)]
UnitBytes(units) ==
    [i \in 1 .. 2 * Len(units) |-> IF i % 2 = 1 THEN units[(i + 1) \div 2] % 256
                                   ELSE units[i \div 2] \div 256]

IsHigh(unit) == unit \in 55296 .. 56319
IsLow(unit) == unit \in 56320 .. 57343

\* valid_utf16: every surrogate is one of a pair.
ValidUtf16(units) ==
    \A i \in DOMAIN units :
        /\ IsHigh(units[i]) => i < Len(units) /\ IsLow(units[i + 1])
        /\ IsLow(units[i]) => i > 1 /\ IsHigh(units[i - 1])
-----------------------------------------------------------------------------
(* device_path.rs *)

ParseHardDrive(length, payload) ==
    When(length = 42,
         [ partition_number |-> SubSeq(payload, 1, 4),
           partition_start_lba |-> SubSeq(payload, 5, 12),
           partition_size_lba |-> SubSeq(payload, 13, 20),
           partition_signature_uefi_bytes |-> SubSeq(payload, 21, 36),
           mbr_type |-> payload[37],
           signature_type |-> payload[38] ])

\* The units of a path that ends in its only zero.
ParseFilePath(payload) ==
    LET units == Units(payload)
        path == SubSeq(units, 1, Len(units) - 1)
    IN  When(/\ Len(payload) >= 2 /\ Len(payload) % 2 = 0
             /\ units[Len(units)] = 0 /\ 0 \notin ToSet(path) /\ ValidUtf16(path),
             path)

\* read_bounded_node: a node that lies within the bytes.
ReadBoundedNode(bytes, offset) ==
    LET Node(header, length) ==
            When(/\ length >= 4 /\ offset + length <= Len(bytes)
                 /\ header[1] = 127 => length = 4 /\ header[2] \in {1, 255},
                 [ type |-> header[1], subtype |-> header[2], length |-> length,
                   payload |-> SubSeq(bytes, offset + 5, offset + length),
                   ends |-> IF header[1] # 127 THEN "no"
                            ELSE IF header[2] = 1 THEN "EndInstance" ELSE "EndEntire" ])
    IN  Then(Get(bytes, offset, 4), LAMBDA header : Node(header, Word(SubSeq(header, 3, 4))))

\* parse_node_kind: the node with what its payload says.
ParseNodeKind(node) ==
    LET Kind(name, said) == Then(said, LAMBDA says : << [node |-> node, kind |-> name, says |-> says] >>)
    IN  IF node.ends # "no" THEN Kind(node.ends, << <<>> >>)
        ELSE IF node.type = 4 /\ node.subtype = 1
        THEN Kind("HardDrive", ParseHardDrive(node.length, node.payload))
        ELSE IF node.type = 4 /\ node.subtype = 4 THEN Kind("FilePath", ParseFilePath(node.payload))
        ELSE Kind("Unknown", << <<>> >>)

\* first_path_length: the bytes up to and with the first end of a whole path.
FirstPathLength(bytes) ==
    LET length[offset \in 0 .. Len(bytes)] ==
            Then(ReadBoundedNode(bytes, offset),
                 LAMBDA node : IF node.ends = "EndEntire" THEN << offset + node.length >>
                               ELSE length[offset + node.length])
    IN  length[0]

\* parse_device_path: the instances of a path, each a sequence of nodes.
ParseDevicePath(bytes) ==
    LET After(node, next, rest) ==
            CASE node.kind = "EndEntire" -> When(next = Len(bytes), << <<node>> >>)
              [] node.kind = "EndInstance" ->
                   Then(rest, LAMBDA instances : << << <<node>> >> \o instances >>)
              [] OTHER ->
                   Then(rest, LAMBDA instances : << << <<node>> \o instances[1] >> \o Tail(instances) >>)
        parse[offset \in 0 .. Len(bytes)] ==
            Then(ReadBoundedNode(bytes, offset),
                 LAMBDA read : Then(ParseNodeKind(read),
                                    LAMBDA node : After(node, offset + read.length, parse[offset + read.length])))
    IN  parse[0]

\* The loop of parse_load_option over the paths of the list; the instances of
\* all paths together, since only a list of one path of one instance is used.
ParsePaths(bytes) ==
    LET From(offset) == SubSeq(bytes, offset + 1, Len(bytes))
        paths[offset \in 0 .. Len(bytes)] ==
            IF offset = Len(bytes) THEN << <<>> >>
            ELSE Then(FirstPathLength(From(offset)),
                      LAMBDA length : Then(ParseDevicePath(SubSeq(From(offset), 1, length)),
                           LAMBDA instances : Then(paths[offset + length],
                                LAMBDA rest : << instances \o rest >>)))
    IN  paths[0]
-----------------------------------------------------------------------------
(* load_option.rs *)

\* The description is read unit by unit up to a zero.
ReadDescription(bytes) ==
    LET read[offset \in 0 .. Len(bytes)] ==
            Then(Get(bytes, offset, 2),
                 LAMBDA pair : IF Word(pair) = 0 THEN << [units |-> <<>>, end |-> offset + 2] >>
                               ELSE Then(read[offset + 2],
                                         LAMBDA rest : << [units |-> <<Word(pair)>> \o rest.units,
                                                           end |-> rest.end] >>))
    IN  read[6]

ParseLoadOption(bytes) ==
    LET Option(header, length, description) ==
            Then(Then(Get(bytes, description.end, length), ParsePaths),
                 LAMBDA paths :
                    When(ValidUtf16(description.units),
                         [ attributes |-> SubSeq(header, 1, 4),
                           description_utf16 |-> description.units,
                           file_path_list_length |-> length,
                           file_paths |-> paths,
                           optional_data |-> SubSeq(bytes, description.end + length + 1, Len(bytes)) ]))
    IN  IF Len(bytes) > MaxOptionBytes THEN <<>>
        ELSE Then(Get(bytes, 0, 6),
                  LAMBDA header : Then(ReadDescription(bytes),
                       LAMBDA description : Option(header, Word(SubSeq(header, 5, 6)), description)))
-----------------------------------------------------------------------------
(* identity.rs *)

\* checked_add of two numbers of equal width, from their bytes: does a carry
\* leave the last one?
Overflows(a, b) ==
    LET carry[i \in 0 .. Len(a)] == IF i = 0 THEN 0 ELSE (a[i] + b[i] + carry[i - 1]) \div 256
    IN  carry[Len(a)] > 0

ValidateHardDrive(drive) ==
    /\ ~Zeros(drive.partition_number)
    /\ ~Zeros(drive.partition_size_lba)
    /\ ~Zeros(drive.partition_signature_uefi_bytes)
    /\ drive.mbr_type = 2
    /\ drive.signature_type = 2
    /\ ~Overflows(drive.partition_start_lba, drive.partition_size_lba)

\* The part of a path after the separator at i.
Part(path, i) ==
    LET ends == {j \in i + 1 .. Len(path) : path[j] = Separator} \union {Len(path) + 1}
    IN  SubSeq(path, i + 1, (CHOOSE j \in ends : \A k \in ends : j <= k) - 1)

ValidFilePath(path) ==
    /\ Len(path) > 1 /\ path[1] = Separator
    /\ ToSet(path) \cap {Slash, 0} = {}
    /\ ValidUtf16(path)
    /\ \A i \in DOMAIN path : path[i] = Separator => Part(path, i) \notin {<<>>, <<Dot>>, <<Dot, Dot>>}

\* What canonical_hard_drive, canonical_file_path and canonical_end keep of a
\* node: its header and what its payload says.
CanonicalNode(parsed) ==
    [ kind |-> parsed.kind, type |-> parsed.node.type, subtype |-> parsed.node.subtype,
      length |-> parsed.node.length, says |-> parsed.says ]

CanonicalHardDrive(parsed) ==
    /\ parsed.kind = "HardDrive"
    /\ parsed.node.length = 42
    /\ ValidateHardDrive(parsed.says)
    /\ LET drive == parsed.says
       IN  parsed.node.payload = drive.partition_number \o drive.partition_start_lba
                \o drive.partition_size_lba \o drive.partition_signature_uefi_bytes
                \o <<drive.mbr_type, drive.signature_type>>

CanonicalFilePath(parsed) ==
    /\ parsed.kind = "FilePath"
    /\ parsed.node.length = 4 + 2 * (Len(parsed.says) + 1)
    /\ ValidFilePath(parsed.says)
    /\ parsed.node.payload = UnitBytes(parsed.says) \o <<0, 0>>

CanonicalEnd(parsed) ==
    parsed.kind = "EndEntire" /\ parsed.node.length = 4

\* validate_outer
ValidOuter(option) ==
    /\ option.attributes \in {Active, ActiveHidden}
    /\ 0 \notin ToSet(option.description_utf16)
    /\ ValidUtf16(option.description_utf16)
    /\ Len(option.file_paths) = 1
    /\ 6 + 2 * (Len(option.description_utf16) + 1) + option.file_path_list_length
         + Len(option.optional_data) <= MaxOptionBytes

\* The digest of a byte string. Two strings with one digest do not occur.
Digest(data) == data

\* validate_canonical_identity, also run over what the record store holds.
ValidateCanonicalIdentity(identity) ==
    LET drive == identity.nodes[1]
        path == identity.nodes[2]
        end == identity.nodes[3]
    IN  /\ <<drive.type, drive.subtype, drive.length>> = <<4, 1, 42>>
        /\ ValidateHardDrive(drive.says)
        /\ <<path.type, path.subtype, path.length>> = <<4, 4, 4 + 2 * (Len(path.says) + 1)>>
        /\ ValidFilePath(path.says)
        /\ <<end.type, end.subtype, end.length>> = <<127, 255, 4>>
        /\ identity.file_path_list_length = drive.length + path.length + end.length
        /\ identity.byte_length <= MaxOptionBytes
        /\ identity.byte_length = 0 => identity.digest = Digest(<<>>)

Canonicalize(option) ==
    LET nodes == option.file_paths[1] IN
    IF \/ ~ValidOuter(option) \/ Len(nodes) # 3
       \/ ~(CanonicalHardDrive(nodes[1]) /\ CanonicalFilePath(nodes[2]) /\ CanonicalEnd(nodes[3]))
    THEN <<>>
    ELSE Then(<< [ file_path_list_length |-> option.file_path_list_length,
                   nodes |-> [i \in 1 .. 3 |-> CanonicalNode(nodes[i])],
                   byte_length |-> Len(option.optional_data),
                   digest |-> Digest(option.optional_data) ] >>,
              LAMBDA identity : When(ValidateCanonicalIdentity(identity), identity))

\* A check that compares the path to the program and not what follows it.
ValidateTargetPath(saved, current) ==
    \E identity \in ToSet(Canonicalize(current)) : identity.nodes = saved.nodes

\* validate_target
ValidateTarget(saved, current) == Canonicalize(current) = <<saved>>
=============================================================================
