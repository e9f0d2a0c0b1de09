------------------------------- MODULE Serde -------------------------------
(* What crates/protocol and crates/core/src/record.rs rely on of serde and  *)
(* serde_json, which are libraries: how a derived type is written as a JSON *)
(* document, and which documents a derived type is read from. Reading is    *)
(* wider than writing: a struct is also read from an array of its fields in *)
(* order, and a unit variant also from an object whose one member is null.  *)
(*                                                                          *)
(* A document is a tree; the field that names its kind keeps TLC from       *)
(* comparing values of two kinds:                                           *)
(*   [str |-> s]  [num |-> n]  [lit |-> "null"]  [arr |-> docs]             *)
(*   [wide |-> bytes]           a number beyond TLC's integers              *)
(*   [hex |-> data, form |-> f] a string of hexadecimal digits              *)
(*   [obj |-> members]          members in their order, each <<key, doc>>   *)
(*                                                                          *)
(* A value of an enum is [is |-> variant] or [is |-> variant, with |-> v],  *)
(* of a struct a record, of an option <<>> or <<v>>; a string and a number  *)
(* too wide are their documents.                                            *)
EXTENDS Integers, Sequences
LOCAL INSTANCE SequencesExt
LOCAL INSTANCE Partial

CONSTANT Types      \* the shape of every type, by its name

Str(s) == [str |-> s]
Null == [lit |-> "null"]

IsObject(doc) == "obj" \in DOMAIN doc
IsArray(doc) == "arr" \in DOMAIN doc
IsText(doc) == DOMAIN doc \cap {"str", "hex"} # {}

Keys(doc) == [i \in DOMAIN doc.obj |-> doc.obj[i][1]]
Members(doc) == [i \in DOMAIN doc.obj |-> doc.obj[i][2]]
Member(doc, key) == LET i == CHOOSE i \in DOMAIN doc.obj : doc.obj[i][1] = key IN doc.obj[i][2]

\* Shapes of types.
Struct(fields) == [kind |-> "struct", strict |-> TRUE, fields |-> fields]
Envelope(fields) == [kind |-> "struct", strict |-> FALSE, fields |-> fields]
Enum(variants) == [kind |-> "enum", variants |-> variants]
UnitEnum(names) == Enum([n \in names |-> "unit"])
VecOf(of) == [kind |-> "seq", of |-> of]
OptionOf(of) == [kind |-> "option", of |-> of]
Number(least, most) == [kind |-> "number", least |-> least, most |-> most]

Unit(name) == [is |-> name]
With(name, value) == [is |-> name, with |-> value]

\* serde_json::Value: an object is a map, so its order is lost.
RECURSIVE Normal(_)
Normal(doc) ==
    IF IsObject(doc)
    THEN [map |-> [k \in ToSet(Keys(doc)) |-> Normal(Member(doc, k))]]
    ELSE IF IsArray(doc) THEN [arr |-> [i \in DOMAIN doc.arr |-> Normal(doc.arr[i])]]
    ELSE doc

\* The length of the text, counted in members and elements.
RECURSIVE Size(_)
Size(doc) ==
    IF IsObject(doc) THEN FoldSeq(LAMBDA d, n : n + Size(d), 1, Members(doc))
    ELSE IF IsArray(doc) THEN FoldSeq(LAMBDA d, n : n + Size(d), 1, doc.arr)
    ELSE 1
-----------------------------------------------------------------------------
\* to_writer, to_value: fields in the order of their declaration.
RECURSIVE Serialize(_, _)
Serialize(type, value) ==
    LET shape == Types[type] IN
    CASE shape.kind = "struct" ->
           [obj |-> [i \in DOMAIN shape.fields |->
                       <<shape.fields[i][1], Serialize(shape.fields[i][2], value[shape.fields[i][1]])>>]]
      [] shape.kind = "enum" ->
           IF shape.variants[value.is] = "unit" THEN Str(value.is)
           ELSE [obj |-> << <<value.is, Serialize(shape.variants[value.is], value.with)>> >>]
      [] shape.kind = "tagged" ->
           [obj |-> << <<shape.tag, Str(value.is)>> >>
                      \o Serialize(shape.variants[value.is], value.with).obj]
      [] shape.kind \in {"seq", "array"} -> [arr |-> [i \in DOMAIN value |-> Serialize(shape.of, value[i])]]
      [] shape.kind = "option" -> IF value = <<>> THEN Null ELSE Serialize(shape.of, value[1])
      [] shape.kind = "number" -> [num |-> value]
      [] OTHER -> value

\* from_slice: <<value>>, or <<>> when the document is not one of the type.
RECURSIVE Deserialize(_, _)
Deserialize(type, doc) ==
    LET shape == Types[type]
        Fields(values) ==
            Then(Gather([i \in DOMAIN shape.fields |-> Deserialize(shape.fields[i][2], values[i])]),
                 LAMBDA read :
                    << [f \in {shape.fields[i][1] : i \in DOMAIN shape.fields} |->
                          read[CHOOSE i \in DOMAIN shape.fields : shape.fields[i][1] = f]] >>)
        Named(variant, part) ==
            Then(Deserialize(shape.variants[variant], part), LAMBDA value : << With(variant, value) >>)
    IN
    CASE shape.kind = "struct" /\ IsObject(doc) ->
           LET keys == Keys(doc)
               Times(f) == Len(SelectSeq(keys, LAMBDA k : k = f))
               names == {shape.fields[i][1] : i \in DOMAIN shape.fields}
           IN  IF \/ \E f \in names : Times(f) > 1
                  \/ shape.strict /\ ~(ToSet(keys) \subseteq names)
                  \/ \E i \in DOMAIN shape.fields :
                        /\ Times(shape.fields[i][1]) = 0
                        /\ Types[shape.fields[i][2]].kind # "option"
               THEN <<>>
               ELSE Fields([i \in DOMAIN shape.fields |->
                              IF Times(shape.fields[i][1]) = 0 THEN Null
                              ELSE Member(doc, shape.fields[i][1])])
      [] shape.kind = "struct" /\ IsArray(doc) ->
           IF Len(doc.arr) = Len(shape.fields) THEN Fields(doc.arr) ELSE <<>>
      [] shape.kind = "enum" /\ "str" \in DOMAIN doc ->
           When(doc.str \in DOMAIN shape.variants /\ shape.variants[doc.str] = "unit", Unit(doc.str))
      [] shape.kind = "enum" /\ IsObject(doc) /\ Len(doc.obj) = 1 ->
           LET variant == doc.obj[1][1] IN
           IF variant \notin DOMAIN shape.variants THEN <<>>
           ELSE IF shape.variants[variant] = "unit"
           THEN When(doc.obj[1][2] = Null, Unit(variant))
           ELSE Named(variant, doc.obj[1][2])
      [] shape.kind = "tagged" /\ (IsObject(doc) \/ IsArray(doc)) ->
           LET tags == IF IsArray(doc) THEN SubSeq(doc.arr, 1, 1)
                       ELSE Members([obj |-> SelectSeq(doc.obj, LAMBDA m : m[1] = shape.tag)])
               rest == IF IsArray(doc) THEN [arr |-> SubSeq(doc.arr, 2, Len(doc.arr))]
                       ELSE [obj |-> SelectSeq(doc.obj, LAMBDA m : m[1] # shape.tag)]
           IN  IF Len(tags) # 1 \/ ~IsText(tags[1]) THEN <<>>
               ELSE IF tags[1] \notin {Str(v) : v \in DOMAIN shape.variants}
               THEN << Unit(shape.other) >>
               ELSE Named(tags[1].str, rest)
      [] shape.kind = "array" /\ IsArray(doc) /\ Len(doc.arr) # shape.count -> <<>>
      [] shape.kind \in {"seq", "array"} /\ IsArray(doc) ->
           Gather([i \in DOMAIN doc.arr |-> Deserialize(shape.of, doc.arr[i])])
      [] shape.kind = "option" ->
           IF doc = Null THEN << <<>> >>
           ELSE Then(Deserialize(shape.of, doc), LAMBDA value : << <<value>> >>)
      [] shape.kind = "number" /\ "num" \in DOMAIN doc ->
           When(doc.num \in shape.least .. shape.most, doc.num)
      [] shape.kind = "text" -> When(IsText(doc), doc)
      [] shape.kind = "wide" -> When("wide" \in DOMAIN doc /\ Len(doc.wide) = shape.bytes, doc)
      [] shape.kind = "flag" -> When(doc \in {[lit |-> "true"], [lit |-> "false"]}, doc)
      [] shape.kind = "id" -> When(doc \in shape.valid, doc)
      [] shape.kind = "any" -> <<doc>>
      [] OTHER -> <<>>
-----------------------------------------------------------------------------
(* Documents one careless or hostile writer away from a given one.          *)

\* Another shape for what a lenient reader takes for the same value, or a
\* member lost, added or written twice.
RECURSIVE Reshaped(_)
Reshaped(doc) ==
    LET within ==
            IF IsObject(doc)
            THEN UNION {{[obj |-> [doc.obj EXCEPT ![i] = <<@[1], d>>]] : d \in Reshaped(doc.obj[i][2])} :
                        i \in DOMAIN doc.obj}
            ELSE IF IsArray(doc)
            THEN UNION {{[arr |-> [doc.arr EXCEPT ![i] = d]] : d \in Reshaped(doc.arr[i])} :
                        i \in DOMAIN doc.arr}
            ELSE {}
        here ==
            IF IsObject(doc)
            THEN {[arr |-> Members(doc)], [obj |-> Reverse(doc.obj)],
                  [obj |-> Append(doc.obj, <<"unknown", Null>>)]}
                 \union {[obj |-> RemoveAt(doc.obj, i)] : i \in DOMAIN doc.obj}
                 \union {[obj |-> Append(doc.obj, doc.obj[i])] : i \in DOMAIN doc.obj}
            ELSE IF "str" \in DOMAIN doc THEN {[obj |-> << <<doc.str, Null>> >>]}
            ELSE {}
    IN  within \union here

\* Another value at one leaf, or an element lost or repeated.
RECURSIVE Revalued(_)
Revalued(doc) ==
    CASE IsObject(doc) ->
           UNION {{[obj |-> [doc.obj EXCEPT ![i] = <<@[1], d>>]] : d \in Revalued(doc.obj[i][2])} :
                  i \in DOMAIN doc.obj}
      [] IsArray(doc) ->
           UNION {{[arr |-> [doc.arr EXCEPT ![i] = d]] : d \in Revalued(doc.arr[i])} :
                  i \in DOMAIN doc.arr}
           \union {[arr |-> RemoveAt(doc.arr, i)] : i \in DOMAIN doc.arr}
           \union {[arr |-> Append(doc.arr, doc.arr[i])] : i \in DOMAIN doc.arr}
      [] "num" \in DOMAIN doc -> {[num |-> doc.num + 1], [num |-> doc.num - 1], Str("other")}
      [] "str" \in DOMAIN doc -> {Str("other"), [num |-> 1]}
      [] "hex" \in DOMAIN doc -> {[doc EXCEPT !.form = "upper"], [doc EXCEPT !.form = "short"],
                                  [doc EXCEPT !.hex = Append(@, 7)], Str("other")}
      [] "wide" \in DOMAIN doc -> {[wide |-> [doc.wide EXCEPT ![1] = (@ + 1) % 256]],
                                   [wide |-> [i \in DOMAIN doc.wide |-> 0]],
                                   [wide |-> [i \in DOMAIN doc.wide |-> 255]]}
      [] OTHER -> {Str("other")}
=============================================================================
