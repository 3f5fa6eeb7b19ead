----------------------------- MODULE MCTypePass -----------------------------
(* Streams for TypePass: every sequence of at most MaxChunks of the chunks *)
(* below (whole tag sequences, typedefs and other symbols), and every      *)
(* sequence of at most MaxRaw loose symbols, most of them malformed.       *)
EXTENDS TypePass, SequencesExt

CONSTANTS MaxChunks, MaxRaw

a == <<1>>
b == <<2>>
aDuplicate0 == <<1, 0>>   \* reads like the first duplicate of a
aDot == <<5>>             \* "a.", which validName maps to "a_"
aSub == <<6>>             \* "a_"
vtbl == <<3>>
boolName == <<4>>

MCNames == {<<>>, a, b, aDuplicate0, aDot, aSub, vtbl, boolName}
MCValidName == [x \in MCNames |-> IF x = aDot THEN aSub ELSE x]

Def(class, base, size, name) ==
  [body |-> "Def", class |-> class, base |-> base, size |-> size, arys |-> 0, name |-> name]
Def2(class, base, tag, arys, dims, name) ==
  [body |-> "Def2", class |-> class, base |-> base, size |-> 4, arys |-> arys,
   dims |-> dims, tag |-> tag, name |-> name]

EOS == Def2("EOS", "Null", <<>>, 0, 0, <<>>)
Struct(tag, size, members) == <<Def("STRTAG", "Struct", size, tag)>> \o members \o <<EOS>>
Union(tag, members) == <<Def("UNTAG", "Union", 4, tag)>> \o members \o <<EOS>>
Enum(tag, names) ==
  <<Def("ENTAG", "Enum", 4, tag)>> \o [k \in DOMAIN names |-> Def("MOE", "Null", 0, names[k])]
  \o <<EOS>>

IntField    == Def("MOS", "Int", 4, a)
Method      == Def("FIELD", "Int", 1, b)
StructField(tag) == Def2("MOS", "Struct", tag, 1, 1, b)
SldSymbol == [body |-> "IncSLD"]

Chunks ==
  { Struct(a, 4, <<IntField>>), Struct(a, 4, <<StructField(a), Method>>),
    Struct(a, 4, <<Method>>), Struct(a, 0, <<>>), Struct(aSub, 4, <<IntField>>),
    Struct(aDot, 4, <<StructField(b), IntField>>), Struct(vtbl, 0, <<IntField>>),
    Union(a, <<Def("MOU", "Null", 4, a), SldSymbol, Def2("MOU", "Union", a, 0, 0, b)>>),
    Enum(a, <<a, a>>), Enum(b, <<aDuplicate0>>),
    <<Def("TPDEF", "Int", 4, boolName)>>, <<Def2("TPDEF", "Struct", b, 0, 0, a)>>,
    <<Def2("TPDEF", "Enum", a, 0, 0, b), SldSymbol>> }

Raw ==
  { Def("STRTAG", "Struct", 4, a), Def("STRTAG", "Int", 4, a), Def("UNTAG", "Union", 4, a),
    Def("ENTAG", "Enum", 4, b), Def("ENTAG", "Struct", 4, a), IntField, Method,
    StructField(b), Def2("MOS", "Int", <<>>, 2, 1, a), Def("MOU", "Float", 8, a),
    Def("MOE", "Null", 0, a), Def2("MOE", "Null", <<>>, 0, 0, a), Def("TPDEF", "Float", 8, a),
    Def("TPDEF", "Enum", 4, a), Def("EXT", "Int", 4, a), SldSymbol, EOS }

MCStreams == {FlattenSeq(s) : s \in BoundedSeq(Chunks, MaxChunks)} \cup BoundedSeq(Raw, MaxRaw)
=============================================================================
