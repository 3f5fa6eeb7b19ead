------------------------------ MODULE MCFixups ------------------------------
(* Streams for Fixups: every sequence of at most MaxChunks of the chunks   *)
(* below (definitions that are equal, nearly equal and different, uses in  *)
(* all the places that have a type), and longer ones of smaller sets: the  *)
(* UseChunks of a struct, NestedChunks, types in each other, and SameTagChunks, types that  *)
(* share their tag.                                                        *)
EXTENDS Fixups, SequencesExt

CONSTANTS MaxChunks, MaxUses, MaxNested, MaxSameTag

a == <<1>>
b == <<2>>
aDuplicate1 == <<1, 1>>   \* "a_duplicate_s1", "a_duplicate_u1", "a_duplicate_e1"
vtbl == <<3>>
boolName == <<4>>

MCNames == {<<>>, a, b, aDuplicate1, vtbl, boolName}
MCValidName == [x \in MCNames |-> x]

Def(class, base, name, addr, form) ==
  [body |-> "Def", value |-> addr, class |-> class, base |-> base, size |-> 4, arys |-> 0,
   name |-> name, func |-> form = "func", form |-> form]
Def2(class, base, tag, name, form) ==
  [body |-> "Def2", value |-> 0, class |-> class, base |-> base, size |-> 4, arys |-> 0,
   dims |-> 0, tag |-> tag, name |-> name, func |-> FALSE, form |-> form]
EOS == Def2("EOS", "Null", <<>>, <<>>, "")
Struct(tag, members) == <<Def("STRTAG", "Struct", tag, 0, "")>> \o members \o <<EOS>>
Union(tag, members) == <<Def("UNTAG", "Union", tag, 0, "")>> \o members \o <<EOS>>
Enum(tag, members) == <<Def("ENTAG", "Enum", tag, 0, "")>> \o members \o <<EOS>>

IntMember(class) == Def(class, "Int", a, 0, "int")
CharMember(class) == Def(class, "Int", a, 0, "char")
PointerTo(class, base, tag) == Def2(class, base, tag, b, "ptr")

Begins(name, addr) == [body |-> "FuncStart", value |-> addr, name |-> name, line |-> 1, path |-> 1]
AtLine(body) == [body |-> body, value |-> 0, line |-> 1]
Function(name, addr, params, locals) ==
  <<Begins(name, addr)>> \o params \o <<AtLine("BlockStart")>> \o locals
  \o <<AtLine("BlockEnd"), AtLine("FuncEnd")>>

IntStruct == Struct(a, <<IntMember("MOS")>>)
CharStruct == Struct(a, <<CharMember("MOS")>>)
StructOfUnion == Struct(a, <<PointerTo("MOS", "Union", a), IntMember("FIELD")>>)
UnionOfStruct == Union(a, <<Def2("MOU", "Struct", a, a, ""), IntMember("MOU")>>)

Defines == <<Def("TPDEF", "Int", boolName, 0, "int"), Def2("TPDEF", "Struct", a, b, "")>>
Globals == <<Def2("EXT", "Struct", a, b, ""), Def("STAT", "Int", b, 1, "int")>>
VarAndFunc == <<Def("STAT", "Int", b, 2, "char"), Def("EXT", "Int", a, 1, "func")>>
Function1 == Function(a, 1, <<Def2("ARG", "Struct", a, a, "")>>, <<PointerTo("AUTO", "Union", a)>>)
Function2 == Function(a, 2, <<>>, <<PointerTo("AUTO", "Struct", a)>>)
NewOverlay == <<[body |-> "Overlay", value |-> 0, id |-> 1], [body |-> "SetOverlay", value |-> 1]>>

Chunks ==
  { IntStruct, CharStruct, Struct(a, <<PointerTo("MOS", "Struct", a)>>),
    Struct(b, <<PointerTo("MOS", "Struct", a), Def("MOS", "Null", a, 4, "")>>),
    StructOfUnion, UnionOfStruct, Union(a, <<PointerTo("MOU", "Union", a)>>),
    Union(b, <<PointerTo("MOU", "Union", a), PointerTo("MOU", "Struct", a)>>),
    Defines, <<Def("TPDEF", "Int", boolName, 0, "char")>>,
    Globals, VarAndFunc, Function1, Function2, NewOverlay }

UseChunks == {IntStruct, Defines, Globals, VarAndFunc, Function1, Function2, NewOverlay}

NestedChunks ==
  { IntStruct, CharStruct, StructOfUnion, UnionOfStruct,
    Struct(b, <<Def2("MOS", "Union", a, b, ""), PointerTo("MOS", "Struct", a)>>) }

SameTagChunks ==
  { IntStruct, CharStruct, Struct(aDuplicate1, <<IntMember("MOS")>>),
    Union(a, <<CharMember("MOU")>>), Enum(a, <<IntMember("MOE")>>) }

Sequences(chunks, len) == {FlattenSeq(s) : s \in BoundedSeq(chunks, len)}

MCStreams == Sequences(Chunks, MaxChunks) \cup Sequences(UseChunks, MaxUses)
             \cup Sequences(NestedChunks, MaxNested) \cup Sequences(SameTagChunks, MaxSameTag)
=============================================================================
