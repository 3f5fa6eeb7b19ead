----------------------------- MODULE MCDeclPass -----------------------------
(* Streams for DeclPass: every sequence of at most MaxChunks of the chunks *)
(* below (definitions, functions, line groups, overlays), the same with    *)
(* one chunk more from the few that a run names in Deep, and every         *)
(* sequence of at most MaxRaw loose symbols, most of them malformed.       *)
EXTENDS DeclPass, SequencesExt

CONSTANTS MaxChunks, MaxDeep, MaxRaw

a == <<1>>
b == <<2>>
aDot == <<5>>             \* "a.", which validName maps to "a_"
aSub == <<6>>             \* "a_"
vtbl == <<3>>
boolName == <<4>>

MCNames == {<<>>, a, b, aDot, aSub, vtbl, boolName}
MCValidName == [x \in MCNames |-> IF x = aDot THEN aSub ELSE x]

Def(class, base, name, addr, func) ==
  [body |-> "Def", value |-> addr, class |-> class, base |-> base, size |-> 4, arys |-> 0,
   name |-> name, func |-> func]
Def2(class, base, tag, name) ==
  [body |-> "Def2", value |-> 0, class |-> class, base |-> base, size |-> 4, arys |-> 0,
   dims |-> 0, tag |-> tag, name |-> name, func |-> FALSE]
EOS == Def2("EOS", "Null", <<>>, <<>>)
StructDef(tag) ==
  <<Def("STRTAG", "Struct", tag, 0, FALSE), Def("MOS", "Int", a, 0, FALSE), EOS>>

Plain(body) == [body |-> body, value |-> 0]
AtLine(body, line) == [body |-> body, value |-> 0, line |-> line]
Start(name, addr, line) ==
  [body |-> "FuncStart", value |-> addr, name |-> name, line |-> line, path |-> 1]
SetSLD2(line) == [body |-> "SetSLD2", value |-> 0, line |-> line, path |-> 2]
IncByte == [body |-> "IncSLDByte", value |-> 0, inc |-> 3]
Function(name, addr, line, syms_) ==
  <<Start(name, addr, line)>> \o syms_ \o <<AtLine("FuncEnd", 9)>>
Local(name) == Def("AUTO", "Int", name, 0, FALSE)
Begin == AtLine("BlockStart", 2)
End == AtLine("BlockEnd", 3)
NewOverlay(id) == [body |-> "Overlay", value |-> 0, id |-> id]
ToOverlay(id) == [body |-> "SetOverlay", value |-> id]

Chunks ==
  { StructDef(a), <<Def2("EXT", "Struct", a, b)>>, <<Def2("STAT", "Struct", b, b)>>,
    <<Def("EXT", "Int", aDot, 1, TRUE)>>, <<Def("EXT", "Int", aSub, 2, TRUE)>>,
    Function(aDot, 1, 5, <<Def("REGPARM", "Int", a, 0, FALSE), Begin, Local(a), Begin,
                           Def2("AUTO", "Struct", a, a), End, Local(b), End>>),
    Function(aSub, 2, 7, <<Local(a), Local(a), Begin, End, Begin, Local(a), End>>),
    Function(a, 1, 0, <<Def2("ARG", "Struct", b, b), Begin, Begin, End, End>>),
    <<SetSLD2(4), Plain("IncSLD"), IncByte, AtLine("SetSLD", 9), Plain("IncSLD"),
      Plain("EndSLD")>>,
    <<SetSLD2(15), IncByte, SetSLD2(1), Plain("IncSLD"),
      [body |-> "Name1", value |-> 1, name |-> a]>>,
    <<NewOverlay(1)>>, <<ToOverlay(1)>> }

Deep ==
  { <<Def("EXT", "Int", aSub, 1, TRUE)>>, <<Def("EXT", "Int", b, 1, FALSE)>>,
    Function(aSub, 1, 5, <<Begin, End>>), <<NewOverlay(1)>>, <<ToOverlay(1)>> }

Raw ==
  { Def("EXT", "Float", a, 0, FALSE), Def("AUTO", "Int", a, 0, FALSE),
    Def("AUTO", "Float", a, 0, FALSE), Def("103", "Int", a, 0, FALSE), EOS,
    Def("TPDEF", "Int", boolName, 0, FALSE), Def2("EXT", "Null", <<>>, b),
    Def("FIELD", "Int", a, 0, FALSE), Start(a, 0, 1), Start(a, 0, 0), AtLine("FuncEnd", 4),
    AtLine("BlockStart", 0), End, SetSLD2(3), Plain("IncSLD"), Plain("EndSLD"),
    ToOverlay(0) }

MCStreams == {FlattenSeq(s) : s \in BoundedSeq(Chunks, MaxChunks)}
             \cup {FlattenSeq(s) : s \in BoundedSeq(Deep, MaxDeep)}
             \cup BoundedSeq(Raw, MaxRaw)
=============================================================================
