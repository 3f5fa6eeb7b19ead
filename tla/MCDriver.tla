------------------------------ MODULE MCDriver ------------------------------
(* Inputs for Driver: parsers whose overlays and source paths differ, are  *)
(* equal and coincide, and files that fail.  All sequences of at most      *)
(* MaxArgs of them are given to the program with all flags.                *)
EXTENDS Driver

CONSTANT MaxArgs

a == <<1>>
b == <<2>>
int64 == <<3>>

upperA == <<"C:\\A.C", 0>>
lowerA == <<"c:/a.c", 0>>
sourceB == <<"C:\\LIB\\B.C", 0>>
underTypes == <<"types.h/b.c", 0>>
noSource == <<"", 0>>
global(id) == <<"global_%x.cpp", id>>

MCSources == <<noSource, upperA, sourceB, lowerA, global(0), global(1), global(2), global(3), underTypes>>
MCFileOf == [source \in ToSet(MCSources) |->
  CASE source \in {upperA, lowerA} -> << <<"a.c", 0>> >>
    [] source = sourceB -> << <<"lib", 0>>, <<"b.c", 0>> >>
    [] source = underTypes -> << <<"types.h", 0>>, <<"b.c", 0>> >>
    [] OTHER -> <<source>>]

MCLeftover == {<< <<"types.h", 0>> >>, << <<"overlay_%x.h", 1>> >>}

V(name, addr) == [name |-> name, addr |-> addr]
F(name, addr, path) == [name |-> name, addr |-> addr, path |-> path]
Overlay(id, vs, funcs) == [id |-> id, vars |-> vs, funcs |-> funcs]
Parser(typedefs, overlays) == [tags |-> 1, typedefs |-> typedefs, overlays |-> overlays]
Input(outcome, p) == [outcome |-> outcome, parser |-> p]

OneBinary == Parser(<<int64, a>>, <<Overlay(0, <<V(a, 1)>>, <<F(a, 2, lowerA), F(b, 3, global(0))>>)>>)
TwoOverlays == Parser(<<int64, b, int64>>,
  <<Overlay(0, <<V(a, 1)>>, <<F(a, 2, global(0))>>),
    Overlay(1, <<V(b, 1)>>, <<F(a, 3, global(0)), F(b, 4, sourceB)>>)>>)
SameID == Parser(<<>>,
  <<Overlay(0, <<>>, <<F(a, 1, upperA), F(b, 2, lowerA)>>), Overlay(1, <<V(a, 1)>>, <<>>),
    Overlay(1, <<V(a, 1)>>, <<F(a, 1, upperA)>>)>>)
ManyFiles == Parser(<<>>, [o \in 1 .. 4 |-> Overlay(o - 1, <<V(a, o)>>, <<>>)])
NoPathGiven == Parser(<<a>>, <<Overlay(0, <<>>, <<F(a, 1, noSource)>>)>>)
InTheWay == Parser(<<a>>, <<Overlay(0, <<>>, <<F(a, 1, underTypes)>>)>>)

MCInputs ==
  {Input("unreadable", None), Input("types panic", None), Input("decls panic", OneBinary)}
  \cup {Input("parsed", p) : p \in {OneBinary, TwoOverlays, SameID, ManyFiles, NoPathGiven, InTheWay}}

MCArguments == BoundedSeq(MCInputs, MaxArgs)

(* The declarations of all parsers, by the ID of their overlay.            *)
MCMerged(parsers) ==
  LET overlays == FlattenSeq([x \in DOMAIN parsers |-> parsers[x].overlays])
      ids == SetToSortSeq({overlays[x].id : x \in DOMAIN overlays}, <)
      Of(id) == SelectSeq(overlays, LAMBDA o : o.id = id)
  IN Parser(FlattenSeq([x \in DOMAIN parsers |-> parsers[x].typedefs]),
            [x \in DOMAIN ids |->
               Overlay(ids[x], FlattenSeq([y \in DOMAIN Of(ids[x]) |-> Of(ids[x])[y].vars]),
                       FlattenSeq([y \in DOMAIN Of(ids[x]) |-> Of(ids[x])[y].funcs]))])
=============================================================================
