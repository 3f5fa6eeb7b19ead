------------------------------- MODULE MCMerge -------------------------------
(* Parsers for Merge: with types that are equal, that differ under one     *)
(* tag, that refer to each other and that have fake tags, before and after *)
(* MakeNamesUnique, and with declarations that repeat across overlays.     *)
(* Every sequence of at most MaxParsers of them is merged.                 *)
EXTENDS Merge, SequencesExt

CONSTANT MaxParsers

a == << <<"a", 0>> >>
b == << <<"b", 0>> >>
fake1 == << <<"_1fake", 0>> >>
fake2 == << <<"_2fake", 0>> >>
MCFakeNames == {fake1[1], fake2[1]}
duplicate(t, n) == Append(t, <<"_duplicate_", n>>)

Member(name, ref) == [name |-> name, ref |-> ref]
Type(kind, t, members) == [kind |-> kind, key |-> t, tag |-> t, members |-> members]
Renamed(type, t) == [type EXCEPT !.tag = t]
Struct(t, name) == Type("struct", t, <<Member(name, 0)>>)

D(name, addr, ref) == [name |-> name, addr |-> addr, ref |-> ref]
Overlay(id, vs, funcs) == [id |-> id, vars |-> vs, funcs |-> funcs]
ParserOf(types, defs, ovs) == [types |-> types, typedefs |-> defs, overlays |-> ovs]
Binary(ref) == <<Overlay(0, <<D("v", 1, ref)>>, <<>>)>>

One == ParserOf(<<Struct(a, "x"), Type("struct", b, <<Member("p", 1)>>)>>,
                <<D("t", 0, 1)>>, Binary(2))
Other == ParserOf(<<Struct(a, "y"), Type("struct", b, <<Member("p", 1)>>)>>,
                  <<D("t", 0, 1)>>, Binary(2))
FakesOf(t, name) ==
  ParserOf(<<Struct(t, name), Type("union", t, <<Member("x", 0)>>),
             Type("struct", a, <<Member("u", 2), Member("s", 1)>>), Type("enum", t, <<Member("m", 0)>>)>>,
           <<D("t", 0, 1)>>, Binary(1))
AllTypesOnly == ParserOf(<<Struct(a, "x"), Struct(a, "y"), Struct(a, "z")>>, <<>>, Binary(0))
Unique == ParserOf(<<Renamed(Struct(a, "x"), duplicate(a, 0)), Renamed(Struct(a, "z"), duplicate(a, 1))>>,
                       <<>>, Binary(2))
FakesUnique ==
  ParserOf(<<Renamed(Struct(fake1, "x"), duplicate(fake1, 0)), Renamed(Struct(fake1, "y"), duplicate(fake1, 1))>>,
           <<>>, Binary(2))
Overlays ==
  ParserOf(<<>>, <<>>,
           <<Overlay(0, <<D("v", 2, 0)>>, <<D("f", 1, 0)>>),
             Overlay(1, <<D("v", 3, 0), D("w", 1, 0)>>, <<D("f", 2, 0), D("v", 1, 0)>>),
             Overlay(0, <<D("w", 1, 0)>>, <<>>)>>)

MCMergers ==
  BoundedSeq({One, Other, FakesOf(fake1, "x"), FakesOf(fake2, "x"), AllTypesOnly, Unique,
              FakesUnique, Overlays}, MaxParsers) \ {<<>>}
=============================================================================
