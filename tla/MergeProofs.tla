---------------------------- MODULE MergeProofs ----------------------------
(* Proofs about Merge, for every set of sequences of parsers.              *)
EXTENDS Merge, TLAPS, FiniteSetTheorems, SequenceTheorems, WellFoundedInduction

-----------------------------------------------------------------------------
(* The invariant about tags.                                               *)

(* A type as its SYM file has it.                                          *)
GivenType(t) == given[t[1]].types[t[2]]
SameList(t, u) ==
  t[1] = u[1] /\ GivenType(t).kind = GivenType(u).kind /\ GivenType(t).key = GivenType(u).key

(* What is never changed: all but the tags.                                *)
Shape ==
  /\ given \in Mergers /\ ps \in Seq(Parsers) /\ Len(ps) = Len(given)
  /\ \A m \in DOMAIN given :
       /\ ps[m].typedefs = given[m].typedefs /\ ps[m].overlays = given[m].overlays
       /\ DOMAIN ps[m].types = DOMAIN given[m].types
       /\ \A x \in DOMAIN given[m].types :
            /\ ps[m].types[x].kind = given[m].types[x].kind
            /\ ps[m].types[x].key = given[m].types[x].key
            /\ ps[m].types[x].members = given[m].types[x].members
  /\ pnum \in DOMAIN given /\ at \in Kinds \cup {"typedefs", "decls", "done"}
  /\ tag \in Tags /\ fakes \in [Kinds -> Nat] /\ keys \in [Kinds -> SUBSET Tags]
  /\ kept \subseteq added /\ added \subseteq AllTypes
  /\ next \in Nat \ {0}

(* The types are added parser by parser and kind by kind.                  *)
Rank == [enum |-> 1, struct |-> 2, union |-> 3, typedefs |-> 4]
Passed(t) ==
  \/ at \in {"decls", "done"} \/ t[1] < pnum
  \/ t[1] = pnum /\ Rank[KindOf(t)] < Rank[at]
Order == \A t \in AllTypes :
           /\ Passed(t) => t \in added
           /\ t \in added => Passed(t) \/ (t[1] = pnum /\ KindOf(t) = at)

(* The types of a list are added in their order.                           *)
InOrder == \A t \in added, u \in AllTypes : SameList(t, u) /\ u[2] < t[2] => u \in added

(* Tags change when types are added, and into tags no SYM file has.        *)
TagsMade ==
  /\ \A t \in AllTypes \ added : TagOf(t) = GivenType(t).tag
  /\ \A t \in AllTypes : TagOf(t) # GivenType(t).tag => ~ PlainTag(TagOf(t))

(* The key under which a kept type is in the result.                       *)
KeyOf(t) == IF TagOf(t) = GivenType(t).tag THEN GivenType(t).key ELSE TagOf(t)

KeptOf(kind) == {t \in kept : KindOf(t) = kind}

KeysApart ==
  \A kind \in Kinds :
    /\ \A t \in KeptOf(kind) : KeyOf(t) \in keys[kind]
    /\ \A t, u \in KeptOf(kind) : KeyOf(t) = KeyOf(u) => t = u
    /\ IsFiniteSet(keys[kind]) /\ IsFiniteSet(KeptOf(kind))
    /\ Cardinality(keys[kind]) = Cardinality(KeptOf(kind))

(* A tag that addUniqueStructs makes of the key in the parser m.           *)
MadeOf(t, m, key) == t # <<>> /\ t[1] = key[1] /\ (Len(t) > 1 => t[2] = <<"_dup_", m>>)

(* Where the keys come from.                                               *)
KeysMade ==
  \A kind \in Kinds : \A k \in keys[kind] :
    \/ \E m, count \in Nat : k = FakeTag(kind, m, count) /\ count < fakes[kind]
    \/ \E t \in added : KindOf(t) = kind /\ MadeOf(k, t[1], GivenType(t).key)

(* In the midst of a list, tag is the longest tag made of its key.         *)
TagLongest ==
  \A t \in added, u \in AllTypes \ added :
    SameList(t, u) /\ ~ IsFakeTag(GivenType(u).tag) =>
      /\ MadeOf(tag, pnum, GivenType(u).key) /\ (Len(tag) > 1 => tag \in keys[at])
      /\ \A k \in keys[at] : MadeOf(k, pnum, GivenType(u).key) => Len(k) <= Len(tag)

TagInv == Order /\ InOrder /\ TagsMade /\ KeysApart /\ KeysMade /\ TagLongest

-----------------------------------------------------------------------------
(* Lemmas about tags.                                                      *)

(* A tag of one part is fake if the part is.                               *)
LEMMA FakeOfOnePart ==
  ASSUME NEW t \in Tags, Len(t) = 1
  PROVE  IsFakeTag(t) <=> t[1] \in FakeNames
<1> DEFINE suffixes == {x \in DOMAIN t : IsDuplicateSuffix(t[x])}
           last == CHOOSE x \in suffixes : \A y \in suffixes : y <= x
           base == IF suffixes = {} THEN t ELSE SubSeq(t, 1, last - 1)
<1>1. DOMAIN t = {1}
  BY DEF Tags
<1>2. IsFakeTag(t) <=> Len(base) = 1 /\ base[1] \in FakeNames
  BY DEF IsFakeTag
<1>3. CASE IsDuplicateSuffix(t[1])
  <2>1. suffixes = {1}
    BY <1>1, <1>3
  <2> HIDE DEF suffixes
  <2>2. last = 1
    BY <2>1
  <2> HIDE DEF last
  <2>3. Len(base) = 0
    <3>1. base = SubSeq(t, 1, 0)
      BY <2>1, <2>2
    <3> HIDE DEF base
    <3>2. QED
      BY <3>1 DEF Tags
  <2> HIDE DEF base
  <2>4. QED
    BY <1>2, <1>3, <2>3, MergeAssumption
<1>4. CASE ~ IsDuplicateSuffix(t[1])
  <2>1. suffixes = {}
    BY <1>1, <1>4
  <2>2. QED
    BY <1>2, <2>1
<1>5. QED
  BY <1>3, <1>4

(* A sequence with one more element.                                       *)
LEMMA Appended ==
  ASSUME NEW S, NEW s \in Seq(S), NEW e \in S
  PROVE  /\ Append(s, e) \in Seq(S) /\ Len(Append(s, e)) = Len(s) + 1
         /\ Append(s, e)[Len(s) + 1] = e
         /\ \A x \in 1 .. Len(s) : Append(s, e)[x] = s[x]
BY AppendProperties

(* A number that MakeNamesUnique adds does not count.                      *)
LEMMA FakeOfMadeUnique ==
  ASSUME NEW key \in Tags, Len(key) = 1, NEW n \in Nat
  PROVE  IsFakeTag(Append(key, <<"_duplicate_", n>>)) <=> key[1] \in FakeNames
<1> DEFINE t == Append(key, <<"_duplicate_", n>>)
           suffixes == {x \in DOMAIN t : IsDuplicateSuffix(t[x])}
           last == CHOOSE x \in suffixes : \A y \in suffixes : y <= x
           base == IF suffixes = {} THEN t ELSE SubSeq(t, 1, last - 1)
<1>1. DOMAIN t = 1 .. 2 /\ Len(t) = 2 /\ t[1] = key[1] /\ t[2] = <<"_duplicate_", n>>
  <2>1. key \in Seq(Parts) /\ <<"_duplicate_", n>> \in Parts
    BY DEF Tags, Parts, Names
  <2>2. Len(key) + 1 = 2 /\ 1 \in 1 .. Len(key)
    OBVIOUS
  <2>3. t \in Seq(Parts) /\ Len(t) = 2 /\ t[1] = key[1] /\ t[2] = <<"_duplicate_", n>>
    BY <2>1, <2>2, Appended
  <2>4. QED
    BY <2>3
<1>2. IsFakeTag(t) <=> Len(base) = 1 /\ base[1] \in FakeNames
  BY DEF IsFakeTag
<1> HIDE DEF t
<1>3. suffixes \subseteq 1 .. 2 /\ 2 \in suffixes
  BY <1>1 DEF IsDuplicateSuffix
<1> HIDE DEF suffixes
<1>4. last = 2
  <2>1. \E x \in suffixes : \A y \in suffixes : y <= x
    BY <1>3
  <2>2. last \in suffixes /\ \A y \in suffixes : y <= last
    BY <2>1
  <2> HIDE DEF last
  <2>3. QED
    BY <1>3, <2>2
<1> HIDE DEF last
<1>5. base = SubSeq(t, 1, 1)
  BY <1>3, <1>4
<1> HIDE DEF base
<1>6. Len(base) = 1 /\ base[1] = key[1]
  BY <1>1, <1>5
<1>7. QED
  BY <1>2, <1>6 DEF t

(* Tags with one part are equal if the parts are.                          *)
LEMMA OnePartEqual ==
  ASSUME NEW t \in Tags, NEW u \in Tags, Len(t) = 1, Len(u) = 1, t[1] = u[1]
  PROVE  t = u
<1>1. DOMAIN t = 1 .. 1 /\ DOMAIN u = 1 .. 1
  BY DEF Tags
<1>2. QED
  BY <1>1, SeqEqual DEF Tags

(* What the files have.                                                    *)
LEMMA GivenTyped ==
  ASSUME Shape
  PROVE  /\ given \in Seq(Parsers) /\ DOMAIN ps = DOMAIN given /\ ps \in Seq(Parsers)
         /\ \A m \in DOMAIN given : given[m] \in Parsers /\ ps[m] \in Parsers /\ IsParser(given[m])
         /\ \A t \in AllTypes :
              /\ t = <<t[1], t[2]>> /\ t[1] \in DOMAIN given /\ t[1] \in Nat
              /\ t[2] \in DOMAIN given[t[1]].types /\ t[2] \in DOMAIN ps[t[1]].types /\ t[2] \in Nat
              /\ GivenType(t) \in Types /\ ps[t[1]].types[t[2]] \in Types
              /\ GivenType(t).key \in Tags /\ GivenType(t).tag \in Tags /\ TagOf(t) \in Tags
              /\ KindOf(t) \in Kinds /\ GivenType(t).kind = KindOf(t)
         /\ \A m \in DOMAIN given : \A x \in DOMAIN ps[m].types : <<m, x>> \in AllTypes
<1>1. given \in Seq(Parsers) /\ \A m \in DOMAIN given : IsParser(given[m])
  BY MergeAssumption DEF Shape
<1>2. ps \in Seq(Parsers) /\ DOMAIN ps = DOMAIN given
  BY <1>1 DEF Shape
<1>3. \A m \in DOMAIN given : given[m] \in Parsers /\ ps[m] \in Parsers /\ m \in Nat
  BY <1>1, <1>2
<1>4. \A m \in DOMAIN given : /\ given[m].types \in Seq(Types) /\ ps[m].types \in Seq(Types)
                              /\ DOMAIN ps[m].types = DOMAIN given[m].types
  BY <1>3 DEF Parsers, Shape
<1>5. ASSUME NEW t \in AllTypes
      PROVE  /\ t = <<t[1], t[2]>> /\ t[1] \in DOMAIN given
             /\ t[2] \in DOMAIN given[t[1]].types
  BY DEF AllTypes, TypesOf
<1>6. ASSUME NEW t \in AllTypes
      PROVE  /\ t[1] \in Nat /\ t[2] \in Nat /\ t[2] \in DOMAIN ps[t[1]].types
             /\ given[t[1]].types[t[2]] \in Types /\ ps[t[1]].types[t[2]] \in Types
  BY <1>3, <1>4, <1>5
<1>7. ASSUME NEW t \in AllTypes
      PROVE  /\ GivenType(t).key \in Tags /\ GivenType(t).tag \in Tags /\ TagOf(t) \in Tags
             /\ KindOf(t) \in Kinds
  BY <1>6 DEF GivenType, TagOf, KindOf, Types
<1>8. \A m \in DOMAIN given : \A x \in DOMAIN ps[m].types : <<m, x>> \in AllTypes
  BY <1>4 DEF AllTypes, TypesOf
<1>9. QED
  BY <1>1, <1>2, <1>3, <1>5, <1>6, <1>7, <1>8 DEF GivenType, KindOf

(* The tags of a list are fake if its key is.                              *)
LEMMA FakeByKey ==
  ASSUME Shape, PlainTags, NEW t \in AllTypes
  PROVE  IsFakeTag(GivenType(t).tag) <=> GivenType(t).key[1] \in FakeNames
<1> DEFINE type == GivenType(t)
<1>1. type.key \in Tags /\ type.tag \in Tags
  BY GivenTyped
<1>2. Len(type.key) = 1 /\ (type.tag = type.key \/ MadeUnique(type.key, type.tag))
  BY DEF PlainTags, GivenType
<1>3. CASE type.tag = type.key
  BY <1>1, <1>2, <1>3, FakeOfOnePart
<1>4. CASE MadeUnique(type.key, type.tag)
  <2>1. PICK x \in DOMAIN type.tag : type.tag = Append(type.key, <<"_duplicate_", type.tag[x][2]>>)
    BY <1>4 DEF MadeUnique
  <2>2. type.tag[x] \in Parts
    BY <1>1 DEF Tags
  <2>3. type.tag[x][2] \in Nat
    BY <2>2 DEF Parts
  <2>4. QED
    BY <1>1, <1>2, <2>1, <2>3, FakeOfMadeUnique
<1>5. QED
  BY <1>2, <1>3, <1>4

(* A tag tells its key.                                                    *)
LEMMA TagTellsKey ==
  ASSUME Shape, PlainTags, NEW t \in AllTypes, NEW u \in AllTypes, GivenType(t).tag = GivenType(u).tag
  PROVE  GivenType(t).key = GivenType(u).key
<1>1. ASSUME NEW v \in AllTypes
      PROVE  /\ GivenType(v).key \in Tags /\ GivenType(v).tag \in Tags /\ Len(GivenType(v).key) = 1
             /\ GivenType(v).tag[1] = GivenType(v).key[1]
  <2> DEFINE type == GivenType(v)
  <2>1. type.key \in Tags /\ type.tag \in Tags
    BY GivenTyped
  <2>2. Len(type.key) = 1 /\ (type.tag = type.key \/ MadeUnique(type.key, type.tag))
    BY DEF PlainTags, GivenType
  <2>3. ASSUME MadeUnique(type.key, type.tag) PROVE type.tag[1] = type.key[1]
    <3>1. PICK x \in DOMAIN type.tag : type.tag = Append(type.key, <<"_duplicate_", type.tag[x][2]>>)
      BY <2>3 DEF MadeUnique
    <3>2. type.tag[x] \in Parts
      BY <2>1 DEF Tags
    <3>3. <<"_duplicate_", type.tag[x][2]>> \in Parts
      BY <3>2 DEF Parts, Names
    <3>4. type.key \in Seq(Parts) /\ 1 \in 1 .. Len(type.key)
      BY <2>1, <2>2 DEF Tags
    <3> HIDE DEF type
    <3>5. QED
      BY <3>1, <3>3, <3>4, Appended
  <2>4. QED
    BY <2>1, <2>2, <2>3
<1>2. QED
  BY <1>1, OnePartEqual

(* Tags that are made read like no tag of a file.                          *)
LEMMA FakeTagProperty ==
  ASSUME NEW kind \in Kinds, NEW n \in Nat, NEW count \in Nat
  PROVE  /\ FakeTag(kind, n, count) \in Tags /\ Len(FakeTag(kind, n, count)) = 2
         /\ FakeTag(kind, n, count)[1] = <<kind, n>>
         /\ FakeTag(kind, n, count)[2] = <<"_fake_", count>>
         /\ ~ PlainTag(FakeTag(kind, n, count))
<1>1. <<kind, n>> \in Parts /\ <<"_fake_", count>> \in Parts
  BY DEF Parts, Names
<1>2. DOMAIN FakeTag(kind, n, count) = 1 .. 2
  BY DEF FakeTag
<1>3. QED
  BY <1>1, <1>2 DEF FakeTag, Tags, PlainTag

LEMMA DupTagProperty ==
  ASSUME NEW t \in Tags, NEW n \in Nat
  PROVE  /\ DupTag(t, n) \in Tags /\ Len(DupTag(t, n)) = Len(t) + 1
         /\ DupTag(t, n)[Len(t) + 1] = <<"_dup_", n>>
         /\ \A x \in 1 .. Len(t) : DupTag(t, n)[x] = t[x]
         /\ ~ PlainTag(DupTag(t, n))
<1>1. <<"_dup_", n>> \in Parts
  BY DEF Parts, Names
<1>2. /\ DupTag(t, n) \in Tags /\ Len(DupTag(t, n)) = Len(t) + 1
      /\ DupTag(t, n)[Len(t) + 1] = <<"_dup_", n>>
      /\ \A x \in 1 .. Len(t) : DupTag(t, n)[x] = t[x]
  BY <1>1, Appended DEF DupTag, Tags
<1>3. Len(t) + 1 \in DOMAIN DupTag(t, n)
  BY <1>2 DEF Tags
<1>4. ~ PlainTag(DupTag(t, n))
  BY <1>2, <1>3 DEF PlainTag
<1>5. QED
  BY <1>2, <1>4

-----------------------------------------------------------------------------
(* What is never changed.                                                  *)

LEMMA WithTagProperty ==
  ASSUME Shape, NEW x \in DOMAIN Parser.types, NEW t \in Tags
  PROVE  /\ WithTag(x, t) \in Seq(Parsers) /\ Len(WithTag(x, t)) = Len(ps)
         /\ DOMAIN WithTag(x, t) = DOMAIN ps
         /\ \A m \in DOMAIN given :
              /\ WithTag(x, t)[m].typedefs = ps[m].typedefs
              /\ WithTag(x, t)[m].overlays = ps[m].overlays
              /\ DOMAIN WithTag(x, t)[m].types = DOMAIN ps[m].types
              /\ \A y \in DOMAIN ps[m].types :
                   /\ WithTag(x, t)[m].types[y].kind = ps[m].types[y].kind
                   /\ WithTag(x, t)[m].types[y].key = ps[m].types[y].key
                   /\ WithTag(x, t)[m].types[y].members = ps[m].types[y].members
                   /\ WithTag(x, t)[m].types[y].tag =
                        IF m = pnum /\ y = x THEN t ELSE ps[m].types[y].tag
<1> DEFINE type == [Parser.types[x] EXCEPT !.tag = t]
           types == [Parser.types EXCEPT ![x] = type]
           parser == [Parser EXCEPT !.types = types]
<1>1. WithTag(x, t) = [ps EXCEPT ![pnum] = parser]
  BY DEF WithTag, Parser
<1>2. pnum \in DOMAIN ps /\ Parser \in Parsers /\ ps \in Seq(Parsers) /\ DOMAIN ps = DOMAIN given
  BY GivenTyped DEF Shape, Parser
<1>3. Parser.types \in Seq(Types)
  BY <1>2 DEF Parsers
<1>4. Parser.types[x] \in Types
  BY <1>3
<1>5. /\ type \in Types /\ type.kind = Parser.types[x].kind /\ type.key = Parser.types[x].key
      /\ type.members = Parser.types[x].members /\ type.tag = t
  BY <1>4 DEF Types
<1> HIDE DEF type
<1>6. types \in Seq(Types) /\ DOMAIN types = DOMAIN Parser.types
  BY <1>3, <1>5
<1>7. \A y \in DOMAIN Parser.types : types[y] = IF y = x THEN type ELSE Parser.types[y]
  BY <1>3
<1> HIDE DEF types
<1>8. /\ parser \in Parsers /\ parser.types = types
      /\ parser.typedefs = Parser.typedefs /\ parser.overlays = Parser.overlays
  BY <1>2, <1>6 DEF Parsers
<1> HIDE DEF parser
<1>9. /\ WithTag(x, t) \in Seq(Parsers) /\ Len(WithTag(x, t)) = Len(ps)
      /\ DOMAIN WithTag(x, t) = DOMAIN ps
  BY <1>1, <1>2, <1>8
<1>10. \A m \in DOMAIN given : WithTag(x, t)[m] = IF m = pnum THEN parser ELSE ps[m]
  BY <1>1, <1>2
<1>11. ASSUME NEW m \in DOMAIN given
       PROVE  /\ WithTag(x, t)[m].typedefs = ps[m].typedefs
              /\ WithTag(x, t)[m].overlays = ps[m].overlays
              /\ DOMAIN WithTag(x, t)[m].types = DOMAIN ps[m].types
              /\ \A y \in DOMAIN ps[m].types :
                   /\ WithTag(x, t)[m].types[y].kind = ps[m].types[y].kind
                   /\ WithTag(x, t)[m].types[y].key = ps[m].types[y].key
                   /\ WithTag(x, t)[m].types[y].members = ps[m].types[y].members
                   /\ WithTag(x, t)[m].types[y].tag =
                        IF m = pnum /\ y = x THEN t ELSE ps[m].types[y].tag
  <2>1. CASE m = pnum
    BY <1>5, <1>6, <1>7, <1>8, <1>10, <2>1 DEF Parser
  <2>2. CASE m # pnum
    BY <1>10, <2>2
  <2>3. QED
    BY <2>1, <2>2
<1>12. QED
  BY <1>9, <1>11

(* The loop variable is a tag.                                             *)
LEMMA TagBeforeTyped ==
  ASSUME Shape, NEW x \in DOMAIN Parser.types
  PROVE  TagBefore(x) \in Tags /\ pnum \in Nat
<1>1. Parser \in Parsers /\ pnum \in Nat
  BY GivenTyped DEF Shape, Parser
<1>2. Parser.types[x] \in Types
  BY <1>1 DEF Parsers
<1>3. Parser.types[x].key \in Tags
  BY <1>2 DEF Types
<1>4. QED
  BY <1>1, <1>3 DEF TagBefore, Shape

LEMMA ShapeInit == Init => Shape
<1> SUFFICES ASSUME Init PROVE Shape
  OBVIOUS
<1>1. ps \in Mergers /\ given = ps /\ ps # <<>> /\ ps \in Seq(Parsers)
  BY MergeAssumption DEF Init
<1>2. 1 \in DOMAIN given
  BY <1>1
<1>3. QED
  BY <1>1, <1>2 DEF Init, Shape, Tags, Kinds

LEMMA ShapeStep == Shape /\ [Next]_vars => Shape'
<1> SUFFICES ASSUME Shape, [Next]_vars PROVE Shape'
  OBVIOUS
<1> DEFINE Kept(p) ==
      /\ p \in Seq(Parsers) /\ Len(p) = Len(given)
      /\ \A m \in DOMAIN given :
           /\ p[m].typedefs = given[m].typedefs /\ p[m].overlays = given[m].overlays
           /\ DOMAIN p[m].types = DOMAIN given[m].types
           /\ \A x \in DOMAIN given[m].types :
                /\ p[m].types[x].kind = given[m].types[x].kind
                /\ p[m].types[x].key = given[m].types[x].key
                /\ p[m].types[x].members = given[m].types[x].members
<1>1. Kept(ps)
  BY DEF Shape
<1>2. given' = given
  BY DEF Next, vars
<1>3. AllTypes' = AllTypes
  BY <1>2 DEF AllTypes, TypesOf
<1>4. ASSUME NEW x \in DOMAIN Parser.types, NEW t \in Tags PROVE Kept(WithTag(x, t))
  <2>1. DOMAIN ps = DOMAIN given
    BY GivenTyped
  <2>2. QED
    BY <1>1, <1>4, <2>1, WithTagProperty
<1>5. (\E p : ps' = p /\ Kept(p)) /\ given' = given
          /\ pnum' \in DOMAIN given /\ at' \in Kinds \cup {"typedefs", "decls", "done"}
          /\ tag' \in Tags /\ fakes' \in [Kinds -> Nat] /\ keys' \in [Kinds -> SUBSET Tags]
          /\ kept' \subseteq added' /\ added' \subseteq AllTypes /\ next' \in Nat \ {0}
      => Shape'
  <2> HIDE DEF Kept
  <2>1. ASSUME NEW p, ps' = p, Kept(p), given' = given
        PROVE  /\ given' \in Mergers /\ ps' \in Seq(Parsers) /\ Len(ps') = Len(given')
               /\ \A m \in DOMAIN given' :
                    /\ ps'[m].typedefs = given'[m].typedefs /\ ps'[m].overlays = given'[m].overlays
                    /\ DOMAIN ps'[m].types = DOMAIN given'[m].types
                    /\ \A x \in DOMAIN given'[m].types :
                         /\ ps'[m].types[x].kind = given'[m].types[x].kind
                         /\ ps'[m].types[x].key = given'[m].types[x].key
                         /\ ps'[m].types[x].members = given'[m].types[x].members
    BY <2>1 DEF Kept, Shape
  <2>2. QED
    BY <1>3, <2>1 DEF Shape
<1> HIDE DEF Kept
<1>6. /\ pnum \in DOMAIN given /\ at \in Kinds \cup {"typedefs", "decls", "done"}
      /\ tag \in Tags /\ fakes \in [Kinds -> Nat] /\ keys \in [Kinds -> SUBSET Tags]
      /\ kept \subseteq added /\ added \subseteq AllTypes /\ next \in Nat \ {0}
  BY DEF Shape
<1>7. pnum \in Nat /\ pnum \in DOMAIN ps /\ (pnum < Len(ps) => pnum + 1 \in DOMAIN given)
      /\ 1 \in DOMAIN given
  BY <1>6, GivenTyped
<1>8. CASE AddType
  <2>1. PICK x \in DOMAIN Parser.types :
          /\ IsNext(x) /\ (AddFake(x) \/ DropTagged(x) \/ KeepTagged(x))
          /\ added' = added \cup {<<pnum, x>>}
    BY <1>8 DEF AddType
  <2>2. at \in Kinds /\ UNCHANGED <<pnum, at, typedefs, overlays, next>>
    BY <1>8 DEF AddType
  <2>3. <<pnum, x>> \in AllTypes
    BY <1>6, GivenTyped DEF Parser
  <2>4. added' \subseteq AllTypes /\ kept \subseteq added' /\ <<pnum, x>> \in added'
    BY <1>6, <2>1, <2>3
  <2>5. ASSUME NEW new \in Tags
        PROVE  [keys EXCEPT ![at] = @ \cup {new}] \in [Kinds -> SUBSET Tags]
    BY <1>6, <2>5
  <2>6. TagBefore(x) \in Tags
    BY TagBeforeTyped
  <2>7. CASE AddFake(x)
    <3> DEFINE new == FakeTag(at, pnum, fakes[at])
    <3>1. fakes[at] \in Nat /\ fakes' \in [Kinds -> Nat]
      BY <1>6, <2>2, <2>7 DEF AddFake
    <3>2. new \in Tags
      BY <1>7, <2>2, <3>1, FakeTagProperty
    <3>3. tag' = new /\ ps' = WithTag(x, new)
      BY <2>7 DEF AddFake, WithNewTag
    <3>4. \/ kept' = kept /\ keys' = keys
          \/ kept' = kept \cup {<<pnum, x>>} /\ keys' = [keys EXCEPT ![at] = @ \cup {new}]
      BY <2>7 DEF AddFake
    <3> HIDE DEF new
    <3>5. kept' \subseteq added' /\ keys' \in [Kinds -> SUBSET Tags]
      BY <1>6, <2>4, <2>5, <3>2, <3>4
    <3>6. QED
      BY <1>2, <1>4, <1>5, <1>6, <2>2, <2>4, <3>1, <3>2, <3>3, <3>5
  <2>8. CASE DropTagged(x)
    <3>1. tag' \in Tags /\ ps' = ps /\ fakes' = fakes /\ kept' = kept /\ keys' = keys
      BY <2>6, <2>8 DEF DropTagged
    <3>2. QED
      BY <1>1, <1>2, <1>5, <1>6, <2>2, <2>4, <3>1
  <2>9. CASE KeepTagged(x)
    <3>1. PICK new \in Tags : /\ tag' = new /\ (ps' = WithTag(x, new) \/ ps' = ps)
                              /\ kept' = kept \cup {<<pnum, x>>}
                              /\ keys' = [keys EXCEPT ![at] = @ \cup {new}] /\ fakes' = fakes
      <4>1. DupTag(TagBefore(x), pnum) \in Tags
        BY <1>7, <2>6, DupTagProperty
      <4>2. QED
        BY <2>6, <2>9, <4>1 DEF KeepTagged
    <3>2. kept' \subseteq added' /\ keys' \in [Kinds -> SUBSET Tags]
      BY <1>6, <2>4, <2>5, <3>1
    <3>3. QED
      BY <1>1, <1>2, <1>4, <1>5, <1>6, <2>2, <2>4, <3>1, <3>2
  <2>10. QED
    BY <2>1, <2>7, <2>8, <2>9
<1>9. CASE EndKind
  <2>1. After[at] \in Kinds \cup {"typedefs", "decls", "done"}
    BY <1>9 DEF EndKind, After, Kinds
  <2>2. QED
    BY <1>1, <1>2, <1>5, <1>6, <1>9, <2>1 DEF EndKind, typeVars
<1>10. CASE AddTypedef
  BY <1>1, <1>2, <1>5, <1>6, <1>10 DEF AddTypedef, typeVars
<1>11. CASE EndTypedefs
  <2>1. pnum' \in DOMAIN given /\ at' \in Kinds \cup {"typedefs", "decls", "done"} /\ next' \in Nat \ {0}
    BY <1>7, <1>11 DEF EndTypedefs, Kinds
  <2>2. QED
    BY <1>1, <1>2, <1>5, <1>6, <1>11, <2>1 DEF EndTypedefs, typeVars
<1>12. CASE AddOverlay
  BY <1>1, <1>2, <1>5, <1>6, <1>12 DEF AddOverlay, typeVars
<1>13. CASE AddDecl
  BY <1>1, <1>2, <1>5, <1>6, <1>13 DEF AddDecl, typeVars
<1>14. CASE EndDecls
  <2>1. pnum' \in DOMAIN given /\ at' \in Kinds \cup {"typedefs", "decls", "done"} /\ next' \in Nat \ {0}
    BY <1>6, <1>7, <1>14 DEF EndDecls
  <2>2. QED
    BY <1>1, <1>2, <1>5, <1>6, <1>14, <2>1 DEF EndDecls, typeVars
<1>15. CASE UNCHANGED vars
  BY <1>1, <1>2, <1>5, <1>6, <1>15 DEF vars, typeVars
<1>16. QED
  BY <1>8, <1>9, <1>10, <1>11, <1>12, <1>13, <1>14, <1>15 DEF Next

-----------------------------------------------------------------------------
(* The lists of types.                                                     *)

LEMMA ListOfProperty ==
  ASSUME Shape, NEW x \in DOMAIN Parser.types
  PROVE  /\ <<pnum, x>> \in AllTypes /\ <<pnum, x>>[1] = pnum /\ <<pnum, x>>[2] = x
         /\ Parser.types[x].kind = KindOf(<<pnum, x>>)
         /\ Parser.types[x].key = GivenType(<<pnum, x>>).key
         /\ Parser.types[x].tag = TagOf(<<pnum, x>>)
         /\ \A y : y \in ListOf(x) <=> <<pnum, y>> \in AllTypes /\ SameList(<<pnum, y>>, <<pnum, x>>)
<1>1. pnum \in DOMAIN given /\ DOMAIN Parser.types = DOMAIN given[pnum].types
  BY DEF Shape, Parser
<1>2. \A y \in DOMAIN Parser.types : /\ Parser.types[y].kind = given[pnum].types[y].kind
                                     /\ Parser.types[y].key = given[pnum].types[y].key
  BY <1>1 DEF Shape, Parser
<1>3. \A y : <<pnum, y>> \in AllTypes <=> y \in DOMAIN Parser.types
  BY <1>1 DEF AllTypes, TypesOf
<1>4. QED
  BY <1>2, <1>3 DEF KindOf, GivenType, TagOf, ListOf, SameList, Parser

LEMMA ThroughOneList ==
  ASSUME Shape, Order, NEW x \in DOMAIN Parser.types, IsNext(x), at \in Kinds,
         NEW t \in added \cup {<<pnum, x>>}, NEW u \in AllTypes, u \notin added, SameList(t, u)
  PROVE  SameList(<<pnum, x>>, u)
<1>1. CASE t = <<pnum, x>>
  BY <1>1
<1>2. CASE t \in added
  <2>1. t \in AllTypes /\ KindOf(t) \in Kinds /\ KindOf(u) = KindOf(t) /\ t[1] = u[1]
    <3>1. t \in AllTypes
      BY <1>2 DEF Shape
    <3>2. QED
      BY <3>1, GivenTyped DEF SameList
  <2>2. ~ Passed(u)
    BY DEF Order
  <2>3. ~ Passed(t)
    BY <2>1, <2>2 DEF Passed
  <2>4. t[1] = pnum /\ KindOf(t) = at
    BY <1>2, <2>1, <2>3 DEF Order
  <2>5. t = <<pnum, t[2]>> /\ u = <<pnum, u[2]>> /\ t[2] \in DOMAIN Parser.types
    BY <2>1, <2>4, GivenTyped DEF Parser
  <2>6. IsAdded(t[2]) /\ Parser.types[t[2]].kind = at /\ ~ IsAdded(u[2])
    <3>1. Parser.types[t[2]].kind = KindOf(t)
      BY <2>5, ListOfProperty
    <3>2. QED
      BY <1>2, <2>4, <2>5, <3>1 DEF IsAdded
  <2>7. u[2] \in ListOf(t[2])
    <3>1. SameList(<<pnum, u[2]>>, <<pnum, t[2]>>)
      BY <2>5 DEF SameList
    <3>2. QED
      BY <2>5, <3>1, ListOfProperty
  <2>8. ListOf(t[2]) = ListOf(x)
    BY <2>5, <2>6, <2>7 DEF IsNext
  <2>9. SameList(<<pnum, u[2]>>, <<pnum, x>>)
    BY <2>7, <2>8, ListOfProperty
  <2>10. QED
    BY <2>5, <2>9 DEF SameList
<1>3. QED
  BY <1>1, <1>2

(* The tag that a type is compared with is the longest made of its key.    *)
LEMMA TagBeforeLongest ==
  ASSUME Shape, PlainTags, TagInv, NEW x \in DOMAIN Parser.types, IsNext(x), at \in Kinds,
         ~ IsFakeTag(GivenType(<<pnum, x>>).tag)
  PROVE  /\ MadeOf(TagBefore(x), pnum, GivenType(<<pnum, x>>).key)
         /\ Len(TagBefore(x)) > 1 => TagBefore(x) \in keys[at]
         /\ \A k \in keys[at] :
              MadeOf(k, pnum, GivenType(<<pnum, x>>).key) => Len(k) <= Len(TagBefore(x))
<1> DEFINE u == <<pnum, x>>
           key == GivenType(u).key
<1>1. /\ u \in AllTypes /\ u \notin added /\ key \in Tags /\ Len(key) = 1 /\ PlainTag(key)
      /\ KindOf(u) = at /\ Parser.types[x].key = key /\ u[1] = pnum /\ u[2] = x /\ x \in Nat
  BY ListOfProperty, GivenTyped DEF IsNext, IsAdded, PlainTags, GivenType
<1>2. CASE \A y \in ListOf(x) : x <= y
  <2>1. TagBefore(x) = key
    BY <1>1, <1>2 DEF TagBefore
  <2>2. ASSUME NEW k \in keys[at], MadeOf(k, pnum, key), Len(k) > 1 PROVE FALSE
    <3>1. CASE \E m, count \in Nat : k = FakeTag(at, m, count)
      <4>1. k[1] = key[1] /\ k[1][1] = at /\ 1 \in DOMAIN key
        BY <1>1, <2>2, <3>1, FakeTagProperty DEF MadeOf, Tags
      <4>2. QED
        BY <1>1, <4>1 DEF PlainTag
    <3>2. CASE \E t \in added : KindOf(t) = at /\ MadeOf(k, t[1], GivenType(t).key)
      <4>1. PICK t \in added : KindOf(t) = at /\ MadeOf(k, t[1], GivenType(t).key)
        BY <3>2
      <4>2. /\ t \in AllTypes /\ GivenType(t).key \in Tags /\ Len(GivenType(t).key) = 1
            /\ t = <<t[1], t[2]>> /\ t[2] \in Nat
        BY <4>1, GivenTyped DEF Shape, PlainTags, GivenType
      <4>3. t[1] = pnum
        <5>1. <<"_dup_", t[1]>> = <<"_dup_", pnum>>
          BY <2>2, <4>1 DEF MadeOf
        <5>2. QED
          BY <5>1
      <4>4. GivenType(t).key = key
        BY <1>1, <2>2, <4>1, <4>2, OnePartEqual DEF MadeOf
      <4>5. SameList(t, u)
        BY <1>1, <4>1, <4>2, <4>3, <4>4, GivenTyped DEF SameList
      <4>6. t[2] \in ListOf(x)
        BY <4>2, <4>3, <4>5, ListOfProperty DEF SameList
      <4>7. x < t[2]
        BY <1>1, <1>2, <4>1, <4>2, <4>3, <4>6
      <4>8. QED
        BY <1>1, <4>1, <4>5, <4>7 DEF TagInv, InOrder
    <3>3. QED
      BY <2>2, <3>1, <3>2 DEF TagInv, KeysMade
  <2>3. \A k \in keys[at] : Len(k) \in Nat
    BY DEF Shape, Tags
  <2> HIDE DEF key, u
  <2>4. key # <<>> /\ ~ (Len(key) > 1)
    <3>1. key \in Seq(Parts) /\ Len(key) = 1
      BY <1>1 DEF Tags
    <3>2. QED
      BY <3>1, EmptySeq
  <2>5. MadeOf(key, pnum, key)
    BY <2>4 DEF MadeOf
  <2>6. \A k \in keys[at] : MadeOf(k, pnum, key) => Len(k) <= Len(key)
    BY <1>1, <2>2, <2>3
  <2>7. QED
    BY <2>1, <2>4, <2>5, <2>6 DEF key, u
<1>3. CASE \E y \in ListOf(x) : ~ (x <= y)
  <2>1. PICK y \in ListOf(x) : ~ (x <= y)
    BY <1>3
  <2>2. y \in Nat /\ <<pnum, y>> \in AllTypes /\ SameList(<<pnum, y>>, u)
    BY <2>1, ListOfProperty, GivenTyped
  <2>3. <<pnum, y>> \in added
    BY <1>1, <2>1, <2>2 DEF IsNext, IsAdded
  <2>4. TagBefore(x) = tag
    BY <1>3 DEF TagBefore
  <2>5. QED
    BY <1>1, <2>2, <2>3, <2>4 DEF TagInv, TagLongest
<1>4. QED
  BY <1>2, <1>3

-----------------------------------------------------------------------------
(* What the addition of a type keeps.                                      *)

LEMMA OrderKept ==
  ASSUME Shape, TagInv, at \in Kinds, NEW x \in DOMAIN Parser.types, IsNext(x),
         added' = added \cup {<<pnum, x>>}, UNCHANGED <<given, at, pnum>>
  PROVE  Order' /\ InOrder'
<1> DEFINE u == <<pnum, x>>
<1>1. u \in AllTypes /\ KindOf(u) = at /\ u[1] = pnum /\ u[2] = x
  BY ListOfProperty DEF IsNext
<1>2. AllTypes' = AllTypes
  BY DEF AllTypes, TypesOf
<1>3. \A t \in AllTypes : (Passed(t)' <=> Passed(t)) /\ KindOf(t)' = KindOf(t)
  BY DEF Passed, KindOf
<1>4. \A t \in AllTypes, s \in AllTypes : SameList(t, s)' <=> SameList(t, s)
  BY DEF SameList, GivenType
<1> HIDE DEF u
<1>5. Order'
  <2>1. ASSUME NEW t \in AllTypes
        PROVE  /\ Passed(t)' => t \in added'
               /\ t \in added' => Passed(t)' \/ (t[1] = pnum' /\ KindOf(t)' = at')
    BY <1>1, <1>3 DEF TagInv, Order, u
  <2>2. QED
    BY <1>2, <2>1 DEF Order
<1>6. InOrder'
  <2>1. ASSUME NEW t \in added', NEW s \in AllTypes, SameList(t, s), s[2] < t[2] PROVE s \in added'
    <3>1. CASE t = u
      <4>1. s[1] = pnum /\ s = <<pnum, s[2]>> /\ SameList(s, u)
        BY <1>1, <2>1, <3>1, GivenTyped DEF SameList
      <4>2. s[2] \in ListOf(x)
        BY <4>1, <2>1, ListOfProperty DEF u
      <4>3. QED
        BY <1>1, <2>1, <3>1, <4>1, <4>2 DEF IsNext, IsAdded
    <3>2. CASE t \in added
      BY <2>1, <3>2 DEF TagInv, InOrder
    <3>3. QED
      BY <2>1, <3>1, <3>2 DEF u
  <2>2. added' \subseteq AllTypes
    BY <1>1 DEF Shape, u
  <2>3. QED
    BY <1>2, <1>4, <2>1, <2>2 DEF InOrder
<1>7. QED
  BY <1>5, <1>6

LEMMA KeysApartKept ==
  ASSUME Shape, TagInv, UNCHANGED <<given, kept, keys>>, \A t \in kept : TagOf(t)' = TagOf(t)
  PROVE  KeysApart'
<1>1. \A t \in kept : KeyOf(t)' = KeyOf(t)
  BY DEF KeyOf, GivenType
<1>2. \A kind \in Kinds : KeptOf(kind)' = KeptOf(kind)
  BY DEF KeptOf, KindOf
<1>3. ASSUME NEW kind \in Kinds
      PROVE  /\ \A t \in KeptOf(kind)' : KeyOf(t)' \in keys'[kind]
             /\ \A t, u \in KeptOf(kind)' : KeyOf(t)' = KeyOf(u)' => t = u
             /\ IsFiniteSet(keys'[kind]) /\ IsFiniteSet(KeptOf(kind)')
             /\ Cardinality(keys'[kind]) = Cardinality(KeptOf(kind)')
  <2>1. KeptOf(kind)' = KeptOf(kind) /\ KeptOf(kind) \subseteq kept /\ keys' = keys
    BY <1>2 DEF KeptOf
  <2>2. QED
    BY <1>1, <2>1 DEF TagInv, KeysApart
<1>4. QED
  BY <1>3 DEF KeysApart

LEMMA KeysApartAdded ==
  ASSUME Shape, TagInv, at \in Kinds, NEW u \in AllTypes, u \notin added, KindOf(u) = at,
         NEW new \in Tags, new \notin keys[at], given' = given, kept' = kept \cup {u},
         keys' = [keys EXCEPT ![at] = @ \cup {new}],
         \A t \in kept : TagOf(t)' = TagOf(t), KeyOf(u)' = new
  PROVE  KeysApart'
<1>1. \A t \in kept : KeyOf(t)' = KeyOf(t)
  BY DEF KeyOf, GivenType
<1>2. u \notin kept
  BY DEF Shape
<1>3. ASSUME NEW kind \in Kinds
      PROVE  /\ \A t \in KeptOf(kind)' : KeyOf(t)' \in keys'[kind]
             /\ \A t, s \in KeptOf(kind)' : KeyOf(t)' = KeyOf(s)' => t = s
             /\ IsFiniteSet(keys'[kind]) /\ IsFiniteSet(KeptOf(kind)')
             /\ Cardinality(keys'[kind]) = Cardinality(KeptOf(kind)')
  <2>1. /\ \A t \in KeptOf(kind) : KeyOf(t) \in keys[kind]
        /\ \A t, s \in KeptOf(kind) : KeyOf(t) = KeyOf(s) => t = s
        /\ IsFiniteSet(keys[kind]) /\ IsFiniteSet(KeptOf(kind))
        /\ Cardinality(keys[kind]) = Cardinality(KeptOf(kind)) /\ KeptOf(kind) \subseteq kept
    BY DEF TagInv, KeysApart, KeptOf
  <2>2. CASE kind = at
    <3>1. KeptOf(kind)' = KeptOf(kind) \cup {u} /\ u \notin KeptOf(kind)
      BY <1>2, <2>2 DEF KeptOf, KindOf
    <3>2. keys'[kind] = keys[kind] \cup {new} /\ new \notin keys[kind]
      BY <2>2 DEF Shape
    <3>3. /\ IsFiniteSet(keys'[kind]) /\ IsFiniteSet(KeptOf(kind)')
          /\ Cardinality(keys'[kind]) = Cardinality(KeptOf(kind)')
      <4>1. /\ IsFiniteSet(keys[kind] \cup {new})
            /\ Cardinality(keys[kind] \cup {new}) = Cardinality(keys[kind]) + 1
        BY <2>1, <3>2, FS_AddElement
      <4>2. /\ IsFiniteSet(KeptOf(kind) \cup {u})
            /\ Cardinality(KeptOf(kind) \cup {u}) = Cardinality(KeptOf(kind)) + 1
        BY <2>1, <3>1, FS_AddElement
      <4>3. QED
        BY <2>1, <3>1, <3>2, <4>1, <4>2
    <3>4. \A t \in KeptOf(kind) : KeyOf(t)' \in keys[kind] /\ KeyOf(t)' = KeyOf(t)
      BY <1>1, <2>1
    <3>5. \A t \in KeptOf(kind)' : KeyOf(t)' \in keys'[kind]
      BY <3>1, <3>2, <3>4
    <3>6. \A t, s \in KeptOf(kind)' : KeyOf(t)' = KeyOf(s)' => t = s
      BY <2>1, <3>1, <3>2, <3>4
    <3>7. QED
      BY <3>3, <3>5, <3>6
  <2>3. CASE kind # at
    <3>1. KeptOf(kind)' = KeptOf(kind) /\ keys'[kind] = keys[kind]
      BY <2>3 DEF KeptOf, KindOf, Shape
    <3>2. QED
      BY <1>1, <2>1, <3>1
  <2>4. QED
    BY <2>2, <2>3
<1>4. QED
  BY <1>3 DEF KeysApart

(* Where the new key comes from; fakes counts it if it has a fake tag.     *)
LEMMA KeysMadeKept ==
  ASSUME Shape, TagInv, given' = given, added \subseteq added',
         fakes' \in [Kinds -> Nat], \A kind \in Kinds : fakes[kind] <= fakes'[kind],
         \A kind \in Kinds : \A k \in keys'[kind] :
           \/ k \in keys[kind]
           \/ \E m, count \in Nat : k = FakeTag(kind, m, count) /\ count < fakes'[kind]
           \/ \E t \in added' : KindOf(t) = kind /\ MadeOf(k, t[1], GivenType(t).key)
  PROVE  KeysMade'
<1>1. \A t : KindOf(t)' = KindOf(t) /\ GivenType(t)' = GivenType(t)
  BY DEF KindOf, GivenType
<1>2. ASSUME NEW kind \in Kinds, NEW k \in keys[kind]
      PROVE  \/ \E m, count \in Nat : k = FakeTag(kind, m, count) /\ count < fakes'[kind]
             \/ \E t \in added' : KindOf(t) = kind /\ MadeOf(k, t[1], GivenType(t).key)
  <2>1. CASE \E m, count \in Nat : k = FakeTag(kind, m, count) /\ count < fakes[kind]
    <3>1. fakes[kind] \in Nat /\ fakes'[kind] \in Nat /\ fakes[kind] <= fakes'[kind]
      BY DEF Shape
    <3>2. PICK m \in Nat, count \in Nat : k = FakeTag(kind, m, count) /\ count < fakes[kind]
      BY <2>1
    <3>3. count < fakes'[kind]
      BY <3>1, <3>2
    <3>4. QED
      BY <3>2, <3>3
  <2>2. CASE \E t \in added : KindOf(t) = kind /\ MadeOf(k, t[1], GivenType(t).key)
    BY <2>2
  <2>3. QED
    BY <1>2, <2>1, <2>2 DEF TagInv, KeysMade
<1>3. ASSUME NEW kind \in Kinds, NEW k \in keys'[kind]
      PROVE  \/ \E m, count \in Nat : k = FakeTag(kind, m, count) /\ count < fakes'[kind]
             \/ \E t \in added' : KindOf(t) = kind /\ MadeOf(k, t[1], GivenType(t).key)
  BY <1>2, <1>3
<1>4. QED
  BY <1>1, <1>3 DEF KeysMade

LEMMA TagsMadeKept ==
  ASSUME Shape, TagInv, UNCHANGED given, NEW u \in AllTypes, added' = added \cup {u},
         \A t \in AllTypes : t # u => TagOf(t)' = TagOf(t),
         TagOf(u)' = TagOf(u) \/ ~ PlainTag(TagOf(u)')
  PROVE  TagsMade'
<1>1. AllTypes' = AllTypes /\ (\A t : GivenType(t)' = GivenType(t))
  BY DEF AllTypes, TypesOf, GivenType
<1>2. \A t \in AllTypes : t \notin added' => TagOf(t)' = GivenType(t).tag
  BY DEF TagInv, TagsMade
<1>3. \A t \in AllTypes : (~ PlainTag(TagOf(t)))' <=> ~ PlainTag(TagOf(t)')
  BY DEF PlainTag
<1>4. \A t \in AllTypes : TagOf(t)' # GivenType(t).tag => ~ PlainTag(TagOf(t)')
  BY DEF TagInv, TagsMade
<1>5. QED
  BY <1>1, <1>2, <1>3, <1>4 DEF TagsMade

(* The loop variable after a type with a plain tag.                        *)
LEMMA TagLongestKept ==
  ASSUME Shape, TagInv, at \in Kinds, NEW x \in DOMAIN Parser.types, IsNext(x),
         added' = added \cup {<<pnum, x>>}, UNCHANGED <<given, at, pnum>>,
         MadeOf(tag', pnum, GivenType(<<pnum, x>>).key),
         Len(tag') > 1 => tag' \in keys'[at],
         \A k \in keys'[at] : MadeOf(k, pnum, GivenType(<<pnum, x>>).key) => Len(k) <= Len(tag')
  PROVE  TagLongest'
<1>1. AllTypes' = AllTypes /\ (\A t : GivenType(t)' = GivenType(t))
  BY DEF AllTypes, TypesOf, GivenType
<1>2. ASSUME NEW t \in added', NEW u \in AllTypes \ added', SameList(t, u)
      PROVE  GivenType(u).key = GivenType(<<pnum, x>>).key
  BY <1>2, ThroughOneList DEF SameList, TagInv
<1>3. \A t, u : SameList(t, u)' <=> SameList(t, u)
  BY <1>1 DEF SameList
<1>4. QED
  BY <1>1, <1>2, <1>3 DEF TagLongest, MadeOf

(* There is no list in whose midst a type with a fake tag is added.        *)
LEMMA TagLongestFake ==
  ASSUME Shape, PlainTags, TagInv, at \in Kinds, NEW x \in DOMAIN Parser.types, IsNext(x),
         added' = added \cup {<<pnum, x>>}, UNCHANGED <<given, at, pnum>>,
         IsFakeTag(GivenType(<<pnum, x>>).tag)
  PROVE  TagLongest'
<1>1. AllTypes' = AllTypes /\ (\A t : GivenType(t)' = GivenType(t))
  BY DEF AllTypes, TypesOf, GivenType
<1>2. <<pnum, x>> \in AllTypes
  BY ListOfProperty
<1>3. ASSUME NEW t \in added', NEW u \in AllTypes \ added', SameList(t, u)
      PROVE  IsFakeTag(GivenType(u).tag)
  <2>1. GivenType(u).key = GivenType(<<pnum, x>>).key
    BY <1>3, ThroughOneList DEF SameList, TagInv
  <2>2. GivenType(<<pnum, x>>).key[1] \in FakeNames
    BY <1>2, FakeByKey
  <2>3. QED
    BY <2>1, <2>2, FakeByKey
<1>4. \A t, u : SameList(t, u)' <=> SameList(t, u)
  BY <1>1 DEF SameList
<1>5. \A t : IsFakeTag(GivenType(t).tag)' <=> IsFakeTag(GivenType(t).tag)
  BY <1>1 DEF IsFakeTag
<1>6. QED
  BY <1>1, <1>3, <1>4, <1>5 DEF TagLongest

(* A tag is all that changes.                                              *)
LEMMA WithTagTags ==
  ASSUME Shape, NEW x \in DOMAIN Parser.types, NEW t \in Tags, ps' = WithTag(x, t),
         NEW u, u = <<pnum, x>>
  PROVE  TagOf(u)' = t /\ \A s \in AllTypes : s # u => TagOf(s)' = TagOf(s)
<1>1. /\ pnum \in DOMAIN given /\ \A m \in DOMAIN given : \A y \in DOMAIN ps[m].types :
           WithTag(x, t)[m].types[y].tag = IF m = pnum /\ y = x THEN t ELSE ps[m].types[y].tag
  BY WithTagProperty DEF Shape
<1>2. \A s \in AllTypes : s = <<s[1], s[2]>> /\ s[1] \in DOMAIN given /\ s[2] \in DOMAIN ps[s[1]].types
  BY GivenTyped
<1>3. TagOf(u)' = t
  BY <1>1 DEF TagOf, Parser
<1>4. ASSUME NEW s \in AllTypes, s # u PROVE TagOf(s)' = TagOf(s)
  <2>1. ~ (s[1] = pnum /\ s[2] = x)
    BY <1>2, <1>4
  <2>2. QED
    BY <1>1, <1>2, <2>1 DEF TagOf
<1>5. QED
  BY <1>3, <1>4

LEMMA AddTypeKeepsTags ==
  ASSUME Shape, PlainTags, TagInv, AddType, UNCHANGED given
  PROVE  TagInv'
<1>1. PICK x \in DOMAIN Parser.types :
        /\ IsNext(x) /\ (AddFake(x) \/ DropTagged(x) \/ KeepTagged(x))
        /\ added' = added \cup {<<pnum, x>>}
  BY DEF AddType
<1>0. PICK u : u = <<pnum, x>>
  OBVIOUS
<1> DEFINE key == GivenType(u).key
<1>2. at \in Kinds /\ UNCHANGED <<given, at, pnum>>
  BY DEF AddType
<1>3. Order' /\ InOrder'
  BY <1>1, <1>2, OrderKept
<1>4. /\ u \in AllTypes /\ u \notin added /\ u \notin kept /\ KindOf(u) = at /\ u[1] = pnum
      /\ key \in Tags /\ Len(key) = 1 /\ PlainTag(key) /\ PlainTag(GivenType(u).tag)
      /\ Parser.types[x].tag = GivenType(u).tag /\ pnum \in Nat
  <2>1. u \in AllTypes /\ KindOf(u) = at /\ u \notin added /\ Parser.types[x].tag = TagOf(u)
    BY <1>1, <1>0, ListOfProperty DEF IsNext, IsAdded
  <2>2. QED
    BY <1>0, <2>1, GivenTyped DEF Shape, TagInv, TagsMade, PlainTags, GivenType
<1>5. at \in Kinds /\ keys \in [Kinds -> SUBSET Tags] /\ fakes \in [Kinds -> Nat] /\ fakes[at] \in Nat
      /\ \A k \in keys[at] : Len(k) \in Nat
  BY <1>2 DEF Shape, Tags
<1>6. ASSUME NEW t \in Tags, ps' = WithTag(x, t)
      PROVE  TagOf(u)' = t /\ \A s \in AllTypes : s # u => TagOf(s)' = TagOf(s)
  BY <1>0, <1>6, WithTagTags
<1>7. kept \subseteq AllTypes
  BY DEF Shape
<1>8. CASE AddFake(x)
  <2> DEFINE new == FakeTag(at, pnum, fakes[at])
  <2>1. /\ new \in Tags /\ ~ PlainTag(new) /\ new[1] = <<at, pnum>> /\ new[2] = <<"_fake_", fakes[at]>>
    BY <1>2, <1>4, <1>5, FakeTagProperty
  <2>2. /\ ps' = WithTag(x, new) /\ fakes' = [fakes EXCEPT ![at] = @ + 1]
        /\ \/ kept' = kept /\ keys' = keys
           \/ kept' = kept \cup {u} /\ keys' = [keys EXCEPT ![at] = @ \cup {new}]
        /\ IsFakeTag(GivenType(u).tag)
    BY <1>0, <1>4, <1>8 DEF AddFake, WithNewTag
  <2> HIDE DEF new
  <2>3. TagOf(u)' = new /\ \A s \in AllTypes : s # u => TagOf(s)' = TagOf(s)
    BY <1>6, <2>1, <2>2
  <2>4. \A t \in kept : TagOf(t)' = TagOf(t)
    BY <1>4, <1>7, <2>3
  <2>5. TagsMade'
    BY <1>0, <1>1, <1>2, <1>4, <2>1, <2>3, TagsMadeKept
  <2>6. new \notin keys[at]
    <3>1. ASSUME NEW m \in Nat, NEW count \in Nat, new = FakeTag(at, m, count), count < fakes[at] PROVE FALSE
      <4>1. <<"_fake_", count>> = <<"_fake_", fakes[at]>>
        BY <1>2, <2>1, <3>1, FakeTagProperty
      <4>2. count = fakes[at]
        BY <4>1
      <4>3. QED
        BY <1>5, <3>1, <4>2
    <3>2. ASSUME NEW t \in added, MadeOf(new, t[1], GivenType(t).key) PROVE FALSE
      <4>1. t \in AllTypes /\ PlainTag(GivenType(t).key) /\ Len(GivenType(t).key) = 1
            /\ GivenType(t).key \in Tags
        BY GivenTyped DEF Shape, PlainTags, GivenType
      <4>2. 1 \in DOMAIN GivenType(t).key /\ GivenType(t).key[1][1] = at
        BY <2>1, <3>2, <4>1 DEF MadeOf, Tags
      <4>3. QED
        BY <1>2, <4>1, <4>2 DEF PlainTag
    <3>3. QED
      BY <1>2, <3>1, <3>2 DEF TagInv, KeysMade
  <2>7. KeysApart'
    <3>1. KeyOf(u)' = new
      <4>1. new # GivenType(u).tag
        BY <1>4, <2>1
      <4>2. QED
        BY <1>2, <2>3, <4>1 DEF KeyOf, GivenType
    <3>2. CASE kept' = kept /\ keys' = keys
      BY <1>2, <2>4, <3>2, KeysApartKept
    <3>3. CASE kept' = kept \cup {u} /\ keys' = [keys EXCEPT ![at] = @ \cup {new}]
      BY <1>2, <1>4, <2>1, <2>4, <2>6, <3>1, <3>3, KeysApartAdded
    <3>4. QED
      BY <2>2, <3>2, <3>3
  <2>8. KeysMade'
    <3>1. fakes' \in [Kinds -> Nat] /\ (\A kind \in Kinds : fakes[kind] <= fakes'[kind])
          /\ fakes'[at] = fakes[at] + 1
      BY <1>5, <2>2
    <3>2. ASSUME NEW kind \in Kinds, NEW k \in keys'[kind]
          PROVE  k \in keys[kind] \/ \E m, count \in Nat : k = FakeTag(kind, m, count) /\ count < fakes'[kind]
      <4>1. k \in keys[kind] \/ (kind = at /\ k = new)
        BY <1>5, <2>2, <3>2
      <4>2. CASE kind = at /\ k = new
        <5>1. fakes[at] < fakes'[kind]
          BY <1>5, <3>1, <4>2
        <5>2. k = FakeTag(kind, pnum, fakes[at])
          BY <4>2 DEF new
        <5>3. QED
          BY <1>4, <1>5, <5>1, <5>2
      <4>3. QED
        BY <4>1, <4>2
    <3>3. QED
      BY <1>1, <1>2, <3>1, <3>2, KeysMadeKept
  <2>9. TagLongest'
    BY <1>0, <1>1, <1>2, <2>2, TagLongestFake
  <2>10. QED
    BY <1>3, <2>5, <2>7, <2>8, <2>9 DEF TagInv
<1>9. ASSUME ~ IsFakeTag(Parser.types[x].tag)
      PROVE  /\ MadeOf(TagBefore(x), pnum, key) /\ (Len(TagBefore(x)) > 1 => TagBefore(x) \in keys[at])
             /\ \A k \in keys[at] : MadeOf(k, pnum, key) => Len(k) <= Len(TagBefore(x))
             /\ TagBefore(x) \in Tags /\ Len(TagBefore(x)) \in Nat \ {0}
  <2>1. /\ MadeOf(TagBefore(x), pnum, key) /\ (Len(TagBefore(x)) > 1 => TagBefore(x) \in keys[at])
        /\ \A k \in keys[at] : MadeOf(k, pnum, key) => Len(k) <= Len(TagBefore(x))
    BY <1>0, <1>1, <1>2, <1>4, <1>9, TagBeforeLongest
  <2>2. TagBefore(x) \in Seq(Parts)
    BY TagBeforeTyped DEF Tags
  <2>3. QED
    BY <2>1, <2>2, EmptySeq DEF MadeOf, Tags
<1>10. CASE DropTagged(x)
  <2>1. /\ tag' = TagBefore(x) /\ UNCHANGED <<ps, fakes, kept, keys>>
        /\ ~ IsFakeTag(Parser.types[x].tag)
    BY <1>10 DEF DropTagged
  <2>2. \A t : TagOf(t)' = TagOf(t)
    BY <2>1 DEF TagOf
  <2>3. TagsMade'
    BY <1>0, <1>1, <1>2, <1>4, <2>2, TagsMadeKept
  <2>4. KeysApart'
    BY <1>2, <2>1, <2>2, KeysApartKept
  <2>5. KeysMade'
    BY <1>1, <1>2, <1>5, <2>1, KeysMadeKept
  <2>6. TagLongest'
    BY <1>0, <1>1, <1>2, <1>9, <2>1, TagLongestKept
  <2>7. QED
    BY <1>3, <2>3, <2>4, <2>5, <2>6 DEF TagInv
<1>11. CASE KeepTagged(x)
  <2> DEFINE before == TagBefore(x)
             new == IF before \in keys[at] THEN DupTag(before, pnum) ELSE before
  <2>1. /\ ~ IsFakeTag(Parser.types[x].tag) /\ tag' = new
        /\ ps' = IF before \in keys[at] THEN WithTag(x, new) ELSE ps
        /\ kept' = kept \cup {u} /\ keys' = [keys EXCEPT ![at] = @ \cup {new}] /\ fakes' = fakes
    BY <1>0, <1>11 DEF KeepTagged
  <2>2. /\ MadeOf(before, pnum, key) /\ (Len(before) > 1 => before \in keys[at])
        /\ \A k \in keys[at] : MadeOf(k, pnum, key) => Len(k) <= Len(before)
        /\ before \in Tags /\ Len(before) \in Nat \ {0}
    BY <1>9, <2>1
  <2> HIDE DEF before, key
  <2>a. Len(before) = 1 \/ Len(before) > 1
    <3>1. Len(before) \in Nat \ {0}
      BY <2>2
    <3>2. QED
      BY <3>1, SMTT(30)
  <2>3. CASE before \in keys[at]
    <3>1. /\ new \in Tags /\ Len(new) = Len(before) + 1 /\ new[Len(before) + 1] = <<"_dup_", pnum>>
          /\ (\A y \in 1 .. Len(before) : new[y] = before[y]) /\ ~ PlainTag(new)
      BY <1>4, <2>2, <2>3, DupTagProperty
    <3> HIDE DEF new
    <3>2. new[1] = key[1] /\ Len(new) > 1
      BY <2>2, <3>1 DEF MadeOf
    <3>3. new[2] = <<"_dup_", pnum>>
      <4>1. CASE Len(before) = 1
        BY <3>1, <4>1
      <4>2. CASE Len(before) > 1
        <5>1. 2 \in 1 .. Len(before) /\ before[2] = <<"_dup_", pnum>>
          BY <2>2, <4>2 DEF MadeOf
        <5>2. QED
          BY <3>1, <5>1
      <4>3. QED
        BY <2>a, <4>1, <4>2
    <3>4. new # <<>>
      BY <3>1, <3>2, EmptySeq DEF Tags
    <3>5. MadeOf(new, pnum, key)
      BY <3>2, <3>3, <3>4 DEF MadeOf
    <3>6. new \notin keys[at] /\ \A k \in keys[at] : MadeOf(k, pnum, key) => Len(k) <= Len(new)
      BY <1>5, <2>2, <3>1, <3>5
    <3>7. ps' = WithTag(x, new)
      BY <2>1, <2>3
    <3>8. TagOf(u)' = new /\ \A s \in AllTypes : s # u => TagOf(s)' = TagOf(s)
      BY <1>6, <3>1, <3>7
    <3>9. \A t \in kept : TagOf(t)' = TagOf(t)
      BY <1>4, <1>7, <3>8
    <3>10. TagsMade'
      BY <1>0, <1>1, <1>2, <1>4, <3>1, <3>8, TagsMadeKept
    <3>11. KeyOf(u)' = new
      <4>1. new # GivenType(u).tag
        BY <1>4, <3>1
      <4>2. QED
        BY <1>2, <3>8, <4>1 DEF KeyOf, GivenType
    <3>12. KeysApart'
      BY <1>2, <1>4, <2>1, <3>1, <3>6, <3>9, <3>11, KeysApartAdded
    <3>13. \A kind \in Kinds : \A k \in keys'[kind] :
             k \in keys[kind] \/ (kind = at /\ k = new)
      BY <1>5, <2>1
    <3>14. u \in added'
      BY <1>0, <1>1
    <3>15. KeysMade'
      BY <1>1, <1>2, <1>4, <1>5, <2>1, <3>5, <3>13, <3>14, KeysMadeKept DEF key
    <3>16. tag' = new /\ new \in keys'[at] /\ \A k \in keys'[at] : MadeOf(k, pnum, key) => Len(k) <= Len(new)
      BY <1>2, <1>5, <2>1, <3>1, <3>2, <3>6, <3>13
    <3>17. TagLongest'
      BY <1>0, <1>1, <1>2, <3>5, <3>16, TagLongestKept DEF key
    <3>18. QED
      BY <1>3, <3>10, <3>12, <3>15, <3>17 DEF TagInv
  <2>4. CASE before \notin keys[at]
    <3>1. new = before /\ Len(before) = 1 /\ ps' = ps
      BY <2>1, <2>2, <2>a, <2>4
    <3>2. before = key
      BY <1>4, <2>2, <3>1, OnePartEqual DEF MadeOf, key
    <3> HIDE DEF new
    <3>3. \A t : TagOf(t)' = TagOf(t)
      BY <3>1 DEF TagOf
    <3>4. TagsMade'
      BY <1>0, <1>1, <1>2, <1>4, <3>3, TagsMadeKept
    <3>5. KeyOf(u)' = new
      <4>1. TagOf(u) = GivenType(u).tag
        BY <1>4 DEF TagInv, TagsMade
      <4>2. QED
        BY <1>2, <3>1, <3>2, <3>3, <4>1 DEF KeyOf, GivenType, key
    <3>6. KeysApart'
      BY <1>2, <1>4, <2>1, <2>2, <2>4, <3>1, <3>3, <3>5, KeysApartAdded
    <3>7. \A kind \in Kinds : \A k \in keys'[kind] :
             k \in keys[kind] \/ (kind = at /\ k = new)
      BY <1>5, <2>1
    <3>8. u \in added'
      BY <1>0, <1>1
    <3>9. KeysMade'
      BY <1>1, <1>2, <1>4, <1>5, <2>1, <2>2, <3>1, <3>7, <3>8, KeysMadeKept DEF key
    <3>10. tag' = new /\ new \in keys'[at] /\ \A k \in keys'[at] : MadeOf(k, pnum, key) => Len(k) <= Len(new)
      <4>1. Len(new) \in Nat /\ new \in keys'[at]
        BY <1>2, <1>5, <2>1, <2>2, <3>1
      <4>2. Len(new) <= Len(new)
        BY <4>1
      <4>3. QED
        BY <1>2, <2>1, <2>2, <3>1, <3>7, <4>1, <4>2
    <3>11. TagLongest'
      BY <1>0, <1>1, <1>2, <2>2, <3>1, <3>10, TagLongestKept DEF key
    <3>12. QED
      BY <1>3, <3>4, <3>6, <3>9, <3>11 DEF TagInv
  <2>5. QED
    BY <2>3, <2>4
<1>12. QED
  BY <1>1, <1>8, <1>10, <1>11

LEMMA PlainTagsKept == given' = given => (PlainTags' <=> PlainTags)
BY DEF PlainTags, PlainTag, MadeUnique, AllTypes, TypesOf

(* Between two kinds no list is half done.                                 *)
LEMMA EndKeepsTags ==
  ASSUME Shape, TagInv, UNCHANGED <<ps, typeVars, given>>, Order',
         \A t \in added, u \in AllTypes : SameList(t, u) => u \in added
  PROVE  TagInv'
<1>1. UNCHANGED <<ps, added, tag, fakes, kept, keys, given>>
  BY DEF typeVars
<1>2. AllTypes' = AllTypes /\ (\A t : GivenType(t)' = GivenType(t) /\ TagOf(t)' = TagOf(t))
  BY <1>1 DEF AllTypes, TypesOf, GivenType, TagOf
<1>3. \A t, u : SameList(t, u)' <=> SameList(t, u)
  BY <1>2 DEF SameList
<1>4. InOrder'
  BY <1>1, <1>2, <1>3 DEF TagInv, InOrder
<1>5. TagsMade'
  BY <1>1, <1>2 DEF TagInv, TagsMade, PlainTag
<1>6. KeysApart'
  BY <1>1, <1>2, KeysApartKept
<1>7. KeysMade'
  BY <1>1, KeysMadeKept DEF Shape
<1>8. TagLongest'
  BY <1>1, <1>2, <1>3 DEF TagLongest
<1>9. QED
  BY <1>4, <1>5, <1>6, <1>7, <1>8 DEF TagInv

LEMMA TagsStep ==
  ASSUME Shape, PlainTags, TagInv, [Next]_vars
  PROVE  TagInv'
<1>1. given' = given
  BY DEF Next, vars
<1>2. AllTypes' = AllTypes /\ (\A t : GivenType(t)' = GivenType(t) /\ KindOf(t)' = KindOf(t))
  BY <1>1 DEF AllTypes, TypesOf, GivenType, KindOf
<1>3. \A t \in AllTypes : /\ KindOf(t) \in Kinds /\ t[1] \in Nat /\ t[1] <= Len(given)
                          /\ t = <<t[1], t[2]>> /\ t[2] \in DOMAIN ps[t[1]].types
  BY GivenTyped
<1>4. \A t, u \in AllTypes : SameList(t, u) => t[1] = u[1] /\ KindOf(t) = KindOf(u)
  BY GivenTyped DEF SameList
<1>5. pnum \in Nat /\ added \subseteq AllTypes /\ Len(ps) = Len(given)
  BY GivenTyped DEF Shape
<1>6. \A t \in AllTypes : /\ Passed(t) => t \in added
                          /\ t \in added => Passed(t) \/ (t[1] = pnum /\ KindOf(t) = at)
  BY DEF TagInv, Order
<1>7. CASE AddType
  BY <1>1, <1>7, AddTypeKeepsTags
<1>8. CASE EndKind
  <2>1. \A t \in AllTypes : t[1] = pnum /\ KindOf(t) = at => t \in added
    <3> SUFFICES ASSUME NEW t \in AllTypes, t[1] = pnum, KindOf(t) = at PROVE t \in added
      OBVIOUS
    <3>1. t = <<pnum, t[2]>> /\ t[2] \in DOMAIN Parser.types
      BY <1>3 DEF Parser
    <3>2. Parser.types[t[2]].kind = at
      BY <3>1, ListOfProperty
    <3>3. QED
      BY <1>8, <3>1, <3>2 DEF EndKind, IsAdded
  <2>2. at \in Kinds /\ at' = After[at] /\ pnum' = pnum /\ added' = added
    BY <1>8 DEF EndKind, typeVars
  <2>3. ASSUME NEW t \in AllTypes
        PROVE  /\ Passed(t)' <=> Passed(t) \/ (t[1] = pnum /\ KindOf(t) = at)
    <3>1. at' \notin {"decls", "done"} /\ at \notin {"decls", "done"}
      BY <2>2 DEF After, Kinds
    <3>2. Rank[KindOf(t)] < Rank[at'] <=> Rank[KindOf(t)] < Rank[at] \/ KindOf(t) = at
      BY <1>3, <2>2 DEF After, Kinds, Rank
    <3>3. Passed(t)' <=> t[1] < pnum \/ (t[1] = pnum /\ Rank[KindOf(t)] < Rank[at'])
      BY <1>2, <2>2, <3>1 DEF Passed, Rank
    <3>4. QED
      BY <3>1, <3>2, <3>3 DEF Passed
  <2>4. Order'
    BY <1>2, <1>6, <2>1, <2>2, <2>3 DEF Order
  <2>5. \A t \in added, u \in AllTypes : SameList(t, u) => u \in added
    BY <1>4, <1>5, <1>6, <2>1 DEF Passed
  <2>6. QED
    BY <1>1, <1>8, <2>4, <2>5, EndKeepsTags DEF EndKind
<1>9. CASE EndTypedefs
  <2>1. at = "typedefs" /\ added' = added
    BY <1>9 DEF EndTypedefs, typeVars
  <2>2. \A t \in AllTypes : t \in added <=> Passed(t)
    BY <1>3, <1>6, <2>1 DEF Kinds
  <2>3. \A t \in AllTypes : Passed(t) <=> t[1] <= pnum
    BY <1>3, <1>5, <2>1 DEF Passed, Rank, Kinds
  <2>4. \A t \in AllTypes : Passed(t)' <=> t[1] <= pnum
    <3>1. CASE pnum < Len(ps)
      <4>1. pnum' = pnum + 1 /\ at' = "enum"
        BY <1>9, <3>1 DEF EndTypedefs
      <4>2. \A t \in AllTypes : ~ (Rank[KindOf(t)] < Rank[at'])
        BY <1>3, <4>1 DEF Rank, Kinds
      <4>3. \A t \in AllTypes : Passed(t)' <=> t[1] < pnum + 1
        BY <1>2, <4>1, <4>2 DEF Passed, Rank
      <4>4. QED
        BY <1>3, <1>5, <4>3
    <3>2. CASE ~ (pnum < Len(ps))
      <4>1. at' = "decls" /\ pnum = Len(given)
        BY <1>5, <1>9, <3>2, GivenTyped DEF EndTypedefs, Shape
      <4>2. QED
        BY <1>3, <4>1 DEF Passed
    <3>3. QED
      BY <3>1, <3>2
  <2>5. Order'
    BY <1>2, <2>1, <2>2, <2>3, <2>4 DEF Order
  <2>6. \A t \in added, u \in AllTypes : SameList(t, u) => u \in added
    BY <1>4, <1>5, <2>2, <2>3
  <2>7. QED
    BY <1>1, <1>9, <2>5, <2>6, EndKeepsTags DEF EndTypedefs
<1>10. CASE EndDecls
  <2>1. at = "decls" /\ at' \in {"decls", "done"} /\ added' = added
    BY <1>10 DEF EndDecls, typeVars
  <2>2. \A t \in AllTypes : t \in added /\ Passed(t)'
    BY <1>6, <2>1 DEF Passed
  <2>3. Order'
    BY <1>2, <2>1, <2>2 DEF Order
  <2>4. QED
    BY <1>1, <1>10, <2>2, <2>3, EndKeepsTags DEF EndDecls
<1>11. CASE UNCHANGED <<ps, pnum, at, typeVars>>
  <2>1. UNCHANGED <<ps, pnum, at, added, tag, fakes, kept, keys, given>>
    BY <1>1, <1>11 DEF typeVars
  <2>2. \A t : TagOf(t)' = TagOf(t) /\ (Passed(t)' <=> Passed(t)) /\ KeyOf(t)' = KeyOf(t)
    BY <1>2, <2>1 DEF TagOf, Passed, KeyOf
  <2>3. \A t, u : SameList(t, u)' <=> SameList(t, u)
    BY <1>2 DEF SameList
  <2>4. Order' /\ InOrder'
    BY <1>2, <2>1, <2>2, <2>3 DEF TagInv, Order, InOrder
  <2>5. TagsMade'
    BY <1>2, <2>1, <2>2 DEF TagInv, TagsMade, PlainTag
  <2>6. KeysApart'
    BY <1>2, <2>1, <2>2, KeysApartKept
  <2>7. KeysMade'
    BY <2>1, KeysMadeKept DEF Shape
  <2>8. TagLongest'
    BY <1>2, <2>1, <2>3 DEF TagInv, TagLongest, MadeOf
  <2>9. QED
    BY <2>4, <2>5, <2>6, <2>7, <2>8 DEF TagInv
<1>12. AddTypedef \/ AddOverlay \/ AddDecl \/ UNCHANGED vars => UNCHANGED <<ps, pnum, at, typeVars>>
  BY DEF AddTypedef, AddOverlay, AddDecl, vars
<1>13. QED
  BY <1>7, <1>8, <1>9, <1>10, <1>11, <1>12 DEF Next

LEMMA TagsInit == Init => TagInv
<1> SUFFICES ASSUME Init PROVE TagInv
  OBVIOUS
<1>1. /\ pnum = 1 /\ at = "enum" /\ added = {} /\ kept = {} /\ given = ps
      /\ keys = [kind \in Kinds |-> {}]
  BY DEF Init
<1>2. Shape
  BY ShapeInit
<1>3. \A t \in AllTypes : /\ t[1] \in DOMAIN given /\ KindOf(t) \in Kinds
                          /\ TagOf(t) = GivenType(t).tag
  BY <1>1, <1>2, GivenTyped DEF TagOf, GivenType
<1>4. \A t \in AllTypes : ~ Passed(t)
  <2>1. \A t \in AllTypes : t[1] \in Nat \ {0}
    BY <1>2, <1>3, GivenTyped
  <2>2. QED
    BY <1>1, <1>3, <2>1 DEF Passed, Rank, Kinds
<1>5. KeysApart
  <2>1. \A kind \in Kinds : keys[kind] = {} /\ KeptOf(kind) = {}
    BY <1>1 DEF KeptOf
  <2>2. QED
    BY <2>1, FS_EmptySet DEF KeysApart
<1>6. Order /\ InOrder /\ TagsMade /\ KeysMade /\ TagLongest
  BY <1>1, <1>3, <1>4 DEF Order, InOrder, TagsMade, KeysMade, TagLongest
<1>7. QED
  BY <1>5, <1>6 DEF TagInv

-----------------------------------------------------------------------------
(* In the result of every merge the tags are distinct.                     *)
THEOREM TagsAreDistinct == Spec => []MergedTagsDistinct
<1> DEFINE IInv == Shape /\ (PlainTags => TagInv)
<1>1. Init => IInv
  BY ShapeInit, TagsInit
<1>2. IInv /\ [Next]_vars => IInv'
  <2>1. [Next]_vars => given' = given
    BY DEF Next, vars
  <2>2. QED
    BY <2>1, ShapeStep, TagsStep, PlainTagsKept
<1>3. IInv => MergedTagsDistinct
  <2> SUFFICES ASSUME Shape, PlainTags, TagInv
               PROVE  /\ \A t, u \in kept : KindOf(t) = KindOf(u) /\ TagOf(t) = TagOf(u) => t = u
                      /\ \A kind \in Kinds :
                           Cardinality(keys[kind]) = Cardinality({t \in kept : KindOf(t) = kind})
    BY DEF MergedTagsDistinct
  <2>1. ASSUME NEW t \in kept, NEW u \in kept, KindOf(t) = KindOf(u), TagOf(t) = TagOf(u)
        PROVE  t = u
    <3>1. t \in AllTypes /\ u \in AllTypes
      BY DEF Shape
    <3>2. \A v \in AllTypes : /\ PlainTag(GivenType(v).tag) /\ KindOf(v) \in Kinds
                              /\ TagOf(v) # GivenType(v).tag => ~ PlainTag(TagOf(v))
      BY GivenTyped DEF PlainTags, GivenType, TagInv, TagsMade
    <3>3. KeyOf(t) = KeyOf(u)
      <4>1. CASE PlainTag(TagOf(t))
        <5>1. TagOf(t) = GivenType(t).tag /\ TagOf(u) = GivenType(u).tag
          BY <2>1, <3>1, <3>2, <4>1
        <5>2. GivenType(t).key = GivenType(u).key
          BY <2>1, <3>1, <5>1, TagTellsKey
        <5>3. QED
          BY <5>1, <5>2 DEF KeyOf
      <4>2. CASE ~ PlainTag(TagOf(t))
        <5>1. TagOf(t) # GivenType(t).tag /\ TagOf(u) # GivenType(u).tag
          BY <2>1, <3>1, <3>2, <4>2
        <5>2. QED
          BY <2>1, <5>1 DEF KeyOf
      <4>3. QED
        BY <4>1, <4>2
    <3>4. QED
      BY <2>1, <3>1, <3>2, <3>3 DEF TagInv, KeysApart, KeptOf
  <2>2. \A kind \in Kinds :
          Cardinality(keys[kind]) = Cardinality({t \in kept : KindOf(t) = kind})
    BY DEF TagInv, KeysApart, KeptOf
  <2>3. QED
    BY <2>1, <2>2
<1>4. QED
  BY <1>1, <1>2, <1>3, PTL DEF Spec

-----------------------------------------------------------------------------
(* The entries of a parser are those of its overlays.                      *)

(* A set of natural numbers that is not empty has a least element.         *)
LEMMA LeastExists ==
  ASSUME NEW S, S \subseteq Nat, S # {}
  PROVE  \E x \in S : \A y \in S : x <= y
<1> DEFINE R == {p \in Nat \X Nat : p[1] < p[2]}
<1>1. IsWellFoundedOn(R, Nat)
  BY NatLessThanWellFounded DEF OpToRel
<1>2. PICK x \in S : \A y \in S : ~ (<<y, x>> \in R)
  <2> HIDE DEF R
  <2>1. QED
    BY <1>1, WFMin
<1>3. \A y \in S : x <= y
  <2> SUFFICES ASSUME NEW y \in S PROVE x <= y
    OBVIOUS
  <2>1. x \in Nat /\ y \in Nat
    OBVIOUS
  <2>2. y < x => <<y, x>> \in R
    BY <2>1
  <2> HIDE DEF R
  <2>3. ~ (y < x)
    BY <1>2, <2>2
  <2>4. QED
    BY <2>1, <2>3
<1>4. QED
  BY <1>3
EntriesIn(p) ==
  {e \in [overlay : DOMAIN p.overlays, kind : {"overlay", "var", "func"}, place : Nat, id : Nat] :
     /\ e.id = p.overlays[e.overlay].id
     /\ e.kind = "overlay" => e.place = 0
     /\ e.kind = "var" => e.place \in DOMAIN p.overlays[e.overlay].vars
     /\ e.kind = "func" => e.place \in DOMAIN p.overlays[e.overlay].funcs}

(* A sequence lists what has a place in it.                                *)
Lists(s, e) == \E x \in DOMAIN s : s[x] = e

LEMMA ListsConcat ==
  ASSUME NEW S, NEW s \in Seq(S), NEW t \in Seq(S), NEW e
  PROVE  s \o t \in Seq(S) /\ (Lists(s \o t, e) <=> Lists(s, e) \/ Lists(t, e))
<1>1. /\ s \o t \in Seq(S) /\ Len(s \o t) = Len(s) + Len(t)
      /\ \A x \in 1 .. Len(s) + Len(t) :
           (s \o t)[x] = IF x <= Len(s) THEN s[x] ELSE t[x - Len(s)]
  BY ConcatProperties
<1>2. DOMAIN (s \o t) = 1 .. Len(s) + Len(t) /\ Len(s) \in Nat /\ Len(t) \in Nat
      /\ DOMAIN s = 1 .. Len(s) /\ DOMAIN t = 1 .. Len(t)
  BY <1>1
<1>3. ASSUME NEW x \in DOMAIN (s \o t), (s \o t)[x] = e PROVE Lists(s, e) \/ Lists(t, e)
  <2>1. CASE x <= Len(s)
    BY <1>1, <1>2, <1>3, <2>1 DEF Lists
  <2>2. CASE ~ (x <= Len(s))
    <3>1. x - Len(s) \in DOMAIN t /\ t[x - Len(s)] = e
      BY <1>1, <1>2, <1>3, <2>2
    <3>2. QED
      BY <3>1 DEF Lists
  <2>3. QED
    BY <2>1, <2>2
<1>4. ASSUME NEW x \in DOMAIN s, s[x] = e PROVE Lists(s \o t, e)
  <2>1. x \in DOMAIN (s \o t) /\ (s \o t)[x] = e
    BY <1>1, <1>2, <1>4
  <2>2. QED
    BY <2>1 DEF Lists
<1>5. ASSUME NEW x \in DOMAIN t, t[x] = e PROVE Lists(s \o t, e)
  <2>1. x + Len(s) \in DOMAIN (s \o t) /\ (s \o t)[x + Len(s)] = e
    BY <1>1, <1>2, <1>5
  <2>2. QED
    BY <2>1 DEF Lists
<1>6. QED
  BY <1>1, <1>3, <1>4, <1>5 DEF Lists

(* Declarations come behind the entry of their overlay.                    *)
Headed(s) ==
  \A x \in DOMAIN s : s[x].kind # "overlay" =>
    \E y \in DOMAIN s : y < x /\ s[y].kind = "overlay" /\ s[y].id = s[x].id

LEMMA HeadedConcat ==
  ASSUME NEW S, NEW s \in Seq(S), NEW t \in Seq(S), Headed(s), Headed(t)
  PROVE  Headed(s \o t)
<1>1. /\ s \o t \in Seq(S) /\ Len(s \o t) = Len(s) + Len(t)
      /\ \A x \in 1 .. Len(s) + Len(t) :
           (s \o t)[x] = IF x <= Len(s) THEN s[x] ELSE t[x - Len(s)]
  BY ConcatProperties
<1>2. DOMAIN (s \o t) = 1 .. Len(s) + Len(t) /\ Len(s) \in Nat /\ Len(t) \in Nat
      /\ DOMAIN s = 1 .. Len(s) /\ DOMAIN t = 1 .. Len(t)
  BY <1>1
<1>3. PICK c : c = s \o t
  OBVIOUS
<1>4. SUFFICES ASSUME NEW x \in DOMAIN c, c[x].kind # "overlay"
               PROVE  \E y \in DOMAIN c : y < x /\ c[y].kind = "overlay" /\ c[y].id = c[x].id
  BY <1>3 DEF Headed
<1>5. CASE x <= Len(s)
  <2>1. x \in DOMAIN s /\ c[x] = s[x]
    BY <1>1, <1>2, <1>3, <1>5
  <2>2. PICK y \in DOMAIN s : y < x /\ s[y].kind = "overlay" /\ s[y].id = s[x].id
    BY <1>4, <2>1 DEF Headed
  <2>3. y \in DOMAIN c /\ c[y] = s[y]
    BY <1>1, <1>2, <1>3, <2>2
  <2>4. QED
    BY <2>1, <2>2, <2>3
<1>6. CASE ~ (x <= Len(s))
  <2>1. x - Len(s) \in DOMAIN t /\ c[x] = t[x - Len(s)] /\ x \in Nat
    BY <1>1, <1>2, <1>3, <1>6
  <2>2. PICK y \in DOMAIN t : y < x - Len(s) /\ t[y].kind = "overlay" /\ t[y].id = t[x - Len(s)].id
    BY <1>4, <2>1 DEF Headed
  <2>3. y + Len(s) \in DOMAIN c /\ c[y + Len(s)] = t[y] /\ y + Len(s) < x
    <3>1. y \in 1 .. Len(t) /\ y \in Nat /\ y >= 1
      BY <1>2, <2>2
    <3>2. y + Len(s) \in 1 .. Len(s) + Len(t) /\ ~ (y + Len(s) <= Len(s)) /\ y + Len(s) - Len(s) = y
      BY <1>2, <3>1
    <3>3. y + Len(s) < x
      BY <1>2, <2>1, <2>2, <3>1
    <3>4. QED
      BY <1>1, <1>2, <1>3, <3>2, <3>3
  <2>4. QED
    BY <2>1, <2>2, <2>3
<1>7. QED
  BY <1>5, <1>6

(* Declarations of one kind come in the order in which they precede.       *)
Sorted(p, s) ==
  \A x, y \in DOMAIN s : x < y /\ s[x].kind = s[y].kind => Precedes(p, s[x], s[y])

LEMMA SortedConcat ==
  ASSUME NEW S, NEW p, NEW s \in Seq(S), NEW t \in Seq(S), Sorted(p, s), Sorted(p, t),
         \A x \in DOMAIN s, y \in DOMAIN t : s[x].kind = t[y].kind => Precedes(p, s[x], t[y])
  PROVE  Sorted(p, s \o t)
<1>1. /\ s \o t \in Seq(S) /\ Len(s \o t) = Len(s) + Len(t)
      /\ \A x \in 1 .. Len(s) + Len(t) :
           (s \o t)[x] = IF x <= Len(s) THEN s[x] ELSE t[x - Len(s)]
  BY ConcatProperties
<1>2. DOMAIN (s \o t) = 1 .. Len(s) + Len(t) /\ Len(s) \in Nat /\ Len(t) \in Nat
      /\ DOMAIN s = 1 .. Len(s) /\ DOMAIN t = 1 .. Len(t)
  BY <1>1
<1>3. PICK c : c = s \o t
  OBVIOUS
<1>4. \A x \in DOMAIN c : \/ x \in DOMAIN s /\ c[x] = s[x]
                         \/ /\ x \in Nat /\ x > Len(s) /\ x - Len(s) \in DOMAIN t
                            /\ c[x] = t[x - Len(s)]
  BY <1>1, <1>2, <1>3
<1>5. SUFFICES ASSUME NEW x \in DOMAIN c, NEW y \in DOMAIN c, x < y, c[x].kind = c[y].kind
               PROVE  Precedes(p, c[x], c[y])
  BY <1>3 DEF Sorted
<1>6. CASE y \in DOMAIN s /\ c[y] = s[y]
  <2>1. x \in DOMAIN s /\ c[x] = s[x]
    BY <1>2, <1>4, <1>5, <1>6
  <2>2. QED
    BY <1>5, <1>6, <2>1 DEF Sorted
<1>7. CASE y \in Nat /\ y > Len(s) /\ y - Len(s) \in DOMAIN t /\ c[y] = t[y - Len(s)]
  <2>1. CASE x \in DOMAIN s /\ c[x] = s[x]
    BY <1>5, <1>7, <2>1
  <2>2. CASE x \in Nat /\ x > Len(s) /\ x - Len(s) \in DOMAIN t /\ c[x] = t[x - Len(s)]
    <3>1. x - Len(s) < y - Len(s)
      BY <1>2, <1>5, <1>7, <2>2
    <3>2. QED
      BY <1>5, <1>7, <2>2, <3>1 DEF Sorted
  <2>3. QED
    BY <1>4, <2>1, <2>2
<1>8. QED
  BY <1>4, <1>6, <1>7

LEMMA EntriesOfProperty ==
  ASSUME NEW p \in Parsers, NEW o \in DOMAIN p.overlays
  PROVE  /\ EntriesOf(p, o) \in Seq(EntriesIn(p)) /\ Headed(EntriesOf(p, o))
         /\ \A e \in EntriesIn(p) : e.overlay = o => Lists(EntriesOf(p, o), e)
         /\ Sorted(p, EntriesOf(p, o))
         /\ \A x \in DOMAIN EntriesOf(p, o) : EntriesOf(p, o)[x].overlay = o
<1> DEFINE ov == p.overlays[o]
           S  == EntriesIn(p)
           a  == <<Entry(o, "overlay", 0, ov.id)>>
           b  == [x \in DOMAIN ov.vars |-> Entry(o, "var", x, ov.id)]
           c  == [x \in DOMAIN ov.funcs |-> Entry(o, "func", x, ov.id)]
<1>1. /\ o \in Nat /\ ov.id \in Nat
      /\ DOMAIN ov.vars = 1 .. Len(ov.vars) /\ Len(ov.vars) \in Nat
      /\ DOMAIN ov.funcs = 1 .. Len(ov.funcs) /\ Len(ov.funcs) \in Nat
  <2> DEFINE Ovs == [id : Nat, vars : Seq(Decls), funcs : Seq(Decls)]
  <2>1. p.overlays \in Seq(Ovs)
    BY DEF Parsers
  <2>2. ov \in Ovs /\ o \in Nat
    <3> HIDE DEF Ovs
    <3>1. QED
      BY <2>1
  <2> HIDE DEF ov
  <2>3. ov.id \in Nat /\ ov.vars \in Seq(Decls) /\ ov.funcs \in Seq(Decls)
    BY <2>2
  <2>4. QED
    BY <2>2, <2>3
<1>2. Entry(o, "overlay", 0, ov.id) \in S
  BY <1>1 DEF EntriesIn, Entry
<1>3. ASSUME NEW x \in DOMAIN ov.vars PROVE Entry(o, "var", x, ov.id) \in S
  BY <1>1, <1>3 DEF EntriesIn, Entry
<1>4. ASSUME NEW x \in DOMAIN ov.funcs PROVE Entry(o, "func", x, ov.id) \in S
  BY <1>1, <1>4 DEF EntriesIn, Entry
<1>5. ASSUME NEW e \in S, e.overlay = o
      PROVE  \/ e = Entry(o, "overlay", 0, ov.id)
             \/ \E x \in DOMAIN ov.vars : e = Entry(o, "var", x, ov.id)
             \/ \E x \in DOMAIN ov.funcs : e = Entry(o, "func", x, ov.id)
  BY <1>5 DEF EntriesIn, Entry
<1>6. EntriesOf(p, o) = (a \o b) \o c
  BY DEF EntriesOf
<1> HIDE DEF ov, S
<1>7. a \in Seq(S) /\ Lists(a, Entry(o, "overlay", 0, ov.id))
  BY <1>2 DEF Lists
<1>8. b \in Seq(S) /\ \A x \in DOMAIN ov.vars : Lists(b, Entry(o, "var", x, ov.id))
  BY <1>1, <1>3 DEF Lists
<1>9. c \in Seq(S) /\ \A x \in DOMAIN ov.funcs : Lists(c, Entry(o, "func", x, ov.id))
  BY <1>1, <1>4 DEF Lists
<1> HIDE DEF a, b, c
<1>10. a \o b \in Seq(S) /\ (a \o b) \o c \in Seq(S)
  BY <1>7, <1>8, <1>9, ListsConcat
<1>11. \A e : Lists(a, e) \/ Lists(b, e) \/ Lists(c, e) => Lists((a \o b) \o c, e)
  BY <1>7, <1>8, <1>9, <1>10, ListsConcat
<1>12. \A e \in S : e.overlay = o => Lists((a \o b) \o c, e)
  BY <1>5, <1>7, <1>8, <1>9, <1>11
<1>13. Headed((a \o b) \o c)
  <2>1. PICK s : s = (a \o b) \o c
    OBVIOUS
  <2>2. \A e : Lists(s, e) => Lists(a, e) \/ Lists(b, e) \/ Lists(c, e)
    BY <1>7, <1>8, <1>9, <1>10, <2>1, ListsConcat
  <2>3. \A x \in DOMAIN s : s[x].id = ov.id
    <3>1. ASSUME NEW e, Lists(a, e) PROVE e.id = ov.id
      BY <3>1 DEF Lists, a, Entry
    <3>2. ASSUME NEW e, Lists(b, e) PROVE e.id = ov.id
      BY <3>2 DEF Lists, b, Entry
    <3>3. ASSUME NEW e, Lists(c, e) PROVE e.id = ov.id
      BY <3>3 DEF Lists, c, Entry
    <3>4. QED
      BY <2>2, <3>1, <3>2, <3>3 DEF Lists
  <2>4. s \in Seq(S) /\ s[1] = Entry(o, "overlay", 0, ov.id) /\ Len(s) \in Nat /\ Len(s) >= 1
    <3>1. Len(a) >= 1 /\ a[1] = Entry(o, "overlay", 0, ov.id)
      BY DEF a
    <3>2. \A i \in Seq(S), j \in Seq(S) :
            Len(i) >= 1 => Len(i \o j) >= 1 /\ (i \o j)[1] = i[1] /\ i \o j \in Seq(S)
      <4> SUFFICES ASSUME NEW i \in Seq(S), NEW j \in Seq(S), Len(i) >= 1
                   PROVE  Len(i \o j) >= 1 /\ (i \o j)[1] = i[1] /\ i \o j \in Seq(S)
        OBVIOUS
      <4>1. /\ i \o j \in Seq(S) /\ Len(i \o j) = Len(i) + Len(j)
            /\ \A x \in 1 .. Len(i) + Len(j) :
                 (i \o j)[x] = IF x <= Len(i) THEN i[x] ELSE j[x - Len(i)]
        BY ConcatProperties
      <4>2. Len(i) \in Nat /\ Len(j) \in Nat
        OBVIOUS
      <4>3. 1 \in 1 .. Len(i) + Len(j) /\ 1 <= Len(i) /\ Len(i) + Len(j) >= 1
        BY <4>2
      <4>4. QED
        BY <4>1, <4>3
    <3>3. Len(a \o b) >= 1 /\ (a \o b)[1] = a[1]
      BY <1>7, <1>8, <3>1, <3>2, Zenon
    <3>4. s \in Seq(S) /\ Len(s) >= 1 /\ s[1] = a[1]
      BY <1>9, <1>10, <2>1, <3>2, <3>3, Zenon
    <3>5. QED
      BY <3>1, <3>4
  <2>5. DOMAIN s = 1 .. Len(s) /\ s[1].kind = "overlay"
    BY <2>4 DEF Entry
  <2>6. \A x \in DOMAIN s : s[x].kind # "overlay" => 1 \in DOMAIN s /\ 1 < x
    BY <2>4, <2>5
  <2>7. QED
    BY <2>1, <2>3, <2>5, <2>6 DEF Headed
<1>14. /\ \A x \in DOMAIN a : a[x].overlay = o /\ a[x].kind = "overlay"
       /\ \A x \in DOMAIN b : b[x].overlay = o /\ b[x].kind = "var" /\ b[x].place = x
       /\ \A x \in DOMAIN c : c[x].overlay = o /\ c[x].kind = "func" /\ c[x].place = x
       /\ DOMAIN a = {1}
  BY DEF a, b, c, Entry
<1>15. Sorted(p, a) /\ Sorted(p, b) /\ Sorted(p, c)
  BY <1>14 DEF Sorted, Precedes
<1>16. Sorted(p, (a \o b) \o c) /\ \A x \in DOMAIN ((a \o b) \o c) : ((a \o b) \o c)[x].overlay = o
  <2>1. Sorted(p, a \o b)
    <3>1. \A x \in DOMAIN a, y \in DOMAIN b : a[x].kind # b[y].kind
      BY <1>14
    <3>2. QED
      BY <1>7, <1>8, <1>15, <3>1, SortedConcat
  <2>2. PICK d : d = a \o b
    OBVIOUS
  <2>3. d \in Seq(S) /\ \A x \in DOMAIN d : d[x].overlay = o /\ d[x].kind # "func"
    <3>1. \A e : Lists(d, e) => Lists(a, e) \/ Lists(b, e)
      BY <1>7, <1>8, <2>2, ListsConcat
    <3>2. \A e : Lists(d, e) => e.overlay = o /\ e.kind # "func"
      BY <1>14, <3>1 DEF Lists
    <3>3. QED
      BY <1>10, <2>2, <3>2 DEF Lists
  <2>4. Sorted(p, d \o c)
    <3>1. \A x \in DOMAIN d, y \in DOMAIN c : d[x].kind # c[y].kind
      BY <1>14, <2>3
    <3>2. QED
      BY <1>9, <1>15, <2>1, <2>2, <2>3, <3>1, SortedConcat
  <2>5. \A x \in DOMAIN (d \o c) : (d \o c)[x].overlay = o
    <3>1. \A e : Lists(d \o c, e) => Lists(d, e) \/ Lists(c, e)
      BY <1>9, <2>3, ListsConcat
    <3>2. ASSUME NEW e, Lists(d, e) PROVE e.overlay = o
      BY <2>3, <3>2 DEF Lists
    <3>3. ASSUME NEW e, Lists(c, e) PROVE e.overlay = o
      BY <1>14, <3>3 DEF Lists
    <3>4. QED
      BY <3>1, <3>2, <3>3 DEF Lists
  <2>6. QED
    BY <2>2, <2>4, <2>5
<1>17. QED
  BY <1>6, <1>10, <1>12, <1>13, <1>16 DEF S

(* The function upTo that Entries defines.                                 *)
UpToEq(p, f, n) ==
  f = [o \in 1 .. n |-> IF o = 1 THEN <<>> ELSE f[o - 1] \o EntriesOf(p, o)]

LEMMA UpToExists ==
  ASSUME NEW p, NEW len \in Nat
  PROVE  \E f : UpToEq(p, f, len)
<1> DEFINE S == {n \in 0 .. len : ~ \E f : UpToEq(p, f, n)}
<1> SUFFICES ASSUME S # {} PROVE FALSE
  OBVIOUS
<1>1. S \subseteq Nat
  OBVIOUS
<1>2. PICK n \in S : \A m \in S : n <= m
  <2> HIDE DEF S
  <2>1. QED
    BY <1>1, LeastExists
<1>3. n # 0
  <2>1. UpToEq(p, [o \in 1 .. 0 |-> <<>>], 0)
    BY DEF UpToEq
  <2>2. QED
    BY <2>1
<1>4. n - 1 \in 0 .. len /\ n - 1 \notin S /\ n \in Nat
  BY <1>1, <1>2, <1>3
<1>5. PICK f : UpToEq(p, f, n - 1)
  BY <1>4
<1> DEFINE h == [o \in 1 .. n |->
                   IF o < n THEN f[o] ELSE IF o = 1 THEN <<>> ELSE f[o - 1] \o EntriesOf(p, o)]
<1>6. ASSUME NEW o \in 1 .. n
      PROVE  h[o] = IF o = 1 THEN <<>> ELSE h[o - 1] \o EntriesOf(p, o)
  <2>1. CASE o = n
    <3>1. o # 1 => h[o - 1] = f[o - 1]
      BY <1>4, <2>1
    <3>2. h[o] = IF o = 1 THEN <<>> ELSE f[o - 1] \o EntriesOf(p, o)
      BY <1>4, <2>1
    <3> HIDE DEF h
    <3>3. QED
      BY <3>1, <3>2
  <2>2. CASE o # n
    <3>1. o \in 1 .. n - 1
      BY <1>4, <2>2
    <3>2. f[o] = IF o = 1 THEN <<>> ELSE f[o - 1] \o EntriesOf(p, o)
      BY <1>5, <3>1 DEF UpToEq
    <3>3. h[o] = f[o] /\ (o # 1 => h[o - 1] = f[o - 1])
      BY <1>4, <3>1
    <3> HIDE DEF h
    <3>4. QED
      BY <3>2, <3>3
  <2>3. QED
    BY <2>1, <2>2
<1>7. DOMAIN h = 1 .. n /\ h = [o \in 1 .. n |-> h[o]]
  OBVIOUS
<1> HIDE DEF h
<1>8. UpToEq(p, h, n)
  BY <1>6, <1>7 DEF UpToEq
<1>9. QED
  BY <1>8

LEMMA EntriesProperty ==
  ASSUME NEW p \in Parsers, p.overlays # <<>>
  PROVE  /\ Entries(p) \in Seq(EntriesIn(p)) /\ Headed(Entries(p))
         /\ \A e \in EntriesIn(p) : Lists(Entries(p), e)
         /\ Sorted(p, Entries(p))
<1> DEFINE len == Len(p.overlays)
           f == CHOOSE g : g = [o \in 1 .. Len(p.overlays) |->
                                  IF o = 1 THEN <<>> ELSE g[o - 1] \o EntriesOf(p, o)]
<1>1. Entries(p) = f[len] \o EntriesOf(p, 1)
  BY DEF Entries
<1>2. len \in Nat \ {0} /\ DOMAIN p.overlays = 1 .. len
  <2> DEFINE Ovs == [id : Nat, vars : Seq(Decls), funcs : Seq(Decls)]
  <2>1. p.overlays \in Seq(Ovs)
    BY DEF Parsers
  <2> HIDE DEF Ovs
  <2>2. QED
    BY <2>1, EmptySeq
<1>3. UpToEq(p, f, len)
  <2>1. \E g : g = [o \in 1 .. Len(p.overlays) |->
                      IF o = 1 THEN <<>> ELSE g[o - 1] \o EntriesOf(p, o)]
    BY <1>2, UpToExists DEF UpToEq
  <2>2. f = [o \in 1 .. Len(p.overlays) |->
               IF o = 1 THEN <<>> ELSE f[o - 1] \o EntriesOf(p, o)]
    BY <2>1
  <2> HIDE DEF f
  <2>3. QED
    BY <2>2 DEF UpToEq
<1> HIDE DEF f
<1> DEFINE S == EntriesIn(p)
           Good(o) == /\ f[o] \in Seq(S) /\ Headed(f[o]) /\ Sorted(p, f[o])
                      /\ \A x \in DOMAIN f[o] : f[o][x].overlay \in 2 .. o
                      /\ \A e \in S : e.overlay > 1 /\ e.overlay <= o => Lists(f[o], e)
           Bad == {o \in 1 .. len : ~ Good(o)}
<1>4. \A e \in S : e.overlay \in 1 .. len
  BY <1>2 DEF EntriesIn
<1> HIDE DEF S, len
<1>5. ASSUME Bad # {} PROVE FALSE
  <2>1. Bad \subseteq Nat
    BY <1>2
  <2>2. PICK o \in Bad : \A m \in Bad : o <= m
    <3> HIDE DEF Bad
    <3>1. QED
      BY <1>5, <2>1, LeastExists
  <2>3. o \in 1 .. len /\ f[o] = IF o = 1 THEN <<>> ELSE f[o - 1] \o EntriesOf(p, o)
    BY <1>3, <2>2 DEF UpToEq
  <2>4. CASE o = 1
    <3>1. Good(o)
      BY <1>2, <1>4, <2>3, <2>4 DEF Headed, Sorted
    <3>2. QED
      BY <2>2, <3>1
  <2>5. CASE o # 1
    <3>1. o - 1 \in 1 .. len /\ Good(o - 1)
      BY <1>2, <2>2, <2>3, <2>5
    <3>2. /\ EntriesOf(p, o) \in Seq(S) /\ Headed(EntriesOf(p, o))
          /\ \A e \in S : e.overlay = o => Lists(EntriesOf(p, o), e)
          /\ Sorted(p, EntriesOf(p, o))
          /\ \A x \in DOMAIN EntriesOf(p, o) : EntriesOf(p, o)[x].overlay = o
      BY <1>2, <2>3, EntriesOfProperty DEF S
    <3>3. f[o] \in Seq(S) /\ \A e : Lists(f[o - 1], e) \/ Lists(EntriesOf(p, o), e) => Lists(f[o], e)
      BY <2>3, <2>5, <3>1, <3>2, ListsConcat
    <3>4. \A e \in S : e.overlay > 1 /\ e.overlay <= o => e.overlay <= o - 1 \/ e.overlay = o
      BY <1>2, <1>4, <2>3
    <3>5. Headed(f[o])
      BY <2>3, <2>5, <3>1, <3>2, HeadedConcat
    <3>6. Sorted(p, f[o])
      <4>1. \A q \in 2 .. o - 1 : Turn(p, q) < Turn(p, o)
        BY <1>2, <2>3 DEF Turn
      <4>2. \A x \in DOMAIN f[o - 1], y \in DOMAIN EntriesOf(p, o) :
              Precedes(p, f[o - 1][x], EntriesOf(p, o)[y])
        BY <3>1, <3>2, <4>1 DEF Precedes
      <4>3. QED
        BY <2>3, <2>5, <3>1, <3>2, <4>2, SortedConcat
    <3>7. \A x \in DOMAIN f[o] : f[o][x].overlay \in 2 .. o
      <4>1. \A e : Lists(f[o], e) => Lists(f[o - 1], e) \/ Lists(EntriesOf(p, o), e)
        BY <2>3, <2>5, <3>1, <3>2, ListsConcat
      <4>2. o \in 2 .. o /\ \A q \in 2 .. o - 1 : q \in 2 .. o
        BY <1>2, <2>3, <2>5
      <4>3. \A e : Lists(f[o], e) => e.overlay \in 2 .. o
        BY <3>1, <3>2, <4>1, <4>2 DEF Lists
      <4>4. QED
        BY <4>3 DEF Lists
    <3>8. Good(o)
      BY <3>1, <3>2, <3>3, <3>4, <3>5, <3>6, <3>7
    <3>9. QED
      BY <2>2, <3>8
  <2>6. QED
    BY <2>4, <2>5
<1>6. len \in 1 .. len /\ 1 \in 1 .. len
  BY <1>2
<1>7. Good(len)
  BY <1>5, <1>6
<1>8. /\ EntriesOf(p, 1) \in Seq(S) /\ Headed(EntriesOf(p, 1))
      /\ \A e \in S : e.overlay = 1 => Lists(EntriesOf(p, 1), e)
      /\ Sorted(p, EntriesOf(p, 1))
      /\ \A x \in DOMAIN EntriesOf(p, 1) : EntriesOf(p, 1)[x].overlay = 1
  BY <1>2, <1>6, EntriesOfProperty DEF S
<1>9. /\ Entries(p) \in Seq(S) /\ Headed(Entries(p))
      /\ \A e : Lists(f[len], e) \/ Lists(EntriesOf(p, 1), e) => Lists(Entries(p), e)
  BY <1>1, <1>7, <1>8, ListsConcat, HeadedConcat
<1>10. \A e \in S : e.overlay = 1 \/ (e.overlay > 1 /\ e.overlay <= len)
  BY <1>2, <1>4
<1>11. Sorted(p, Entries(p))
  <2>1. \A q \in 2 .. len : Turn(p, q) < Turn(p, 1)
    BY <1>2 DEF Turn, len
  <2>2. \A x \in DOMAIN f[len], y \in DOMAIN EntriesOf(p, 1) :
          Precedes(p, f[len][x], EntriesOf(p, 1)[y])
    BY <1>7, <1>8, <2>1 DEF Precedes
  <2>3. QED
    BY <1>1, <1>7, <1>8, <2>2, SortedConcat
<1>12. QED
  BY <1>7, <1>8, <1>9, <1>10, <1>11 DEF S

-----------------------------------------------------------------------------
(* The declarations of the result.                                         *)

OverlayIds == UNION {{given[n].overlays[o].id : o \in DOMAIN given[n].overlays} : n \in DOMAIN given}

(* What may be in the overlay id.                                          *)
DeclsWithId(id) ==
  {r \in [pnum : DOMAIN given, entry : UNION {EntriesIn(ps[n]) : n \in DOMAIN given}] :
     r.entry \in EntriesIn(ps[r.pnum]) /\ r.entry.kind \in {"var", "func"} /\ r.entry.id = id}

TextOf(r) == DeclText(ps[r.pnum], r.entry.kind, DeclOf(ps[r.pnum], r.entry))

(* The entries that the loops have gone through.                           *)
Seen(n, x) == at = "done" \/ (at = "decls" /\ (n < pnum \/ (n = pnum /\ x < next)))

DeclInv ==
  /\ at \notin {"decls", "done"} => DOMAIN overlays = {}
  /\ \A id \in DOMAIN overlays : id \in OverlayIds /\ overlays[id] \in Seq(DeclsWithId(id))
  /\ \A n \in DOMAIN given : \A x \in DOMAIN Entries(ps[n]) :
       Seen(n, x) /\ Entries(ps[n])[x].kind = "overlay" => Entries(ps[n])[x].id \in DOMAIN overlays
  /\ \A r \in KeptDecls : TextOf(r) \in present
  /\ \A r, q \in KeptDecls : TextOf(r) = TextOf(q) => r = q

(* The entries of the parsers, whose overlays are as given.                *)
LEMMA EntriesTyped ==
  ASSUME Shape, NEW n \in DOMAIN given
  PROVE  /\ Entries(ps[n]) \in Seq(EntriesIn(ps[n])) /\ \A e \in EntriesIn(ps[n]) : Lists(Entries(ps[n]), e)
         /\ \A x \in DOMAIN Entries(ps[n]) :
              /\ Entries(ps[n])[x] \in EntriesIn(ps[n]) /\ Entries(ps[n])[x].id \in OverlayIds
              /\ Entries(ps[n])[x].kind \in {"overlay", "var", "func"}
         /\ Len(Entries(ps[n])) \in Nat
         /\ \A x : x \in DOMAIN Entries(ps[n]) <=> x \in Nat /\ 1 <= x /\ x <= Len(Entries(ps[n]))
<1>1. ps[n] \in Parsers /\ ps[n].overlays = given[n].overlays /\ given[n].overlays # <<>>
  BY GivenTyped DEF Shape, IsParser
<1>2. Entries(ps[n]) \in Seq(EntriesIn(ps[n])) /\ \A e \in EntriesIn(ps[n]) : Lists(Entries(ps[n]), e)
  BY <1>1, EntriesProperty
<1>3. \A e \in EntriesIn(ps[n]) : e.id \in OverlayIds /\ e.kind \in {"overlay", "var", "func"}
  BY <1>1 DEF EntriesIn, OverlayIds
<1>4. QED
  BY <1>2, <1>3

LEMMA DeclInvInit == Init => DeclInv
<1> SUFFICES ASSUME Init PROVE DeclInv
  OBVIOUS
<1>1. DOMAIN overlays = {} /\ at = "enum"
  BY DEF Init
<1>2. KeptDecls = {}
  BY <1>1 DEF KeptDecls
<1>3. QED
  BY <1>1, <1>2 DEF DeclInv, Seen

(* Nothing of it changes but what is seen.                                 *)
LEMMA DeclInvKept ==
  ASSUME Shape, DeclInv, UNCHANGED <<ps, given, overlays>>, present \subseteq present',
         at \in {"decls", "done"} => at' \in {"decls", "done"},
         \A n \in DOMAIN given : \A x \in DOMAIN Entries(ps[n]) : Seen(n, x)' => Seen(n, x)
  PROVE  DeclInv'
<1>1. OverlayIds' = OverlayIds /\ KeptDecls' = KeptDecls
  BY DEF OverlayIds, KeptDecls
<1>2. \A id : DeclsWithId(id)' = DeclsWithId(id)
  BY DEF DeclsWithId
<1>3. \A r : TextOf(r)' = TextOf(r)
  BY DEF TextOf
<1>4. QED
  BY <1>1, <1>2, <1>3 DEF DeclInv

LEMMA AddOverlayKeeps ==
  ASSUME Shape, DeclInv, AddOverlay, UNCHANGED given
  PROVE  DeclInv'
<1>1. /\ at = "decls" /\ next \in Nat \ {0} /\ next <= Len(Entries(Parser)) /\ next' = next + 1
      /\ UNCHANGED <<ps, given, pnum, at, present>> /\ pnum \in DOMAIN given
  BY DEF AddOverlay, AtEntry, Shape
<1>2. Parser = ps[pnum] /\ next \in DOMAIN Entries(ps[pnum]) /\ TheEntry = Entries(ps[pnum])[next]
  BY <1>1, EntriesTyped DEF Parser, TheEntry
<1>3. TheEntry.id \in OverlayIds
  BY <1>1, <1>2, EntriesTyped
<1>4. /\ DOMAIN overlays' = DOMAIN overlays \cup {TheEntry.id}
      /\ \A id \in DOMAIN overlays' :
           overlays'[id] = IF id \in DOMAIN overlays THEN overlays[id] ELSE <<>>
  BY DEF AddOverlay
<1>5. OverlayIds' = OverlayIds /\ (\A id : DeclsWithId(id)' = DeclsWithId(id))
      /\ \A r : TextOf(r)' = TextOf(r)
  BY <1>1 DEF OverlayIds, DeclsWithId, TextOf
<1>6. KeptDecls' = KeptDecls
  <2>1. \A id \in DOMAIN overlays' \ DOMAIN overlays : DOMAIN overlays'[id] = {}
    BY <1>4
  <2>2. QED
    BY <1>4, <2>1 DEF KeptDecls
<1>7. \A id \in DOMAIN overlays' : id \in OverlayIds /\ overlays'[id] \in Seq(DeclsWithId(id))
  BY <1>3, <1>4, EmptySeq DEF DeclInv
<1>8. ASSUME NEW n \in DOMAIN given, NEW x \in DOMAIN Entries(ps[n]), Seen(n, x)',
             Entries(ps[n])[x].kind = "overlay"
      PROVE  Entries(ps[n])[x].id \in DOMAIN overlays'
  <2>1. Seen(n, x) \/ (n = pnum /\ x = next)
    <3>1. x \in Nat
      BY EntriesTyped
    <3>2. QED
      BY <1>1, <1>8, <3>1 DEF Seen
  <2>2. QED
    BY <1>2, <1>4, <1>8, <2>1 DEF DeclInv
<1>9. QED
  BY <1>1, <1>5, <1>6, <1>7, <1>8 DEF DeclInv

LEMMA AddDeclKeeps ==
  ASSUME Shape, DeclInv, AddDecl, UNCHANGED given
  PROVE  DeclInv' /\ KeptDecls' \subseteq KeptDecls \cup {[pnum |-> pnum, entry |-> TheEntry]}
<1> DEFINE text == DeclText(Parser, TheEntry.kind, DeclOf(Parser, TheEntry))
           id == TheEntry.id
           new == [pnum |-> pnum, entry |-> TheEntry]
<1>1. /\ at = "decls" /\ next \in Nat \ {0} /\ next <= Len(Entries(Parser)) /\ next' = next + 1
      /\ UNCHANGED <<ps, given, pnum, at>> /\ pnum \in DOMAIN given /\ TheEntry.kind \in {"var", "func"}
      /\ overlays' = IF text \in present THEN overlays
                     ELSE [overlays EXCEPT ![id] = Append(@, new)]
      /\ present' = present \cup {text}
  BY DEF AddDecl, AtEntry, Shape, Target
<1>2. Parser = ps[pnum] /\ next \in DOMAIN Entries(ps[pnum]) /\ TheEntry = Entries(ps[pnum])[next]
  BY <1>1, EntriesTyped DEF Parser, TheEntry
<1>3. TheEntry \in EntriesIn(ps[pnum])
  BY <1>1, <1>2, EntriesTyped
<1>4. new \in DeclsWithId(id) /\ TextOf(new) = text
  BY <1>1, <1>2, <1>3 DEF DeclsWithId, TextOf
<1> HIDE DEF text, new, id
<1>5. OverlayIds' = OverlayIds /\ (\A i : DeclsWithId(i)' = DeclsWithId(i))
      /\ \A r : TextOf(r)' = TextOf(r)
  BY <1>1 DEF OverlayIds, DeclsWithId, TextOf
<1>6. DOMAIN overlays' = DOMAIN overlays
  BY <1>1
<1>7. /\ \A i \in DOMAIN overlays' : overlays'[i] \in Seq(DeclsWithId(i))
      /\ KeptDecls' \subseteq KeptDecls \cup {new} /\ (text \in present => KeptDecls' = KeptDecls)
  <2>1. CASE text \in present
    BY <1>1, <2>1 DEF DeclInv, KeptDecls
  <2>2. CASE text \notin present
    <3>1. \A i \in DOMAIN overlays : overlays[i] \in Seq(DeclsWithId(i))
      BY DEF DeclInv
    <3>2. \A i \in DOMAIN overlays : overlays'[i] = IF i = id THEN Append(overlays[i], new) ELSE overlays[i]
      BY <1>1, <2>2
    <3>3. ASSUME NEW i \in DOMAIN overlays
          PROVE  /\ overlays'[i] \in Seq(DeclsWithId(i))
                 /\ \A x \in DOMAIN overlays'[i] :
                      overlays'[i][x] = new \/ \E y \in DOMAIN overlays[i] : overlays'[i][x] = overlays[i][y]
      <4>1. CASE i = id
        <5> DEFINE s == overlays[i]
        <5>1. s \in Seq(DeclsWithId(i)) /\ new \in DeclsWithId(i) /\ overlays'[i] = Append(s, new)
          BY <1>4, <3>1, <3>2, <4>1
        <5> HIDE DEF s
        <5>2. /\ Append(s, new) \in Seq(DeclsWithId(i)) /\ Len(Append(s, new)) = Len(s) + 1
              /\ Append(s, new)[Len(s) + 1] = new
              /\ \A x \in 1 .. Len(s) : Append(s, new)[x] = s[x]
          BY <5>1, Appended
        <5>3. DOMAIN s = 1 .. Len(s) /\ Len(s) \in Nat /\ DOMAIN Append(s, new) = 1 .. Len(s) + 1
          BY <5>1, <5>2
        <5>4. \A x \in 1 .. Len(s) + 1 : x = Len(s) + 1 \/ x \in 1 .. Len(s)
          BY <5>3
        <5>5. QED
          BY <5>1, <5>2, <5>3, <5>4 DEF s
      <4>2. CASE i # id
        BY <3>1, <3>2, <4>2
      <4>3. QED
        BY <4>1, <4>2
    <3>4. KeptDecls' \subseteq KeptDecls \cup {new}
      BY <1>6, <3>3 DEF KeptDecls
    <3>5. QED
      BY <1>6, <2>2, <3>3, <3>4
  <2>3. QED
    BY <2>1, <2>2
<1>8. ASSUME NEW n \in DOMAIN given, NEW x \in DOMAIN Entries(ps[n]), Seen(n, x)',
             Entries(ps[n])[x].kind = "overlay"
      PROVE  Entries(ps[n])[x].id \in DOMAIN overlays'
  <2>1. Seen(n, x) \/ (n = pnum /\ x = next)
    <3>1. x \in Nat
      BY EntriesTyped
    <3>2. QED
      BY <1>1, <1>8, <3>1 DEF Seen
  <2>2. ~ (n = pnum /\ x = next)
    BY <1>1, <1>2, <1>8
  <2>3. QED
    BY <1>6, <1>8, <2>1, <2>2 DEF DeclInv
<1>9. \A r \in KeptDecls' : TextOf(r) \in present'
  BY <1>1, <1>4, <1>7 DEF DeclInv
<1>10. \A r, q \in KeptDecls' : TextOf(r) = TextOf(q) => r = q
  BY <1>4, <1>7 DEF DeclInv
<1>11. \A i \in DOMAIN overlays' : i \in OverlayIds
  BY <1>6 DEF DeclInv
<1>12. DeclInv'
  BY <1>1, <1>5, <1>7, <1>8, <1>9, <1>10, <1>11 DEF DeclInv
<1>13. QED
  BY <1>7, <1>12 DEF new

LEMMA DeclInvStep ==
  ASSUME Shape, DeclInv, [Next]_vars
  PROVE  DeclInv'
<1>1. given' = given
  BY DEF Next, vars
<1>2. /\ pnum \in DOMAIN given /\ DOMAIN given = 1 .. Len(given) /\ Len(given) \in Nat
      /\ Len(ps) = Len(given) /\ next \in Nat \ {0}
  BY GivenTyped DEF Shape
<1>3. \A n \in DOMAIN given : \A x \in DOMAIN Entries(ps[n]) :
        x \in Nat \ {0} /\ x <= Len(Entries(ps[n])) /\ Len(Entries(ps[n])) \in Nat
  BY EntriesTyped
<1>4. ASSUME at \notin {"decls", "done"}, at' \notin {"decls", "done"}, overlays' = overlays
      PROVE  DeclInv'
  <2>1. DOMAIN overlays' = {}
    BY <1>4 DEF DeclInv
  <2>2. KeptDecls' = {} /\ \A n, x : ~ Seen(n, x)'
    BY <1>4, <2>1 DEF KeptDecls, Seen
  <2>3. QED
    BY <2>1, <2>2 DEF DeclInv
<1>5. CASE AddType
  BY <1>4, <1>5 DEF AddType, Kinds
<1>6. CASE EndKind
  <2>1. at \in Kinds /\ at' = After[at] /\ overlays' = overlays
    BY <1>6 DEF EndKind
  <2>2. at \notin {"decls", "done"} /\ at' \notin {"decls", "done"}
    BY <2>1 DEF Kinds, After
  <2>3. QED
    BY <1>4, <2>1, <2>2
<1>7. CASE AddTypedef
  BY <1>4, <1>7 DEF AddTypedef
<1>8. CASE EndTypedefs
  <2>1. at = "typedefs" /\ UNCHANGED <<ps, overlays, present>>
    BY <1>8 DEF EndTypedefs
  <2>2. CASE pnum < Len(ps)
    <3>1. at' = "enum"
      BY <1>8, <2>2 DEF EndTypedefs
    <3>2. QED
      BY <1>4, <2>1, <3>1
  <2>3. CASE ~ (pnum < Len(ps))
    <3>1. at' = "decls" /\ pnum' = 1 /\ next' = 1
      BY <1>8, <2>3 DEF EndTypedefs
    <3>2. \A n \in DOMAIN given : \A x \in DOMAIN Entries(ps[n]) : ~ Seen(n, x)'
      BY <1>2, <1>3, <3>1 DEF Seen
    <3>3. QED
      BY <1>1, <2>1, <3>1, <3>2, DeclInvKept
  <2>4. QED
    BY <2>2, <2>3
<1>9. CASE AddOverlay
  BY <1>1, <1>9, AddOverlayKeeps
<1>10. CASE AddDecl
  BY <1>1, <1>10, AddDeclKeeps
<1>11. CASE EndDecls
  <2>1. /\ at = "decls" /\ next > Len(Entries(Parser)) /\ next' = 1 /\ Parser = ps[pnum]
        /\ UNCHANGED <<ps, overlays, present>>
    BY <1>11 DEF EndDecls, Parser
  <2>2. \A x \in DOMAIN Entries(ps[pnum]) : Seen(pnum, x)
    BY <1>2, <1>3, <2>1 DEF Seen
  <2>3. CASE pnum < Len(ps)
    <3>1. pnum' = pnum + 1 /\ at' = at
      BY <1>11, <2>3 DEF EndDecls
    <3>2. ASSUME NEW n \in DOMAIN given, NEW x \in DOMAIN Entries(ps[n]), Seen(n, x)'
          PROVE  Seen(n, x)
      <4>1. n < pnum \/ n = pnum
        BY <1>2, <1>3, <2>1, <3>1, <3>2, SMTT(30) DEF Seen
      <4>2. QED
        BY <2>1, <2>2, <4>1 DEF Seen
    <3>3. QED
      BY <1>1, <2>1, <3>1, <3>2, DeclInvKept
  <2>4. CASE ~ (pnum < Len(ps))
    <3>1. at' = "done"
      BY <1>11, <2>4 DEF EndDecls
    <3>2. ASSUME NEW n \in DOMAIN given, NEW x \in DOMAIN Entries(ps[n])
          PROVE  Seen(n, x)
      <4>1. n < pnum \/ n = pnum
        BY <1>2, <2>4
      <4>2. QED
        BY <2>1, <2>2, <4>1 DEF Seen
    <3>3. QED
      BY <1>1, <2>1, <3>1, <3>2, DeclInvKept
  <2>5. QED
    BY <2>3, <2>4
<1>12. CASE UNCHANGED vars
  <2>1. UNCHANGED <<ps, given, overlays, present, at, pnum, next>>
    BY <1>12 DEF vars
  <2>2. \A n, x : Seen(n, x)' <=> Seen(n, x)
    BY <2>1 DEF Seen
  <2>3. QED
    BY <2>1, <2>2, DeclInvKept
<1>13. QED
  BY <1>5, <1>6, <1>7, <1>8, <1>9, <1>10, <1>11, <1>12 DEF Next

LEMMA DeclInvHolds == Spec => [](Shape /\ DeclInv)
<1>1. Init => Shape /\ DeclInv
  BY ShapeInit, DeclInvInit
<1>2. (Shape /\ DeclInv) /\ [Next]_vars => (Shape /\ DeclInv)'
  BY ShapeStep, DeclInvStep
<1>3. QED
  BY <1>1, <1>2, PTL DEF Spec

(* No two variables, and no two functions, that are kept read the same.    *)
THEOREM NothingIsKeptTwice == Spec => []NothingTwice
<1>1. Shape /\ DeclInv => NothingTwice
  <2> SUFFICES ASSUME DeclInv, NEW r \in KeptDecls, NEW q \in KeptDecls, r.entry.kind = q.entry.kind,
                      SameDecl(r.pnum, DeclOf(ps[r.pnum], r.entry), q.pnum, DeclOf(ps[q.pnum], q.entry))
               PROVE  r = q
    BY DEF NothingTwice
  <2>1. TextOf(r) = TextOf(q)
    BY DEF SameDecl, TextOf, DeclText
  <2>2. QED
    BY <2>1 DEF DeclInv
<1>2. QED
  BY <1>1, DeclInvHolds, PTL

(* Every overlay is kept, and each declaration in the overlay of its ID.   *)
THEOREM OverlaysAreKept == Spec => []OverlaysKept
<1>1. Shape /\ DeclInv => OverlaysKept
  <2> SUFFICES ASSUME Shape, DeclInv, at = "done"
               PROVE  /\ DOMAIN overlays = OverlayIds
                      /\ \A id \in DOMAIN overlays : \A x \in DOMAIN overlays[id] :
                           given[overlays[id][x].pnum].overlays[overlays[id][x].entry.overlay].id = id
    BY DEF OverlaysKept, OverlayIds
  <2>1. ASSUME NEW n \in DOMAIN given, NEW o \in DOMAIN given[n].overlays
        PROVE  given[n].overlays[o].id \in DOMAIN overlays
    <3> DEFINE e == Entry(o, "overlay", 0, given[n].overlays[o].id)
    <3>1. ps[n].overlays = given[n].overlays /\ given[n] \in Parsers
      BY GivenTyped DEF Shape
    <3>2. given[n].overlays[o].id \in Nat
      <4> DEFINE Ovs == [id : Nat, vars : Seq(Decls), funcs : Seq(Decls)]
      <4>1. given[n].overlays \in Seq(Ovs)
        BY <3>1 DEF Parsers
      <4>2. given[n].overlays[o] \in Ovs
        <5> HIDE DEF Ovs
        <5>1. QED
          BY <4>1
      <4>3. QED
        BY <4>2
    <3>3. e \in EntriesIn(ps[n])
      BY <3>1, <3>2 DEF EntriesIn, Entry
    <3>4. PICK x \in DOMAIN Entries(ps[n]) : Entries(ps[n])[x] = e
      BY <3>3, EntriesTyped DEF Lists
    <3>5. e.kind = "overlay" /\ e.id = given[n].overlays[o].id
      BY DEF Entry
    <3>6. QED
      BY <3>4, <3>5 DEF DeclInv, Seen
  <2>2. DOMAIN overlays = OverlayIds
    <3>1. \A id \in DOMAIN overlays : id \in OverlayIds
      BY DEF DeclInv
    <3>2. \A id \in OverlayIds : id \in DOMAIN overlays
      BY <2>1 DEF OverlayIds
    <3>3. QED
      BY <3>1, <3>2
  <2>3. ASSUME NEW id \in DOMAIN overlays, NEW x \in DOMAIN overlays[id]
        PROVE  given[overlays[id][x].pnum].overlays[overlays[id][x].entry.overlay].id = id
    <3> DEFINE r == overlays[id][x]
    <3>1. r \in DeclsWithId(id)
      BY DEF DeclInv
    <3>2. r.pnum \in DOMAIN given /\ r.entry \in EntriesIn(ps[r.pnum]) /\ r.entry.id = id
      BY <3>1 DEF DeclsWithId
    <3>3. ps[r.pnum].overlays = given[r.pnum].overlays
      BY <3>2 DEF Shape
    <3>4. ps[r.pnum].overlays[r.entry.overlay].id = id
      BY <3>2 DEF EntriesIn
    <3>5. QED
      BY <3>3, <3>4
  <2>4. QED
    BY <2>2, <2>3
<1>2. QED
  BY <1>1, DeclInvHolds, PTL

-----------------------------------------------------------------------------
(* What the result refers to.                                              *)

(* If no file has two types with one tag, each type has one of the result  *)
(* with its tag: the tag is a key once a text has it.                      *)
RefInv ==
  /\ \A t \in added : \E u \in kept : KindOf(u) = KindOf(t) /\ TagOf(u) = TagOf(t)
  /\ \A text \in present : text[1] \in Kinds => text[2] \in keys[text[1]]
  /\ \A kind \in Kinds : \A k \in keys[kind] : \E u \in kept : KindOf(u) = kind /\ TagOf(u) = k

LEMMA AddTypeKeepsRefs ==
  ASSUME Shape, TagInv, OneTypePerTag, RefInv, AddType, UNCHANGED given
  PROVE  RefInv'
<1>1. PICK x \in DOMAIN Parser.types :
        /\ IsNext(x) /\ (AddFake(x) \/ DropTagged(x) \/ KeepTagged(x))
        /\ added' = added \cup {<<pnum, x>>} /\ present' = present \cup {ComparedText(x)}
  BY DEF AddType
<1>2. PICK u : u = <<pnum, x>>
  OBVIOUS
<1>3. /\ u \in AllTypes /\ KindOf(u) = at /\ u \notin added /\ Parser.types[x].tag = TagOf(u)
      /\ Parser.types[x].kind = at /\ Parser.types[x].key = GivenType(u).key
      /\ TagOf(u) = GivenType(u).tag /\ at \in Kinds /\ pnum \in Nat
  <2>1. /\ u \in AllTypes /\ KindOf(u) = at /\ u \notin added /\ Parser.types[x].tag = TagOf(u)
        /\ Parser.types[x].kind = at /\ Parser.types[x].key = GivenType(u).key
    BY <1>1, <1>2, ListOfProperty DEF IsNext, IsAdded
  <2>2. QED
    BY <2>1, TagBeforeTyped DEF TagInv, TagsMade, AddType
<1>4. ~ IsFakeTag(GivenType(u).tag) /\ GivenType(u).tag = GivenType(u).key
  BY <1>3 DEF OneTypePerTag, GivenType
<1>5. ASSUME NEW y \in ListOf(x) PROVE y = x
  <2>1. <<pnum, y>> \in AllTypes /\ SameList(<<pnum, y>>, <<pnum, x>>)
    BY ListOfProperty
  <2>2. <<pnum, y>> = u
    BY <1>2, <1>3, <2>1 DEF OneTypePerTag, SameList, GivenType
  <2>3. QED
    BY <1>2, <2>2
<1>6. x \in Nat /\ TagBefore(x) = GivenType(u).key
  <2>1. x \in Nat
    BY <1>2, <1>3, GivenTyped
  <2>2. \A y \in ListOf(x) : x <= y
    BY <1>5, <2>1
  <2>3. QED
    BY <1>3, <2>1, <2>2 DEF TagBefore
<1>7. ComparedText(x)[1] = at /\ ComparedText(x)[2] = GivenType(u).key
  <2>1. ComparedText(x) = TypeText(Parser, x)
    BY <1>3, <1>4 DEF ComparedText
  <2>2. QED
    BY <1>3, <1>4, <2>1 DEF TypeText
<1>8. keys \in [Kinds -> SUBSET Tags] /\ kept \subseteq added /\ added \subseteq AllTypes
  BY DEF Shape
<1>9. \A t : KindOf(t)' = KindOf(t)
  BY DEF KindOf
<1>10. TagBefore(x) \in Tags
  BY TagBeforeTyped
<1>11. CASE AddFake(x)
  BY <1>3, <1>4, <1>11 DEF AddFake
<1>12. CASE DropTagged(x)
  <2>1. UNCHANGED <<ps, kept, keys>> /\ ComparedText(x) \in present
    BY <1>12 DEF DropTagged
  <2>2. \A t : TagOf(t)' = TagOf(t)
    BY <2>1 DEF TagOf
  <2>3. GivenType(u).key \in keys[at]
    BY <1>3, <1>7, <2>1 DEF RefInv
  <2>4. \E s \in kept : KindOf(s) = KindOf(u) /\ TagOf(s) = TagOf(u)
    BY <1>3, <1>4, <2>3 DEF RefInv
  <2>5. present' = present
    BY <1>1, <2>1
  <2>6. QED
    BY <1>1, <1>2, <1>9, <2>1, <2>2, <2>4, <2>5 DEF RefInv
<1>13. CASE KeepTagged(x)
  <2>1. PICK new \in Tags :
          /\ kept' = kept \cup {u} /\ keys' = [keys EXCEPT ![at] = @ \cup {new}]
          /\ (GivenType(u).key \in keys[at] /\ ps' = WithTag(x, new))
               \/ (new = GivenType(u).key /\ ps' = ps)
    <3>1. DupTag(TagBefore(x), pnum) \in Tags
      BY <1>3, <1>10, DupTagProperty
    <3>2. QED
      BY <1>2, <1>6, <1>10, <1>13, <3>1 DEF KeepTagged
  <2>2. TagOf(u)' = new /\ \A s \in AllTypes : s # u => TagOf(s)' = TagOf(s)
    <3>1. CASE ps' = WithTag(x, new)
      BY <1>2, <3>1, WithTagTags
    <3>2. CASE new = GivenType(u).key /\ ps' = ps
      BY <1>3, <1>4, <3>2 DEF TagOf
    <3>3. QED
      BY <2>1, <3>1, <3>2
  <2>3. \A s \in added : TagOf(s)' = TagOf(s)
    BY <1>3, <1>8, <2>2
  <2>4. \A kind \in Kinds : keys'[kind] = IF kind = at THEN keys[kind] \cup {new} ELSE keys[kind]
    BY <1>8, <2>1
  <2>5. GivenType(u).key \in keys'[at]
    BY <1>3, <2>1, <2>4
  <2>6. \A t \in added' : \E s \in kept' : KindOf(s) = KindOf(t) /\ TagOf(s)' = TagOf(t)'
    BY <1>1, <1>2, <1>8, <2>1, <2>3 DEF RefInv
  <2>7. \A text \in present' : text[1] \in Kinds => text[2] \in keys'[text[1]]
    BY <1>1, <1>7, <2>4, <2>5 DEF RefInv
  <2>8. ASSUME NEW kind \in Kinds, NEW k \in keys'[kind]
        PROVE  \E s \in kept' : KindOf(s) = kind /\ TagOf(s)' = k
    <3>1. CASE k \in keys[kind]
      <4>1. PICK s \in kept : KindOf(s) = kind /\ TagOf(s) = k
        BY <3>1 DEF RefInv
      <4>2. QED
        BY <1>8, <2>1, <2>3, <4>1
    <3>2. CASE kind = at /\ k = new
      BY <1>3, <2>1, <2>2, <3>2
    <3>3. QED
      BY <2>4, <2>8, <3>1, <3>2
  <2>9. QED
    BY <1>9, <2>6, <2>7, <2>8 DEF RefInv
<1>14. QED
  BY <1>1, <1>11, <1>12, <1>13

LEMMA OneTypePerTagKept == given' = given => (OneTypePerTag' <=> OneTypePerTag)
BY DEF OneTypePerTag, AllTypes, TypesOf, IsFakeTag

LEMMA RefInvStep ==
  ASSUME Shape, TagInv, OneTypePerTag, RefInv, [Next]_vars
  PROVE  RefInv'
<1>1. given' = given
  BY DEF Next, vars
<1>2. \A t : KindOf(t)' = KindOf(t)
  BY <1>1 DEF KindOf
<1>3. ASSUME UNCHANGED <<ps, added, kept, keys>>,
             \A text \in present' : text \in present \/ text[1] \notin Kinds
      PROVE  RefInv'
  <2>1. \A t : TagOf(t)' = TagOf(t)
    BY <1>3 DEF TagOf
  <2>2. QED
    BY <1>2, <1>3, <2>1 DEF RefInv
<1>4. CASE AddType
  BY <1>1, <1>4, AddTypeKeepsRefs
<1>5. CASE EndKind
  BY <1>3, <1>5 DEF EndKind, typeVars
<1>6. CASE AddTypedef
  <2>1. PICK decl : present' = present \cup {DeclText(Parser, "typedef", decl)}
    BY <1>6 DEF AddTypedef
  <2>2. DeclText(Parser, "typedef", decl)[1] \notin Kinds
    BY DEF DeclText, Kinds
  <2>3. QED
    BY <1>3, <1>6, <2>1, <2>2 DEF AddTypedef, typeVars
<1>7. CASE EndTypedefs
  BY <1>3, <1>7 DEF EndTypedefs, typeVars
<1>8. CASE AddOverlay
  BY <1>3, <1>8 DEF AddOverlay, typeVars
<1>9. CASE AddDecl
  <2>1. PICK decl : present' = present \cup {DeclText(Parser, TheEntry.kind, decl)}
    BY <1>9 DEF AddDecl
  <2>2. DeclText(Parser, TheEntry.kind, decl)[1] \notin Kinds
    <3>1. TheEntry.kind \in {"var", "func"}
      BY <1>9 DEF AddDecl, AtEntry
    <3>2. QED
      BY <3>1 DEF DeclText, Kinds
  <2>3. QED
    BY <1>3, <1>9, <2>1, <2>2 DEF AddDecl, typeVars
<1>10. CASE EndDecls
  BY <1>3, <1>10 DEF EndDecls, typeVars
<1>11. CASE UNCHANGED vars
  BY <1>3, <1>11 DEF vars, typeVars
<1>12. QED
  BY <1>4, <1>5, <1>6, <1>7, <1>8, <1>9, <1>10, <1>11 DEF Next

TypedefPlaces == UNION {{<<n, x>> : x \in DOMAIN given[n].typedefs} : n \in DOMAIN given}

LEMMA TypedefsStep ==
  ASSUME Shape, typedefs \in Seq(TypedefPlaces), [Next]_vars
  PROVE  typedefs' \in Seq(TypedefPlaces')
<1>1. TypedefPlaces' = TypedefPlaces
  BY DEF Next, vars, TypedefPlaces
<1>2. CASE AddTypedef
  <2>1. /\ pnum \in DOMAIN given /\ Parser.typedefs = given[pnum].typedefs /\ next \in Nat \ {0}
        /\ next <= Len(Parser.typedefs) /\ given[pnum] \in Parsers
    BY <1>2, GivenTyped DEF AddTypedef, Shape, Parser
  <2>2. next \in DOMAIN given[pnum].typedefs
    <3>1. given[pnum].typedefs \in Seq(Decls)
      BY <2>1 DEF Parsers
    <3>2. QED
      BY <2>1, <3>1
  <2>3. <<pnum, next>> \in TypedefPlaces
    BY <2>1, <2>2 DEF TypedefPlaces
  <2>4. typedefs' = typedefs \/ typedefs' = Append(typedefs, <<pnum, next>>)
    BY <1>2 DEF AddTypedef
  <2>5. QED
    BY <1>1, <2>3, <2>4, AppendProperties
<1>3. CASE UNCHANGED typedefs
  BY <1>1, <1>3
<1>4. QED
  BY <1>2, <1>3 DEF Next, AddType, EndKind, EndTypedefs, AddOverlay, AddDecl, EndDecls, vars

(* What the result refers to is a type of a file.                          *)
LEMMA RefsTyped ==
  ASSUME Shape, DeclInv, typedefs \in Seq(TypedefPlaces), NEW q \in RefsPrinted, q[2] # 0
  PROVE  q \in AllTypes
<1>1. \A n \in DOMAIN given :
        /\ IsParser(given[n]) /\ given[n] \in Parsers /\ ps[n].typedefs = given[n].typedefs
        /\ ps[n].overlays = given[n].overlays /\ DOMAIN ps[n].types = DOMAIN given[n].types
        /\ \A x \in DOMAIN given[n].types : ps[n].types[x].members = given[n].types[x].members
  BY GivenTyped DEF Shape
<1>2. \A n \in DOMAIN given : \A x \in DOMAIN given[n].types : <<n, x>> \in AllTypes
  BY DEF AllTypes, TypesOf
<1>3. ASSUME NEW t \in kept, NEW y \in DOMAIN ps[t[1]].types[t[2]].members,
             q = <<t[1], ps[t[1]].types[t[2]].members[y].ref>>
      PROVE  q \in AllTypes
  <2>1. t[1] \in DOMAIN given /\ t[2] \in DOMAIN given[t[1]].types
    BY GivenTyped DEF Shape
  <2>2. IsRef(given[t[1]], ps[t[1]].types[t[2]].members[y].ref)
    BY <1>1, <1>3, <2>1 DEF IsParser
  <2>3. QED
    BY <1>2, <1>3, <2>1, <2>2 DEF IsRef
<1>4. ASSUME NEW z \in DOMAIN typedefs,
             q = <<typedefs[z][1], ps[typedefs[z][1]].typedefs[typedefs[z][2]].ref>>
      PROVE  q \in AllTypes
  <2>1. typedefs[z] \in TypedefPlaces
    OBVIOUS
  <2>2. typedefs[z][1] \in DOMAIN given /\ typedefs[z][2] \in DOMAIN given[typedefs[z][1]].typedefs
    BY <2>1 DEF TypedefPlaces
  <2>3. IsRef(given[typedefs[z][1]], ps[typedefs[z][1]].typedefs[typedefs[z][2]].ref)
    BY <1>1, <2>2 DEF IsParser
  <2>4. QED
    BY <1>2, <1>4, <2>2, <2>3 DEF IsRef
<1>5. ASSUME NEW r \in KeptDecls, q = <<r.pnum, DeclOf(ps[r.pnum], r.entry).ref>>
      PROVE  q \in AllTypes
  <2>1. PICK id \in DOMAIN overlays : \E x \in DOMAIN overlays[id] : r = overlays[id][x]
    BY DEF KeptDecls
  <2>2. r \in DeclsWithId(id)
    BY <2>1 DEF DeclInv
  <2>3. /\ r.pnum \in DOMAIN given /\ r.entry \in EntriesIn(ps[r.pnum])
        /\ r.entry.kind \in {"var", "func"}
    BY <2>2 DEF DeclsWithId
  <2>4. IsRef(given[r.pnum], DeclOf(ps[r.pnum], r.entry).ref)
    <3> DEFINE o == r.entry.overlay
               y == r.entry.place
    <3>1. /\ o \in DOMAIN given[r.pnum].overlays
          /\ r.entry.kind = "var" => y \in DOMAIN given[r.pnum].overlays[o].vars
          /\ r.entry.kind = "func" => y \in DOMAIN given[r.pnum].overlays[o].funcs
      BY <1>1, <2>3 DEF EntriesIn
    <3>2. CASE r.entry.kind = "var"
      <4>1. DeclOf(ps[r.pnum], r.entry) = given[r.pnum].overlays[o].vars[y]
        BY <1>1, <2>3, <3>2 DEF DeclOf
      <4>2. QED
        BY <1>1, <2>3, <3>1, <3>2, <4>1 DEF IsParser
    <3>3. CASE r.entry.kind = "func"
      <4>1. DeclOf(ps[r.pnum], r.entry) = given[r.pnum].overlays[o].funcs[y]
        BY <1>1, <2>3, <3>3 DEF DeclOf
      <4>2. QED
        BY <1>1, <2>3, <3>1, <3>3, <4>1 DEF IsParser
    <3>4. QED
      BY <2>3, <3>2, <3>3
  <2>5. QED
    BY <1>2, <1>5, <2>3, <2>4 DEF IsRef
<1>6. QED
  BY <1>3, <1>4, <1>5 DEF RefsPrinted

(* If no file has two types with one tag, what the result refers to is in  *)
(* the result.                                                             *)
THEOREM ReferencesAreDefined == Spec => []ReferencesDefined
<1> DEFINE IInv == /\ Shape /\ DeclInv /\ typedefs \in Seq(TypedefPlaces)
                   /\ PlainTags => TagInv
                   /\ PlainTags /\ OneTypePerTag => RefInv
<1>1. Init => IInv
  <2>1. Init => typedefs \in Seq(TypedefPlaces)
    BY EmptySeq DEF Init
  <2>2. Init => RefInv
    BY DEF Init, RefInv
  <2>3. QED
    BY <2>1, <2>2, ShapeInit, DeclInvInit, TagsInit
<1>2. IInv /\ [Next]_vars => IInv'
  <2>1. [Next]_vars => given' = given
    BY DEF Next, vars
  <2>2. QED
    BY <2>1, ShapeStep, DeclInvStep, TypedefsStep, TagsStep, RefInvStep, PlainTagsKept, OneTypePerTagKept
<1>3. IInv => ReferencesDefined
  <2> SUFFICES ASSUME Shape, DeclInv, typedefs \in Seq(TypedefPlaces), TagInv, RefInv, at = "done"
               PROVE  DefinedIn(kept)
    BY DEF ReferencesDefined
  <2>1. \A t \in AllTypes : t \in added
    BY DEF TagInv, Order, Passed
  <2>2. ASSUME NEW q \in RefsPrinted, q[2] # 0
        PROVE  \E t \in kept : KindOf(t) = KindOf(q) /\ TagOf(t) = TagOf(q)
    BY <2>1, <2>2, RefsTyped DEF RefInv
  <2>3. QED
    BY <2>2 DEF DefinedIn
<1>4. QED
  BY <1>1, <1>2, <1>3, PTL DEF Spec

-----------------------------------------------------------------------------
(* The texts of what is referred to.                                       *)

Refs(p) == {0} \cup DOMAIN p.types

(* What RefText needs of a parser, so that the recursion in it ends.       *)
Printable(p) ==
  /\ 0 \notin DOMAIN p.types /\ NoneInItself(p)
  /\ \A x \in DOMAIN p.types : \A y \in DOMAIN p.types[x].members :
       p.types[x].members[y].ref \in Refs(p)

MembersIn(p, x, S) == \A y \in DOMAIN p.types[x].members : p.types[x].members[y].ref \in S

(* The text of x, if f has those of its members.                           *)
Shown(p, f, x) ==
  IF x = 0 THEN <<"basic">>
  ELSE LET t == p.types[x] IN
       IF t.kind = "union" /\ IsFakeTag(t.tag)
       THEN <<"inline", [y \in DOMAIN t.members |->
                           <<t.members[y].name, f[t.members[y].ref]>>]>>
       ELSE <<t.kind, t.tag>>

ShownBy(p, f, C) ==
  /\ C \subseteq Refs(p) /\ \A x \in C \cap Anonymous(p) : MembersIn(p, x, C)
  /\ \A x \in C : f[x] = Shown(p, f, x)

LEMMA ShownAlike ==
  ASSUME NEW p, NEW f, NEW g, NEW x,
         x \in Anonymous(p) =>
           \A y \in DOMAIN p.types[x].members :
             f[p.types[x].members[y].ref] = g[p.types[x].members[y].ref],
         x # 0 => x \in DOMAIN p.types
  PROVE  Shown(p, f, x) = Shown(p, g, x)
<1>1. CASE x = 0
  BY <1>1 DEF Shown
<1>2. CASE x # 0 /\ x \in Anonymous(p)
  <2> DEFINE ms == p.types[x].members
             F == [y \in DOMAIN ms |-> <<ms[y].name, f[ms[y].ref]>>]
             G == [y \in DOMAIN ms |-> <<ms[y].name, g[ms[y].ref]>>]
  <2>1. F = G
    BY <1>2
  <2>2. Shown(p, f, x) = <<"inline", F>> /\ Shown(p, g, x) = <<"inline", G>>
    BY <1>2 DEF Shown, Anonymous
  <2>3. QED
    BY <2>1, <2>2
<1>3. CASE x # 0 /\ x \notin Anonymous(p)
  BY <1>3 DEF Shown, Anonymous
<1>4. QED
  BY <1>1, <1>2, <1>3

(* There is one text only.                                                 *)
LEMMA ShownApart ==
  ASSUME NEW p, Printable(p), NEW C, NEW D, NEW f, NEW g, ShownBy(p, f, C), ShownBy(p, g, D)
  PROVE  \A x \in C \cap D : f[x] = g[x]
<1> DEFINE S == {x \in C \cap D : f[x] # g[x]}
<1>1. SUFFICES ASSUME S # {} PROVE FALSE
  OBVIOUS
<1>2. ASSUME NEW x \in S
      PROVE  x \in Anonymous(p) /\ ~ MembersIn(p, x, (C \cap D) \ S)
  <2>1. x \in C /\ x \in D /\ f[x] # g[x] /\ (x # 0 => x \in DOMAIN p.types)
    BY <1>2 DEF ShownBy, Refs
  <2>2. Shown(p, f, x) # Shown(p, g, x)
    BY <2>1 DEF ShownBy
  <2>3. x \in Anonymous(p)
    BY <2>1, <2>2, ShownAlike
  <2>4. ASSUME MembersIn(p, x, (C \cap D) \ S) PROVE FALSE
    <3>1. \A y \in DOMAIN p.types[x].members :
            f[p.types[x].members[y].ref] = g[p.types[x].members[y].ref]
      BY <2>4 DEF MembersIn
    <3>2. QED
      BY <2>1, <2>2, <3>1, ShownAlike
  <2>5. QED
    BY <2>3, <2>4
<1> HIDE DEF S
<1>3. S \in SUBSET Anonymous(p)
  BY <1>2
<1>4. PICK x \in S : \A y \in DOMAIN p.types[x].members : p.types[x].members[y].ref \notin S
  BY <1>1, <1>3 DEF Printable, NoneInItself
<1>5. x \in C /\ x \in D /\ x \in Anonymous(p)
  BY <1>2 DEF S
<1>6. MembersIn(p, x, C) /\ MembersIn(p, x, D)
  BY <1>5 DEF ShownBy
<1>7. MembersIn(p, x, (C \cap D) \ S)
  BY <1>4, <1>6 DEF MembersIn
<1>8. QED
  BY <1>2, <1>7

(* And there is one: what has none would be anonymous unions in each other.*)
LEMMA ShownExists ==
  ASSUME NEW p, Printable(p)
  PROVE  \E f : f = [x \in Refs(p) |-> Shown(p, f, x)]
<1> DEFINE Has(x) == \E C \in SUBSET Refs(p) : \E f : x \in C /\ ShownBy(p, f, C)
           G == {x \in Refs(p) : Has(x)}
           IsText(x, v) == \E C \in SUBSET Refs(p) : \E f : x \in C /\ ShownBy(p, f, C) /\ v = f[x]
           h == [x \in Refs(p) |-> CHOOSE v : IsText(x, v)]
<1>1. ASSUME NEW C \in SUBSET Refs(p), NEW f, ShownBy(p, f, C), NEW x \in C
      PROVE  h[x] = f[x]
  <2>1. IsText(x, f[x])
    BY <1>1
  <2>2. ASSUME NEW v, IsText(x, v) PROVE v = f[x]
    BY <1>1, <2>2, ShownApart
  <2>3. x \in Refs(p)
    BY <1>1
  <2> HIDE DEF IsText
  <2>4. QED
    BY <2>1, <2>2, <2>3
<1> HIDE DEF h, IsText
<1>2. ASSUME NEW x \in G
      PROVE  h[x] = Shown(p, h, x) /\ (x \in Anonymous(p) => MembersIn(p, x, G))
  <2>1. PICK C \in SUBSET Refs(p) : \E f : x \in C /\ ShownBy(p, f, C)
    BY <1>2
  <2>a. PICK f : x \in C /\ ShownBy(p, f, C)
    BY <2>1
  <2>2. C \subseteq G /\ \A y \in C : h[y] = f[y]
    BY <1>1, <2>a
  <2>3. x \in Anonymous(p) => MembersIn(p, x, C)
    BY <2>a DEF ShownBy
  <2>4. Shown(p, f, x) = Shown(p, h, x)
    <3>1. x \in Anonymous(p) => \A y \in DOMAIN p.types[x].members :
            f[p.types[x].members[y].ref] = h[p.types[x].members[y].ref]
      BY <2>2, <2>3 DEF MembersIn
    <3>2. x # 0 => x \in DOMAIN p.types
      BY <2>a DEF ShownBy, Refs
    <3> HIDE DEF G
    <3>3. QED
      BY <3>1, <3>2, ShownAlike
  <2>5. h[x] = Shown(p, h, x)
    BY <2>a, <2>2, <2>4 DEF ShownBy
  <2>6. x \in Anonymous(p) => MembersIn(p, x, G)
    BY <2>2, <2>3 DEF MembersIn
  <2>7. QED
    BY <2>5, <2>6
<1>3. ASSUME NEW x \in Refs(p), x \in Anonymous(p) => MembersIn(p, x, G)
      PROVE  x \in G
  <2> DEFINE C == G \cup {x}
             f == [y \in Refs(p) |-> IF y \in G THEN h[y] ELSE Shown(p, h, y)]
  <2>1. C \in SUBSET Refs(p) /\ x \in C
    OBVIOUS
  <2>2. \A y \in C \cap Anonymous(p) : MembersIn(p, y, G)
    BY <1>2, <1>3
  <2>3. \A y \in C : f[y] = Shown(p, h, y)
    BY <1>2
  <2>4. \A y \in G : f[y] = h[y]
    OBVIOUS
  <2>5. ASSUME NEW y \in C PROVE Shown(p, f, y) = Shown(p, h, y)
    <3>1. y \in Anonymous(p) => \A z \in DOMAIN p.types[y].members :
            f[p.types[y].members[z].ref] = h[p.types[y].members[z].ref]
      BY <2>2, <2>4, <2>5 DEF MembersIn
    <3>2. y # 0 => y \in DOMAIN p.types
      BY <2>1, <2>5 DEF Refs
    <3> HIDE DEF f, C
    <3>3. QED
      BY <3>1, <3>2, ShownAlike
  <2>6. \A y \in C \cap Anonymous(p) : MembersIn(p, y, C)
    BY <2>2 DEF MembersIn
  <2> HIDE DEF f, C
  <2>7. ShownBy(p, f, C)
    BY <2>1, <2>3, <2>5, <2>6 DEF ShownBy
  <2>8. QED
    BY <2>1, <2>7
<1>4. Refs(p) \subseteq G
  <2> DEFINE S == Refs(p) \ G
  <2>1. SUFFICES ASSUME S # {} PROVE FALSE
    OBVIOUS
  <2>2. S \in SUBSET Anonymous(p)
    BY <1>3
  <2>3. \A x \in S : ~ MembersIn(p, x, G)
    BY <1>3
  <2>4. PICK x \in S : \A y \in DOMAIN p.types[x].members : p.types[x].members[y].ref \notin S
    BY <2>1, <2>2 DEF Printable, NoneInItself
  <2>5. x \in DOMAIN p.types
    BY <2>2, <2>4 DEF Anonymous
  <2>6. MembersIn(p, x, G)
    BY <2>4, <2>5 DEF Printable, MembersIn
  <2>7. QED
    BY <2>3, <2>6
<1> HIDE DEF G
<1>5. h = [x \in Refs(p) |-> h[x]]
  BY DEF h
<1>6. h = [x \in Refs(p) |-> Shown(p, h, x)]
  BY <1>2, <1>4, <1>5
<1>7. QED
  BY <1>6

(* The text of a reference from those of the members.                      *)
LEMMA RefTextIs ==
  ASSUME NEW p, Printable(p), NEW r \in Refs(p)
  PROVE  /\ r = 0 => RefText(p, r) = <<"basic">>
         /\ r \in Anonymous(p) =>
              RefText(p, r) = <<"inline", [y \in DOMAIN p.types[r].members |->
                 <<p.types[r].members[y].name, RefText(p, p.types[r].members[y].ref)>>]>>
         /\ r # 0 /\ r \notin Anonymous(p) =>
              RefText(p, r) = <<p.types[r].kind, p.types[r].tag>>
<1> DEFINE S(f) == [x \in {0} \cup DOMAIN p.types |->
                      IF x = 0 THEN <<"basic">>
                      ELSE LET t == p.types[x] IN
                           IF t.kind = "union" /\ IsFakeTag(t.tag)
                           THEN <<"inline", [y \in DOMAIN t.members |->
                                               <<t.members[y].name, f[t.members[y].ref]>>]>>
                           ELSE <<t.kind, t.tag>>]
           shown == CHOOSE f : f = S(f)
<1>1. \E f : f = S(f)
  <2>1. PICK f : f = [x \in Refs(p) |-> Shown(p, f, x)]
    BY ShownExists
  <2>2. f = S(f)
    BY <2>1 DEF Refs, Shown
  <2>3. QED
    BY <2>2
<1>2. \A q : RefText(p, q) = shown[q]
  BY DEF RefText
<1> HIDE DEF shown
<1>3. shown = S(shown)
  BY <1>1 DEF shown
<1>4. shown[r] = Shown(p, shown, r)
  BY <1>3 DEF Refs, Shown
<1>5. r = 0 => RefText(p, r) = <<"basic">>
  BY <1>2, <1>4 DEF Shown
<1>6. r # 0 /\ r \notin Anonymous(p) => RefText(p, r) = <<p.types[r].kind, p.types[r].tag>>
  BY <1>2, <1>4 DEF Shown, Anonymous, Refs
<1>7. ASSUME r \in Anonymous(p)
      PROVE  RefText(p, r) = <<"inline", [y \in DOMAIN p.types[r].members |->
                 <<p.types[r].members[y].name, RefText(p, p.types[r].members[y].ref)>>]>>
  <2>1. r # 0
    BY <1>7 DEF Anonymous, Printable
  <2>2. Shown(p, shown, r) = <<"inline", [y \in DOMAIN p.types[r].members |->
                 <<p.types[r].members[y].name, shown[p.types[r].members[y].ref]>>]>>
    BY <1>7, <2>1 DEF Shown, Anonymous
  <2>3. QED
    BY <1>2, <1>4, <2>2
<1>8. QED
  BY <1>5, <1>6, <1>7

-----------------------------------------------------------------------------
(* The tags that are made are distinct, those of dropped types too.        *)

Changed(t) == TagOf(t) # GivenType(t).tag

MadeTags ==
  \A t \in AllTypes : Changed(t) =>
    \/ \E count \in Nat : count < fakes[KindOf(t)] /\ TagOf(t) = FakeTag(KindOf(t), t[1], count)
    \/ t \in kept /\ Len(TagOf(t)) > 1 /\ TagOf(t)[2][1] = "_dup_"

FakesApart ==
  \A t, u \in AllTypes :
    /\ Changed(t) /\ Changed(u) /\ KindOf(t) = KindOf(u)
    /\ TagOf(t) = TagOf(u) /\ TagOf(t)[2][1] = "_fake_"
    => t = u

MadeInv == MadeTags /\ FakesApart

LEMMA DupOfBefore ==
  ASSUME Shape, PlainTags, TagInv, NEW x \in DOMAIN Parser.types, IsNext(x), at \in Kinds,
         ~ IsFakeTag(Parser.types[x].tag)
  PROVE  /\ DupTag(TagBefore(x), pnum) \in Tags /\ Len(DupTag(TagBefore(x), pnum)) > 1
         /\ DupTag(TagBefore(x), pnum)[2] = <<"_dup_", pnum>>
<1> DEFINE before == TagBefore(x)
           new == DupTag(before, pnum)
           u == <<pnum, x>>
<1>1. u \in AllTypes /\ u \notin added /\ Parser.types[x].tag = TagOf(u)
  BY ListOfProperty DEF IsNext, IsAdded
<1>2. ~ IsFakeTag(GivenType(u).tag)
  BY <1>1 DEF TagInv, TagsMade
<1>3. MadeOf(before, pnum, GivenType(u).key)
  BY <1>2, TagBeforeLongest
<1>4. before \in Tags /\ before \in Seq(Parts) /\ pnum \in Nat
  BY TagBeforeTyped DEF Tags
<1> HIDE DEF before, u
<1>5. Len(before) \in Nat \ {0} /\ (Len(before) > 1 => before[2] = <<"_dup_", pnum>>)
  BY <1>3, <1>4, EmptySeq DEF MadeOf
<1>6. /\ new \in Tags /\ Len(new) = Len(before) + 1 /\ new[Len(before) + 1] = <<"_dup_", pnum>>
      /\ \A y \in 1 .. Len(before) : new[y] = before[y]
  BY <1>4, DupTagProperty
<1> HIDE DEF new
<1>7. Len(before) = 1 \/ (Len(before) > 1 /\ 2 \in 1 .. Len(before))
  <2>1. PICK n \in Nat : n = Len(before) /\ n # 0
    BY <1>5
  <2>2. n = 1 \/ (n > 1 /\ 2 \in 1 .. n)
    BY <2>1
  <2>3. QED
    BY <2>1, <2>2
<1>8. new[2] = <<"_dup_", pnum>>
  BY <1>5, <1>6, <1>7
<1>9. QED
  BY <1>5, <1>6, <1>8 DEF new, before

(* If one type is given a tag.                                             *)
LEMMA MadeTagKept ==
  ASSUME Shape, PlainTags, TagInv, MadeInv, UNCHANGED given,
         NEW u \in AllTypes, ~ Changed(u), kept \subseteq kept',
         \A kind \in Kinds : fakes[kind] \in Nat /\ fakes'[kind] \in Nat /\ fakes[kind] <= fakes'[kind],
         \A s \in AllTypes : s # u => TagOf(s)' = TagOf(s),
         TagOf(u)' # TagOf(u) =>
           \/ \E count \in Nat : /\ fakes[KindOf(u)] <= count /\ count < fakes'[KindOf(u)]
                                 /\ TagOf(u)' = FakeTag(KindOf(u), u[1], count)
           \/ u \in kept' /\ Len(TagOf(u)') > 1 /\ TagOf(u)'[2][1] = "_dup_"
  PROVE  MadeInv'
<1>1. AllTypes' = AllTypes /\ \A t : GivenType(t)' = GivenType(t) /\ KindOf(t)' = KindOf(t)
  BY DEF AllTypes, TypesOf, GivenType, KindOf
<1>2. \A t \in AllTypes : KindOf(t) \in Kinds /\ t[1] \in Nat
  BY GivenTyped
<1>3. \A t \in AllTypes : t # u => (Changed(t)' <=> Changed(t))
  BY <1>1 DEF Changed
<1>4. Changed(u)' => TagOf(u)' # TagOf(u)
  BY <1>1 DEF Changed
<1>5. ASSUME NEW t \in AllTypes, Changed(t)'
      PROVE  \/ \E count \in Nat : /\ count < fakes'[KindOf(t)]
                                   /\ TagOf(t)' = FakeTag(KindOf(t), t[1], count)
             \/ t \in kept' /\ Len(TagOf(t)') > 1 /\ TagOf(t)'[2][1] = "_dup_"
  <2>1. CASE t = u
    BY <1>4, <1>5, <2>1
  <2>2. CASE t # u
    <3>1. TagOf(t)' = TagOf(t) /\ KindOf(t) \in Kinds
      BY <1>2, <2>2
    <3>2. \/ \E count \in Nat : count < fakes[KindOf(t)] /\ TagOf(t) = FakeTag(KindOf(t), t[1], count)
          \/ t \in kept /\ Len(TagOf(t)) > 1 /\ TagOf(t)[2][1] = "_dup_"
      BY <1>3, <1>5, <2>2 DEF MadeInv, MadeTags
    <3>3. CASE \E count \in Nat : count < fakes[KindOf(t)] /\ TagOf(t) = FakeTag(KindOf(t), t[1], count)
      <4>1. PICK count \in Nat : count < fakes[KindOf(t)] /\ TagOf(t) = FakeTag(KindOf(t), t[1], count)
        BY <3>3
      <4>2. count < fakes'[KindOf(t)]
        BY <3>1, <4>1
      <4>3. QED
        BY <3>1, <4>1, <4>2
    <3>4. QED
      BY <3>1, <3>2, <3>3
  <2>3. QED
    BY <2>1, <2>2
<1>6. MadeTags'
  BY <1>1, <1>5 DEF MadeTags
<1>7. ASSUME NEW t \in AllTypes, t # u, Changed(t)', Changed(u)', KindOf(t) = KindOf(u),
             TagOf(t)' = TagOf(u)', TagOf(u)'[2][1] = "_fake_"
      PROVE  FALSE
  <2>1. PICK new \in Nat : fakes[KindOf(u)] <= new /\ TagOf(u)' = FakeTag(KindOf(u), u[1], new)
    BY <1>4, <1>7
  <2>2. TagOf(t) = TagOf(u)' /\ Changed(t)
    BY <1>3, <1>7
  <2>3. PICK count \in Nat : count < fakes[KindOf(t)] /\ TagOf(t) = FakeTag(KindOf(t), t[1], count)
    BY <1>7, <2>2 DEF MadeInv, MadeTags
  <2>4. <<"_fake_", count>> = <<"_fake_", new>>
    <3>1. FakeTag(KindOf(t), t[1], count)[2] = <<"_fake_", count>>
      BY <1>2, FakeTagProperty
    <3>2. FakeTag(KindOf(u), u[1], new)[2] = <<"_fake_", new>>
      BY <1>2, FakeTagProperty
    <3>3. QED
      BY <2>1, <2>2, <2>3, <3>1, <3>2
  <2>5. count = new /\ fakes[KindOf(u)] \in Nat
    BY <1>2, <2>4
  <2>6. QED
    BY <1>7, <2>1, <2>3, <2>5
<1>8. FakesApart'
  <2>1. ASSUME NEW t \in AllTypes, NEW s \in AllTypes, Changed(t)', Changed(s)', KindOf(t) = KindOf(s),
               TagOf(t)' = TagOf(s)', TagOf(t)'[2][1] = "_fake_", t # s
        PROVE  FALSE
    <3>1. CASE s = u
      BY <1>7, <2>1, <3>1
    <3>2. CASE t = u
      BY <1>7, <2>1, <3>2
    <3>3. CASE s # u /\ t # u
      BY <1>3, <2>1, <3>3 DEF MadeInv, FakesApart
    <3>4. QED
      BY <3>1, <3>2, <3>3
  <2>2. QED
    BY <1>1, <2>1 DEF FakesApart
<1>9. QED
  BY <1>6, <1>8 DEF MadeInv

LEMMA MadeStep ==
  ASSUME Shape, PlainTags, TagInv, MadeInv, [Next]_vars
  PROVE  MadeInv'
<1>1. given' = given /\ AllTypes' = AllTypes
  BY DEF Next, vars, AllTypes, TypesOf
<1>2. ASSUME UNCHANGED <<ps, fakes, kept>> PROVE MadeInv'
  <2>1. \A t : /\ TagOf(t)' = TagOf(t) /\ KindOf(t)' = KindOf(t) /\ GivenType(t)' = GivenType(t)
    BY <1>1, <1>2 DEF TagOf, KindOf, GivenType
  <2>2. \A t : Changed(t)' <=> Changed(t)
    BY <2>1 DEF Changed
  <2>3. QED
    BY <1>1, <1>2, <2>1, <2>2 DEF MadeInv, MadeTags, FakesApart
<1>3. CASE AddType
  <2>1. PICK x \in DOMAIN Parser.types : IsNext(x) /\ (AddFake(x) \/ DropTagged(x) \/ KeepTagged(x))
    BY <1>3 DEF AddType
  <2>2. PICK u : u = <<pnum, x>>
    OBVIOUS
  <2>3. /\ u \in AllTypes /\ u \notin added /\ KindOf(u) = at /\ u[1] = pnum /\ at \in Kinds
        /\ Parser.types[x].tag = TagOf(u)
    BY <1>3, <2>1, <2>2, ListOfProperty DEF IsNext, IsAdded, AddType
  <2>4. ~ Changed(u) /\ pnum \in Nat /\ fakes \in [Kinds -> Nat]
    BY <2>1, <2>3, TagBeforeTyped DEF Changed, TagInv, TagsMade, Shape
  <2>5. \A t \in Tags : ps' = WithTag(x, t) =>
          TagOf(u)' = t /\ \A s \in AllTypes : s # u => TagOf(s)' = TagOf(s)
    BY <2>2, WithTagTags
  <2>6. CASE AddFake(x)
    <3>1. PICK new : /\ new = FakeTag(at, pnum, fakes[at]) /\ ps' = WithTag(x, new)
                     /\ fakes' = [fakes EXCEPT ![at] = @ + 1] /\ kept \subseteq kept'
      BY <2>6 DEF AddFake, WithNewTag
    <3>2. new \in Tags /\ fakes[at] \in Nat
      BY <2>3, <2>4, <3>1, FakeTagProperty
    <3>3. TagOf(u)' = new /\ \A s \in AllTypes : s # u => TagOf(s)' = TagOf(s)
      BY <2>5, <3>1, <3>2
    <3>4. /\ fakes'[at] = fakes[at] + 1
          /\ \A kind \in Kinds : fakes[kind] \in Nat /\ fakes'[kind] \in Nat /\ fakes[kind] <= fakes'[kind]
      BY <2>3, <2>4, <3>1
    <3>5. /\ fakes[KindOf(u)] <= fakes[at] /\ fakes[at] < fakes'[KindOf(u)]
          /\ TagOf(u)' = FakeTag(KindOf(u), u[1], fakes[at])
      BY <2>3, <3>1, <3>2, <3>3, <3>4
    <3>6. QED
      BY <1>1, <2>3, <2>4, <3>1, <3>2, <3>3, <3>4, <3>5, MadeTagKept
  <2>7. CASE DropTagged(x)
    BY <1>2, <2>7 DEF DropTagged
  <2>8. CASE KeepTagged(x)
    <3>1. /\ ~ IsFakeTag(Parser.types[x].tag) /\ kept' = kept \cup {u} /\ fakes' = fakes
          /\ ps' = ps \/ ps' = WithTag(x, DupTag(TagBefore(x), pnum))
      BY <2>2, <2>8 DEF KeepTagged
    <3>2. \A kind \in Kinds : fakes[kind] \in Nat /\ fakes'[kind] \in Nat /\ fakes[kind] <= fakes'[kind]
      BY <2>4, <3>1
    <3>3. PICK new : new = DupTag(TagBefore(x), pnum)
      OBVIOUS
    <3>4. new \in Tags /\ Len(new) > 1 /\ new[2][1] = "_dup_"
      BY <2>1, <2>3, <3>1, <3>3, DupOfBefore
    <3>5. CASE ps' = ps
      <4>1. \A s : TagOf(s)' = TagOf(s)
        BY <3>5 DEF TagOf
      <4>2. QED
        BY <1>1, <2>3, <2>4, <3>1, <3>2, <4>1, MadeTagKept
    <3>6. CASE ps' = WithTag(x, new)
      <4>1. TagOf(u)' = new /\ \A s \in AllTypes : s # u => TagOf(s)' = TagOf(s)
        BY <2>5, <3>4, <3>6
      <4>2. QED
        BY <1>1, <2>3, <2>4, <3>1, <3>2, <3>4, <4>1, MadeTagKept
    <3>7. QED
      BY <3>1, <3>3, <3>5, <3>6
  <2>9. QED
    BY <2>1, <2>6, <2>7, <2>8
<1>4. EndKind \/ AddTypedef \/ EndTypedefs \/ AddOverlay \/ AddDecl \/ EndDecls \/ UNCHANGED vars
      => UNCHANGED <<ps, fakes, kept>>
  BY DEF EndKind, AddTypedef, EndTypedefs, AddOverlay, AddDecl, EndDecls, vars, typeVars
<1>5. QED
  BY <1>2, <1>3, <1>4 DEF Next

(* No two types have one made tag.                                         *)
LEMMA MadeApart ==
  ASSUME Shape, TagInv, MadeInv, NEW t \in AllTypes, NEW u \in AllTypes,
         Changed(t), Changed(u), KindOf(t) = KindOf(u), TagOf(t) = TagOf(u)
  PROVE  t = u
<1>1. KindOf(t) \in Kinds /\ t[1] \in Nat /\ u[1] \in Nat
  BY GivenTyped
<1>2. TagOf(t)[2][1] = "_fake_" \/ (t \in kept /\ TagOf(t)[2][1] = "_dup_")
  BY <1>1, FakeTagProperty DEF MadeInv, MadeTags
<1>3. TagOf(u)[2][1] = "_fake_" \/ (u \in kept /\ TagOf(u)[2][1] = "_dup_")
  BY <1>1, FakeTagProperty DEF MadeInv, MadeTags
<1>4. CASE TagOf(t)[2][1] = "_fake_"
  BY <1>4 DEF MadeInv, FakesApart
<1>5. CASE t \in kept /\ u \in kept
  <2>1. KeyOf(t) = KeyOf(u)
    BY DEF KeyOf, Changed
  <2>2. QED
    BY <1>1, <1>5, <2>1 DEF TagInv, KeysApart, KeptOf
<1>6. QED
  BY <1>2, <1>3, <1>4, <1>5

(* They are no fake tags, nor like the placeholder.                        *)
LEMMA MadeNotFake ==
  ASSUME Shape, TagInv, MadeInv, NEW t \in AllTypes, Changed(t)
  PROVE  ~ IsFakeTag(TagOf(t)) /\ TagOf(t) # Placeholder
<1> DEFINE new == TagOf(t)
           suffixes == {x \in DOMAIN new : IsDuplicateSuffix(new[x])}
           last == CHOOSE x \in suffixes : \A y \in suffixes : y <= x
           base == IF suffixes = {} THEN new ELSE SubSeq(new, 1, last - 1)
<1>1. new \in Tags /\ Len(new) > 1 /\ new[2][1] \in {"_fake_", "_dup_"}
  <2>1. KindOf(t) \in Kinds /\ t[1] \in Nat /\ new \in Tags
    BY GivenTyped
  <2>2. QED
    BY <2>1, FakeTagProperty DEF MadeInv, MadeTags
<1> HIDE DEF new
<1>2. 2 \notin suffixes /\ suffixes \subseteq 1 .. Len(new) /\ Len(new) \in Nat /\ new \in Seq(Parts)
  BY <1>1 DEF IsDuplicateSuffix, Tags
<1>3. Len(base) # 1
  <2>1. CASE suffixes = {}
    BY <1>1, <2>1
  <2>2. CASE suffixes # {}
    <3>1. last \in suffixes
      <4>1. \E x \in suffixes : \A y \in suffixes : y <= x
        <5> DEFINE n == Len(new)
                   S == {n - x : x \in suffixes}
        <5>1. S \subseteq Nat /\ S # {}
          BY <1>2, <2>2
        <5>2. PICK z \in S : \A y \in S : z <= y
          <6> HIDE DEF S
          <6>1. QED
            BY <5>1, LeastExists
        <5>3. PICK x \in suffixes : z = n - x
          BY <5>2
        <5>4. ASSUME NEW y \in suffixes PROVE y <= x
          <6>1. n - y \in S
            BY <5>4
          <6>2. z <= n - y
            <7> HIDE DEF S
            <7>1. QED
              BY <5>2, <6>1
          <6>3. x \in Nat /\ y \in Nat /\ n \in Nat
            <7> HIDE DEF suffixes
            <7>1. QED
              BY <1>2
          <6>4. QED
            BY <5>3, <6>2, <6>3
        <5>5. QED
          BY <5>4
      <4> HIDE DEF suffixes
      <4>2. QED
        BY <4>1
    <3> HIDE DEF last, suffixes
    <3>2. last \in 1 .. Len(new) /\ last # 2
      BY <1>2, <3>1
    <3>3. Len(SubSeq(new, 1, last - 1)) = last - 1
      BY <1>2, <3>2
    <3>4. QED
      BY <2>2, <3>2, <3>3
  <2>3. QED
    BY <2>1, <2>2
<1>4. ~ IsFakeTag(new)
  BY <1>3 DEF IsFakeTag
<1>5. new # Placeholder
  BY <1>1 DEF Placeholder
<1>6. QED
  BY <1>4, <1>5 DEF new

-----------------------------------------------------------------------------
(* The parser of a type at the moments when its text is compared.          *)

(* The parser in which OwnText prints the type.                            *)
Own(t) == IF IsFakeTag(GivenType(t).tag) THEN [given[t[1]] EXCEPT !.types[t[2]].tag = Placeholder]
          ELSE given[t[1]]
OwnTag(t, x) == IF x = t[2] /\ IsFakeTag(GivenType(t).tag) THEN Placeholder ELSE given[t[1]].types[x].tag

LikeGiven(p, n) ==
  /\ DOMAIN p.types = DOMAIN given[n].types
  /\ \A x \in DOMAIN given[n].types : /\ p.types[x].kind = given[n].types[x].kind
                                      /\ p.types[x].members = given[n].types[x].members

(* Other types may have been given their tags, the unions when it is their *)
(* turn.                                                                   *)
IsGivenTag(t, x, new) ==
  /\ x # t[2] /\ Changed(<<t[1], x>>) /\ new = TagOf(<<t[1], x>>)
  /\ KindOf(<<t[1], x>>) = "union" => KindOf(t) = "union"

IsVersion(p, t) ==
  /\ LikeGiven(p, t[1])
  /\ \A x \in DOMAIN given[t[1]].types :
       p.types[x].tag = OwnTag(t, x) \/ IsGivenTag(t, x, p.types[x].tag)

LEMMA PlaceholderNotFake == ~ IsFakeTag(Placeholder)
<1>1. Placeholder \in Tags /\ Len(Placeholder) = 1 /\ Placeholder[1] = <<"placeholder", 0>>
  BY DEF Placeholder, Tags, Parts, Names
<1>2. IsFakeTag(Placeholder) => <<"placeholder", 0>> \in FakeNames
  BY <1>1, FakeOfOnePart
<1>3. QED
  BY <1>2, MergeAssumption

LEMMA GivenPrintable ==
  ASSUME Shape, NEW t \in AllTypes
  PROVE  /\ Printable(given[t[1]]) /\ t[2] \in DOMAIN given[t[1]].types
         /\ \A x \in DOMAIN given[t[1]].types :
              /\ <<t[1], x>> \in AllTypes /\ GivenType(<<t[1], x>>) = given[t[1]].types[x]
              /\ KindOf(<<t[1], x>>) = given[t[1]].types[x].kind
              /\ given[t[1]].types[x].kind \in Kinds
<1> DEFINE p == given[t[1]]
<1>1. t[1] \in DOMAIN given /\ t[2] \in DOMAIN p.types /\ p \in Parsers /\ IsParser(p)
  BY GivenTyped
<1>2. p.types \in Seq(Types)
  BY <1>1 DEF Parsers
<1>3. \A x \in DOMAIN p.types : <<t[1], x>> \in AllTypes
  BY <1>1 DEF AllTypes, TypesOf
<1>4. \A x \in DOMAIN p.types : p.types[x].kind \in Kinds
  <2>1. \A x \in DOMAIN p.types : p.types[x] \in Types
    BY <1>2
  <2>2. QED
    BY <2>1 DEF Types
<1>5. 0 \notin DOMAIN p.types
  BY <1>2
<1> HIDE DEF p
<1>6. \A x \in DOMAIN p.types : \A y \in DOMAIN p.types[x].members : p.types[x].members[y].ref \in Refs(p)
  BY <1>1 DEF IsParser, IsRef, Refs
<1>7. Printable(p)
  BY <1>1, <1>5, <1>6 DEF IsParser, Printable
<1>8. QED
  BY <1>1, <1>3, <1>4, <1>7 DEF p, GivenType, KindOf

LEMMA OwnIsVersion ==
  ASSUME Shape, NEW t \in AllTypes
  PROVE  /\ LikeGiven(Own(t), t[1])
         /\ \A x \in DOMAIN given[t[1]].types : Own(t).types[x].tag = OwnTag(t, x)
         /\ IsVersion(Own(t), t)
<1> DEFINE p == given[t[1]]
           x == t[2]
           type == [p.types[x] EXCEPT !.tag = Placeholder]
           types == [p.types EXCEPT ![x] = type]
<1>1. t[1] \in DOMAIN given /\ x \in DOMAIN p.types /\ p \in Parsers
  BY GivenTyped
<1>2. p.types \in Seq(Types) /\ p.types[x] \in Types
  BY <1>1 DEF Parsers
<1>3. CASE IsFakeTag(GivenType(t).tag)
  <2>1. Own(t) = [p EXCEPT !.types = types]
    BY <1>3 DEF Own
  <2>2. /\ type.kind = p.types[x].kind /\ type.members = p.types[x].members /\ type.tag = Placeholder
    BY <1>2 DEF Types
  <2> HIDE DEF type
  <2>3. DOMAIN types = DOMAIN p.types /\ \A y \in DOMAIN p.types : types[y] = IF y = x THEN type ELSE p.types[y]
    BY <1>2
  <2> HIDE DEF types
  <2>4. Own(t).types = types
    BY <1>1, <2>1 DEF Parsers
  <2>5. /\ DOMAIN Own(t).types = DOMAIN p.types
        /\ \A y \in DOMAIN p.types :
             /\ Own(t).types[y].kind = p.types[y].kind /\ Own(t).types[y].members = p.types[y].members
             /\ Own(t).types[y].tag = IF y = x THEN Placeholder ELSE p.types[y].tag
    BY <2>2, <2>3, <2>4
  <2>6. QED
    BY <1>3, <2>5 DEF LikeGiven, IsVersion, OwnTag
<1>4. CASE ~ IsFakeTag(GivenType(t).tag)
  BY <1>4 DEF Own, LikeGiven, IsVersion, OwnTag
<1>5. QED
  BY <1>3, <1>4

(* A union that is printed in place was given a fake tag and has it.       *)
LEMMA VersionPrintable ==
  ASSUME Shape, TagInv, MadeInv, NEW t \in AllTypes, NEW p, IsVersion(p, t)
  PROVE  /\ Printable(p) /\ Refs(p) = Refs(given[t[1]])
         /\ Anonymous(p) \subseteq Anonymous(Own(t)) /\ Anonymous(p) \subseteq Anonymous(given[t[1]])
         /\ \A x \in DOMAIN given[t[1]].types : p.types[x].tag = OwnTag(t, x) =>
              (x \in Anonymous(p) <=> x \in Anonymous(Own(t)))
<1> DEFINE g == given[t[1]]
<1>1. /\ Printable(g) /\ LikeGiven(p, t[1]) /\ LikeGiven(Own(t), t[1])
      /\ \A x \in DOMAIN g.types : /\ Own(t).types[x].tag = OwnTag(t, x)
                                   /\ <<t[1], x>> \in AllTypes
  BY GivenPrintable, OwnIsVersion DEF IsVersion
<1>2. ASSUME NEW x \in Anonymous(p)
      PROVE  x \in Anonymous(Own(t)) /\ x \in Anonymous(g)
  <2>1. x \in DOMAIN g.types /\ g.types[x].kind = "union" /\ IsFakeTag(p.types[x].tag)
    BY <1>1, <1>2 DEF Anonymous, LikeGiven
  <2>2. p.types[x].tag = OwnTag(t, x)
    BY <1>1, <2>1, MadeNotFake DEF IsVersion, IsGivenTag
  <2>3. OwnTag(t, x) = g.types[x].tag
    BY <2>1, <2>2, PlaceholderNotFake DEF OwnTag
  <2>4. QED
    BY <1>1, <2>1, <2>2, <2>3 DEF Anonymous, LikeGiven
<1>3. Refs(p) = Refs(g)
  BY <1>1 DEF LikeGiven, Refs
<1>4. Anonymous(p) \subseteq DOMAIN g.types
  BY <1>1 DEF Anonymous, LikeGiven
<1>5. NoneInItself(p)
  <2> SUFFICES ASSUME NEW S \in SUBSET Anonymous(p), S # {}
               PROVE  \E x \in S : \A y \in DOMAIN p.types[x].members : p.types[x].members[y].ref \notin S
    BY DEF NoneInItself
  <2>1. PICK x \in S : \A y \in DOMAIN g.types[x].members : g.types[x].members[y].ref \notin S
    <3>1. S \in SUBSET Anonymous(g)
      BY <1>2
    <3>2. QED
      BY <1>1, <3>1 DEF Printable, NoneInItself
  <2>2. p.types[x].members = g.types[x].members
    BY <1>1, <1>4 DEF LikeGiven
  <2>3. QED
    BY <2>1, <2>2
<1>6. Printable(p)
  <2>1. 0 \notin DOMAIN p.types
    BY <1>1 DEF Printable, LikeGiven
  <2>2. \A x \in DOMAIN p.types : \A y \in DOMAIN p.types[x].members : p.types[x].members[y].ref \in Refs(p)
    <3>1. \A x \in DOMAIN g.types : \A y \in DOMAIN g.types[x].members : g.types[x].members[y].ref \in Refs(g)
      BY <1>1 DEF Printable
    <3>2. QED
      BY <1>1, <1>3, <3>1 DEF LikeGiven
  <2>3. QED
    BY <1>5, <2>1, <2>2 DEF Printable
<1>7. \A x \in DOMAIN g.types : p.types[x].tag = OwnTag(t, x) =>
        (x \in Anonymous(p) <=> x \in Anonymous(Own(t)))
  BY <1>1 DEF LikeGiven, Anonymous
<1>8. QED
  BY <1>2, <1>3, <1>6, <1>7

(* The types whose text in a union's own parser is that in the given one:  *)
(* those that do not show the union.                                       *)
Within(t) ==
  {r \in Refs(given[t[1]]) :
     KindOf(t) = "union" => RefText(Own(t), r) = RefText(given[t[1]], r)}

LEMMA WithinMembers ==
  ASSUME Shape, TagInv, MadeInv, NEW t \in AllTypes
  PROVE  MembersIn(given[t[1]], t[2], Within(t))
<1> DEFINE g == given[t[1]]
           own == Own(t)
           Bad == {x \in Anonymous(g) : RefText(own, x) # RefText(g, x)}
           S == Bad \cup {t[2]}
<1>1. /\ Printable(g) /\ t[2] \in DOMAIN g.types /\ LikeGiven(own, t[1]) /\ IsVersion(own, t)
      /\ KindOf(t) = g.types[t[2]].kind /\ GivenType(t) = g.types[t[2]]
      /\ \A x \in DOMAIN g.types : own.types[x].tag = OwnTag(t, x)
  BY GivenPrintable, OwnIsVersion DEF KindOf, GivenType
<1>2. Printable(own) /\ Refs(own) = Refs(g) /\ Anonymous(own) \subseteq Anonymous(g)
  BY <1>1, VersionPrintable
<1>3. \A x \in DOMAIN g.types : MembersIn(g, x, Refs(g))
  BY <1>1 DEF Printable, MembersIn
<1>4. CASE KindOf(t) # "union" \/ ~ IsFakeTag(GivenType(t).tag)
  <2>1. ~ IsFakeTag(GivenType(t).tag) => own = g
    BY DEF Own
  <2>2. Within(t) = Refs(g)
    BY <1>4, <2>1 DEF Within
  <2>3. QED
    BY <1>1, <1>3, <2>2
<1>5. CASE KindOf(t) = "union" /\ IsFakeTag(GivenType(t).tag)
  <2> HIDE DEF own
  <2>1. t[2] \in Anonymous(g)
    BY <1>1, <1>5 DEF Anonymous
  <2>2. ASSUME NEW r \in Refs(g), r \notin S PROVE r \in Within(t)
    <3>1. CASE r \in Anonymous(g)
      BY <1>1, <2>2, <3>1 DEF Within, own
    <3>2. CASE r = 0
      BY <1>1, <1>2, <3>2, RefTextIs DEF Within, own
    <3>3. CASE r # 0 /\ r \notin Anonymous(g)
      <4>1. r \in DOMAIN g.types /\ r # t[2] /\ r \notin Anonymous(own)
        BY <1>2, <2>2, <3>3 DEF Refs
      <4>2. own.types[r].kind = g.types[r].kind /\ own.types[r].tag = g.types[r].tag
        BY <1>1, <4>1 DEF LikeGiven, OwnTag
      <4>3. RefText(own, r) = RefText(g, r)
        BY <1>1, <1>2, <3>3, <4>1, <4>2, RefTextIs
      <4>4. QED
        BY <4>3 DEF Within, own
    <3>4. QED
      BY <3>1, <3>2, <3>3
  <2>3. S \in SUBSET Anonymous(g)
    BY <2>1
  <2>4. PICK x \in S : \A y \in DOMAIN g.types[x].members : g.types[x].members[y].ref \notin S
    <3>1. S # {}
      OBVIOUS
    <3> HIDE DEF S
    <3>2. QED
      BY <1>1, <2>3, <3>1 DEF Printable, NoneInItself
  <2>5. x \in Anonymous(g) /\ x \in DOMAIN g.types
    BY <2>3, <2>4 DEF Anonymous
  <2>6. MembersIn(g, x, Within(t))
    <3>1. MembersIn(g, x, Refs(g))
      BY <1>3, <2>5
    <3> HIDE DEF S
    <3>2. QED
      BY <2>2, <2>4, <3>1 DEF MembersIn
  <2>7. ASSUME x # t[2] PROVE FALSE
    <3>1. x \in Bad
      BY <2>4, <2>7
    <3>2. x \in Anonymous(own) /\ own.types[x].members = g.types[x].members
      BY <1>1, <2>5, <2>7 DEF Anonymous, LikeGiven, OwnTag
    <3> DEFINE ms == g.types[x].members
               F == [y \in DOMAIN ms |-> <<ms[y].name, RefText(own, ms[y].ref)>>]
               G == [y \in DOMAIN ms |-> <<ms[y].name, RefText(g, ms[y].ref)>>]
    <3>3. \A y \in DOMAIN ms : RefText(own, ms[y].ref) = RefText(g, ms[y].ref)
      BY <1>5, <2>6 DEF MembersIn, Within, own
    <3>4. F = G
      BY <3>3
    <3>5. x \in Refs(g)
      BY <2>5 DEF Refs
    <3>6. RefText(g, x) = <<"inline", G>>
      BY <1>1, <2>5, <3>5, RefTextIs
    <3>7. RefText(own, x) = <<"inline", F>>
      BY <1>2, <3>2, <3>5, RefTextIs
    <3>8. QED
      BY <3>1, <3>4, <3>6, <3>7
  <2>8. QED
    BY <2>6, <2>7
<1>6. QED
  BY <1>4, <1>5

LEMMA WithinDown ==
  ASSUME Shape, TagInv, MadeInv, NEW t \in AllTypes, NEW r \in Within(t), r \in Anonymous(Own(t))
  PROVE  MembersIn(given[t[1]], r, Within(t))
<1> DEFINE g == given[t[1]]
           own == Own(t)
           ms == g.types[r].members
           F == [y \in DOMAIN ms |-> <<ms[y].name, RefText(own, ms[y].ref)>>]
           G == [y \in DOMAIN ms |-> <<ms[y].name, RefText(g, ms[y].ref)>>]
<1>1. Printable(g) /\ LikeGiven(own, t[1]) /\ IsVersion(own, t)
  BY GivenPrintable, OwnIsVersion
<1>2. Printable(own) /\ Refs(own) = Refs(g) /\ Anonymous(own) \subseteq Anonymous(g)
  BY <1>1, VersionPrintable
<1> HIDE DEF own
<1>3. r \in Anonymous(g) /\ r \in Anonymous(own) /\ r \in DOMAIN g.types /\ r \in Refs(g)
      /\ own.types[r].members = ms
  BY <1>1, <1>2 DEF Anonymous, Refs, LikeGiven, own
<1>4. RefText(g, r) = <<"inline", G>>
  BY <1>1, <1>3, RefTextIs
<1>5. RefText(own, r) = <<"inline", F>>
  BY <1>2, <1>3, RefTextIs
<1>6. ASSUME NEW y \in DOMAIN ms PROVE ms[y].ref \in Within(t)
  <2>1. ms[y].ref \in Refs(g)
    BY <1>1, <1>3, <1>6 DEF Printable
  <2>2. ASSUME KindOf(t) = "union" PROVE RefText(own, ms[y].ref) = RefText(g, ms[y].ref)
    <3>1. RefText(own, r) = RefText(g, r)
      BY <2>2 DEF Within, own
    <3>2. F[y][2] = RefText(own, ms[y].ref) /\ G[y][2] = RefText(g, ms[y].ref)
      BY <1>6
    <3> HIDE DEF F, G
    <3>3. F = G
      BY <1>4, <1>5, <3>1
    <3>4. F[y] = G[y]
      BY <3>3
    <3>5. QED
      BY <3>2, <3>4
  <2>3. QED
    BY <2>1, <2>2 DEF Within, own
<1>7. QED
  BY <1>6 DEF MembersIn

LEMMA RefTextBegins ==
  ASSUME NEW p, Printable(p), NEW r \in Refs(p)
  PROVE  RefText(p, r)[1] = IF r = 0 THEN "basic"
                            ELSE IF r \in Anonymous(p) THEN "inline" ELSE p.types[r].kind
<1>1. CASE r = 0
  BY <1>1, RefTextIs
<1>2. CASE r # 0 /\ r \in Anonymous(p)
  BY <1>2, RefTextIs
<1>3. CASE r # 0 /\ r \notin Anonymous(p)
  BY <1>3, RefTextIs
<1>4. QED
  BY <1>1, <1>2, <1>3

(* A text that is no union in place names the type, and types that have    *)
(* one name in two versions are one, or have one name of their own.        *)
LEMMA SameName ==
  ASSUME Shape, PlainTags, TagInv, MadeInv, NEW t \in AllTypes, NEW u \in AllTypes,
         NEW p, IsVersion(p, t), NEW q, IsVersion(q, u), NEW r \in Within(t), NEW s \in Within(u),
         r \notin Anonymous(p), RefText(p, r) = RefText(q, s)
  PROVE  s \notin Anonymous(q) /\ RefText(Own(t), r) = RefText(Own(u), s)
<1> DEFINE g == given[t[1]]
           h == given[u[1]]
           v == <<t[1], r>>
           w == <<u[1], s>>
<1>1. /\ Printable(p) /\ Printable(Own(t)) /\ Printable(g) /\ Refs(p) = Refs(g) /\ Refs(Own(t)) = Refs(g)
      /\ Anonymous(Own(t)) \subseteq Anonymous(g) /\ LikeGiven(p, t[1]) /\ LikeGiven(Own(t), t[1])
      /\ \A x \in DOMAIN g.types :
           /\ Own(t).types[x].tag = OwnTag(t, x)
           /\ p.types[x].tag = OwnTag(t, x) => (x \in Anonymous(p) <=> x \in Anonymous(Own(t)))
  BY GivenPrintable, OwnIsVersion, VersionPrintable DEF IsVersion
<1>2. /\ Printable(q) /\ Printable(Own(u)) /\ Printable(h) /\ Refs(q) = Refs(h) /\ Refs(Own(u)) = Refs(h)
      /\ Anonymous(Own(u)) \subseteq Anonymous(h) /\ LikeGiven(q, u[1]) /\ LikeGiven(Own(u), u[1])
      /\ \A x \in DOMAIN h.types :
           /\ Own(u).types[x].tag = OwnTag(u, x)
           /\ q.types[x].tag = OwnTag(u, x) => (x \in Anonymous(q) <=> x \in Anonymous(Own(u)))
  BY GivenPrintable, OwnIsVersion, VersionPrintable DEF IsVersion
<1>3. r \in Refs(g) /\ s \in Refs(h)
  BY DEF Within
<1>4. s # 0 => s \in DOMAIN h.types /\ q.types[s].kind \in Kinds
  BY <1>2, <1>3, GivenPrintable DEF Refs, LikeGiven
<1>5. RefText(q, s)[1] = IF s = 0 THEN "basic"
                         ELSE IF s \in Anonymous(q) THEN "inline" ELSE q.types[s].kind
  BY <1>2, <1>3, RefTextBegins
<1>6. CASE r = 0
  <2>1. RefText(p, r) = <<"basic">> /\ RefText(Own(t), r) = <<"basic">>
    BY <1>1, <1>3, <1>6, RefTextIs
  <2>2. RefText(q, s)[1] = "basic"
    BY <2>1
  <2>3. s = 0
    BY <1>4, <1>5, <2>2 DEF Kinds
  <2>4. RefText(Own(u), s) = <<"basic">>
    BY <1>2, <1>3, <2>3, RefTextIs
  <2>5. s \notin Anonymous(q)
    BY <1>2, <2>3 DEF Anonymous, Printable
  <2>6. QED
    BY <2>1, <2>4, <2>5
<1>7. CASE r # 0
  <2>1. r \in DOMAIN g.types /\ RefText(p, r) = <<p.types[r].kind, p.types[r].tag>>
    BY <1>1, <1>3, <1>7, RefTextIs DEF Refs
  <2>2. v \in AllTypes /\ GivenType(v) = g.types[r] /\ KindOf(v) = g.types[r].kind /\ KindOf(v) \in Kinds
        /\ p.types[r].kind = KindOf(v)
    BY <1>1, <2>1, GivenPrintable DEF LikeGiven
  <2>3. RefText(q, s)[1] \in Kinds
    BY <2>1, <2>2
  <2>4. s # 0 /\ s \notin Anonymous(q)
    BY <1>5, <2>3 DEF Kinds
  <2>5. s \in DOMAIN h.types /\ RefText(q, s) = <<q.types[s].kind, q.types[s].tag>>
    BY <1>2, <1>3, <1>4, <2>4, RefTextIs
  <2>6. w \in AllTypes /\ GivenType(w) = h.types[s] /\ KindOf(w) = h.types[s].kind
        /\ q.types[s].kind = KindOf(w)
    BY <1>2, <2>5, GivenPrintable DEF LikeGiven
  <2>7. KindOf(v) = KindOf(w) /\ p.types[r].tag = q.types[s].tag
    <3>1. <<p.types[r].kind, p.types[r].tag>> = <<q.types[s].kind, q.types[s].tag>>
      BY <2>1, <2>5
    <3>2. QED
      BY <2>2, <2>6, <3>1
  <2>8. /\ Changed(v) => ~ PlainTag(TagOf(v)) /\ TagOf(v) # Placeholder
        /\ Changed(w) => ~ PlainTag(TagOf(w)) /\ TagOf(w) # Placeholder
    BY <2>2, <2>6, MadeNotFake DEF Changed, TagInv, TagsMade
  <2>9. /\ OwnTag(t, r) = Placeholder \/ PlainTag(OwnTag(t, r))
        /\ OwnTag(u, s) = Placeholder \/ PlainTag(OwnTag(u, s))
    <3>1. PlainTag(GivenType(v).tag) /\ PlainTag(GivenType(w).tag)
      BY <2>2, <2>6 DEF PlainTags, GivenType
    <3>2. QED
      BY <2>2, <2>6, <3>1 DEF OwnTag
  <2>10. CASE p.types[r].tag = OwnTag(t, r) /\ q.types[s].tag = OwnTag(u, s)
    <3>1. r \notin Anonymous(Own(t)) /\ s \notin Anonymous(Own(u))
      BY <1>1, <1>2, <2>1, <2>4, <2>5, <2>10
    <3>2. /\ RefText(Own(t), r) = <<Own(t).types[r].kind, Own(t).types[r].tag>>
          /\ RefText(Own(u), s) = <<Own(u).types[s].kind, Own(u).types[s].tag>>
      BY <1>1, <1>2, <1>3, <1>7, <2>4, <3>1, RefTextIs
    <3>3. /\ Own(t).types[r].kind = KindOf(v) /\ Own(t).types[r].tag = OwnTag(t, r)
          /\ Own(u).types[s].kind = KindOf(w) /\ Own(u).types[s].tag = OwnTag(u, s)
      BY <1>1, <1>2, <2>1, <2>2, <2>5, <2>6 DEF LikeGiven
    <3>4. QED
      BY <2>4, <2>7, <2>10, <3>2, <3>3
  <2>11. CASE IsGivenTag(t, r, p.types[r].tag) /\ IsGivenTag(u, s, q.types[s].tag)
    <3>1. v = w /\ r # t[2] /\ s # u[2]
          /\ (KindOf(v) = "union" => KindOf(t) = "union" /\ KindOf(u) = "union")
      BY <2>2, <2>6, <2>7, <2>11, MadeApart DEF IsGivenTag
    <3>2. t[1] = u[1] /\ r = s
      BY <3>1
    <3>3. CASE r \in Anonymous(g)
      <4>1. KindOf(v) = "union"
        BY <2>2, <3>3 DEF Anonymous
      <4>2. QED
        BY <2>4, <3>1, <3>2, <4>1 DEF Within
    <3>4. CASE r \notin Anonymous(g)
      <4>1. r \notin Anonymous(Own(t)) /\ s \notin Anonymous(Own(u))
        BY <1>1, <1>2, <3>2, <3>4
      <4>2. /\ RefText(Own(t), r) = <<Own(t).types[r].kind, Own(t).types[r].tag>>
            /\ RefText(Own(u), s) = <<Own(u).types[s].kind, Own(u).types[s].tag>>
        BY <1>1, <1>2, <1>3, <1>7, <2>4, <4>1, RefTextIs
      <4>3. /\ Own(t).types[r].kind = g.types[r].kind /\ Own(t).types[r].tag = g.types[r].tag
            /\ Own(u).types[s].kind = h.types[s].kind /\ Own(u).types[s].tag = h.types[s].tag
        BY <1>1, <1>2, <2>1, <2>5, <3>1 DEF LikeGiven, OwnTag
      <4>4. QED
        BY <2>4, <3>2, <4>2, <4>3
    <3>5. QED
      BY <3>3, <3>4
  <2>12. /\ p.types[r].tag = OwnTag(t, r) \/ IsGivenTag(t, r, p.types[r].tag)
         /\ q.types[s].tag = OwnTag(u, s) \/ IsGivenTag(u, s, q.types[s].tag)
    BY <2>1, <2>5 DEF IsVersion
  <2>13. ~ (p.types[r].tag = OwnTag(t, r) /\ IsGivenTag(u, s, q.types[s].tag))
    BY <2>7, <2>8, <2>9 DEF IsGivenTag
  <2>14. ~ (q.types[s].tag = OwnTag(u, s) /\ IsGivenTag(t, r, p.types[r].tag))
    BY <2>7, <2>8, <2>9 DEF IsGivenTag
  <2>15. QED
    BY <2>10, <2>11, <2>12, <2>13, <2>14
<1>8. QED
  BY <1>6, <1>7

LEMMA InlineText ==
  ASSUME NEW p, Printable(p), NEW r \in Anonymous(p), NEW ms, ms = p.types[r].members
  PROVE  RefText(p, r) = <<"inline", [y \in DOMAIN ms |-> <<ms[y].name, RefText(p, ms[y].ref)>>]>>
<1>1. r \in Refs(p)
  BY DEF Anonymous, Refs
<1>2. RefText(p, r) = <<"inline", [y \in DOMAIN p.types[r].members |->
                 <<p.types[r].members[y].name, RefText(p, p.types[r].members[y].ref)>>]>>
  BY <1>1, RefTextIs
<1>3. QED
  BY <1>2

(* What reads the same in two versions reads the same in the own parsers:  *)
(* what does not would be anonymous unions in each other.                  *)
LEMMA SameRef ==
  ASSUME Shape, PlainTags, TagInv, MadeInv, NEW t \in AllTypes, NEW u \in AllTypes,
         NEW p, IsVersion(p, t), NEW q, IsVersion(q, u)
  PROVE  \A r \in Within(t), s \in Within(u) :
           RefText(p, r) = RefText(q, s) => RefText(Own(t), r) = RefText(Own(u), s)
<1> DEFINE g == given[t[1]]
           h == given[u[1]]
           Differ(r) == \E s \in Within(u) : /\ RefText(p, r) = RefText(q, s)
                                             /\ RefText(Own(t), r) # RefText(Own(u), s)
           Bad == {r \in Anonymous(p) \cap Within(t) : Differ(r)}
<1>1. /\ Printable(p) /\ Printable(Own(t)) /\ Printable(g) /\ Refs(p) = Refs(g) /\ Refs(Own(t)) = Refs(g)
      /\ Anonymous(p) \subseteq Anonymous(g) /\ Anonymous(p) \subseteq Anonymous(Own(t))
      /\ LikeGiven(p, t[1]) /\ LikeGiven(Own(t), t[1])
  BY GivenPrintable, OwnIsVersion, VersionPrintable DEF IsVersion
<1>2. /\ Printable(q) /\ Printable(Own(u)) /\ Printable(h) /\ Refs(q) = Refs(h) /\ Refs(Own(u)) = Refs(h)
      /\ Anonymous(q) \subseteq Anonymous(h) /\ Anonymous(q) \subseteq Anonymous(Own(u))
      /\ LikeGiven(q, u[1]) /\ LikeGiven(Own(u), u[1])
  BY GivenPrintable, OwnIsVersion, VersionPrintable DEF IsVersion
<1>3. ASSUME NEW r \in Within(t), NEW s \in Within(u), RefText(p, r) = RefText(q, s),
             RefText(Own(t), r) # RefText(Own(u), s)
      PROVE  r \in Bad /\ s \in Anonymous(q)
  <2>1. r \in Anonymous(p)
    BY <1>3, SameName
  <2>2. s \in Anonymous(q)
    <3>1. RefText(q, s) = RefText(p, r)
      BY <1>3
    <3>2. s \notin Anonymous(q) => r \notin Anonymous(p)
      BY <3>1, SameName
    <3>3. QED
      BY <2>1, <3>2
  <2>3. QED
    BY <1>3, <2>1, <2>2
<1>4. ASSUME NEW x \in Bad, MembersIn(g, x, Refs(g) \ Bad) PROVE FALSE
  <2>1. x \in Anonymous(p) /\ x \in Within(t) /\ Differ(x)
    BY <1>4
  <2>2. PICK s \in Within(u) : /\ RefText(p, x) = RefText(q, s)
                               /\ RefText(Own(t), x) # RefText(Own(u), s)
    BY <2>1
  <2>3. s \in Anonymous(q)
    BY <1>3, <2>1, <2>2
  <2> HIDE DEF Bad, Differ
  <2> DEFINE ms == g.types[x].members
             ns == h.types[s].members
             F == [y \in DOMAIN ms |-> <<ms[y].name, RefText(p, ms[y].ref)>>]
             G == [y \in DOMAIN ns |-> <<ns[y].name, RefText(q, ns[y].ref)>>]
             FO == [y \in DOMAIN ms |-> <<ms[y].name, RefText(Own(t), ms[y].ref)>>]
             GO == [y \in DOMAIN ns |-> <<ns[y].name, RefText(Own(u), ns[y].ref)>>]
  <2>4. /\ x \in Anonymous(Own(t)) /\ x \in Refs(g)
        /\ p.types[x].members = ms /\ Own(t).types[x].members = ms
    BY <1>1, <2>1 DEF Anonymous, Refs, LikeGiven
  <2>5. /\ s \in Anonymous(Own(u)) /\ s \in Refs(h)
        /\ q.types[s].members = ns /\ Own(u).types[s].members = ns
    BY <1>2, <2>3 DEF Anonymous, Refs, LikeGiven
  <2>6. RefText(p, x) = <<"inline", F>>
    BY <1>1, <2>1, <2>4, InlineText
  <2>15. RefText(Own(t), x) = <<"inline", FO>>
    BY <1>1, <2>4, InlineText
  <2>7. RefText(q, s) = <<"inline", G>>
    BY <1>2, <2>3, <2>5, InlineText
  <2>16. RefText(Own(u), s) = <<"inline", GO>>
    BY <1>2, <2>5, InlineText
  <2>8. /\ DOMAIN F = DOMAIN ms /\ DOMAIN G = DOMAIN ns
        /\ \A y \in DOMAIN ms : F[y] = <<ms[y].name, RefText(p, ms[y].ref)>>
        /\ \A y \in DOMAIN ns : G[y] = <<ns[y].name, RefText(q, ns[y].ref)>>
    OBVIOUS
  <2>9. F = G
    <3> HIDE DEF F, G
    <3>1. <<"inline", F>> = <<"inline", G>>
      BY <2>2, <2>6, <2>7
    <3>2. QED
      BY <3>1
  <2> HIDE DEF F, G
  <2>10. /\ DOMAIN ms = DOMAIN ns
         /\ \A y \in DOMAIN ms : /\ ms[y].name = ns[y].name
                                 /\ RefText(p, ms[y].ref) = RefText(q, ns[y].ref)
    <3>1. DOMAIN ms = DOMAIN ns
      BY <2>8, <2>9
    <3>2. ASSUME NEW y \in DOMAIN ms
          PROVE  ms[y].name = ns[y].name /\ RefText(p, ms[y].ref) = RefText(q, ns[y].ref)
      <4>1. <<ms[y].name, RefText(p, ms[y].ref)>> = <<ns[y].name, RefText(q, ns[y].ref)>>
        BY <2>8, <2>9, <3>1
      <4>2. QED
        BY <4>1
    <3>3. QED
      BY <3>1, <3>2
  <2>11. MembersIn(g, x, Within(t)) /\ MembersIn(h, s, Within(u))
    BY <2>1, <2>4, <2>5, WithinDown
  <2>12. ASSUME NEW y \in DOMAIN ms
         PROVE  RefText(Own(t), ms[y].ref) = RefText(Own(u), ns[y].ref)
    <3>1. ms[y].ref \in Within(t) /\ ns[y].ref \in Within(u) /\ ms[y].ref \notin Bad
      BY <1>4, <2>10, <2>11 DEF MembersIn
    <3>2. QED
      BY <1>3, <2>10, <3>1
  <2>13. FO = GO
    BY <2>10, <2>12
  <2>14. QED
    BY <2>2, <2>13, <2>15, <2>16
<1>5. Bad = {}
  <2>1. SUFFICES ASSUME Bad # {} PROVE FALSE
    OBVIOUS
  <2>2. Bad \in SUBSET Anonymous(g)
    BY <1>1
  <2>3. PICK x \in Bad : \A y \in DOMAIN g.types[x].members : g.types[x].members[y].ref \notin Bad
    <3> HIDE DEF Bad
    <3>1. QED
      BY <1>1, <2>1, <2>2 DEF Printable, NoneInItself
  <2> HIDE DEF Bad
  <2>4. x \in DOMAIN g.types
    BY <2>2, <2>3 DEF Anonymous
  <2>5. MembersIn(g, x, Refs(g) \ Bad)
    BY <1>1, <2>3, <2>4 DEF Printable, MembersIn
  <2>6. QED
    BY <1>4, <2>5
<1>6. QED
  BY <1>3, <1>5

LEMMA SameText ==
  ASSUME Shape, PlainTags, TagInv, MadeInv, NEW t \in AllTypes, NEW u \in AllTypes,
         NEW p, IsVersion(p, t), NEW q, IsVersion(q, u), TypeText(p, t[2]) = TypeText(q, u[2])
  PROVE  OwnText(t) = OwnText(u)
<1> DEFINE g == given[t[1]]
           h == given[u[1]]
           ms == g.types[t[2]].members
           ns == h.types[u[2]].members
           F == [y \in DOMAIN ms |-> <<ms[y].name, RefText(p, ms[y].ref)>>]
           G == [y \in DOMAIN ns |-> <<ns[y].name, RefText(q, ns[y].ref)>>]
           FO == [y \in DOMAIN ms |-> <<ms[y].name, RefText(Own(t), ms[y].ref)>>]
           GO == [y \in DOMAIN ns |-> <<ns[y].name, RefText(Own(u), ns[y].ref)>>]
<1>1. /\ p.types[t[2]].kind = g.types[t[2]].kind /\ p.types[t[2]].members = ms
      /\ p.types[t[2]].tag = OwnTag(t, t[2])
      /\ Own(t).types[t[2]].kind = g.types[t[2]].kind /\ Own(t).types[t[2]].members = ms
      /\ Own(t).types[t[2]].tag = OwnTag(t, t[2])
  <2>1. t[2] \in DOMAIN g.types /\ LikeGiven(Own(t), t[1]) /\ Own(t).types[t[2]].tag = OwnTag(t, t[2])
    BY GivenPrintable, OwnIsVersion
  <2>2. LikeGiven(p, t[1]) /\ p.types[t[2]].tag = OwnTag(t, t[2])
    BY <2>1 DEF IsVersion, IsGivenTag
  <2>3. QED
    BY <2>1, <2>2 DEF LikeGiven
<1>2. /\ q.types[u[2]].kind = h.types[u[2]].kind /\ q.types[u[2]].members = ns
      /\ q.types[u[2]].tag = OwnTag(u, u[2])
      /\ Own(u).types[u[2]].kind = h.types[u[2]].kind /\ Own(u).types[u[2]].members = ns
      /\ Own(u).types[u[2]].tag = OwnTag(u, u[2])
  <2>1. u[2] \in DOMAIN h.types /\ LikeGiven(Own(u), u[1]) /\ Own(u).types[u[2]].tag = OwnTag(u, u[2])
    BY GivenPrintable, OwnIsVersion
  <2>2. LikeGiven(q, u[1]) /\ q.types[u[2]].tag = OwnTag(u, u[2])
    BY <2>1 DEF IsVersion, IsGivenTag
  <2>3. QED
    BY <2>1, <2>2 DEF LikeGiven
<1>3. /\ TypeText(p, t[2]) = <<g.types[t[2]].kind, OwnTag(t, t[2]), F>>
      /\ TypeText(Own(t), t[2]) = <<g.types[t[2]].kind, OwnTag(t, t[2]), FO>>
  BY <1>1 DEF TypeText
<1>4. /\ TypeText(q, u[2]) = <<h.types[u[2]].kind, OwnTag(u, u[2]), G>>
      /\ TypeText(Own(u), u[2]) = <<h.types[u[2]].kind, OwnTag(u, u[2]), GO>>
  BY <1>2 DEF TypeText
<1>5. /\ DOMAIN F = DOMAIN ms /\ DOMAIN G = DOMAIN ns
      /\ \A y \in DOMAIN ms : F[y] = <<ms[y].name, RefText(p, ms[y].ref)>>
      /\ \A y \in DOMAIN ns : G[y] = <<ns[y].name, RefText(q, ns[y].ref)>>
  OBVIOUS
<1>6. F = G /\ g.types[t[2]].kind = h.types[u[2]].kind /\ OwnTag(t, t[2]) = OwnTag(u, u[2])
  <2> HIDE DEF F, G, FO, GO
  <2>1. <<g.types[t[2]].kind, OwnTag(t, t[2]), F>> = <<h.types[u[2]].kind, OwnTag(u, u[2]), G>>
    BY <1>3, <1>4
  <2>2. QED
    BY <2>1
<1> HIDE DEF F, G
<1>7. /\ DOMAIN ms = DOMAIN ns
      /\ \A y \in DOMAIN ms : /\ ms[y].name = ns[y].name
                              /\ RefText(p, ms[y].ref) = RefText(q, ns[y].ref)
  <2>1. DOMAIN ms = DOMAIN ns
    BY <1>5, <1>6
  <2>2. ASSUME NEW y \in DOMAIN ms
        PROVE  ms[y].name = ns[y].name /\ RefText(p, ms[y].ref) = RefText(q, ns[y].ref)
    <3>1. <<ms[y].name, RefText(p, ms[y].ref)>> = <<ns[y].name, RefText(q, ns[y].ref)>>
      BY <1>5, <1>6, <2>1
    <3>2. QED
      BY <3>1
  <2>3. QED
    BY <2>1, <2>2
<1>8. MembersIn(g, t[2], Within(t)) /\ MembersIn(h, u[2], Within(u))
  BY WithinMembers
<1>9. ASSUME NEW y \in DOMAIN ms
      PROVE  RefText(Own(t), ms[y].ref) = RefText(Own(u), ns[y].ref)
  <2>1. ms[y].ref \in Within(t) /\ ns[y].ref \in Within(u)
    BY <1>7, <1>8 DEF MembersIn
  <2>2. \A r \in Within(t), s \in Within(u) :
          RefText(p, r) = RefText(q, s) => RefText(Own(t), r) = RefText(Own(u), s)
    BY SameRef
  <2>3. RefText(p, ms[y].ref) = RefText(q, ns[y].ref)
    BY <1>7
  <2>4. QED
    BY <2>1, <2>2, <2>3
<1>10. FO = GO
  BY <1>7, <1>9
<1>11. OwnText(t) = TypeText(Own(t), t[2]) /\ OwnText(u) = TypeText(Own(u), u[2])
  BY DEF OwnText, Own, GivenType
<1>12. QED
  BY <1>3, <1>4, <1>6, <1>10, <1>11

-----------------------------------------------------------------------------
(* What is lost reads like something that is kept.                         *)

(* The texts of types are those of types that are kept, in a version, and  *)
(* what was added reads in its own file like something that is kept.       *)
IsTextOf(text, u) == \E p : IsVersion(p, u) /\ text = TypeText(p, u[2])
TextsMeant ==
  /\ \A text \in present : text[1] \in Kinds => \E u \in kept : IsTextOf(text, u)
  /\ \A t \in added : \E u \in kept : OwnText(u) = OwnText(t)

LEMMA VersionKept ==
  ASSUME Shape, UNCHANGED given, NEW u \in AllTypes, NEW p, IsVersion(p, u),
         \A s \in AllTypes : Changed(s) => TagOf(s)' = TagOf(s)
  PROVE  IsVersion(p, u)'
<1>1. \A s : GivenType(s)' = GivenType(s) /\ KindOf(s)' = KindOf(s)
  BY DEF GivenType, KindOf
<1>2. \A x \in DOMAIN given[u[1]].types : <<u[1], x>> \in AllTypes
  BY GivenPrintable
<1>3. \A x \in DOMAIN given[u[1]].types : OwnTag(u, x)' = OwnTag(u, x)
  BY DEF OwnTag, GivenType, IsFakeTag
<1>4. \A s \in AllTypes : Changed(s) => Changed(s)' /\ TagOf(s)' = TagOf(s)
  BY <1>1 DEF Changed
<1>5. ASSUME NEW x \in DOMAIN given[u[1]].types, IsGivenTag(u, x, p.types[x].tag)
      PROVE  IsGivenTag(u, x, p.types[x].tag)'
  <2>1. <<u[1], x>> \in AllTypes /\ Changed(<<u[1], x>>)
    BY <1>2, <1>5 DEF IsGivenTag
  <2>2. Changed(<<u[1], x>>)' /\ TagOf(<<u[1], x>>)' = TagOf(<<u[1], x>>)
    BY <1>4, <2>1
  <2>3. QED
    BY <1>1, <1>5, <2>2 DEF IsGivenTag
<1>6. LikeGiven(p, u[1])'
  BY DEF IsVersion, LikeGiven
<1>7. \A x \in DOMAIN given[u[1]].types :
        p.types[x].tag = OwnTag(u, x)' \/ IsGivenTag(u, x, p.types[x].tag)'
  BY <1>3, <1>5 DEF IsVersion
<1>8. QED
  BY <1>6, <1>7 DEF IsVersion

(* What addUniqueStructs compares is a version of the type.                *)
LEMMA ComparedIsVersion ==
  ASSUME Shape, TagInv, at \in Kinds, NEW x \in DOMAIN Parser.types, IsNext(x),
         NEW u, u = <<pnum, x>>
  PROVE  \E p : IsVersion(p, u) /\ ComparedText(x) = TypeText(p, x)
<1> DEFINE g == given[pnum]
           fake == IsFakeTag(Parser.types[x].tag)
           p == IF fake THEN WithTag(x, Placeholder)[pnum] ELSE Parser
<1>1. /\ u \in AllTypes /\ u \notin added /\ KindOf(u) = at /\ u[1] = pnum /\ u[2] = x
      /\ Parser.types[x].tag = GivenType(u).tag /\ pnum \in DOMAIN given
  <2>1. u \in AllTypes /\ KindOf(u) = at /\ u \notin added /\ Parser.types[x].tag = TagOf(u)
    BY ListOfProperty DEF IsNext, IsAdded
  <2>2. QED
    BY <2>1 DEF Shape, TagInv, TagsMade
<1>2. /\ DOMAIN Parser.types = DOMAIN g.types
      /\ \A y \in DOMAIN g.types : /\ Parser.types[y].kind = g.types[y].kind
                                   /\ Parser.types[y].members = g.types[y].members
  BY <1>1 DEF Shape, Parser
<1>3. /\ DOMAIN p.types = DOMAIN g.types
      /\ \A y \in DOMAIN g.types :
           /\ p.types[y].kind = g.types[y].kind /\ p.types[y].members = g.types[y].members
           /\ p.types[y].tag = IF fake /\ y = x THEN Placeholder ELSE Parser.types[y].tag
  <2>1. CASE fake
    <3>1. Placeholder \in Tags
      BY DEF Placeholder, Tags, Parts, Names
    <3>2. p = WithTag(x, Placeholder)[pnum]
      BY <2>1
    <3>3. /\ DOMAIN WithTag(x, Placeholder)[pnum].types = DOMAIN Parser.types
          /\ \A y \in DOMAIN Parser.types :
               /\ WithTag(x, Placeholder)[pnum].types[y].kind = Parser.types[y].kind
               /\ WithTag(x, Placeholder)[pnum].types[y].members = Parser.types[y].members
               /\ WithTag(x, Placeholder)[pnum].types[y].tag =
                    IF y = x THEN Placeholder ELSE Parser.types[y].tag
      BY <1>1, <3>1, WithTagProperty DEF Parser
    <3>4. QED
      BY <1>2, <2>1, <3>2, <3>3
  <2>2. CASE ~ fake
    BY <1>2, <2>2
  <2>3. QED
    BY <2>1, <2>2
<1>4. ComparedText(x) = TypeText(p, x)
  BY DEF ComparedText
<1> HIDE DEF p
<1>5. ASSUME NEW y \in DOMAIN g.types
      PROVE  p.types[y].tag = OwnTag(u, y) \/ IsGivenTag(u, y, p.types[y].tag)
  <2>1. CASE y = x
    <3>1. p.types[y].tag = IF fake THEN Placeholder ELSE GivenType(u).tag
      BY <1>1, <1>3, <2>1
    <3>2. GivenType(u).tag = g.types[y].tag
      BY <1>1, <2>1 DEF GivenType
    <3>3. OwnTag(u, y) = IF fake THEN Placeholder ELSE g.types[y].tag
      BY <1>1, <2>1 DEF OwnTag
    <3>4. QED
      BY <3>1, <3>2, <3>3
  <2>2. CASE y # x
    <3> DEFINE v == <<pnum, y>>
    <3>1. v \in AllTypes /\ v[1] = pnum /\ p.types[y].tag = TagOf(v) /\ GivenType(v).tag = g.types[y].tag
      BY <1>1, <1>3, <2>2 DEF AllTypes, TypesOf, TagOf, GivenType, Parser
    <3>2. OwnTag(u, y) = g.types[y].tag
      BY <1>1, <2>2 DEF OwnTag
    <3> HIDE DEF v
    <3>3. CASE Changed(v)
      <4>1. v \in added
        BY <3>1, <3>3 DEF Changed, TagInv, TagsMade
      <4>2. Passed(v) \/ KindOf(v) = at
        BY <3>1, <4>1 DEF TagInv, Order
      <4>3. KindOf(v) = "union" => at = "union"
        <5>1. pnum \in Nat
          BY TagBeforeTyped
        <5>2. Passed(v) => Rank[KindOf(v)] < Rank[at]
          BY <3>1, <5>1 DEF Passed, Kinds
        <5>3. ASSUME KindOf(v) = "union", Rank[KindOf(v)] < Rank[at] PROVE FALSE
          BY <5>3 DEF Rank, Kinds
        <5>4. QED
          BY <4>2, <5>2, <5>3
      <4>4. QED
        BY <1>1, <2>2, <3>1, <3>3, <4>3 DEF IsGivenTag, v
    <3>4. CASE ~ Changed(v)
      BY <3>1, <3>2, <3>4 DEF Changed
    <3>5. QED
      BY <3>3, <3>4
  <2>3. QED
    BY <2>1, <2>2
<1>6. IsVersion(p, u)
  BY <1>1, <1>3, <1>5 DEF IsVersion, LikeGiven
<1>7. QED
  BY <1>4, <1>6

LEMMA AddTypeMeant ==
  ASSUME Shape, PlainTags, TagInv, MadeInv, TextsMeant, AddType, UNCHANGED given
  PROVE  TextsMeant'
<1>1. PICK x \in DOMAIN Parser.types :
        /\ IsNext(x) /\ (AddFake(x) \/ DropTagged(x) \/ KeepTagged(x))
        /\ added' = added \cup {<<pnum, x>>} /\ present' = present \cup {ComparedText(x)}
  BY DEF AddType
<1>2. PICK u : u = <<pnum, x>>
  OBVIOUS
<1>3. /\ u \in AllTypes /\ u \notin added /\ KindOf(u) = at /\ u[2] = x /\ at \in Kinds
      /\ Parser.types[x].kind = at /\ ~ Changed(u)
  <2>1. at \in Kinds
    BY DEF AddType
  <2>2. u \in AllTypes /\ u \notin added /\ KindOf(u) = at /\ u[2] = x /\ Parser.types[x].kind = at
    BY <1>1, <1>2, <2>1, ListOfProperty DEF IsNext, IsAdded
  <2>3. QED
    BY <2>1, <2>2 DEF Changed, TagInv, TagsMade
<1>4. PICK text : text = ComparedText(x)
  OBVIOUS
<1>5. PICK p : IsVersion(p, u) /\ text = TypeText(p, x)
  BY <1>1, <1>2, <1>3, <1>4, ComparedIsVersion
<1>6. text[1] = at
  <2>1. p.types[x].kind = given[u[1]].types[x].kind
    BY <1>3, <1>5, GivenPrintable DEF IsVersion, LikeGiven
  <2>2. KindOf(u) = given[u[1]].types[x].kind
    BY <1>3 DEF KindOf
  <2>3. QED
    BY <1>3, <1>5, <2>1, <2>2 DEF TypeText
<1>7. \A s \in AllTypes : Changed(s) => TagOf(s)' = TagOf(s)
  <2>1. ASSUME NEW t \in Tags, ps' = WithTag(x, t)
        PROVE  \A s \in AllTypes : s # u => TagOf(s)' = TagOf(s)
    BY <1>2, <2>1, WithTagTags
  <2>2. ps' = ps => \A s : TagOf(s)' = TagOf(s)
    BY DEF TagOf
  <2>3. \/ ps' = ps \/ ps' = WithTag(x, DupTag(TagBefore(x), pnum))
        \/ ps' = WithTag(x, FakeTag(at, pnum, fakes[at]))
    BY <1>1 DEF AddFake, DropTagged, KeepTagged, WithNewTag
  <2>4. DupTag(TagBefore(x), pnum) \in Tags /\ FakeTag(at, pnum, fakes[at]) \in Tags
    <3>1. TagBefore(x) \in Tags /\ pnum \in Nat /\ fakes[at] \in Nat
      BY <1>3, TagBeforeTyped DEF Shape
    <3>2. QED
      BY <1>3, <3>1, DupTagProperty, FakeTagProperty
  <2>5. QED
    BY <1>3, <2>1, <2>2, <2>3, <2>4
<1>8. kept \subseteq kept' /\ (text \in present \/ u \in kept')
  BY <1>1, <1>2, <1>4 DEF AddFake, DropTagged, KeepTagged
<1>9. \A t : OwnText(t)' = OwnText(t)
  BY DEF OwnText
<1>10. kept \subseteq AllTypes
  BY DEF Shape
<1>11. ASSUME NEW w \in kept, NEW s, IsTextOf(s, w) PROVE w \in kept' /\ IsTextOf(s, w)'
  <2>1. PICK q : IsVersion(q, w) /\ s = TypeText(q, w[2])
    BY <1>11 DEF IsTextOf
  <2>2. IsVersion(q, w)'
    BY <1>7, <1>10, <2>1, VersionKept
  <2>3. QED
    BY <1>8, <2>1, <2>2 DEF IsTextOf
<1>12. ASSUME u \in kept' PROVE IsTextOf(text, u)'
  <2>1. IsVersion(p, u)'
    BY <1>3, <1>5, <1>7, VersionKept
  <2>2. QED
    BY <1>3, <1>5, <2>1 DEF IsTextOf
<1>13. ASSUME NEW s \in present', s[1] \in Kinds PROVE \E w \in kept' : IsTextOf(s, w)'
  <2>1. CASE s \in present
    BY <1>11, <1>13, <2>1 DEF TextsMeant
  <2>2. CASE s \notin present
    BY <1>1, <1>4, <1>8, <1>12, <1>13, <2>2
  <2>3. QED
    BY <2>1, <2>2
<1>14. \E w \in kept' : OwnText(w) = OwnText(u)
  <2>1. CASE u \in kept'
    BY <2>1
  <2>2. CASE text \in present
    <3>1. PICK w \in kept : IsTextOf(text, w)
      BY <1>3, <1>6, <2>2 DEF TextsMeant
    <3>2. PICK q : IsVersion(q, w) /\ text = TypeText(q, w[2])
      BY <3>1 DEF IsTextOf
    <3>3. OwnText(u) = OwnText(w)
      BY <1>3, <1>5, <1>10, <3>2, SameText
    <3>4. QED
      BY <1>8, <3>3
  <2>3. QED
    BY <1>8, <2>1, <2>2
<1>15. ASSUME NEW t \in added' PROVE \E w \in kept' : OwnText(w)' = OwnText(t)'
  <2>1. \E w \in kept' : OwnText(w) = OwnText(t)
    BY <1>1, <1>2, <1>8, <1>14 DEF TextsMeant
  <2>2. QED
    BY <1>9, <2>1
<1>16. QED
  BY <1>13, <1>15 DEF TextsMeant

LEMMA MeantStep ==
  ASSUME Shape, PlainTags, TagInv, MadeInv, TextsMeant, [Next]_vars
  PROVE  TextsMeant'
<1>1. given' = given
  BY DEF Next, vars
<1>2. CASE AddType
  BY <1>1, <1>2, AddTypeMeant
<1>3. ASSUME UNCHANGED <<ps, added, kept>>,
             \A text \in present' : text \in present \/ text[1] \notin Kinds
      PROVE  TextsMeant'
  <2>1. \A s : TagOf(s)' = TagOf(s) /\ OwnText(s)' = OwnText(s)
    BY <1>1, <1>3 DEF TagOf, OwnText
  <2>2. kept \subseteq AllTypes
    BY DEF Shape
  <2>3. ASSUME NEW text, NEW w \in kept, IsTextOf(text, w) PROVE IsTextOf(text, w)'
    <3>1. PICK q : IsVersion(q, w) /\ text = TypeText(q, w[2])
      BY <2>3 DEF IsTextOf
    <3>2. IsVersion(q, w)'
      BY <1>1, <2>1, <2>2, <3>1, VersionKept
    <3>3. QED
      BY <3>1, <3>2 DEF IsTextOf
  <2>4. \A text \in present' : text[1] \in Kinds => \E w \in kept' : IsTextOf(text, w)'
    BY <1>3, <2>3 DEF TextsMeant
  <2>5. \A t \in added' : \E w \in kept' : OwnText(w)' = OwnText(t)'
    BY <1>3, <2>1 DEF TextsMeant
  <2>6. QED
    BY <2>4, <2>5 DEF TextsMeant
<1>4. CASE AddTypedef
  <2>1. PICK decl : present' = present \cup {DeclText(Parser, "typedef", decl)}
    BY <1>4 DEF AddTypedef
  <2>2. DeclText(Parser, "typedef", decl)[1] \notin Kinds
    BY DEF DeclText, Kinds
  <2>3. QED
    BY <1>3, <1>4, <2>1, <2>2 DEF AddTypedef, typeVars
<1>5. CASE AddDecl
  <2>1. PICK decl : present' = present \cup {DeclText(Parser, TheEntry.kind, decl)}
    BY <1>5 DEF AddDecl
  <2>2. DeclText(Parser, TheEntry.kind, decl)[1] \notin Kinds
    <3>1. TheEntry.kind \in {"var", "func"}
      BY <1>5 DEF AddDecl, AtEntry
    <3>2. QED
      BY <3>1 DEF DeclText, Kinds
  <2>3. QED
    BY <1>3, <1>5, <2>1, <2>2 DEF AddDecl, typeVars
<1>6. EndKind \/ EndTypedefs \/ AddOverlay \/ EndDecls \/ UNCHANGED vars
      => UNCHANGED <<ps, added, kept, present>>
  BY DEF EndKind, EndTypedefs, AddOverlay, EndDecls, vars, typeVars
<1>7. QED
  BY <1>2, <1>3, <1>4, <1>5, <1>6 DEF Next

-----------------------------------------------------------------------------
(* Typedefs and declarations are compared when no tag changes any more.    *)

(* Only the tags of the parser whose turn it is change.                    *)
LEMMA AddTypeApart ==
  ASSUME Shape, AddType
  PROVE  /\ present \subseteq present' /\ \A text \in present' : text \in present \/ text[1] \in Kinds
         /\ \A n \in DOMAIN given : n # pnum => ps'[n] = ps[n]
<1>1. PICK x \in DOMAIN Parser.types :
        /\ IsNext(x) /\ (AddFake(x) \/ DropTagged(x) \/ KeepTagged(x))
        /\ present' = present \cup {ComparedText(x)}
  BY DEF AddType
<1>2. Parser.types[x].kind \in Kinds
  BY <1>1 DEF IsNext, AddType
<1>3. \E p : ComparedText(x) = TypeText(p, x) /\ p.types[x].kind = Parser.types[x].kind
  <2>1. WithTag(x, Placeholder)[pnum].types[x].kind = Parser.types[x].kind
    <3>1. Placeholder \in Tags
      BY DEF Placeholder, Tags, Parts, Names
    <3>2. pnum \in DOMAIN given /\ Parser = ps[pnum]
      BY DEF Shape, Parser
    <3>3. QED
      BY <3>1, <3>2, WithTagProperty
  <2>2. QED
    BY <2>1 DEF ComparedText
<1>4. ComparedText(x)[1] \in Kinds
  <2>1. PICK p : ComparedText(x) = TypeText(p, x) /\ p.types[x].kind = Parser.types[x].kind
    BY <1>3
  <2>2. QED
    BY <1>2, <2>1 DEF TypeText
<1>5. ps' = ps \/ \E t : ps' = WithTag(x, t)
  BY <1>1 DEF AddFake, DropTagged, KeepTagged, WithNewTag
<1>6. \A n \in DOMAIN given : n # pnum => ps'[n] = ps[n]
  BY <1>5, GivenTyped DEF WithTag
<1>7. QED
  BY <1>1, <1>4, <1>6

TypedefText(t) == DeclText(ps[t[1]], "typedef", ps[t[1]].typedefs[t[2]])
TypedefDone(t) ==
  \/ at \in {"decls", "done"} \/ t[1] < pnum
  \/ t[1] = pnum /\ at = "typedefs" /\ t[2] < next

(* Each typedef that the loops went through reads like one of the result.  *)
TypedefsMeant ==
  /\ typedefs \in Seq(TypedefPlaces) /\ (at \in Kinds => next = 1)
  /\ \A z \in DOMAIN typedefs : TypedefDone(typedefs[z])
  /\ \A t \in TypedefPlaces : TypedefDone(t) =>
       \E z \in DOMAIN typedefs : TypedefText(typedefs[z]) = TypedefText(t)
  /\ \A text \in present : text[1] = "typedef" =>
       \E z \in DOMAIN typedefs : TypedefText(typedefs[z]) = text

LEMMA TypedefsKept ==
  ASSUME TypedefsMeant, UNCHANGED <<given, typedefs>>, at' \in Kinds => next' = 1,
         \A t \in TypedefPlaces : TypedefDone(t)' <=> TypedefDone(t),
         \A t \in TypedefPlaces : TypedefDone(t) => TypedefText(t)' = TypedefText(t),
         \A text \in present' : text \in present \/ text[1] # "typedef"
  PROVE  TypedefsMeant'
<1>1. TypedefPlaces' = TypedefPlaces
  BY DEF TypedefPlaces
<1>2. \A z \in DOMAIN typedefs : /\ typedefs'[z] = typedefs[z] /\ typedefs[z] \in TypedefPlaces
                                 /\ TypedefDone(typedefs[z])' /\ TypedefText(typedefs[z])' = TypedefText(typedefs[z])
  BY DEF TypedefsMeant
<1>3. \A z \in DOMAIN typedefs' : TypedefDone(typedefs[z])'
  BY <1>2
<1>4. ASSUME NEW t \in TypedefPlaces, TypedefDone(t)'
      PROVE  \E z \in DOMAIN typedefs' : TypedefText(typedefs[z])' = TypedefText(t)'
  BY <1>2, <1>4 DEF TypedefsMeant
<1>5. ASSUME NEW text \in present', text[1] = "typedef"
      PROVE  \E z \in DOMAIN typedefs' : TypedefText(typedefs[z])' = text
  BY <1>2, <1>5 DEF TypedefsMeant
<1>6. QED
  BY <1>1, <1>3, <1>4, <1>5 DEF TypedefsMeant

LEMMA AddTypedefMeant ==
  ASSUME Shape, TypedefsMeant, AddTypedef, UNCHANGED given
  PROVE  TypedefsMeant'
<1>1. PICK t : t = <<pnum, next>>
  OBVIOUS
<1>2. PICK text : text = DeclText(Parser, "typedef", Parser.typedefs[next])
  OBVIOUS
<1>3. /\ UNCHANGED <<given, ps, pnum, at>> /\ at = "typedefs" /\ next' = next + 1 /\ next \in Nat \ {0}
      /\ typedefs' = IF text \in present THEN typedefs ELSE Append(typedefs, t)
      /\ present' = present \cup {text} /\ next <= Len(Parser.typedefs)
  BY <1>1, <1>2 DEF AddTypedef, Shape
<1>4. t \in TypedefPlaces
  <2>1. pnum \in DOMAIN given /\ Parser.typedefs = given[pnum].typedefs /\ given[pnum] \in Parsers
    BY GivenTyped DEF Shape, Parser
  <2>2. given[pnum].typedefs \in Seq(Decls)
    BY <2>1 DEF Parsers
  <2>3. next \in DOMAIN given[pnum].typedefs
    BY <1>3, <2>1, <2>2
  <2>4. QED
    BY <1>1, <2>1, <2>3 DEF TypedefPlaces
<1>5. TypedefPlaces' = TypedefPlaces /\ \A s : TypedefText(s)' = TypedefText(s)
  BY <1>3 DEF TypedefPlaces, TypedefText
<1>6. TypedefText(t) = text
  BY <1>1, <1>2 DEF TypedefText, Parser
<1>7. \A s \in TypedefPlaces : s[2] \in Nat /\ s = <<s[1], s[2]>>
  <2>1. ASSUME NEW s \in TypedefPlaces PROVE s[2] \in Nat /\ s = <<s[1], s[2]>>
    <3>1. PICK n \in DOMAIN given : \E x \in DOMAIN given[n].typedefs : s = <<n, x>>
      BY DEF TypedefPlaces
    <3>2. given[n].typedefs \in Seq(Decls)
      BY GivenTyped DEF Parsers
    <3>3. QED
      BY <3>1, <3>2
  <2>2. QED
    BY <2>1
<1>8. \A s \in TypedefPlaces : TypedefDone(s)' <=> TypedefDone(s) \/ s = t
  BY <1>1, <1>3, <1>7 DEF TypedefDone
<1>9. /\ typedefs' \in Seq(TypedefPlaces)
      /\ \A z \in DOMAIN typedefs : z \in DOMAIN typedefs' /\ typedefs'[z] = typedefs[z]
      /\ \A z \in DOMAIN typedefs' : typedefs'[z] = t \/ \E y \in DOMAIN typedefs : typedefs'[z] = typedefs[y]
      /\ text \in present \/ \E z \in DOMAIN typedefs' : typedefs'[z] = t
  <2>1. typedefs \in Seq(TypedefPlaces)
    BY DEF TypedefsMeant
  <2>2. CASE text \in present
    BY <1>3, <2>1, <2>2
  <2>3. CASE text \notin present
    <3>1. typedefs' = Append(typedefs, t)
      BY <1>3, <2>3
    <3>2. /\ typedefs' \in Seq(TypedefPlaces) /\ Len(typedefs') = Len(typedefs) + 1
          /\ typedefs'[Len(typedefs) + 1] = t /\ \A z \in 1 .. Len(typedefs) : typedefs'[z] = typedefs[z]
      BY <1>4, <2>1, <3>1, Appended
    <3>3. /\ Len(typedefs) \in Nat /\ DOMAIN typedefs = 1 .. Len(typedefs)
          /\ DOMAIN typedefs' = 1 .. Len(typedefs) + 1
      BY <2>1, <3>2
    <3>4. \A z \in 1 .. Len(typedefs) + 1 : z = Len(typedefs) + 1 \/ z \in 1 .. Len(typedefs)
      BY <3>3
    <3>5. QED
      BY <3>2, <3>3, <3>4
  <2>4. QED
    BY <2>2, <2>3
<1>10. \E z \in DOMAIN typedefs' : TypedefText(typedefs'[z]) = text
  <2>1. CASE text \in present
    <3>1. text[1] = "typedef"
      BY <1>2 DEF DeclText
    <3>2. PICK z \in DOMAIN typedefs : TypedefText(typedefs[z]) = text
      BY <2>1, <3>1 DEF TypedefsMeant
    <3>3. QED
      BY <1>9, <3>2
  <2>2. CASE text \notin present
    BY <1>6, <1>9, <2>2
  <2>3. QED
    BY <2>1, <2>2
<1>11. \A z \in DOMAIN typedefs' : TypedefDone(typedefs[z])'
  <2>1. \A z \in DOMAIN typedefs' : typedefs'[z] = t \/ TypedefDone(typedefs'[z])
    BY <1>9 DEF TypedefsMeant
  <2>2. \A z \in DOMAIN typedefs' : typedefs'[z] \in TypedefPlaces
    BY <1>9
  <2>3. \A s \in TypedefPlaces : s = t \/ TypedefDone(s) =>
          (at' \in {"decls", "done"} \/ s[1] < pnum' \/ (s[1] = pnum' /\ at' = "typedefs" /\ s[2] < next'))
    BY <1>8 DEF TypedefDone
  <2>4. QED
    BY <2>1, <2>2, <2>3 DEF TypedefDone
<1>12. ASSUME NEW s \in TypedefPlaces, TypedefDone(s)'
       PROVE  \E z \in DOMAIN typedefs' : TypedefText(typedefs'[z]) = TypedefText(s)
  <2>1. CASE s = t
    BY <1>6, <1>10, <2>1
  <2>2. CASE s # t
    BY <1>8, <1>9, <1>12, <2>2 DEF TypedefsMeant
  <2>3. QED
    BY <2>1, <2>2
<1>13. ASSUME NEW s \in present', s[1] = "typedef"
       PROVE  \E z \in DOMAIN typedefs' : TypedefText(typedefs'[z]) = s
  <2>1. CASE s = text
    BY <1>10, <2>1
  <2>2. CASE s # text
    BY <1>3, <1>9, <1>13, <2>2 DEF TypedefsMeant
  <2>3. QED
    BY <2>1, <2>2
<1>14. \A z \in DOMAIN typedefs' : TypedefText(typedefs[z])' = TypedefText(typedefs'[z])
  BY <1>3 DEF TypedefText
<1>15. at' \in Kinds => next' = 1
  BY <1>3 DEF Kinds
<1>16. QED
  BY <1>5, <1>9, <1>11, <1>12, <1>13, <1>14, <1>15 DEF TypedefsMeant

LEMMA TypedefsMeantStep ==
  ASSUME Shape, TypedefsMeant, [Next]_vars
  PROVE  TypedefsMeant'
<1>1. given' = given
  BY DEF Next, vars
<1>2. /\ pnum \in DOMAIN given /\ DOMAIN given = 1 .. Len(given) /\ Len(given) \in Nat
      /\ Len(ps) = Len(given) /\ next \in Nat \ {0}
  BY GivenTyped DEF Shape
<1>3. ASSUME NEW t \in TypedefPlaces
      PROVE  /\ t[1] \in DOMAIN given /\ t[2] \in DOMAIN ps[t[1]].typedefs
             /\ t[2] \in Nat \ {0} /\ t[2] <= Len(ps[t[1]].typedefs)
  <2>1. PICK n \in DOMAIN given : \E x \in DOMAIN given[n].typedefs : t = <<n, x>>
    BY DEF TypedefPlaces
  <2>2. given[n].typedefs \in Seq(Decls) /\ ps[n].typedefs = given[n].typedefs
    BY GivenTyped DEF Parsers, Shape
  <2>3. QED
    BY <2>1, <2>2
<1>4. CASE AddType
  <2>1. at \in Kinds /\ UNCHANGED <<pnum, at, typedefs, next>>
    BY <1>4 DEF AddType
  <2>2. at \notin {"typedefs", "decls", "done"}
    BY <2>1 DEF Kinds
  <2>3. \A t \in TypedefPlaces : TypedefDone(t)' <=> TypedefDone(t)
    BY <2>1 DEF TypedefDone
  <2>4. ASSUME NEW t \in TypedefPlaces, TypedefDone(t) PROVE TypedefText(t)' = TypedefText(t)
    <3>1. t[1] # pnum /\ t[1] \in DOMAIN given
      BY <1>2, <1>3, <2>2, <2>4 DEF TypedefDone
    <3>2. ps'[t[1]] = ps[t[1]]
      BY <1>4, <3>1, AddTypeApart
    <3>3. QED
      BY <3>2 DEF TypedefText
  <2>5. \A text \in present' : text \in present \/ text[1] # "typedef"
    BY <1>4, AddTypeApart DEF Kinds
  <2>6. at' \in Kinds => next' = 1
    BY <2>1 DEF TypedefsMeant
  <2>7. QED
    BY <1>1, <2>1, <2>3, <2>4, <2>5, <2>6, TypedefsKept
<1>5. ASSUME UNCHANGED <<ps, typedefs>>, \A text \in present' : text \in present \/ text[1] # "typedef",
             \A t \in TypedefPlaces : TypedefDone(t)' <=> TypedefDone(t), at' \in Kinds => next' = 1
      PROVE  TypedefsMeant'
  <2>1. \A t : TypedefText(t)' = TypedefText(t)
    BY <1>5 DEF TypedefText
  <2>2. QED
    BY <1>1, <1>5, <2>1, TypedefsKept
<1>6. CASE EndKind
  <2>1. at \in Kinds /\ at' = After[at] /\ UNCHANGED <<ps, pnum, present, typedefs, next>> /\ next = 1
    BY <1>6 DEF EndKind, TypedefsMeant
  <2>2. at \notin {"typedefs", "decls", "done"} /\ at' \notin {"decls", "done"}
    BY <2>1 DEF Kinds, After
  <2>3. \A t \in TypedefPlaces : TypedefDone(t)' <=> TypedefDone(t)
    BY <1>3, <2>1, <2>2 DEF TypedefDone
  <2>4. QED
    BY <1>5, <2>1, <2>3
<1>7. CASE AddTypedef
  BY <1>1, <1>7, AddTypedefMeant
<1>8. CASE EndTypedefs
  <2>1. /\ at = "typedefs" /\ next > Len(Parser.typedefs) /\ next' = 1 /\ Parser = ps[pnum]
        /\ UNCHANGED <<ps, present, typedefs>>
    BY <1>8 DEF EndTypedefs, Parser
  <2>2. ASSUME NEW t \in TypedefPlaces PROVE TypedefDone(t) <=> t[1] <= pnum
    <3>1. t[1] = pnum => t[2] < next
      BY <1>2, <1>3, <2>1
    <3>2. QED
      BY <1>2, <1>3, <2>1, <3>1 DEF TypedefDone
  <2>3. CASE pnum < Len(ps)
    <3>1. pnum' = pnum + 1 /\ at' = "enum"
      BY <1>8, <2>3 DEF EndTypedefs
    <3>2. \A t \in TypedefPlaces : TypedefDone(t)' <=> TypedefDone(t)
      BY <1>2, <1>3, <2>2, <3>1 DEF TypedefDone
    <3>3. QED
      BY <1>5, <2>1, <3>2
  <2>4. CASE ~ (pnum < Len(ps))
    <3>1. at' = "decls"
      BY <1>8, <2>4 DEF EndTypedefs
    <3>2. \A t \in TypedefPlaces : TypedefDone(t)' /\ TypedefDone(t)
      BY <1>2, <1>3, <2>2, <2>4, <3>1 DEF TypedefDone
    <3>3. QED
      BY <1>5, <2>1, <3>2
  <2>5. QED
    BY <2>3, <2>4
<1>9. ASSUME at = "decls", at' \in {"decls", "done"}, UNCHANGED <<ps, typedefs>>,
             \A text \in present' : text \in present \/ text[1] # "typedef"
      PROVE  TypedefsMeant'
  <2>1. \A t : TypedefDone(t)' <=> TypedefDone(t)
    BY <1>9 DEF TypedefDone
  <2>2. QED
    BY <1>5, <1>9, <2>1 DEF Kinds
<1>10. CASE AddOverlay
  BY <1>9, <1>10 DEF AddOverlay, AtEntry
<1>11. CASE AddDecl
  <2>1. PICK decl : present' = present \cup {DeclText(Parser, TheEntry.kind, decl)}
    BY <1>11 DEF AddDecl
  <2>2. TheEntry.kind \in {"var", "func"} /\ at = "decls" /\ UNCHANGED <<at, ps, typedefs>>
    BY <1>11 DEF AddDecl, AtEntry
  <2>3. DeclText(Parser, TheEntry.kind, decl)[1] # "typedef"
    BY <2>2 DEF DeclText
  <2>4. QED
    BY <1>9, <2>1, <2>2, <2>3
<1>12. CASE EndDecls
  BY <1>9, <1>12 DEF EndDecls
<1>13. CASE UNCHANGED vars
  <2>1. UNCHANGED <<ps, pnum, at, next, present, typedefs>>
    BY <1>13 DEF vars
  <2>2. \A t : TypedefDone(t)' <=> TypedefDone(t)
    BY <2>1 DEF TypedefDone
  <2>3. QED
    BY <1>5, <2>1, <2>2 DEF TypedefsMeant
<1>14. QED
  BY <1>4, <1>6, <1>7, <1>8, <1>10, <1>11, <1>12, <1>13 DEF Next

EntryText(n, x) == TextOf([pnum |-> n, entry |-> Entries(ps[n])[x]])

(* Each declaration that the loops went through reads like one of the      *)
(* result.                                                                 *)
DeclsMeant ==
  /\ \A n \in DOMAIN given : \A x \in DOMAIN Entries(ps[n]) :
       Seen(n, x) /\ Entries(ps[n])[x].kind # "overlay" => \E r \in KeptDecls : TextOf(r) = EntryText(n, x)
  /\ \A text \in present : text[1] \in {"var", "func"} => \E r \in KeptDecls : TextOf(r) = text

LEMMA DeclsKept ==
  ASSUME DeclsMeant, UNCHANGED <<ps, given>>, KeptDecls' = KeptDecls,
         \A text \in present' : text \in present \/ text[1] \notin {"var", "func"},
         \A n \in DOMAIN given : \A x \in DOMAIN Entries(ps[n]) :
           Seen(n, x)' /\ Entries(ps[n])[x].kind # "overlay" => Seen(n, x)
  PROVE  DeclsMeant'
<1>1. (\A r : TextOf(r)' = TextOf(r)) /\ \A n, x : EntryText(n, x)' = EntryText(n, x)
  BY DEF TextOf, EntryText
<1>2. QED
  BY <1>1 DEF DeclsMeant

(* The overlay of a declaration is there before it.                        *)
LEMMA OverlayIsThere ==
  ASSUME Shape, DeclInv, AtEntry({"var", "func"})
  PROVE  TheEntry.id \in DOMAIN overlays
<1>1. /\ at = "decls" /\ next \in Nat \ {0} /\ next <= Len(Entries(Parser)) /\ pnum \in DOMAIN given
      /\ Parser = ps[pnum] /\ TheEntry = Entries(ps[pnum])[next] /\ TheEntry.kind # "overlay"
  BY DEF AtEntry, Shape, Parser, TheEntry
<1>2. next \in DOMAIN Entries(ps[pnum])
  BY <1>1, EntriesTyped
<1>3. Headed(Entries(ps[pnum]))
  BY <1>1, GivenTyped, EntriesProperty DEF Shape, IsParser
<1>4. PICK y \in DOMAIN Entries(ps[pnum]) :
        y < next /\ Entries(ps[pnum])[y].kind = "overlay" /\ Entries(ps[pnum])[y].id = TheEntry.id
  BY <1>1, <1>2, <1>3 DEF Headed
<1>5. QED
  BY <1>1, <1>4 DEF DeclInv, Seen

LEMMA AddDeclMeant ==
  ASSUME Shape, DeclInv, DeclsMeant, AddDecl, UNCHANGED given
  PROVE  DeclsMeant'
<1>1. PICK new : new = [pnum |-> pnum, entry |-> TheEntry]
  OBVIOUS
<1>2. PICK text : text = DeclText(Parser, TheEntry.kind, DeclOf(Parser, TheEntry))
  OBVIOUS
<1>3. /\ at = "decls" /\ next \in Nat \ {0} /\ next <= Len(Entries(Parser)) /\ next' = next + 1
      /\ UNCHANGED <<ps, given, pnum, at>> /\ pnum \in DOMAIN given /\ TheEntry.kind \in {"var", "func"}
      /\ overlays' = IF text \in present THEN overlays
                     ELSE [overlays EXCEPT ![TheEntry.id] = Append(@, new)]
      /\ present' = present \cup {text}
  BY <1>1, <1>2 DEF AddDecl, AtEntry, Shape, Target
<1>4. Parser = ps[pnum] /\ next \in DOMAIN Entries(ps[pnum]) /\ TheEntry = Entries(ps[pnum])[next]
  BY <1>3, EntriesTyped DEF Parser, TheEntry
<1>5. TextOf(new) = text /\ EntryText(pnum, next) = text /\ text[1] \in {"var", "func"}
  BY <1>1, <1>2, <1>3, <1>4 DEF TextOf, EntryText, DeclText
<1>6. (\A r : TextOf(r)' = TextOf(r)) /\ \A n, x : EntryText(n, x)' = EntryText(n, x)
  BY <1>3 DEF TextOf, EntryText
<1>7. KeptDecls \subseteq KeptDecls' /\ (text \in present \/ new \in KeptDecls')
  <2>1. CASE text \in present
    BY <1>3, <2>1 DEF KeptDecls
  <2>2. CASE text \notin present
    <3>1. PICK id : id = TheEntry.id /\ id \in DOMAIN overlays
      BY OverlayIsThere DEF AddDecl
    <3>2. PICK s : s = overlays[id] /\ s \in Seq(DeclsWithId(id))
      BY <3>1 DEF DeclInv
    <3>3. /\ DOMAIN overlays' = DOMAIN overlays
          /\ \A i \in DOMAIN overlays : overlays'[i] = IF i = id THEN Append(s, new) ELSE overlays[i]
      BY <1>3, <2>2, <3>1, <3>2
    <3>4. new \in DeclsWithId(id)
      <4>1. TheEntry \in EntriesIn(ps[pnum])
        BY <1>3, <1>4, EntriesTyped
      <4>2. QED
        BY <1>1, <1>3, <3>1, <4>1 DEF DeclsWithId
    <3>5. /\ Len(Append(s, new)) = Len(s) + 1 /\ Append(s, new)[Len(s) + 1] = new
          /\ \A x \in 1 .. Len(s) : Append(s, new)[x] = s[x]
          /\ Append(s, new) \in Seq(DeclsWithId(id))
      BY <3>2, <3>4, Appended
    <3>6. DOMAIN s = 1 .. Len(s) /\ Len(s) \in Nat /\ DOMAIN Append(s, new) = 1 .. Len(s) + 1
      BY <3>2, <3>5
    <3>7. new \in KeptDecls'
      <4>1. Len(s) + 1 \in DOMAIN overlays'[id] /\ overlays'[id][Len(s) + 1] = new
        BY <3>1, <3>3, <3>5, <3>6
      <4>2. QED
        BY <3>1, <3>3, <4>1 DEF KeptDecls
    <3>8. ASSUME NEW i \in DOMAIN overlays, NEW x \in DOMAIN overlays[i]
          PROVE  x \in DOMAIN overlays'[i] /\ overlays'[i][x] = overlays[i][x]
      <4>1. CASE i = id
        BY <3>2, <3>3, <3>5, <3>6, <4>1
      <4>2. CASE i # id
        BY <3>3, <4>2
      <4>3. QED
        BY <4>1, <4>2
    <3>9. KeptDecls \subseteq KeptDecls'
      BY <3>3, <3>8 DEF KeptDecls
    <3>10. QED
      BY <3>7, <3>9
  <2>3. QED
    BY <2>1, <2>2
<1>8. \E r \in KeptDecls' : TextOf(r) = text
  <2>1. CASE text \in present
    <3>1. PICK r \in KeptDecls : TextOf(r) = text
      BY <1>5, <2>1 DEF DeclsMeant
    <3>2. QED
      BY <1>7, <3>1
  <2>2. CASE text \notin present
    BY <1>5, <1>7, <2>2
  <2>3. QED
    BY <2>1, <2>2
<1>9. ASSUME NEW n \in DOMAIN given, NEW x \in DOMAIN Entries(ps[n]), Seen(n, x)',
             Entries(ps[n])[x].kind # "overlay"
      PROVE  \E r \in KeptDecls' : TextOf(r) = EntryText(n, x)
  <2>1. Seen(n, x) \/ (n = pnum /\ x = next)
    <3>1. x \in Nat
      BY EntriesTyped
    <3>2. QED
      BY <1>3, <1>9, <3>1 DEF Seen
  <2>2. CASE Seen(n, x)
    BY <1>7, <1>9, <2>2 DEF DeclsMeant
  <2>3. CASE n = pnum /\ x = next
    BY <1>5, <1>8, <2>3
  <2>4. QED
    BY <2>1, <2>2, <2>3
<1>10. ASSUME NEW s \in present', s[1] \in {"var", "func"}
       PROVE  \E r \in KeptDecls' : TextOf(r) = s
  <2>1. CASE s = text
    BY <1>8, <2>1
  <2>2. CASE s # text
    BY <1>3, <1>7, <1>10, <2>2 DEF DeclsMeant
  <2>3. QED
    BY <2>1, <2>2
<1>11. QED
  BY <1>3, <1>6, <1>9, <1>10 DEF DeclsMeant

LEMMA DeclsMeantStep ==
  ASSUME Shape, DeclInv, DeclsMeant, [Next]_vars
  PROVE  DeclsMeant'
<1>1. given' = given
  BY DEF Next, vars
<1>2. /\ pnum \in DOMAIN given /\ DOMAIN given = 1 .. Len(given) /\ Len(given) \in Nat
      /\ Len(ps) = Len(given) /\ next \in Nat \ {0}
  BY GivenTyped DEF Shape
<1>3. \A n \in DOMAIN given : \A x \in DOMAIN Entries(ps[n]) :
        x \in Nat \ {0} /\ x <= Len(Entries(ps[n])) /\ Len(Entries(ps[n])) \in Nat
  BY EntriesTyped
<1>4. ASSUME at \notin {"decls", "done"}, at' \notin {"decls", "done"}, UNCHANGED overlays,
             \A text \in present' : text \in present \/ text[1] \notin {"var", "func"}
      PROVE  DeclsMeant'
  <2>1. KeptDecls = {}
    BY <1>4 DEF DeclInv, KeptDecls
  <2>2. \A text \in present' : text[1] \notin {"var", "func"}
    BY <1>4, <2>1 DEF DeclsMeant
  <2>3. \A n, x : ~ Seen(n, x)'
    BY <1>4 DEF Seen
  <2>4. QED
    BY <2>2, <2>3 DEF DeclsMeant
<1>5. ASSUME UNCHANGED <<ps, overlays, present>>,
             \A n \in DOMAIN given : \A x \in DOMAIN Entries(ps[n]) :
               Seen(n, x)' /\ Entries(ps[n])[x].kind # "overlay" => Seen(n, x)
      PROVE  DeclsMeant'
  <2>1. KeptDecls' = KeptDecls
    BY <1>5 DEF KeptDecls
  <2>2. QED
    BY <1>1, <1>5, <2>1, DeclsKept
<1>6. CASE AddType
  <2>1. at \in Kinds /\ UNCHANGED <<at, overlays>>
    BY <1>6 DEF AddType
  <2>2. \A text \in present' : text \in present \/ text[1] \notin {"var", "func"}
    BY <1>6, AddTypeApart DEF Kinds
  <2>3. QED
    BY <1>4, <2>1, <2>2 DEF Kinds
<1>7. CASE EndKind
  <2>1. at \in Kinds /\ at' = After[at] /\ UNCHANGED <<overlays, present>>
    BY <1>7 DEF EndKind
  <2>2. at \notin {"decls", "done"} /\ at' \notin {"decls", "done"}
    BY <2>1 DEF Kinds, After
  <2>3. QED
    BY <1>4, <2>1, <2>2
<1>8. CASE AddTypedef
  <2>1. PICK decl : present' = present \cup {DeclText(Parser, "typedef", decl)}
    BY <1>8 DEF AddTypedef
  <2>2. DeclText(Parser, "typedef", decl)[1] \notin {"var", "func"}
    BY DEF DeclText
  <2>3. at = "typedefs" /\ UNCHANGED <<at, overlays>>
    BY <1>8 DEF AddTypedef
  <2>4. QED
    BY <1>4, <2>1, <2>2, <2>3
<1>9. CASE EndTypedefs
  <2>1. at = "typedefs" /\ UNCHANGED <<ps, overlays, present>> /\ next' = 1
    BY <1>9 DEF EndTypedefs
  <2>2. CASE pnum < Len(ps)
    <3>1. at' = "enum"
      BY <1>9, <2>2 DEF EndTypedefs
    <3>2. QED
      BY <1>4, <2>1, <3>1
  <2>3. CASE ~ (pnum < Len(ps))
    <3>1. at' = "decls" /\ pnum' = 1
      BY <1>9, <2>3 DEF EndTypedefs
    <3>2. \A n \in DOMAIN given : \A x \in DOMAIN Entries(ps[n]) : ~ Seen(n, x)'
      BY <1>2, <1>3, <2>1, <3>1 DEF Seen
    <3>3. QED
      BY <1>5, <2>1, <3>2
  <2>4. QED
    BY <2>2, <2>3
<1>10. CASE AddOverlay
  <2>1. /\ at = "decls" /\ UNCHANGED <<ps, pnum, at, present>> /\ next' = next + 1
        /\ Parser = ps[pnum] /\ TheEntry = Entries(ps[pnum])[next] /\ TheEntry.kind = "overlay"
    BY <1>10 DEF AddOverlay, AtEntry, Parser, TheEntry
  <2>2. /\ DOMAIN overlays \subseteq DOMAIN overlays'
        /\ \A id \in DOMAIN overlays' :
             overlays'[id] = IF id \in DOMAIN overlays THEN overlays[id] ELSE <<>>
    BY <1>10 DEF AddOverlay
  <2>3. KeptDecls' = KeptDecls
    <3>1. \A id \in DOMAIN overlays' \ DOMAIN overlays : DOMAIN overlays'[id] = {}
      BY <2>2
    <3>2. QED
      BY <2>2, <3>1 DEF KeptDecls
  <2>4. ASSUME NEW n \in DOMAIN given, NEW x \in DOMAIN Entries(ps[n]), Seen(n, x)',
               Entries(ps[n])[x].kind # "overlay"
        PROVE  Seen(n, x)
    <3>1. x \in Nat
      BY <1>3
    <3>2. Seen(n, x) \/ (n = pnum /\ x = next)
      BY <1>2, <2>1, <2>4, <3>1 DEF Seen
    <3>3. QED
      BY <2>1, <2>4, <3>2
  <2>5. QED
    BY <1>1, <2>1, <2>3, <2>4, DeclsKept
<1>11. CASE AddDecl
  BY <1>1, <1>11, AddDeclMeant
<1>12. CASE EndDecls
  <2>1. /\ at = "decls" /\ next > Len(Entries(ps[pnum])) /\ next' = 1
        /\ UNCHANGED <<ps, overlays, present>>
    BY <1>12 DEF EndDecls, Parser
  <2>2. \A x \in DOMAIN Entries(ps[pnum]) : Seen(pnum, x)
    BY <1>2, <1>3, <2>1 DEF Seen
  <2>3. ASSUME NEW n \in DOMAIN given, NEW x \in DOMAIN Entries(ps[n]), Seen(n, x)'
        PROVE  Seen(n, x)
    <3>1. n < pnum \/ n = pnum
      <4>1. CASE pnum < Len(ps)
        <5>1. pnum' = pnum + 1 /\ at' = at
          BY <1>12, <4>1 DEF EndDecls
        <5>2. x \in Nat \ {0} /\ n \in Nat /\ pnum \in Nat
          BY <1>2, <1>3
        <5>3. n < pnum + 1
          BY <2>1, <2>3, <5>1, <5>2 DEF Seen
        <5>4. QED
          BY <5>2, <5>3
      <4>2. CASE ~ (pnum < Len(ps))
        BY <1>2, <4>2
      <4>3. QED
        BY <4>1, <4>2
    <3>2. QED
      BY <2>1, <2>2, <3>1 DEF Seen
  <2>4. QED
    BY <1>5, <2>1, <2>3
<1>13. CASE UNCHANGED vars
  <2>1. UNCHANGED <<ps, overlays, present, at, pnum, next>>
    BY <1>13 DEF vars
  <2>2. \A n, x : Seen(n, x)' <=> Seen(n, x)
    BY <2>1 DEF Seen
  <2>3. QED
    BY <1>5, <2>1, <2>2
<1>14. QED
  BY <1>6, <1>7, <1>8, <1>9, <1>10, <1>11, <1>12, <1>13 DEF Next

LEMMA MeantInit == Init => MadeInv /\ TextsMeant /\ TypedefsMeant /\ DeclsMeant
<1> SUFFICES ASSUME Init PROVE MadeInv /\ TextsMeant /\ TypedefsMeant /\ DeclsMeant
  OBVIOUS
<1>1. /\ pnum = 1 /\ at = "enum" /\ added = {} /\ present = {} /\ typedefs = <<>> /\ next = 1
      /\ given = ps
  BY DEF Init
<1>2. Shape
  BY ShapeInit
<1>3. \A t : ~ Changed(t)
  BY <1>1 DEF Changed, TagOf, GivenType
<1>4. MadeInv
  BY <1>3 DEF MadeInv, MadeTags, FakesApart
<1>5. TextsMeant
  BY <1>1 DEF TextsMeant
<1>6. TypedefsMeant
  <2>1. \A t \in TypedefPlaces : t[1] \in Nat \ {0}
    <3>1. DOMAIN given = 1 .. Len(given) /\ Len(given) \in Nat
      BY <1>2, GivenTyped
    <3>2. QED
      BY <3>1 DEF TypedefPlaces
  <2>2. \A t \in TypedefPlaces : ~ TypedefDone(t)
    BY <1>1, <2>1 DEF TypedefDone
  <2>3. typedefs \in Seq(TypedefPlaces) /\ DOMAIN typedefs = {}
    BY <1>1, EmptySeq
  <2>4. QED
    BY <1>1, <2>2, <2>3 DEF TypedefsMeant
<1>7. DeclsMeant
  BY <1>1 DEF DeclsMeant, Seen
<1>8. QED
  BY <1>4, <1>5, <1>6, <1>7

-----------------------------------------------------------------------------
(* Of the declarations that read the same the first is kept.               *)

(* What is kept has had its turn, and what reads the same comes after it.  *)
NoneBefore(r, x) ==
  \A n \in DOMAIN given : \A y \in DOMAIN Entries(ps[n]) :
    Entries(ps[n])[y].kind # "overlay" /\ EntryText(n, y) = TextOf(r)
    => r.pnum < n \/ (r.pnum = n /\ x <= y)
FirstInv ==
  \A r \in KeptDecls :
    r.pnum \in DOMAIN given
    /\ \E x \in DOMAIN Entries(ps[r.pnum]) : Entries(ps[r.pnum])[x] = r.entry /\ NoneBefore(r, x)

LEMMA FirstStep ==
  ASSUME Shape, DeclInv, DeclsMeant, FirstInv, [Next]_vars
  PROVE  FirstInv'
<1>1. given' = given
  BY DEF Next, vars
<1>2. ASSUME UNCHANGED ps, KeptDecls' \subseteq KeptDecls
      PROVE  FirstInv'
  <2>1. (\A r : TextOf(r)' = TextOf(r)) /\ \A n, x : EntryText(n, x)' = EntryText(n, x)
    BY <1>2 DEF TextOf, EntryText
  <2>2. \A r, x : NoneBefore(r, x)' <=> NoneBefore(r, x)
    BY <1>1, <1>2, <2>1 DEF NoneBefore
  <2>3. QED
    BY <1>1, <1>2, <2>2 DEF FirstInv
<1>3. ASSUME at \notin {"decls", "done"}, UNCHANGED overlays
      PROVE  FirstInv'
  <2>1. KeptDecls' = {}
    BY <1>3 DEF DeclInv, KeptDecls
  <2>2. QED
    BY <2>1 DEF FirstInv
<1>4. CASE AddDecl
  <2>1. PICK new : new = [pnum |-> pnum, entry |-> TheEntry]
    OBVIOUS
  <2>2. PICK text : text = DeclText(Parser, TheEntry.kind, DeclOf(Parser, TheEntry))
    OBVIOUS
  <2>3. /\ at = "decls" /\ next \in Nat \ {0} /\ next <= Len(Entries(Parser)) /\ TheEntry.kind \in {"var", "func"}
        /\ UNCHANGED <<ps, pnum>> /\ pnum \in DOMAIN given
        /\ overlays' = IF text \in present THEN overlays
                       ELSE [overlays EXCEPT ![TheEntry.id] = Append(@, new)]
    BY <1>4, <2>1, <2>2 DEF AddDecl, AtEntry, Shape, Target
  <2>4. Parser = ps[pnum] /\ next \in DOMAIN Entries(ps[pnum]) /\ TheEntry = Entries(ps[pnum])[next]
    BY <2>3, EntriesTyped DEF Parser, TheEntry
  <2>5. TextOf(new) = text
    BY <2>1, <2>2, <2>4 DEF TextOf
  <2>6. CASE text \in present
    BY <1>2, <2>3, <2>6 DEF KeptDecls
  <2>7. CASE text \notin present
    <3>1. KeptDecls' \subseteq KeptDecls \cup {new}
      BY <1>1, <1>4, <2>1, AddDeclKeeps
    <3>2. NoneBefore(new, next)
      <4>1. SUFFICES ASSUME NEW n \in DOMAIN given, NEW y \in DOMAIN Entries(ps[n]),
                            Entries(ps[n])[y].kind # "overlay", EntryText(n, y) = text,
                            ~ (pnum < n \/ (pnum = n /\ next <= y))
                     PROVE  FALSE
        BY <2>1, <2>5 DEF NoneBefore
      <4>2. n \in Nat /\ pnum \in Nat /\ y \in Nat
        BY <2>3, GivenTyped, EntriesTyped
      <4>3. Seen(n, y)
        BY <2>3, <4>1, <4>2 DEF Seen
      <4>4. PICK r \in KeptDecls : TextOf(r) = text
        BY <4>1, <4>3 DEF DeclsMeant
      <4>5. QED
        BY <2>7, <4>4 DEF DeclInv
    <3>3. (\A r : TextOf(r)' = TextOf(r)) /\ \A n, x : EntryText(n, x)' = EntryText(n, x)
      BY <2>3 DEF TextOf, EntryText
    <3>4. \A r, x : NoneBefore(r, x)' <=> NoneBefore(r, x)
      BY <1>1, <2>3, <3>3 DEF NoneBefore
    <3>5. new.pnum = pnum /\ new.entry = Entries(ps[pnum])[next]
      BY <2>1, <2>4
    <3>6. QED
      BY <1>1, <2>3, <2>4, <3>1, <3>2, <3>4, <3>5 DEF FirstInv
  <2>8. QED
    BY <2>6, <2>7
<1>5. CASE AddOverlay
  <2>1. /\ UNCHANGED ps
        /\ \A id \in DOMAIN overlays' :
             overlays'[id] = IF id \in DOMAIN overlays THEN overlays[id] ELSE <<>>
    BY <1>5 DEF AddOverlay
  <2>2. KeptDecls' \subseteq KeptDecls
    <3>1. \A id \in DOMAIN overlays' \ DOMAIN overlays : DOMAIN overlays'[id] = {}
      BY <2>1
    <3>2. QED
      BY <2>1, <3>1 DEF KeptDecls
  <2>3. QED
    BY <1>2, <2>1, <2>2
<1>6. CASE AddType \/ EndKind \/ AddTypedef \/ EndTypedefs
  <2>1. at \notin {"decls", "done"} /\ UNCHANGED overlays
    BY <1>6 DEF AddType, EndKind, AddTypedef, EndTypedefs, Kinds
  <2>2. QED
    BY <1>3, <2>1
<1>7. CASE EndDecls \/ UNCHANGED vars
  <2>1. UNCHANGED <<ps, overlays>>
    BY <1>7 DEF EndDecls, vars
  <2>2. KeptDecls' = KeptDecls
    BY <2>1 DEF KeptDecls
  <2>3. QED
    BY <1>2, <2>1, <2>2
<1>8. QED
  BY <1>4, <1>5, <1>6, <1>7 DEF Next

-----------------------------------------------------------------------------
(* Nothing is lost in a merge, of any number of files: each type has one   *)
(* in the result that reads the same in its own file, each typedef,        *)
(* variable and function one that reads the same in the end.               *)
THEOREM NothingIsLost == Spec => []NothingLost
<1> DEFINE Meant == MadeInv /\ TextsMeant
           IInv == Shape /\ DeclInv /\ TypedefsMeant /\ DeclsMeant /\ (PlainTags => TagInv /\ Meant)
<1>1. Init => IInv
  BY ShapeInit, DeclInvInit, TagsInit, MeantInit
<1>2. IInv /\ [Next]_vars => IInv'
  <2>1. [Next]_vars => given' = given
    BY DEF Next, vars
  <2>2. QED
    BY <2>1, ShapeStep, DeclInvStep, TypedefsMeantStep, DeclsMeantStep, TagsStep, MadeStep, MeantStep,
       PlainTagsKept
<1>3. IInv => NothingLost
  <2> SUFFICES ASSUME Shape, DeclInv, TypedefsMeant, DeclsMeant, TagInv, TextsMeant, at = "done"
               PROVE  NothingLost
    BY DEF NothingLost
  <2>1. DOMAIN ps = DOMAIN given /\ \A n \in DOMAIN given : ps[n].typedefs = given[n].typedefs
    BY GivenTyped DEF Shape
  <2>2. ASSUME NEW t \in AllTypes PROVE \E u \in kept : OwnText(u) = OwnText(t)
    <3>1. t \in added
      BY DEF TagInv, Order, Passed
    <3>2. QED
      BY <3>1 DEF TextsMeant
  <2>3. ASSUME NEW n \in DOMAIN ps, NEW x \in DOMAIN ps[n].typedefs
        PROVE  \E z \in DOMAIN typedefs :
                 SameDecl(n, ps[n].typedefs[x], typedefs[z][1], ps[typedefs[z][1]].typedefs[typedefs[z][2]])
    <3>1. PICK t : t = <<n, x>>
      OBVIOUS
    <3>2. t \in TypedefPlaces /\ TypedefDone(t)
      BY <2>1, <3>1 DEF TypedefPlaces, TypedefDone
    <3>3. PICK z \in DOMAIN typedefs : TypedefText(typedefs[z]) = TypedefText(t)
      BY <3>2 DEF TypedefsMeant
    <3>4. SameDecl(n, ps[n].typedefs[x], typedefs[z][1], ps[typedefs[z][1]].typedefs[typedefs[z][2]])
      BY <3>1, <3>3 DEF SameDecl, TypedefText, DeclText
    <3>5. QED
      BY <3>4
  <2>4. ASSUME NEW n \in DOMAIN ps, NEW x \in DOMAIN Entries(ps[n]), NEW e, e = Entries(ps[n])[x],
               e.kind # "overlay"
        PROVE  \E r \in KeptDecls : /\ r.entry.kind = e.kind
                 /\ SameDecl(n, DeclOf(ps[n], e), r.pnum, DeclOf(ps[r.pnum], r.entry))
    <3>1. Seen(n, x)
      BY DEF Seen
    <3>2. PICK r \in KeptDecls : TextOf(r) = EntryText(n, x)
      BY <2>1, <2>4, <3>1 DEF DeclsMeant
    <3>3. EntryText(n, x) = DeclText(ps[n], e.kind, DeclOf(ps[n], e))
      BY <2>4 DEF EntryText, TextOf
    <3>4. r.entry.kind = e.kind /\ SameDecl(n, DeclOf(ps[n], e), r.pnum, DeclOf(ps[r.pnum], r.entry))
      BY <3>2, <3>3 DEF SameDecl, TextOf, DeclText
    <3>5. QED
      BY <3>4
  <2>5. \A n \in DOMAIN ps : \A e \in {Entries(ps[n])[x] : x \in DOMAIN Entries(ps[n])} :
          e.kind # "overlay" =>
            \E r \in KeptDecls : /\ r.entry.kind = e.kind
              /\ SameDecl(n, DeclOf(ps[n], e), r.pnum, DeclOf(ps[r.pnum], r.entry))
    BY <2>4
  <2>6. QED
    BY <2>2, <2>3, <2>5 DEF NothingLost
<1>4. QED
  BY <1>1, <1>2, <1>3, PTL DEF Spec

(* The declarations of the parsers are the entries that are no overlays.   *)
LEMMA AllDeclsAre ==
  ASSUME Shape
  PROVE  /\ \A r \in AllDecls :
              /\ r.pnum \in DOMAIN given /\ r = [pnum |-> r.pnum, entry |-> r.entry]
              /\ r.entry \in EntriesIn(ps[r.pnum]) /\ r.entry.kind \in {"var", "func"}
         /\ \A n \in DOMAIN given : \A e \in EntriesIn(ps[n]) :
              e.kind \in {"var", "func"} => [pnum |-> n, entry |-> e] \in AllDecls
<1> DEFINE Ovs == [id : Nat, vars : Seq(Decls), funcs : Seq(Decls)]
<1>1. ASSUME NEW n \in DOMAIN given, NEW o \in DOMAIN given[n].overlays
      PROVE  /\ ps[n].overlays = given[n].overlays /\ given[n].overlays[o].id \in Nat
             /\ DOMAIN given[n].overlays[o].vars \subseteq Nat
             /\ DOMAIN given[n].overlays[o].funcs \subseteq Nat
  <2>1. given[n].overlays \in Seq(Ovs) /\ ps[n].overlays = given[n].overlays
    BY GivenTyped DEF Shape, Parsers
  <2>2. given[n].overlays[o] \in Ovs
    <3> HIDE DEF Ovs
    <3>1. QED
      BY <2>1
  <2>3. given[n].overlays[o].vars \in Seq(Decls) /\ given[n].overlays[o].funcs \in Seq(Decls)
    BY <2>2
  <2>4. QED
    BY <2>1, <2>2, <2>3
<1>2. ASSUME NEW n \in DOMAIN given, NEW o \in DOMAIN given[n].overlays, NEW r \in DeclsIn(n, o)
      PROVE  /\ r.pnum \in DOMAIN given /\ r = [pnum |-> r.pnum, entry |-> r.entry]
             /\ r.entry \in EntriesIn(ps[r.pnum]) /\ r.entry.kind \in {"var", "func"}
  <2>1. PICK kind \in {"var", "func"}, x \in Nat :
          /\ r = [pnum |-> n, entry |-> Entry(o, kind, x, given[n].overlays[o].id)]
          /\ kind = "var" => x \in DOMAIN given[n].overlays[o].vars
          /\ kind = "func" => x \in DOMAIN given[n].overlays[o].funcs
    BY <1>1, <1>2 DEF DeclsIn
  <2>2. r.pnum = n /\ r.entry = [overlay |-> o, kind |-> kind, place |-> x, id |-> given[n].overlays[o].id]
    BY <2>1 DEF Entry
  <2>3. r.entry \in EntriesIn(ps[n])
    BY <1>1, <2>1, <2>2 DEF EntriesIn
  <2>4. QED
    BY <2>1, <2>2, <2>3
<1>3. ASSUME NEW n \in DOMAIN given, NEW e \in EntriesIn(ps[n]), e.kind \in {"var", "func"}
      PROVE  [pnum |-> n, entry |-> e] \in AllDecls
  <2>1. PICK o : o = e.overlay
    OBVIOUS
  <2>2. /\ ps[n].overlays = given[n].overlays /\ o \in DOMAIN given[n].overlays
        /\ e = Entry(o, e.kind, e.place, given[n].overlays[o].id)
        /\ e.kind = "var" => e.place \in DOMAIN given[n].overlays[o].vars
        /\ e.kind = "func" => e.place \in DOMAIN given[n].overlays[o].funcs
    BY <1>3, <2>1 DEF EntriesIn, Entry, Shape
  <2>3. [pnum |-> n, entry |-> e] \in DeclsIn(n, o)
    BY <1>3, <2>2 DEF DeclsIn
  <2>4. QED
    BY <2>2, <2>3 DEF AllDecls
<1>4. QED
  BY <1>2, <1>3 DEF AllDecls

(* Which entry comes first can be told from the entries.                   *)
LEMMA PlacesTell ==
  ASSUME Shape, NEW n \in DOMAIN given, NEW x \in DOMAIN Entries(ps[n]), NEW y \in DOMAIN Entries(ps[n]),
         Entries(ps[n])[x].kind = Entries(ps[n])[y].kind
  PROVE  Precedes(given[n], Entries(ps[n])[x], Entries(ps[n])[y]) <=> x < y
<1>1. PICK s : s = Entries(ps[n])
  OBVIOUS
<1>2. given[n].overlays = ps[n].overlays /\ ps[n] \in Parsers /\ ps[n].overlays # <<>>
  BY GivenTyped DEF Shape, IsParser
<1>3. Sorted(given[n], s)
  <2>1. Sorted(ps[n], s)
    BY <1>1, <1>2, EntriesProperty
  <2>2. QED
    BY <1>2, <2>1 DEF Sorted, Precedes, Turn
<1>4. x \in Nat /\ y \in Nat
  BY EntriesTyped
<1>5. \A z \in DOMAIN s : s[z].place \in Nat /\ Turn(given[n], s[z].overlay) \in Int
  <2>1. Len(given[n].overlays) \in Nat /\ DOMAIN ps[n].overlays = 1 .. Len(given[n].overlays)
    <3> DEFINE Ovs == [id : Nat, vars : Seq(Decls), funcs : Seq(Decls)]
    <3>1. ps[n].overlays \in Seq(Ovs)
      BY <1>2 DEF Parsers
    <3> HIDE DEF Ovs
    <3>2. QED
      BY <1>2, <3>1
  <2>2. \A z \in DOMAIN s : s[z] \in EntriesIn(ps[n])
    BY <1>1, EntriesTyped
  <2>3. \A z \in DOMAIN s : s[z].place \in Nat /\ s[z].overlay \in 1 .. Len(given[n].overlays)
    BY <2>1, <2>2 DEF EntriesIn
  <2>4. QED
    BY <2>1, <2>3 DEF Turn
<1>6. CASE x < y
  BY <1>1, <1>3, <1>6 DEF Sorted
<1>7. CASE x = y
  BY <1>1, <1>4, <1>5, <1>7 DEF Precedes
<1>8. CASE y < x
  <2>1. Precedes(given[n], s[y], s[x])
    BY <1>1, <1>3, <1>8 DEF Sorted
  <2>2. ~ Precedes(given[n], s[x], s[y])
    BY <1>1, <1>5, <2>1 DEF Precedes
  <2>3. QED
    BY <1>1, <1>4, <1>8, <2>2
<1>9. QED
  BY <1>4, <1>6, <1>7, <1>8

-----------------------------------------------------------------------------
(* In a merge of any number of files, the result has of each declaration   *)
(* the one whose turn comes first, and no other that reads the same.       *)
THEOREM FirstsAreKept == Spec => []FirstIsKept
<1> DEFINE IInv == Shape /\ DeclInv /\ DeclsMeant /\ FirstInv
<1>1. Init => IInv
  <2>1. Init => FirstInv
    <3>1. Init => KeptDecls = {}
      BY DEF Init, KeptDecls
    <3>2. QED
      BY <3>1 DEF FirstInv
  <2>2. QED
    BY <2>1, ShapeInit, DeclInvInit, MeantInit
<1>2. IInv /\ [Next]_vars => IInv'
  BY ShapeStep, DeclInvStep, DeclsMeantStep, FirstStep
<1>3. IInv => FirstIsKept
  <2> SUFFICES ASSUME Shape, DeclInv, DeclsMeant, FirstInv, at = "done"
               PROVE  FirstIsKept
    BY DEF FirstIsKept
  <2> DEFINE Same(q, r) ==
               /\ q.entry.kind = r.entry.kind
               /\ SameDecl(q.pnum, DeclOf(ps[q.pnum], q.entry), r.pnum, DeclOf(ps[r.pnum], r.entry))
  <2>1. \A q, r : Same(q, r) <=> TextOf(q) = TextOf(r)
    BY DEF SameDecl, TextOf, DeclText
  <2> HIDE DEF Same
  <2>2. ASSUME NEW r \in AllDecls
        PROVE  \E x \in DOMAIN Entries(ps[r.pnum]) :
                 Entries(ps[r.pnum])[x] = r.entry /\ EntryText(r.pnum, x) = TextOf(r)
    <3>1. /\ r.pnum \in DOMAIN given /\ r = [pnum |-> r.pnum, entry |-> r.entry]
          /\ r.entry \in EntriesIn(ps[r.pnum])
      BY AllDeclsAre
    <3>2. PICK x \in DOMAIN Entries(ps[r.pnum]) : Entries(ps[r.pnum])[x] = r.entry
      BY <3>1, EntriesTyped DEF Lists
    <3>3. EntryText(r.pnum, x) = TextOf(r)
      BY <3>1, <3>2 DEF EntryText
    <3>4. QED
      BY <3>2, <3>3
  <2>3. ASSUME NEW r \in KeptDecls PROVE r \in AllDecls
    <3>1. \E id \in DOMAIN overlays : r \in DeclsWithId(id)
      BY DEF DeclInv, KeptDecls
    <3>2. /\ r.pnum \in DOMAIN given /\ r.entry \in EntriesIn(ps[r.pnum])
          /\ r.entry.kind \in {"var", "func"} /\ r = [pnum |-> r.pnum, entry |-> r.entry]
      BY <3>1 DEF DeclsWithId
    <3>3. QED
      BY <3>2, AllDeclsAre
  <2>4. ASSUME NEW q \in AllDecls, NEW r \in AllDecls, Same(q, r),
               NEW y \in DOMAIN Entries(ps[q.pnum]), Entries(ps[q.pnum])[y] = q.entry,
               NEW x \in DOMAIN Entries(ps[r.pnum]), Entries(ps[r.pnum])[x] = r.entry
        PROVE  Earlier(q, r) <=> q.pnum < r.pnum \/ (q.pnum = r.pnum /\ y < x)
    <3>1. q.pnum \in DOMAIN given /\ q.entry.kind = r.entry.kind
      BY <2>4, AllDeclsAre DEF Same
    <3>2. q.pnum = r.pnum => (Precedes(given[q.pnum], q.entry, r.entry) <=> y < x)
      BY <2>4, <3>1, PlacesTell
    <3>3. QED
      BY <3>2 DEF Earlier
  <2>5. ASSUME NEW r \in KeptDecls, NEW q \in AllDecls, Earlier(q, r), Same(q, r)
        PROVE  FALSE
    <3>1. r.pnum \in DOMAIN given /\ r \in AllDecls
      BY <2>3 DEF FirstInv
    <3>2. PICK x \in DOMAIN Entries(ps[r.pnum]) : Entries(ps[r.pnum])[x] = r.entry /\ NoneBefore(r, x)
      BY DEF FirstInv
    <3>3. PICK y \in DOMAIN Entries(ps[q.pnum]) :
            Entries(ps[q.pnum])[y] = q.entry /\ EntryText(q.pnum, y) = TextOf(q)
      BY <2>2
    <3>4. q.pnum \in DOMAIN given /\ q.entry.kind # "overlay" /\ TextOf(q) = TextOf(r)
      BY <2>1, <2>5, AllDeclsAre
    <3>5. r.pnum < q.pnum \/ (r.pnum = q.pnum /\ x <= y)
      BY <3>2, <3>3, <3>4 DEF NoneBefore
    <3>6. q.pnum < r.pnum \/ (q.pnum = r.pnum /\ y < x)
      BY <2>4, <2>5, <3>1, <3>2, <3>3
    <3>7. q.pnum \in Nat /\ r.pnum \in Nat /\ x \in Nat /\ y \in Nat
      BY <3>1, <3>4, GivenTyped, EntriesTyped
    <3>8. QED
      BY <3>5, <3>6, <3>7
  <2>6. ASSUME NEW r \in AllDecls, \A q \in AllDecls : ~ (Earlier(q, r) /\ Same(q, r))
        PROVE  r \in KeptDecls
    <3>1. r.pnum \in DOMAIN given /\ r = [pnum |-> r.pnum, entry |-> r.entry] /\ r.entry.kind # "overlay"
      BY AllDeclsAre
    <3>2. PICK x \in DOMAIN Entries(ps[r.pnum]) :
            Entries(ps[r.pnum])[x] = r.entry /\ EntryText(r.pnum, x) = TextOf(r)
      BY <2>2
    <3>3. PICK k \in KeptDecls : TextOf(k) = TextOf(r)
      BY <3>1, <3>2 DEF DeclsMeant, Seen
    <3>4. PICK z \in DOMAIN Entries(ps[k.pnum]) : Entries(ps[k.pnum])[z] = k.entry /\ NoneBefore(k, z)
      BY DEF FirstInv
    <3>5. k.pnum < r.pnum \/ (k.pnum = r.pnum /\ z <= x)
      BY <3>1, <3>2, <3>3, <3>4 DEF NoneBefore
    <3>6. k \in AllDecls /\ Same(k, r)
      BY <2>1, <2>3, <3>3
    <3>7. ~ (k.pnum < r.pnum \/ (k.pnum = r.pnum /\ z < x))
      BY <2>4, <2>6, <3>2, <3>4, <3>6
    <3>8. x \in Nat /\ z \in Nat /\ k.pnum \in DOMAIN given
          /\ k = [pnum |-> k.pnum, entry |-> k.entry]
      BY <3>1, <3>6, AllDeclsAre, EntriesTyped
    <3>9. k.pnum = r.pnum /\ z = x
      BY <3>5, <3>7, <3>8
    <3>10. k = r
      BY <3>1, <3>2, <3>4, <3>8, <3>9
    <3>11. QED
      BY <3>10
  <2>7. KeptDecls = {r \in AllDecls : ~ \E q \in AllDecls : Earlier(q, r) /\ Same(q, r)}
    BY <2>3, <2>5, <2>6
  <2>8. QED
    BY <2>7 DEF FirstIsKept, Same
<1>4. QED
  BY <1>1, <1>2, <1>3, PTL DEF Spec
=============================================================================
