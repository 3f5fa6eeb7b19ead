--------------------------- MODULE TypePassProofs ---------------------------
(***************************************************************************)
(* Proofs about TypePass, for every set of streams: that each definition   *)
(* finds its scaffold, that the uses of a tag agree, that what is defined  *)
(* stays as it is, that enum members are distinct, that every definition   *)
(* is there in the end and that a stream the pass is written for is        *)
(* accepted.                                                               *)
(***************************************************************************)
EXTENDS TypePass, TLAPS, FiniteSetTheorems, SequenceTheorems, WellFoundedInduction

-----------------------------------------------------------------------------
(* Lemmas about the operators.                                             *)

(* A finite set of numbers that is not empty has a last element, and       *)
(* LastOf is that element.                                                 *)
LEMMA LastOfProperty ==
  ASSUME NEW S, IsFiniteSet(S), S \subseteq Int, S # {}
  PROVE  LastOf(S) \in S /\ \A y \in S : y <= LastOf(S)
<1> DEFINE Above(x) == {y \in S : y > x}
           T == {Above(x) : x \in S}
<1>1. T \subseteq FiniteSubsetsOf(S) /\ T # {}
  <2>1. \A x \in S : Above(x) \in SUBSET S /\ IsFiniteSet(Above(x))
    BY FS_Subset
  <2>2. QED
    BY <2>1 DEF FiniteSubsetsOf
<1>2. PICK U \in T : \A V \in T : ~ (<<V, U>> \in StrictSubsetOrdering(S))
  <2>1. IsWellFoundedOn(StrictSubsetOrdering(S), FiniteSubsetsOf(S))
    BY FS_StrictSubsetOrderingWellFounded
  <2> HIDE DEF T
  <2>2. QED
    BY <1>1, <2>1, WFMin
<1>3. PICK x \in S : U = Above(x)
  BY <1>2
<1>4. \A y \in S : y <= x
  <2> SUFFICES ASSUME NEW y \in S, y > x PROVE FALSE
    OBVIOUS
  <2>1. Above(y) \subseteq U /\ y \in U /\ y \notin Above(y)
    <3>1. x \in Int /\ y \in Int /\ \A z \in S : z \in Int
      OBVIOUS
    <3>2. \A z \in S : z > y => z > x
      BY <3>1
    <3>3. ~ (y > y)
      BY <3>1
    <3>4. QED
      BY <1>3, <3>2, <3>3
  <2>2. <<Above(y), U>> \in StrictSubsetOrdering(S)
    <3>1. U \in SUBSET S /\ Above(y) \in SUBSET S /\ Above(y) # U
      BY <1>3, <2>1
    <3> HIDE DEF Above
    <3>2. QED
      BY <2>1, <3>1 DEF StrictSubsetOrdering
  <2>3. Above(y) \in T
    <3> HIDE DEF Above
    <3> QED OBVIOUS
  <2>4. QED
    BY <1>2, <2>2, <2>3
<1>5. QED
  BY <1>4 DEF LastOf

(* A set of natural numbers that is not empty has a least element.         *)
LEMMA LeastExists ==
  ASSUME NEW S, S \subseteq Nat, S # {}
  PROVE  \E x \in S : \A y \in S : x <= y
<1> DEFINE R == {p \in Nat \X Nat : p[1] < p[2]}
<1>1. IsWellFoundedOn(R, Nat)
  BY NatLessThanWellFounded DEF OpToRel
<1>2. PICK x \in S : \A y \in S : ~ (<<y, x>> \in R)
  <2> HIDE DEF R
  <2>1. QED
    BY <1>1, WFMin
<1>3. \A y \in S : x <= y
  <2> SUFFICES ASSUME NEW y \in S PROVE x <= y
    OBVIOUS
  <2>1. x \in Nat /\ y \in Nat
    OBVIOUS
  <2>2. y < x => <<y, x>> \in R
    BY <2>1
  <2> HIDE DEF R
  <2>3. ~ (y < x)
    BY <1>2, <2>2
  <2>4. QED
    BY <2>1, <2>3
<1>4. QED
  BY <1>3

(* uniqueEnum's loop ends: of the first Cardinality(enumMembers) + 1       *)
(* suffixed names one is not taken, and UniqueEnum is a name not taken.    *)
LEMMA UniqueEnumProperty ==
  ASSUME NEW name \in Seq(Nat), IsFiniteSet(enumMembers)
  PROVE  UniqueEnum(name) \in Seq(Nat) /\ UniqueEnum(name) \notin enumMembers
<1> DEFINE C == Cardinality(enumMembers)
<1>1. C \in Nat
  BY FS_CardinalityType
<1>2. FreeIndices(name) # {}
  <2> SUFFICES ASSUME FreeIndices(name) = {} PROVE FALSE
    OBVIOUS
  <2> DEFINE f == [k \in 0 .. C |-> Append(name, k)]
  <2>1. \A k \in 0 .. C : Append(name, k) \in enumMembers
    BY DEF FreeIndices
  <2>2. f \in [0 .. C -> enumMembers]
    BY <2>1
  <2>3. IsFiniteSet(0 .. C) /\ Cardinality(0 .. C) = C + 1
    BY <1>1, FS_Interval
  <2>4. f \in Injection(0 .. C, enumMembers)
    <3>1. \A k, l \in 0 .. C : Append(name, k) = Append(name, l) => k = l
      <4>1. \A k \in 0 .. C : k \in Nat
        BY <1>1
      <4>2. QED
        BY <4>1
    <3>2. QED
      BY <2>2, <3>1 DEF Injection, IsInjective
  <2>5. Cardinality(0 .. C) <= Cardinality(enumMembers)
    <3> HIDE DEF f
    <3>1. QED
      BY <2>4, FS_Injection
  <2>6. QED
    BY <1>1, <2>3, <2>5
<1>3. FreeIndices(name) \subseteq Nat
  BY <1>1 DEF FreeIndices
<1> DEFINE first == CHOOSE k \in FreeIndices(name) : \A j \in FreeIndices(name) : k <= j
<1>4. first \in FreeIndices(name)
  BY <1>2, <1>3, LeastExists
<1>5. Append(name, first) \in Seq(Nat) /\ Append(name, first) \notin enumMembers
  <2> HIDE DEF first
  <2>1. QED
    BY <1>3, <1>4 DEF FreeIndices
<1>6. QED
  BY <1>5 DEF UniqueEnum

-----------------------------------------------------------------------------
(* Type correctness.                                                       *)

Typed == TypeOK /\ syms \in Streams

(* What the assumptions say of the symbol at a position of the stream.     *)
LEMMA SymbolProperty ==
  ASSUME syms \in Streams
  PROVE  /\ Len(syms) \in Nat /\ DOMAIN syms = 1 .. Len(syms)
         /\ \A j \in 1 .. Len(syms) : IsSymbol(syms[j])
  BY StreamsAssumption

LEMMA KindProperty ==
  /\ \A class \in TagClasses : KindOf(class) \in Kinds
  /\ \A base \in TaggedBases : KindOfBase(base) \in Kinds
  BY DEF TagClasses, TaggedBases, Kinds, KindOf, KindOfBase

LEMMA ValidNameProperty ==
  \A name \in Names : ValidName[name] \in Names /\ ValidName[name] \in Seq(Nat)
  BY NamesAssumption

(* findStruct and its copies return an object of the kind and the tag, the *)
(* last one, or there is none.                                             *)
LEMMA FindTypeProperty ==
  ASSUME TypeOK, NEW kind, NEW tag, FindType(types, kind, tag) # None
  PROVE  /\ FindType(types, kind, tag) \in Tagged(types, kind, tag)
         /\ \A t \in Tagged(types, kind, tag) : t <= FindType(types, kind, tag)
<1> DEFINE S == Tagged(types, kind, tag)
<1>1. S \subseteq 0 .. fresh - 1 /\ fresh \in Nat
  BY DEF Tagged, TypeOK, Ids
<1>2. IsFiniteSet(S) /\ S \subseteq Int
  <2> HIDE DEF S
  <2>1. IsFiniteSet(0 .. fresh - 1)
    BY <1>1, FS_Interval
  <2>2. S \in SUBSET (0 .. fresh - 1)
    BY <1>1
  <2>3. IsFiniteSet(S)
    BY <2>1, <2>2, FS_Subset, Zenon
  <2>4. QED
    BY <1>1, <2>3
<1>3. S # {} /\ FindType(types, kind, tag) = LastOf(S)
  BY DEF FindType
<1>4. QED
  <2> HIDE DEF S
  <2>1. LastOf(S) \in S /\ \A t \in S : t <= LastOf(S)
    BY <1>2, <1>3, LastOfProperty
  <2>2. QED
    BY <1>3, <2>1 DEF S

(* findEmptyStruct and its copies return one of the candidates.            *)
LEMMA FindEmptyProperty ==
  ASSUME TypeOK, NEW kind, NEW tag, NEW size, Candidates(types, kind, tag, size) # {}
  PROVE  FindEmpty(types, kind, tag, size) \in Candidates(types, kind, tag, size)
<1> DEFINE S == Candidates(types, kind, tag, size)
<1>1. S \subseteq 0 .. fresh - 1 /\ fresh \in Nat
  BY DEF Candidates, Tagged, TypeOK, Ids
<1>2. IsFiniteSet(S) /\ S \subseteq Int
  <2> HIDE DEF S
  <2>1. IsFiniteSet(0 .. fresh - 1)
    BY <1>1, FS_Interval
  <2>2. S \in SUBSET (0 .. fresh - 1)
    BY <1>1
  <2>3. IsFiniteSet(S)
    BY <2>1, <2>2, FS_Subset, Zenon
  <2>4. QED
    BY <1>1, <2>3
<1>3. QED
  <2> HIDE DEF S
  <2>1. LastOf(S) \in S
    BY <1>2, LastOfProperty DEF S
  <2>2. QED
    BY <2>1 DEF S, FindEmpty

(* What parseType does to the heap: it leaves the objects alone, adds at   *)
(* most the next one, which has no fields, and returns a type bound to an  *)
(* object of the heap.                                                     *)
LEMMA ParseTypeProperty ==
  ASSUME Typed, NEW s, IsSymbol(s), IsDefn(s)
  PROVE  /\ FreshAfter(s) \in Nat
         /\ DOMAIN TypesAfter(s) = IF MakesType(s) THEN DOMAIN types \cup {fresh}
                                   ELSE DOMAIN types
         /\ DOMAIN TypesAfter(s) \subseteq 0 .. FreshAfter(s) - 1
         /\ \A t \in DOMAIN types : TypesAfter(s)[t] = types[t]
         /\ \A t \in DOMAIN TypesAfter(s) : TypesAfter(s)[t] \in Types
         /\ TypeRef(s) \in Refs
         /\ TypeRef(s).to = "tagged" => TypeRef(s).id \in DOMAIN TypesAfter(s)
<1> USE DEF Typed
<1>1. fresh \in Nat /\ DOMAIN types \subseteq 0 .. fresh - 1 /\ fresh \notin DOMAIN types
  BY DEF TypeOK, Ids
<1>2. TagOf(s) \in Names
  BY NamesAssumption, ValidNameProperty DEF TagOf, IsSymbol, IsDefn
<1>3. CASE MakesType(s)
  <2>1. s.base \in TaggedBases
    BY <1>3 DEF MakesType
  <2> DEFINE e == EmptyType(KindOfBase(s.base), TagOf(s), 0)
  <2>2. e \in Types
    <3>1. KindOfBase(s.base) \in Kinds
      BY <2>1, KindProperty
    <3>2. <<>> \in Seq(Members)
      OBVIOUS
    <3>3. QED
      BY <1>2, <3>1, <3>2 DEF EmptyType, Types
  <2>3. TypesAfter(s) = [t \in DOMAIN types \cup {fresh} |-> IF t = fresh THEN e ELSE types[t]]
    BY <1>3 DEF TypesAfter
  <2>4. FreshAfter(s) = fresh + 1
    BY <1>3 DEF FreshAfter
  <2>5. TypeRef(s) = [to |-> "tagged", id |-> fresh]
    BY <1>3, <2>1 DEF TypeRef, TaggedBases
  <2> HIDE DEF e
  <2>6. \A t \in DOMAIN types : types[t] \in Types
    BY DEF TypeOK
  <2>7. QED
    BY <1>1, <1>3, <2>2, <2>3, <2>4, <2>5, <2>6 DEF Refs
<1>4. CASE ~ MakesType(s)
  <2>1. TypesAfter(s) = types /\ FreshAfter(s) = fresh
    BY <1>4 DEF TypesAfter, FreshAfter
  <2>2. CASE s.base \in TaggedBases
    <3> DEFINE t == FindType(types, KindOfBase(s.base), TagOf(s))
    <3>1. TypeRef(s) = [to |-> "tagged", id |-> t] /\ t # None
      BY <1>4, <2>2 DEF TypeRef, MakesType, TaggedBases
    <3>2. t \in DOMAIN types
      <4>1. TypeOK
        OBVIOUS
      <4>2. t \in Tagged(types, KindOfBase(s.base), TagOf(s))
        BY <3>1, <4>1, FindTypeProperty
      <4>3. QED
        BY <4>2 DEF Tagged
    <3> HIDE DEF t
    <3>3. t \in Nat
      BY <1>1, <3>2
    <3>4. TypeRef(s) \in Refs
      BY <3>1, <3>3 DEF Refs
    <3>5. QED
      BY <1>1, <1>4, <2>1, <3>1, <3>2, <3>4 DEF TypeOK
  <2>3. CASE s.base \notin TaggedBases
    <3>1. \/ TypeRef(s) = [to |-> "typedef", id |-> boolDef]
          \/ TypeRef(s) = [to |-> "basic", id |-> 0]
      BY <2>3 DEF TypeRef
    <3>2. boolDef \in Nat
      BY DEF TypeOK
    <3>3. QED
      BY <1>1, <1>4, <2>1, <3>1, <3>2 DEF TypeOK, Refs, Ids
  <2>4. QED
    BY <2>2, <2>3
<1>5. QED
  BY <1>3, <1>4

LEMMA TypedInit == Init => Typed
<1> SUFFICES ASSUME Init PROVE Typed
  OBVIOUS
<1>1. IsFiniteSet({})
  BY FS_EmptySet
<1>2. DOMAIN types = {}
  BY DEF Init
<1>3. QED
  BY <1>1, <1>2 DEF Init, Typed, TypeOK, None

(* Appending a member to the object being filled keeps the heap typed.     *)
LEMMA AppendTyped ==
  ASSUME NEW heap, NEW t \in DOMAIN heap, \A u \in DOMAIN heap : heap[u] \in Types,
         NEW m \in Members
  PROVE  /\ DOMAIN [heap EXCEPT ![t].fields = Append(@, m)] = DOMAIN heap
         /\ DOMAIN [heap EXCEPT ![t].methods = Append(@, m)] = DOMAIN heap
         /\ \A u \in DOMAIN heap : /\ [heap EXCEPT ![t].fields = Append(@, m)][u] \in Types
                                   /\ [heap EXCEPT ![t].methods = Append(@, m)][u] \in Types
<1>1. heap[t] \in Types
  OBVIOUS
<1>2. /\ heap[t].fields \in Seq(Members) /\ heap[t].methods \in Seq(Members)
      /\ Append(heap[t].fields, m) \in Seq(Members)
      /\ Append(heap[t].methods, m) \in Seq(Members)
  BY <1>1 DEF Types
<1>3. /\ [heap[t] EXCEPT !.fields = Append(@, m)] \in Types
      /\ [heap[t] EXCEPT !.methods = Append(@, m)] \in Types
  BY <1>1, <1>2 DEF Types
<1>4. QED
  BY <1>3

(* A symbol consumed inside a tag sequence.                                *)
LEMMA HereProperty ==
  ASSUME Typed, InTag
  PROVE  IsSymbol(Here) /\ i + 1 + n \in 1 .. Len(syms)
<1>1. i + 1 + n \in 1 .. Len(syms)
  BY SymbolProperty DEF Typed, TypeOK, InTag
<1>2. QED
  BY <1>1, SymbolProperty DEF Here, Typed

(* The two outcomes of BeginTag.                                           *)
MissingScaffold == BeginTag /\ CandidatesOf(syms[i]) = {}
FoundScaffold   == BeginTag /\ CandidatesOf(syms[i]) # {}

LEMMA TypedStep == Typed /\ [Next]_vars => Typed'
<1> SUFFICES ASSUME Typed, [Next]_vars PROVE Typed'
  OBVIOUS
<1>0. syms' \in Streams /\ syms' = syms
  BY DEF Typed, Next, InitTaggedTypes, TopStep, TagStep, BadBase, BeginTag,
     ParseTypedef, BadTypedef, SkipSymbol, Finish, AddField, AddMethod, BadType,
     AddEnumMember, BadClass, PassOver, EndTag, Unreachable, Panic, vars
<1> USE DEF Typed
<1>p. ASSUME NEW why \in Panics, Panic(why) PROVE Typed'
  <2>1. pc' \in Panics /\ UNCHANGED <<made, cursor>>
    BY <1>p DEF Panic
  <2>2. pc' \notin {"init", "top", "tag", "done"}
    BY <2>1 DEF Panics
  <2>3. QED
    BY <1>0, <2>1, <2>2 DEF TypeOK, made, cursor, Ids
<1>1. CASE InitTaggedTypes
  <2>1. DOMAIN types' = {0} \cup Scaffolds /\ Scaffolds \subseteq 1 .. Len(syms)
    BY <1>1, SymbolProperty DEF InitTaggedTypes, Scaffolds
  <2>2. ASSUME NEW t \in DOMAIN types' PROVE types'[t] \in Types
    <3>1. <<>> \in Seq(Members)
      OBVIOUS
    <3>2. CASE t = 0
      <4>1. types'[t] = EmptyType("struct", VtblTag, 0)
        BY <1>1, <2>1, <3>2 DEF InitTaggedTypes
      <4>2. VtblTag \in Names
        BY NamesAssumption
      <4>3. QED
        BY <3>1, <4>1, <4>2 DEF EmptyType, Types, Kinds
    <3>3. CASE t # 0
      <4>1. t \in Scaffolds /\ IsSymbol(syms[t]) /\ IsTagDef(syms[t])
        BY <2>1, <2>2, <3>3, SymbolProperty DEF Scaffolds
      <4> DEFINE kind == KindOf(syms[t].class)
                 tag == ValidName[syms[t].name]
      <4>2. types'[t] = EmptyType(kind, tag, SizeOf(syms[t]))
        BY <1>1, <2>1, <2>2, <3>3 DEF InitTaggedTypes
      <4>3. kind \in Kinds
        BY <4>1, KindProperty DEF IsTagDef
      <4>4. syms[t].name \in Names /\ syms[t].size \in Nat
        BY <4>1 DEF IsSymbol, IsTagDef, IsDefn
      <4>5. tag \in Names /\ SizeOf(syms[t]) \in Nat
        BY <4>4, ValidNameProperty DEF SizeOf
      <4> HIDE DEF kind, tag
      <4>6. QED
        BY <3>1, <4>2, <4>3, <4>5 DEF EmptyType, Types
    <3>4. QED
      BY <3>2, <3>3
  <2>3. /\ fresh' = Len(syms) + 1 /\ pc' = "top" /\ pc = "init"
        /\ UNCHANGED <<typedefs, boolDef, enumMembers, i, n, cur>>
    BY <1>1 DEF InitTaggedTypes, cursor
  <2>4. fresh' \in Nat /\ DOMAIN types' \subseteq 0 .. fresh' - 1
    BY <2>1, <2>3, SymbolProperty
  <2>5. QED
    BY <1>0, <2>2, <2>3, <2>4 DEF TypeOK, Ids
<1>2. CASE BadBase
  BY <1>2, <1>p DEF BadBase, Panics
<1>3. CASE MissingScaffold
  BY <1>3, <1>p DEF MissingScaffold, BeginTag, Panics
<1>4. CASE FoundScaffold
  <2>1. /\ CandidatesOf(syms[i]) # {} /\ n' = 0 /\ pc' = "tag"
        /\ cur' = FindEmpty(types, KindOf(syms[i].class), ValidName[syms[i].name], SizeOf(syms[i]))
        /\ UNCHANGED <<types, fresh, typedefs, boolDef, enumMembers, i>>
    BY <1>4 DEF FoundScaffold, BeginTag, made
  <2>2. cur' \in CandidatesOf(syms[i])
    BY <2>1, FindEmptyProperty DEF CandidatesOf
  <2>3. cur' \in DOMAIN types
    BY <2>2 DEF CandidatesOf, Candidates, Tagged
  <2>4. QED
    BY <1>0, <2>1, <2>3 DEF TypeOK, Ids
<1>5. CASE ParseTypedef
  <2> DEFINE s == syms[i]
             d == [at |-> i, name |-> ValidName[s.name], ref |-> TypeRef(s)]
  <2>1. /\ AtTypedef /\ types' = TypesAfter(s) /\ fresh' = FreshAfter(s)
        /\ typedefs' = Append(typedefs, d) /\ i' = i + 1
        /\ boolDef' = IF ValidName[s.name] = BoolName THEN Len(typedefs) + 1 ELSE boolDef
        /\ UNCHANGED <<enumMembers, n, cur, pc>>
    BY <1>5 DEF ParseTypedef
  <2>2. IsSymbol(s) /\ IsDefn(s)
    BY <2>1, SymbolProperty DEF AtTypedef, AtTop, TypeOK
  <2>3. s.name \in Names /\ pc = "top"
    BY <2>1, <2>2 DEF IsSymbol, AtTypedef, AtTop
  <2>4. d \in Members
    BY <2>2, <2>3, ValidNameProperty, ParseTypeProperty DEF Members, TypeOK
  <2>5. typedefs \in Seq(Members)
    BY DEF TypeOK
  <2>6. typedefs' \in Seq(Members) /\ Len(typedefs') = Len(typedefs) + 1 /\ Len(typedefs) \in Nat
    <3> HIDE DEF d
    <3>1. QED
      BY <2>1, <2>4, <2>5
  <2>7. boolDef' \in 0 .. Len(typedefs')
    BY <2>1, <2>6 DEF TypeOK
  <2>8. /\ fresh' \in Nat /\ DOMAIN types' \subseteq 0 .. fresh' - 1
        /\ \A t \in DOMAIN types' : types'[t] \in Types
    BY <2>1, <2>2, ParseTypeProperty
  <2>9. QED
    <3> HIDE DEF d, s
    <3>1. QED
      BY <1>0, <2>1, <2>3, <2>6, <2>7, <2>8 DEF TypeOK, Ids
<1>6. CASE BadTypedef
  BY <1>6, <1>p DEF BadTypedef, Panics
<1>7. CASE SkipSymbol
  BY <1>0, <1>7 DEF SkipSymbol, TypeOK, made, Ids
<1>8. CASE Finish
  BY <1>0, <1>8 DEF Finish, TypeOK, made, cursor, Ids
<1>9. ASSUME InTag, HasType(CurKind, Here), IsSymbol(Here), IsDefn(Here),
             fresh' = FreshAfter(Here), n' = n + 1,
             NEW m, m = Member(Here, ValidName[Here.name], TypeRef(Here)),
             \/ types' = [TypesAfter(Here) EXCEPT ![cur].fields = Append(@, m)]
             \/ types' = [TypesAfter(Here) EXCEPT ![cur].methods = Append(@, m)],
             UNCHANGED <<typedefs, boolDef, enumMembers, i, cur, pc>>
      PROVE  Typed'
  <2>1. pc = "tag" /\ cur \in DOMAIN TypesAfter(Here)
    BY <1>9, ParseTypeProperty DEF InTag, TypeOK
  <2>2. m \in Members
    <3>1. Here.name \in Names /\ TypeRef(Here) \in Refs
      BY <1>9, ParseTypeProperty DEF IsSymbol
    <3>2. i + 1 + n \in Nat
      BY DEF TypeOK
    <3>3. QED
      BY <1>9, <3>1, <3>2, ValidNameProperty DEF Member, Members
  <2>3. /\ DOMAIN types' = DOMAIN TypesAfter(Here)
        /\ \A t \in DOMAIN types' : types'[t] \in Types
    <3> DEFINE heap == TypesAfter(Here)
    <3>1. \A u \in DOMAIN heap : heap[u] \in Types
      BY <1>9, ParseTypeProperty
    <3>2. \/ types' = [heap EXCEPT ![cur].fields = Append(@, m)]
          \/ types' = [heap EXCEPT ![cur].methods = Append(@, m)]
      BY <1>9
    <3>3. cur \in DOMAIN heap
      BY <2>1
    <3> HIDE DEF heap
    <3>4. DOMAIN types' = DOMAIN heap /\ \A u \in DOMAIN heap : types'[u] \in Types
      BY <2>2, <3>1, <3>2, <3>3, AppendTyped
    <3>5. QED
      BY <3>4 DEF heap
  <2>4. fresh' \in Nat /\ DOMAIN types' \subseteq 0 .. fresh' - 1
    BY <1>9, <2>3, ParseTypeProperty
  <2>5. QED
    BY <1>0, <1>9, <2>1, <2>3, <2>4, SMTT(30) DEF TypeOK, Ids, InTag
<1>10. CASE AddField
  <2>1. IsDefn(Here) /\ HasType(CurKind, Here)
    BY <1>10 DEF AddField, HasType, IsField, IsStructField, IsUnionField
  <2>2. QED
    BY <1>9, <1>10, <2>1, HereProperty DEF AddField
<1>11. CASE AddMethod
  <2>1. IsDefn(Here) /\ HasType(CurKind, Here)
    BY <1>11 DEF AddMethod, HasType, IsMethod, IsDefn
  <2>2. QED
    BY <1>9, <1>11, <2>1, HereProperty DEF AddMethod
<1>12. CASE BadType
  BY <1>12, <1>p DEF BadType, Panics
<1>13. CASE AddEnumMember
  <2> DEFINE name == UniqueEnum(ValidName[Here.name])
             m == Member(Here, name, [to |-> "basic", id |-> 0])
  <2>1. /\ InTag /\ types' = [types EXCEPT ![cur].fields = Append(@, m)]
        /\ enumMembers' = enumMembers \cup {name} /\ n' = n + 1 /\ IsEnumMember(Here)
        /\ UNCHANGED <<fresh, typedefs, boolDef, i, cur, pc>>
    BY <1>13 DEF AddEnumMember
  <2>2. name \in Seq(Nat)
    <3>1. Here.name \in Names
      BY <2>1, HereProperty DEF IsSymbol, IsEnumMember, IsDefn
    <3>2. QED
      BY <3>1, ValidNameProperty, UniqueEnumProperty DEF TypeOK
  <2> HIDE DEF name
  <2>3. m \in Members
    BY <2>2 DEF Member, Members, Refs, TypeOK
  <2>4. cur \in DOMAIN types /\ \A t \in DOMAIN types : types[t] \in Types
    BY <2>1 DEF InTag, TypeOK
  <2>5. DOMAIN types' = DOMAIN types /\ \A t \in DOMAIN types' : types'[t] \in Types
    <3> HIDE DEF m
    <3>1. QED
      BY <2>1, <2>3, <2>4, AppendTyped
  <2>6. enumMembers' \subseteq Seq(Nat) /\ IsFiniteSet(enumMembers')
    <3>1. IsFiniteSet(enumMembers \cup {name})
      BY FS_AddElement DEF TypeOK
    <3>2. QED
      BY <2>1, <2>2, <3>1 DEF TypeOK
  <2>7. QED
    <3> HIDE DEF m
    <3>1. n' \in Nat /\ pc' = "tag" /\ cur' \in DOMAIN types'
      BY <2>1, <2>4, <2>5 DEF TypeOK, InTag
    <3>2. fresh' \in Nat /\ DOMAIN types' \subseteq 0 .. fresh' - 1
      BY <2>1, <2>5 DEF TypeOK, Ids
    <3>3. /\ typedefs' \in Seq(Members) /\ boolDef' \in 0 .. Len(typedefs')
          /\ i' \in Nat \ {0}
      BY <2>1 DEF TypeOK
    <3>4. QED
      BY <1>0, <2>5, <2>6, <3>1, <3>2, <3>3 DEF TypeOK, Ids
<1>14. CASE BadClass
  BY <1>14, <1>p DEF BadClass, Panics
<1>15. CASE PassOver
  BY <1>0, <1>15 DEF PassOver, TypeOK, made, Ids
<1>16. CASE EndTag
  BY <1>0, <1>16 DEF EndTag, TypeOK, made, Ids, InTag
<1>17. CASE Unreachable
  BY <1>17, <1>p DEF Unreachable, Panics
<1>18. CASE UNCHANGED vars
  BY <1>0, <1>18 DEF vars, made, cursor, TypeOK, Ids
<1>19. QED
  BY <1>1, <1>2, <1>3, <1>4, <1>5, <1>6, <1>7, <1>8, <1>10, <1>11, <1>12, <1>13, <1>14,
     <1>15, <1>16, <1>17, <1>18 DEF Next, TopStep, TagStep, MissingScaffold, FoundScaffold

(* The state of ParseTypes keeps its shape over every stream.              *)
THEOREM TypeCorrect == Spec => []TypeOK
<1>1. Init => Typed
  BY TypedInit
<1>2. Typed /\ [Next]_vars => Typed'
  BY TypedStep
<1>3. Typed => TypeOK
  BY DEF Typed
<1>4. QED
  BY <1>1, <1>2, <1>3, PTL DEF Spec

-----------------------------------------------------------------------------
(* No definition is left without a scaffold.  "An object is there" is not  *)
(* inductive: taking one object away may leave another definition of the   *)
(* same key without.  EnoughScaffolds counts them.                         *)

IInv == Typed /\ EnoughScaffolds /\ ScaffoldNeverMissing

FiniteCounts ==
  \A j : /\ IsFiniteSet(CandidatesOf(syms[j])) /\ IsFiniteSet(Open(j))
         /\ IsFiniteSet(Pending(j))
         /\ Cardinality(Open(j)) \in Nat /\ Cardinality(Pending(j)) \in Nat

LEMMA OpenPendingFinite == Typed => FiniteCounts
<1> SUFFICES ASSUME Typed, NEW j
             PROVE  /\ IsFiniteSet(CandidatesOf(syms[j])) /\ IsFiniteSet(Open(j))
                    /\ IsFiniteSet(Pending(j))
                    /\ Cardinality(Open(j)) \in Nat /\ Cardinality(Pending(j)) \in Nat
  BY DEF FiniteCounts
<1>1. IsFiniteSet(0 .. fresh - 1) /\ IsFiniteSet(1 .. Len(syms))
  BY FS_Interval, SymbolProperty DEF Typed, TypeOK
<1>2. CandidatesOf(syms[j]) \in SUBSET (0 .. fresh - 1) /\ Open(j) \in SUBSET (0 .. fresh - 1)
  BY DEF Open, CandidatesOf, Candidates, Tagged, Typed, TypeOK, Ids
<1>3. Pending(j) \in SUBSET (1 .. Len(syms))
  BY SymbolProperty DEF Pending, Scaffolds, Typed
<1>4. /\ IsFiniteSet(CandidatesOf(syms[j])) /\ IsFiniteSet(Open(j)) /\ IsFiniteSet(Pending(j))
  BY <1>1, <1>2, <1>3, FS_Subset, Zenon
<1>5. QED
  BY <1>4, FS_CardinalityType

(* A step that leaves the objects other than cur alone and does not go     *)
(* back in the stream keeps the count.                                     *)
LEMMA StepKeepsEnough ==
  ASSUME Typed, EnoughScaffolds, Typed', syms' = syms,
         pc \in {"top", "tag"}, pc' \in {"top", "tag"},
         NextTop <= NextTop', cur' \in {cur, None},
         \A t \in DOMAIN types : t # cur => t \in DOMAIN types' /\ types'[t] = types[t]
  PROVE  EnoughScaffolds'
<1> SUFFICES ASSUME NEW j \in Scaffolds, j >= NextTop'
             PROVE  (Cardinality(Open(j)) >= Cardinality(Pending(j)))'
  BY DEF EnoughScaffolds, Scaffolds
<1>1. NextTop \in Nat /\ NextTop' \in Nat /\ j \in Nat
  <2>1. i \in Nat /\ i' \in Nat
    BY DEF Typed, TypeOK
  <2>2. j \in Nat
    BY SymbolProperty DEF Typed, Scaffolds
  <2>3. NextTop \in {i, i + 1} /\ NextTop' \in {i', i' + 1}
    BY DEF NextTop
  <2>4. QED
    BY <2>1, <2>2, <2>3
<1>2. Cardinality(Open(j)) >= Cardinality(Pending(j))
  BY <1>1 DEF EnoughScaffolds
<1>3. Pending(j)' \in SUBSET Pending(j)
  <2> SUFFICES ASSUME NEW k \in Pending(j)' PROVE k \in Pending(j)
    OBVIOUS
  <2>1. k \in Scaffolds /\ k >= NextTop' /\ SameKey(j, k)
    BY DEF Pending, Scaffolds, SameKey
  <2>2. k \in Nat
    BY <2>1, SymbolProperty DEF Scaffolds, Typed
  <2>3. QED
    BY <1>1, <2>1, <2>2 DEF Pending
<1>4. Open(j) \in SUBSET Open(j)'
  <2> SUFFICES ASSUME NEW t \in Open(j) PROVE t \in Open(j)'
    OBVIOUS
  <2>1. t \in DOMAIN types /\ t # cur /\ t # None
    BY DEF Open, CandidatesOf, Candidates, Tagged, Typed, TypeOK, Ids, None
  <2>2. t \in DOMAIN types' /\ types'[t] = types[t] /\ t # cur'
    BY <2>1
  <2>3. QED
    BY <2>2 DEF Open, CandidatesOf, Candidates, Tagged
<1>5. /\ IsFiniteSet(Pending(j)) /\ Cardinality(Pending(j)) \in Nat
      /\ Cardinality(Open(j)) \in Nat
  BY OpenPendingFinite DEF FiniteCounts
<1>6. /\ IsFiniteSet(Open(j)') /\ Cardinality(Open(j)') \in Nat
      /\ Cardinality(Pending(j)') \in Nat
  <2>1. (Typed => FiniteCounts)'
    BY OpenPendingFinite, PTL
  <2>2. QED
    BY <2>1 DEF FiniteCounts
<1>7. Cardinality(Pending(j)') <= Cardinality(Pending(j))
  BY <1>3, <1>5, FS_Subset
<1>8. Cardinality(Open(j)) <= Cardinality(Open(j)')
  BY <1>4, <1>6, FS_Subset
<1>9. QED
  BY <1>2, <1>5, <1>6, <1>7, <1>8

(* After initTaggedTypes every definition to come has its own scaffold.    *)
LEMMA ScaffoldsEnough ==
  ASSUME Typed, Typed', InitTaggedTypes
  PROVE  EnoughScaffolds'
<1>1. /\ pc' = "top" /\ syms' = syms /\ cur' = None /\ i' = i
      /\ types' = [t \in {0} \cup Scaffolds |->
                     IF t = 0 THEN EmptyType("struct", VtblTag, 0)
                     ELSE EmptyType(KindOf(syms[t].class), ValidName[syms[t].name],
                                    SizeOf(syms[t]))]
  BY DEF InitTaggedTypes, cursor, Typed, TypeOK
<1>2. \A k \in Scaffolds : k \in Nat /\ k # 0 /\ k # None
  BY SymbolProperty DEF Scaffolds, Typed, None
<1> SUFFICES ASSUME NEW j \in Scaffolds
             PROVE  (Cardinality(Open(j)) >= Cardinality(Pending(j)))'
  BY <1>1 DEF EnoughScaffolds, Scaffolds
<1>3. Pending(j)' \in SUBSET Open(j)'
  <2> SUFFICES ASSUME NEW k \in Pending(j)' PROVE k \in Open(j)'
    OBVIOUS
  <2>1. k \in Scaffolds /\ SameKey(j, k)
    BY <1>1 DEF Pending, Scaffolds, SameKey
  <2>2. types'[k] = EmptyType(KindOf(syms[j].class), ValidName[syms[j].name], SizeOf(syms[j]))
    BY <1>1, <1>2, <2>1 DEF SameKey
  <2>3. k \in DOMAIN types' /\ k # cur'
    BY <1>1, <1>2, <2>1
  <2>4. QED
    BY <1>1, <2>2, <2>3 DEF Open, CandidatesOf, Candidates, Tagged, EmptyType
<1>4. (Typed => FiniteCounts)'
  BY OpenPendingFinite, PTL
<1>5. /\ IsFiniteSet(Open(j)') /\ Cardinality(Open(j)') \in Nat
      /\ Cardinality(Pending(j)') \in Nat
  BY <1>4 DEF FiniteCounts
<1>6. QED
  BY <1>3, <1>5, FS_Subset

(* Starting a definition takes one object and one pending definition of    *)
(* the same key away, and of every other key no object.                    *)
LEMMA BeginTagKeepsEnough ==
  ASSUME Typed, EnoughScaffolds, Typed', FoundScaffold
  PROVE  EnoughScaffolds'
<1>1. /\ pc = "top" /\ pc' = "tag" /\ i' = i /\ syms' = syms /\ types' = types
      /\ i \in Scaffolds /\ CandidatesOf(syms[i]) # {}
      /\ cur' = FindEmpty(types, KindOf(syms[i].class), ValidName[syms[i].name], SizeOf(syms[i]))
  <2>1. i \in 1 .. Len(syms) /\ IsTagDef(syms[i])
    BY DEF FoundScaffold, BeginTag, AtTagDef, AtTop, Typed, TypeOK
  <2>2. QED
    BY <2>1, SymbolProperty DEF FoundScaffold, BeginTag, AtTagDef, AtTop, made, Scaffolds, Typed
<1>2. cur' \in CandidatesOf(syms[i])
  BY <1>1, FindEmptyProperty DEF CandidatesOf, Typed
<1>3. NextTop = i /\ NextTop' = i + 1 /\ i \in Nat
  BY <1>1 DEF NextTop, Typed, TypeOK
<1> SUFFICES ASSUME NEW j \in Scaffolds, j >= i + 1
             PROVE  (Cardinality(Open(j)) >= Cardinality(Pending(j)))'
  BY <1>1, <1>3 DEF EnoughScaffolds, Scaffolds
<1>4. j \in Nat
  BY SymbolProperty DEF Scaffolds, Typed
<1>5. Cardinality(Open(j)) >= Cardinality(Pending(j))
  BY <1>1, <1>3, <1>4 DEF EnoughScaffolds
<1>6. /\ Open(j) \in SUBSET CandidatesOf(syms[j])
      /\ Open(j)' = CandidatesOf(syms[j]) \ {cur'}
  BY <1>1 DEF Open, CandidatesOf, Candidates, Tagged
<1>7. Pending(j)' = Pending(j) \ {i}
  <2>1. Pending(j)' = {k \in Scaffolds : k >= i + 1 /\ SameKey(j, k)}
    BY <1>1, <1>3 DEF Pending, Scaffolds, SameKey
  <2>2. Pending(j) = {k \in Scaffolds : k >= i /\ SameKey(j, k)}
    BY <1>3 DEF Pending
  <2>3. \A k \in Scaffolds : k \in Nat /\ (k >= i + 1 <=> k >= i /\ k # i)
    <3>1. \A k \in Scaffolds : k \in Nat
      BY SymbolProperty DEF Scaffolds, Typed
    <3>2. QED
      BY <1>3, <3>1
  <2>4. QED
    BY <2>1, <2>2, <2>3
<1>8. /\ IsFiniteSet(CandidatesOf(syms[j])) /\ Cardinality(Open(j)) \in Nat
      /\ IsFiniteSet(Pending(j)) /\ Cardinality(Pending(j)) \in Nat
      /\ Cardinality(CandidatesOf(syms[j])) \in Nat
  BY OpenPendingFinite, FS_CardinalityType DEF FiniteCounts
<1>9. Cardinality(Open(j)) <= Cardinality(CandidatesOf(syms[j]))
  BY <1>6, <1>8, FS_Subset
<1>10. /\ Cardinality(Open(j)') = IF cur' \in CandidatesOf(syms[j])
                                  THEN Cardinality(CandidatesOf(syms[j])) - 1
                                  ELSE Cardinality(CandidatesOf(syms[j]))
       /\ Cardinality(Pending(j)') = IF i \in Pending(j) THEN Cardinality(Pending(j)) - 1
                                     ELSE Cardinality(Pending(j))
  <2> DEFINE C == CandidatesOf(syms[j])
             P == Pending(j)
  <2>1. IsFiniteSet(C) /\ IsFiniteSet(P)
    BY <1>8
  <2> HIDE DEF C, P
  <2>2. Cardinality(C \ {cur'}) = IF cur' \in C THEN Cardinality(C) - 1 ELSE Cardinality(C)
    BY <2>1, FS_RemoveElement
  <2>3. Cardinality(P \ {i}) = IF i \in P THEN Cardinality(P) - 1 ELSE Cardinality(P)
    BY <2>1, FS_RemoveElement
  <2>4. QED
    BY <1>6, <1>7, <2>2, <2>3 DEF C, P
<1>11. CASE SameKey(j, i)
  <2>1. i \in Pending(j)
    BY <1>1, <1>3, <1>11 DEF Pending
  <2>2. QED
    BY <1>5, <1>8, <1>9, <1>10, <2>1
<1>12. CASE ~ SameKey(j, i)
  <2>1. cur' \notin CandidatesOf(syms[j])
    BY <1>2, <1>12 DEF CandidatesOf, Candidates, Tagged, SameKey
  <2>2. QED
    BY <1>5, <1>8, <1>9, <1>10, <2>1
<1>13. QED
  BY <1>11, <1>12

LEMMA IInvStep == IInv /\ [Next]_vars => IInv'
<1> SUFFICES ASSUME IInv, [Next]_vars PROVE IInv'
  OBVIOUS
<1>0. Typed /\ EnoughScaffolds /\ pc # "missing" /\ Typed' /\ syms' \in Streams
  BY TypedStep DEF IInv, ScaffoldNeverMissing, Typed
<1>p. ASSUME NEW why \in Panics \ {"missing"}, Panic(why) PROVE IInv'
  <2>1. pc' \notin {"top", "tag", "missing"}
    BY <1>p DEF Panic, Panics
  <2>2. QED
    BY <1>0, <2>1 DEF IInv, EnoughScaffolds, ScaffoldNeverMissing
<1>k. ASSUME syms' = syms, pc \in {"top", "tag"}, pc' \in {"top", "tag"},
             NextTop <= NextTop', cur' \in {cur, None},
             \A t \in DOMAIN types : t # cur => t \in DOMAIN types' /\ types'[t] = types[t]
      PROVE  IInv'
  <2>1. EnoughScaffolds'
    BY <1>0, <1>k, StepKeepsEnough
  <2>2. QED
    BY <1>0, <1>k, <2>1 DEF IInv, ScaffoldNeverMissing
<1>n. i \in Nat /\ n \in Nat
  BY <1>0 DEF Typed, TypeOK
<1>1. CASE InitTaggedTypes
  BY <1>0, <1>1, ScaffoldsEnough DEF IInv, ScaffoldNeverMissing, InitTaggedTypes
<1>2. CASE BadBase
  BY <1>2, <1>p DEF BadBase, Panics
<1>3. CASE MissingScaffold
  <2>1. i \in Scaffolds /\ pc = "top" /\ CandidatesOf(syms[i]) = {}
    BY <1>0, <1>3, SymbolProperty
    DEF MissingScaffold, BeginTag, AtTagDef, AtTop, Scaffolds, Typed, TypeOK
  <2>2. Cardinality(Open(i)) >= Cardinality(Pending(i))
    BY <1>0, <1>n, <2>1 DEF EnoughScaffolds, NextTop
  <2>3. i \in Pending(i) /\ Open(i) = {}
    BY <1>n, <2>1 DEF Pending, NextTop, SameKey, Open
  <2>4. /\ IsFiniteSet(Pending(i)) /\ Cardinality(Pending(i)) \in Nat
        /\ Cardinality(Open(i)) = 0
    BY <1>0, <2>3, OpenPendingFinite, FS_EmptySet DEF FiniteCounts
  <2>5. Cardinality(Pending(i)) # 0
    BY <2>3, <2>4, FS_EmptySet
  <2>6. QED
    BY <2>2, <2>4, <2>5
<1>4. CASE FoundScaffold
  BY <1>0, <1>4, BeginTagKeepsEnough DEF IInv, ScaffoldNeverMissing, FoundScaffold, BeginTag
<1>5. CASE ParseTypedef
  <2>1. /\ AtTypedef /\ types' = TypesAfter(syms[i]) /\ i' = i + 1
        /\ UNCHANGED <<syms, cur, pc>>
    BY <1>5 DEF ParseTypedef
  <2>2. IsSymbol(syms[i]) /\ IsDefn(syms[i]) /\ pc = "top"
    BY <1>0, <2>1, SymbolProperty DEF AtTypedef, AtTop, Typed, TypeOK
  <2>3. \A t \in DOMAIN types : t \in DOMAIN types' /\ types'[t] = types[t]
    BY <1>0, <2>1, <2>2, ParseTypeProperty
  <2>4. NextTop <= NextTop'
    BY <1>n, <2>1, <2>2 DEF NextTop
  <2>5. QED
    BY <1>k, <2>1, <2>2, <2>3, <2>4
<1>6. CASE BadTypedef
  BY <1>6, <1>p DEF BadTypedef, Panics
<1>7. CASE SkipSymbol
  BY <1>k, <1>n, <1>7 DEF SkipSymbol, AtTop, NextTop, made
<1>8. CASE Finish
  BY <1>0, <1>8 DEF Finish, IInv, EnoughScaffolds, ScaffoldNeverMissing
<1>9. ASSUME InTag, IsDefn(Here), UNCHANGED <<syms, i, cur, pc>>, NEW m,
             \/ types' = [TypesAfter(Here) EXCEPT ![cur].fields = Append(@, m)]
             \/ types' = [TypesAfter(Here) EXCEPT ![cur].methods = Append(@, m)]
      PROVE  IInv'
  <2>1. IsSymbol(Here)
    BY <1>0, <1>9, HereProperty
  <2>2. \A t \in DOMAIN types : t # cur => t \in DOMAIN types' /\ types'[t] = types[t]
    BY <1>0, <1>9, <2>1, ParseTypeProperty
  <2>3. QED
    BY <1>k, <1>n, <1>9, <2>2 DEF InTag, NextTop
<1>10. CASE AddField
  BY <1>9, <1>10 DEF AddField, IsField, IsStructField, IsUnionField
<1>11. CASE AddMethod
  BY <1>9, <1>11 DEF AddMethod, IsMethod, IsDefn
<1>12. CASE BadType
  BY <1>12, <1>p DEF BadType, Panics
<1>13. CASE AddEnumMember
  BY <1>k, <1>n, <1>13 DEF AddEnumMember, InTag, NextTop
<1>14. CASE BadClass
  BY <1>14, <1>p DEF BadClass, Panics
<1>15. CASE PassOver
  BY <1>k, <1>n, <1>15 DEF PassOver, InTag, NextTop, made
<1>16. CASE EndTag
  BY <1>k, <1>n, <1>16 DEF EndTag, InTag, NextTop, made
<1>17. CASE Unreachable
  BY <1>17, <1>p DEF Unreachable, Panics
<1>18. CASE UNCHANGED vars
  <2>1. UNCHANGED <<syms, types, i, cur, pc>>
    BY <1>18 DEF vars, made, cursor
  <2>2. CASE pc \in {"top", "tag"}
    BY <1>k, <1>n, <2>1, <2>2 DEF NextTop
  <2>3. CASE pc \notin {"top", "tag"}
    BY <1>0, <2>1, <2>3 DEF IInv, EnoughScaffolds, ScaffoldNeverMissing
  <2>4. QED
    BY <2>2, <2>3
<1>19. QED
  BY <1>1, <1>2, <1>3, <1>4, <1>5, <1>6, <1>7, <1>8, <1>10, <1>11, <1>12, <1>13, <1>14,
     <1>15, <1>16, <1>17, <1>18 DEF Next, TopStep, TagStep, MissingScaffold, FoundScaffold

(* For every stream of symbols, findEmptyStruct, findEmptyUnion and        *)
(* findEmptyEnum find what they assert to exist.                           *)
THEOREM ScaffoldAlwaysFound == Spec => []ScaffoldNeverMissing
<1>1. Init => IInv
  BY TypedInit DEF IInv, EnoughScaffolds, ScaffoldNeverMissing, Init
<1>2. IInv /\ [Next]_vars => IInv'
  BY IInvStep
<1>3. IInv => ScaffoldNeverMissing
  BY DEF IInv
<1>4. QED
  BY <1>1, <1>2, <1>3, PTL DEF Spec

-----------------------------------------------------------------------------
(* What the steps do to the heap.                                          *)

(* Before initTaggedTypes there is nothing.                                *)
Nothing == pc = "init" => DOMAIN types = {} /\ typedefs = <<>>

NewMember == Member(Here, ValidName[Here.name], TypeRef(Here))
NewEnumMember ==
  Member(Here, UniqueEnum(ValidName[Here.name]), [to |-> "basic", id |-> 0])

(* The steps that leave the heap, the typedefs and the enum members alone. *)
LEMMA QuietSteps ==
  ASSUME \/ BadBase \/ BeginTag \/ BadTypedef \/ SkipSymbol \/ Finish
         \/ BadType \/ BadClass \/ PassOver \/ EndTag \/ Unreachable
  PROVE  UNCHANGED <<syms, made>> /\ pc \in {"top", "tag"} /\ pc' # "init"
BY DEF BadBase, BeginTag, BadTypedef, SkipSymbol, Finish, BadType, BadClass, PassOver, EndTag,
   Unreachable, Panic, AtTagDef, AtTypedef, AtTop, InTag

LEMMA StepKinds ==
  ASSUME Next
  PROVE  \/ InitTaggedTypes
         \/ ParseTypedef
         \/ AddField \/ AddMethod
         \/ AddEnumMember
         \/ UNCHANGED <<syms, made>> /\ pc \in {"top", "tag"} /\ pc' # "init"
BY QuietSteps DEF Next, TopStep, TagStep

(* A member of a struct or union is added: the object being filled gets it *)
(* at its end, and there may be a new object for its type.                 *)
LEMMA AddMemberDoes ==
  ASSUME Typed, AddField \/ AddMethod
  PROVE  /\ pc = "tag" /\ pc' = "tag" /\ cur' = cur /\ i' = i /\ n' = n + 1
         /\ UNCHANGED <<syms, typedefs, boolDef, enumMembers>>
         /\ IsSymbol(Here) /\ IsDefn(Here) /\ i + 1 + n \in 1 .. Len(syms)
         /\ cur \in DOMAIN types /\ types[cur].kind # "enum"
         /\ fresh \notin DOMAIN types
         /\ DOMAIN types' = DOMAIN TypesAfter(Here)
         /\ \A t \in DOMAIN types' : t # cur => types'[t] = TypesAfter(Here)[t]
         /\ \/ AddField  /\ types'[cur] = [types[cur] EXCEPT !.fields = Append(@, NewMember)]
            \/ AddMethod /\ types'[cur] = [types[cur] EXCEPT !.methods = Append(@, NewMember)]
<1>1. /\ InTag /\ IsSymbol(Here) /\ i + 1 + n \in 1 .. Len(syms)
      /\ n' = n + 1 /\ UNCHANGED <<syms, typedefs, boolDef, enumMembers, i, cur, pc>>
  BY HereProperty DEF AddField, AddMethod
<1>2. pc = "tag" /\ cur \in DOMAIN types /\ fresh \notin DOMAIN types
  BY <1>1 DEF InTag, Typed, TypeOK, Ids
<1>3. IsDefn(Here) /\ CurKind # "enum"
  BY DEF AddField, AddMethod, IsField, IsStructField, IsUnionField, IsMethod, IsDefn
<1>4. cur \in DOMAIN TypesAfter(Here) /\ TypesAfter(Here)[cur] = types[cur]
  BY <1>1, <1>2, <1>3, ParseTypeProperty
<1>5. \/ AddField /\ types' = [TypesAfter(Here) EXCEPT ![cur].fields = Append(@, NewMember)]
      \/ AddMethod /\ types' = [TypesAfter(Here) EXCEPT ![cur].methods = Append(@, NewMember)]
  BY DEF AddField, AddMethod, NewMember
<1> HIDE DEF NewMember
<1>6. /\ DOMAIN types' = DOMAIN TypesAfter(Here)
      /\ \A t \in DOMAIN types' : t # cur => types'[t] = TypesAfter(Here)[t]
  BY <1>5
<1>7. \/ AddField  /\ types'[cur] = [types[cur] EXCEPT !.fields = Append(@, NewMember)]
      \/ AddMethod /\ types'[cur] = [types[cur] EXCEPT !.methods = Append(@, NewMember)]
  BY <1>4, <1>5
<1> QED
  BY <1>1, <1>2, <1>3, <1>6, <1>7 DEF CurKind

(* A member of an enum is added, under a name that was not taken.          *)
LEMMA AddEnumMemberDoes ==
  ASSUME Typed, AddEnumMember
  PROVE  /\ pc = "tag" /\ pc' = "tag" /\ cur' = cur /\ i' = i /\ n' = n + 1
         /\ UNCHANGED <<syms, fresh, typedefs, boolDef>>
         /\ IsSymbol(Here) /\ IsEnumMember(Here) /\ i + 1 + n \in 1 .. Len(syms)
         /\ cur \in DOMAIN types /\ types[cur].kind = "enum"
         /\ DOMAIN types' = DOMAIN types
         /\ \A t \in DOMAIN types' : t # cur => types'[t] = types[t]
         /\ types'[cur] = [types[cur] EXCEPT !.fields = Append(@, NewEnumMember)]
         /\ enumMembers' = enumMembers \cup {NewEnumMember.name}
         /\ NewEnumMember.name \notin enumMembers
<1>1. /\ InTag /\ IsSymbol(Here) /\ i + 1 + n \in 1 .. Len(syms) /\ IsEnumMember(Here)
      /\ n' = n + 1 /\ UNCHANGED <<syms, fresh, typedefs, boolDef, i, cur, pc>>
      /\ CurKind = "enum"
      /\ types' = [types EXCEPT ![cur].fields = Append(@, NewEnumMember)]
      /\ enumMembers' = enumMembers \cup {UniqueEnum(ValidName[Here.name])}
  BY HereProperty DEF AddEnumMember, NewEnumMember
<1>2. pc = "tag" /\ cur \in DOMAIN types
  BY <1>1 DEF InTag, Typed, TypeOK
<1>3. NewEnumMember.name = UniqueEnum(ValidName[Here.name])
  BY DEF NewEnumMember, Member
<1>4. UniqueEnum(ValidName[Here.name]) \notin enumMembers
  <2>1. Here.name \in Names
    BY <1>1 DEF IsSymbol, IsEnumMember, IsDefn
  <2> QED
    BY <2>1, ValidNameProperty, UniqueEnumProperty DEF Typed, TypeOK
<1> HIDE DEF NewEnumMember
<1> QED
  BY <1>1, <1>2, <1>3, <1>4 DEF CurKind

(* What parseTypedef does.                                                 *)
NewTypedef == [at |-> i, name |-> ValidName[syms[i].name], ref |-> TypeRef(syms[i])]

LEMMA ParseTypedefDoes ==
  ASSUME Typed, ParseTypedef
  PROVE  /\ pc = "top" /\ pc' = "top" /\ cur' = cur /\ i' = i + 1
         /\ UNCHANGED <<syms, enumMembers>>
         /\ IsSymbol(syms[i]) /\ IsDefn(syms[i]) /\ i \in 1 .. Len(syms)
         /\ fresh \notin DOMAIN types
         /\ types' = TypesAfter(syms[i])
         /\ typedefs' = Append(typedefs, NewTypedef)
<1>1. /\ AtTypedef /\ types' = TypesAfter(syms[i]) /\ i' = i + 1
      /\ typedefs' = Append(typedefs, NewTypedef)
      /\ UNCHANGED <<syms, enumMembers, cur, pc>>
  BY DEF ParseTypedef, NewTypedef
<1>2. i \in 1 .. Len(syms) /\ pc = "top" /\ IsDefn(syms[i])
  BY <1>1, SymbolProperty DEF AtTypedef, AtTop, Typed, TypeOK
<1>3. IsSymbol(syms[i]) /\ fresh \notin DOMAIN types
  BY <1>2, SymbolProperty DEF Typed, TypeOK, Ids
<1> QED
  BY <1>1, <1>2, <1>3

LEMMA NothingStep ==
  ASSUME Typed, Next
  PROVE  Nothing'
<1>1. CASE InitTaggedTypes
  BY <1>1 DEF InitTaggedTypes, Nothing
<1>2. CASE ParseTypedef
  BY <1>2, ParseTypedefDoes DEF Nothing
<1>3. CASE AddField \/ AddMethod
  BY <1>3, AddMemberDoes DEF Nothing
<1>4. CASE AddEnumMember
  BY <1>4, AddEnumMemberDoes DEF Nothing
<1> QED
  BY <1>1, <1>2, <1>3, <1>4, StepKinds DEF Nothing

-----------------------------------------------------------------------------
(* What is defined stays.  It takes no more than type correctness and that *)
(* there is nothing before initTaggedTypes.                                *)

LEMMA FrozenStep ==
  ASSUME Typed, Nothing, Next,
         NEW t \in DOMAIN types, types[t].fields # <<>>, t # cur
  PROVE  t # cur' /\ types'[t] = types[t]
<1>1. t # None
  BY DEF Typed, TypeOK, Ids, None
<1>2. CASE InitTaggedTypes
  BY <1>2 DEF Nothing, InitTaggedTypes
<1>3. CASE FoundScaffold
  <2>1. cur' \in Candidates(types, KindOf(syms[i].class), ValidName[syms[i].name], SizeOf(syms[i]))
    BY <1>3, FindEmptyProperty DEF FoundScaffold, BeginTag, CandidatesOf, Typed
  <2>2. types' = types
    BY <1>3 DEF FoundScaffold, BeginTag, made
  <2> QED
    BY <2>1, <2>2 DEF Candidates
<1>4. CASE ParseTypedef
  BY <1>4, ParseTypedefDoes, ParseTypeProperty
<1>5. CASE AddField \/ AddMethod
  BY <1>5, AddMemberDoes, ParseTypeProperty
<1>6. CASE AddEnumMember
  BY <1>6, AddEnumMemberDoes
<1>7. CASE \/ BadBase \/ MissingScaffold \/ BadTypedef \/ SkipSymbol \/ Finish
           \/ BadType \/ BadClass \/ PassOver \/ EndTag \/ Unreachable
  BY <1>1, <1>7 DEF BadBase, MissingScaffold, BeginTag, BadTypedef, SkipSymbol, Finish, BadType,
     BadClass, PassOver, EndTag, Unreachable, Panic, made, cursor
<1> QED
  BY <1>2, <1>3, <1>4, <1>5, <1>6, <1>7
  DEF Next, TopStep, TagStep, MissingScaffold, FoundScaffold

(* An object that has fields and is not being filled is never filled again *)
(* or changed: findEmptyStruct and its copies take up empty objects only,  *)
(* and parseType only adds objects.                                        *)
THEOREM DefinedStaysFrozen == Spec => DefinedIsFrozen
<1>1. Init => Typed /\ Nothing
  BY TypedInit DEF Init, Nothing
<1>2. Typed /\ Nothing /\ [Next]_vars => (Typed /\ Nothing)'
  <2> SUFFICES ASSUME Typed, Nothing, [Next]_vars PROVE (Typed /\ Nothing)'
    OBVIOUS
  <2>1. CASE UNCHANGED vars
    BY <2>1, TypedStep DEF vars, made, Nothing
  <2> QED
    BY <2>1, TypedStep, NothingStep
<1>3. Typed /\ Nothing /\ [Next]_vars =>
        [\A t \in DOMAIN types : types[t].fields # <<>> /\ t # cur =>
           t # cur' /\ types'[t] = types[t]]_vars
  BY FrozenStep
<1> QED
  BY <1>1, <1>2, <1>3, PTL DEF Spec, DefinedIsFrozen

-----------------------------------------------------------------------------
(* All uses of a tag are bound to one object.  Each use is bound to what   *)
(* findStruct would find now: no object with a tag is made if there is one *)
(* already, so that what is found for a tag is found ever after.           *)

Bound(use) ==
  LET s == syms[use.at] IN
  /\ use.at \in 1 .. Len(syms) /\ s.base \in TaggedBases
  /\ Tagged(types, KindOfBase(s.base), TagOf(s)) # {}
  /\ use.ref = [to |-> "tagged", id |-> FindType(types, KindOfBase(s.base), TagOf(s))]

UsesBound == \A use \in Uses : Bound(use)

(* What is found for a tag is an object with the tag, if there is one.     *)
LEMMA FoundIsTagged ==
  ASSUME Typed, NEW kind, NEW tag, Tagged(types, kind, tag) # {}
  PROVE  /\ FindType(types, kind, tag) \in Tagged(types, kind, tag)
         /\ FindType(types, kind, tag) # None
<1>1. FindType(types, kind, tag) = LastOf(Tagged(types, kind, tag))
  BY DEF FindType
<1>2. fresh \in Nat /\ Tagged(types, kind, tag) \in SUBSET (0 .. fresh - 1)
  BY DEF Tagged, Typed, TypeOK, Ids
<1>3. IsFiniteSet(Tagged(types, kind, tag)) /\ Tagged(types, kind, tag) \subseteq Int
  <2>1. IsFiniteSet(0 .. fresh - 1)
    BY <1>2, FS_Interval
  <2>2. IsFiniteSet(Tagged(types, kind, tag))
    BY <1>2, <2>1, FS_Subset, Zenon
  <2> QED
    BY <1>2, <2>2
<1>4. LastOf(Tagged(types, kind, tag)) \in Tagged(types, kind, tag)
  BY <1>3, LastOfProperty
<1> QED
  BY <1>1, <1>2, <1>4 DEF None

(* Of a heap with the tags of what parseType returns: what was found       *)
(* before is still found, and the type of s is bound to what is found now. *)
LEMMA FoundEverAfter ==
  ASSUME Typed, NEW s, IsSymbol(s), IsDefn(s), NEW heap,
         DOMAIN heap = DOMAIN TypesAfter(s),
         \A t \in DOMAIN heap : /\ heap[t].kind = TypesAfter(s)[t].kind
                                /\ heap[t].tag = TypesAfter(s)[t].tag
  PROVE  /\ \A kind, tag : Tagged(types, kind, tag) # {} =>
              /\ Tagged(heap, kind, tag) = Tagged(types, kind, tag)
              /\ FindType(heap, kind, tag) = FindType(types, kind, tag)
         /\ s.base \in TaggedBases =>
              /\ Tagged(heap, KindOfBase(s.base), TagOf(s)) # {}
              /\ TypeRef(s) = [to |-> "tagged",
                               id |-> FindType(heap, KindOfBase(s.base), TagOf(s))]
         /\ TypeRef(s).to = "tagged" => s.base \in TaggedBases
<1> DEFINE k == KindOfBase(s.base)
           g == TagOf(s)
<1>0. fresh \notin DOMAIN types /\ fresh \in Nat
  BY DEF Typed, TypeOK, Ids
<1>1. CASE MakesType(s)
  <2>1. s.base \in TaggedBases /\ FindType(types, k, g) = None
    BY <1>1 DEF MakesType
  <2>2. Tagged(types, k, g) = {}
    <3> SUFFICES ASSUME Tagged(types, k, g) # {} PROVE FALSE
      OBVIOUS
    <3> QED
      BY <2>1, FoundIsTagged
  <2>3. /\ DOMAIN heap = DOMAIN types \cup {fresh}
        /\ heap[fresh].kind = k /\ heap[fresh].tag = g
        /\ \A t \in DOMAIN types : heap[t].kind = types[t].kind /\ heap[t].tag = types[t].tag
    BY <1>0, <1>1 DEF TypesAfter, EmptyType
  <2>4. \A kind, tag : Tagged(types, kind, tag) # {} =>
          Tagged(heap, kind, tag) = Tagged(types, kind, tag)
    BY <2>2, <2>3 DEF Tagged
  <2>5. Tagged(heap, k, g) = {fresh}
    BY <2>2, <2>3 DEF Tagged
  <2>6. FindType(heap, k, g) = fresh
    BY <1>0, <2>5 DEF FindType, LastOf
  <2>7. TypeRef(s) = [to |-> "tagged", id |-> fresh]
    BY <1>1, <2>1 DEF TypeRef, TaggedBases
  <2> QED
    BY <2>1, <2>4, <2>5, <2>6, <2>7 DEF FindType
<1>2. CASE ~ MakesType(s)
  <2>1. TypesAfter(s) = types
    BY <1>2 DEF TypesAfter
  <2>2. \A kind, tag : Tagged(heap, kind, tag) = Tagged(types, kind, tag)
    BY <2>1 DEF Tagged
  <2>3. \A kind, tag : FindType(heap, kind, tag) = FindType(types, kind, tag)
    BY <2>2 DEF FindType
  <2>4. CASE s.base \in TaggedBases
    BY <1>2, <2>2, <2>3, <2>4 DEF TypeRef, MakesType, TaggedBases, FindType
  <2>5. CASE s.base \notin TaggedBases
    BY <2>2, <2>3, <2>5 DEF TypeRef
  <2> QED
    BY <2>4, <2>5
<1> QED
  BY <1>1, <1>2

(* When the type of the symbol s is parsed, a use stays bound, and one that *)
(* is given that type is bound.                                            *)
LEMMA BoundAfter ==
  ASSUME Typed, NEW s, IsSymbol(s), IsDefn(s), syms' = syms,
         DOMAIN types' = DOMAIN TypesAfter(s),
         \A t \in DOMAIN types' : /\ types'[t].kind = TypesAfter(s)[t].kind
                                  /\ types'[t].tag = TypesAfter(s)[t].tag
  PROVE  /\ \A use : Bound(use) => Bound(use)'
         /\ \A use : /\ use.at \in 1 .. Len(syms) /\ syms[use.at] = s
                     /\ use.ref = TypeRef(s) /\ use.ref.to = "tagged"
                     => Bound(use)'
<1>1. /\ \A kind, tag : Tagged(types, kind, tag) # {} =>
           /\ Tagged(types', kind, tag) = Tagged(types, kind, tag)
           /\ FindType(types', kind, tag) = FindType(types, kind, tag)
      /\ s.base \in TaggedBases =>
           /\ Tagged(types', KindOfBase(s.base), TagOf(s)) # {}
           /\ TypeRef(s) = [to |-> "tagged",
                            id |-> FindType(types', KindOfBase(s.base), TagOf(s))]
      /\ TypeRef(s).to = "tagged" => s.base \in TaggedBases
  BY FoundEverAfter
<1>2. \A x : TagOf(x)' = TagOf(x)
  BY DEF TagOf
<1> QED
  BY <1>1, <1>2 DEF Bound

LEMMA BoundKept ==
  ASSUME UNCHANGED <<syms, types>>, NEW use, Bound(use)
  PROVE  Bound(use)'
BY DEF Bound, TagOf

(* The members of an object.                                               *)
MembersIn(o) == {o.fields[k] : k \in DOMAIN o.fields} \cup {o.methods[k] : k \in DOMAIN o.methods}

(* The members of an object that gets one more.                            *)
LEMMA MembersAfter ==
  ASSUME Typed, NEW t \in DOMAIN types, NEW m,
         \/ types'[t] = [types[t] EXCEPT !.fields = Append(@, m)]
         \/ types'[t] = [types[t] EXCEPT !.methods = Append(@, m)]
  PROVE  /\ MembersIn(types'[t]) \subseteq MembersIn(types[t]) \cup {m}
         /\ types'[t].kind = types[t].kind /\ types'[t].tag = types[t].tag
<1>1. types[t] \in Types
  BY DEF Typed, TypeOK
<1>2. types[t].fields \in Seq(Members) /\ types[t].methods \in Seq(Members)
  BY <1>1 DEF Types
<1>3. CASE types'[t] = [types[t] EXCEPT !.fields = Append(@, m)]
  <2>1. /\ types'[t].fields = Append(types[t].fields, m) /\ types'[t].methods = types[t].methods
        /\ types'[t].kind = types[t].kind /\ types'[t].tag = types[t].tag
    BY <1>1, <1>3 DEF Types
  <2> QED
    BY <1>2, <2>1 DEF MembersIn
<1>4. CASE types'[t] = [types[t] EXCEPT !.methods = Append(@, m)]
  <2>1. /\ types'[t].methods = Append(types[t].methods, m) /\ types'[t].fields = types[t].fields
        /\ types'[t].kind = types[t].kind /\ types'[t].tag = types[t].tag
    BY <1>1, <1>4 DEF Types
  <2> QED
    BY <1>2, <2>1 DEF MembersIn
<1> QED
  BY <1>3, <1>4

(* The uses after a step are those before it and the new one.              *)
LEMMA UsesGrow ==
  ASSUME NEW m, NEW s,
         \A t \in DOMAIN types' :
           \/ t \in DOMAIN types /\ MembersIn(types'[t]) \subseteq MembersIn(types[t]) \cup {m}
           \/ MembersIn(types'[t]) = {},
         \A k \in DOMAIN typedefs' : typedefs'[k] = m \/ \E l \in DOMAIN typedefs : typedefs'[k] = typedefs[l],
         NEW use \in Uses'
  PROVE  (use \in Uses \/ use = m) /\ use.ref.to = "tagged"
<1>1. /\ use.ref.to = "tagged"
      /\ \/ \E t \in DOMAIN types' : use \in MembersIn(types'[t])
         \/ \E k \in DOMAIN typedefs' : use = typedefs'[k]
  BY DEF Uses, MembersOf, MembersIn
<1>2. ASSUME NEW t \in DOMAIN types, use \in MembersIn(types[t]) PROVE use \in Uses
  <2>1. use \in MembersOf(t)
    BY <1>2 DEF MembersOf, MembersIn
  <2>2. use \in UNION {MembersOf(u) : u \in DOMAIN types}
    BY <2>1, Zenon
  <2> QED
    BY <1>1, <2>2, Zenon DEF Uses
<1>3. ASSUME NEW l \in DOMAIN typedefs, use = typedefs[l] PROVE use \in Uses
  <2>1. use \in {typedefs[k] : k \in DOMAIN typedefs}
    BY <1>3, Zenon
  <2> QED
    BY <1>1, <2>1, Zenon DEF Uses
<1>4. ASSUME NEW t \in DOMAIN types', use \in MembersIn(types'[t]) PROVE use \in Uses \/ use = m
  <2>1. \/ t \in DOMAIN types /\ MembersIn(types'[t]) \subseteq MembersIn(types[t]) \cup {m}
        \/ MembersIn(types'[t]) = {}
    OBVIOUS
  <2> QED
    BY <1>2, <1>4, <2>1
<1>5. ASSUME NEW k \in DOMAIN typedefs', use = typedefs'[k] PROVE use \in Uses \/ use = m
  <2>1. typedefs'[k] = m \/ \E l \in DOMAIN typedefs : typedefs'[k] = typedefs[l]
    OBVIOUS
  <2> QED
    BY <1>3, <1>5, <2>1
<1> QED
  BY <1>1, <1>4, <1>5

(* parseType changes no object, and what it adds is empty.                 *)
LEMMA NewObjectsEmpty ==
  ASSUME Typed, NEW s
  PROVE  \A t \in DOMAIN TypesAfter(s) :
           \/ t \in DOMAIN types /\ TypesAfter(s)[t] = types[t]
           \/ TypesAfter(s)[t].fields = <<>> /\ TypesAfter(s)[t].methods = <<>>
<1>1. fresh \notin DOMAIN types
  BY DEF Typed, TypeOK, Ids
<1> QED
  BY <1>1 DEF TypesAfter, EmptyType

LEMMA UsesBoundStep ==
  ASSUME Typed, Nothing, UsesBound, Next
  PROVE  UsesBound'
<1> SUFFICES ASSUME NEW use \in Uses' PROVE Bound(use)'
  BY DEF UsesBound
<1>1. CASE InitTaggedTypes
  <2>1. \A t \in DOMAIN types' : types'[t].fields = <<>> /\ types'[t].methods = <<>>
    BY <1>1 DEF InitTaggedTypes, EmptyType
  <2>2. \A t \in DOMAIN types' : MembersIn(types'[t]) = {}
    BY <2>1 DEF MembersIn
  <2>3. typedefs' = <<>>
    BY <1>1 DEF InitTaggedTypes, Nothing
  <2>4. \/ \E t \in DOMAIN types' : use \in MembersIn(types'[t])
        \/ \E k \in DOMAIN typedefs' : use = typedefs'[k]
    BY DEF Uses, MembersOf, MembersIn
  <2> QED
    BY <2>2, <2>3, <2>4
<1>2. CASE ParseTypedef
  <2> DEFINE s == syms[i]
  <2>1. /\ IsSymbol(s) /\ IsDefn(s) /\ i \in 1 .. Len(syms) /\ syms' = syms
        /\ fresh \notin DOMAIN types /\ types' = TypesAfter(s)
        /\ typedefs' = Append(typedefs, NewTypedef)
    BY <1>2, ParseTypedefDoes
  <2>2. \A t \in DOMAIN types' : \/ t \in DOMAIN types /\ MembersIn(types'[t]) \subseteq MembersIn(types[t]) \cup {NewTypedef}
                                 \/ MembersIn(types'[t]) = {}
    BY <2>1, NewObjectsEmpty DEF MembersIn
  <2>3. \A k \in DOMAIN typedefs' : typedefs'[k] = NewTypedef \/ \E l \in DOMAIN typedefs : typedefs'[k] = typedefs[l]
    <3>1. typedefs \in Seq(Members)
      BY DEF Typed, TypeOK
    <3> HIDE DEF NewTypedef
    <3> QED
      BY <2>1, <3>1
  <2>4. (use \in Uses \/ use = NewTypedef) /\ use.ref.to = "tagged"
    <3> HIDE DEF NewTypedef
    <3> QED
      BY <2>2, <2>3, UsesGrow
  <2>5. NewTypedef.at = i /\ NewTypedef.ref = TypeRef(s)
    BY DEF NewTypedef
  <2> HIDE DEF s
  <2>6. CASE use \in Uses
    BY <2>1, <2>6, BoundAfter DEF UsesBound
  <2>7. CASE use = NewTypedef
    BY <2>1, <2>4, <2>5, <2>7, BoundAfter DEF s
  <2> QED
    BY <2>4, <2>6, <2>7
<1>3. CASE AddField \/ AddMethod
  <2> DEFINE s == Here
  <2>1. /\ IsSymbol(s) /\ IsDefn(s) /\ i + 1 + n \in 1 .. Len(syms) /\ syms' = syms
        /\ typedefs' = typedefs
        /\ cur \in DOMAIN types /\ DOMAIN types' = DOMAIN TypesAfter(s)
        /\ \A t \in DOMAIN types' : t # cur => types'[t] = TypesAfter(s)[t]
        /\ \/ types'[cur] = [types[cur] EXCEPT !.fields = Append(@, NewMember)]
           \/ types'[cur] = [types[cur] EXCEPT !.methods = Append(@, NewMember)]
    BY <1>3, AddMemberDoes
  <2>2. /\ MembersIn(types'[cur]) \subseteq MembersIn(types[cur]) \cup {NewMember}
        /\ types'[cur].kind = types[cur].kind /\ types'[cur].tag = types[cur].tag
    <3>1. CASE types'[cur] = [types[cur] EXCEPT !.fields = Append(@, NewMember)]
      BY <2>1, <3>1, MembersAfter
    <3>2. CASE types'[cur] = [types[cur] EXCEPT !.methods = Append(@, NewMember)]
      BY <2>1, <3>2, MembersAfter
    <3> QED
      BY <2>1, <3>1, <3>2
  <2>3. \A t \in DOMAIN TypesAfter(s) :
          \/ t \in DOMAIN types /\ TypesAfter(s)[t] = types[t]
          \/ TypesAfter(s)[t].fields = <<>> /\ TypesAfter(s)[t].methods = <<>>
    BY NewObjectsEmpty
  <2>4. TypesAfter(s)[cur] = types[cur]
    BY <2>1, ParseTypeProperty
  <2>5. \A t \in DOMAIN types' : /\ types'[t].kind = TypesAfter(s)[t].kind
                                 /\ types'[t].tag = TypesAfter(s)[t].tag
    BY <2>1, <2>2, <2>4
  <2>6. \A t \in DOMAIN types' : \/ t \in DOMAIN types /\ MembersIn(types'[t]) \subseteq MembersIn(types[t]) \cup {NewMember}
                                 \/ MembersIn(types'[t]) = {}
    <3> SUFFICES ASSUME NEW t \in DOMAIN types'
                 PROVE  \/ t \in DOMAIN types /\ MembersIn(types'[t]) \subseteq MembersIn(types[t]) \cup {NewMember}
                        \/ MembersIn(types'[t]) = {}
      OBVIOUS
    <3>1. CASE t = cur
      BY <2>1, <2>2, <3>1
    <3>2. CASE t # cur
      BY <2>1, <2>3, <3>2 DEF MembersIn
    <3> QED
      BY <3>1, <3>2
  <2>7. (use \in Uses \/ use = NewMember) /\ use.ref.to = "tagged"
    <3> HIDE DEF NewMember
    <3> QED
      BY <2>1, <2>6, UsesGrow
  <2>8. NewMember.at = i + 1 + n /\ NewMember.ref = TypeRef(s) /\ syms[NewMember.at] = s
    BY DEF NewMember, Member, Here
  <2> HIDE DEF s, NewMember
  <2>9. CASE use \in Uses
    BY <2>1, <2>5, <2>9, BoundAfter DEF UsesBound
  <2>10. CASE use = NewMember
    BY <2>1, <2>5, <2>7, <2>8, <2>10, BoundAfter
  <2> QED
    BY <2>7, <2>9, <2>10
<1>4. CASE AddEnumMember
  <2>1. /\ syms' = syms /\ typedefs' = typedefs /\ cur \in DOMAIN types
        /\ DOMAIN types' = DOMAIN types
        /\ \A t \in DOMAIN types' : t # cur => types'[t] = types[t]
        /\ types'[cur] = [types[cur] EXCEPT !.fields = Append(@, NewEnumMember)]
    BY <1>4, AddEnumMemberDoes
  <2>2. NewEnumMember.ref.to = "basic"
    BY DEF NewEnumMember, Member
  <2> HIDE DEF NewEnumMember
  <2>3. /\ MembersIn(types'[cur]) \subseteq MembersIn(types[cur]) \cup {NewEnumMember}
        /\ types'[cur].kind = types[cur].kind /\ types'[cur].tag = types[cur].tag
    BY <2>1, MembersAfter
  <2>4. \A t \in DOMAIN types' : MembersIn(types'[t]) \subseteq MembersIn(types[t]) \cup {NewEnumMember}
    <3> SUFFICES ASSUME NEW t \in DOMAIN types'
                 PROVE  MembersIn(types'[t]) \subseteq MembersIn(types[t]) \cup {NewEnumMember}
      OBVIOUS
    <3>1. CASE t = cur
      BY <2>3, <3>1
    <3>2. CASE t # cur
      BY <2>1, <3>2 DEF MembersIn
    <3> QED
      BY <3>1, <3>2
  <2>5. use \in Uses
    BY <2>1, <2>2, <2>4, UsesGrow
  <2>6. \A kind, tag : Tagged(types', kind, tag) = Tagged(types, kind, tag)
    BY <2>1, <2>3 DEF Tagged
  <2>7. \A kind, tag : FindType(types', kind, tag) = FindType(types, kind, tag)
    BY <2>6 DEF FindType
  <2>8. \A x : TagOf(x)' = TagOf(x)
    BY DEF TagOf
  <2> QED
    BY <2>1, <2>5, <2>6, <2>7, <2>8 DEF UsesBound, Bound
<1>5. CASE UNCHANGED <<syms, made>>
  <2>1. UNCHANGED <<syms, types, typedefs>>
    BY <1>5 DEF made
  <2>2. Uses' = Uses
    BY <2>1 DEF Uses, MembersOf
  <2> QED
    BY <2>1, <2>2, BoundKept DEF UsesBound
<1> QED
  BY <1>1, <1>2, <1>3, <1>4, <1>5, StepKinds

LEMMA BoundUsesAgree ==
  ASSUME Typed, UsesBound
  PROVE  UseBindsOneObject
<1> SUFFICES ASSUME NEW m \in Uses
             PROVE  /\ m.ref.id \in DOMAIN types
                    /\ types[m.ref.id].kind = KindOfBase(syms[m.at].base)
                    /\ types[m.ref.id].tag = TagOf(syms[m.at])
                    /\ \A o \in Uses :
                         /\ syms[o.at].base = syms[m.at].base
                         /\ TagOf(syms[o.at]) = TagOf(syms[m.at])
                         => o.ref = m.ref
  BY DEF UseBindsOneObject
<1>1. Bound(m) /\ \A o \in Uses : Bound(o)
  BY DEF UsesBound
<1> DEFINE k == KindOfBase(syms[m.at].base)
           g == TagOf(syms[m.at])
<1>2. FindType(types, k, g) \in Tagged(types, k, g)
  BY <1>1, FoundIsTagged DEF Bound
<1> QED
  BY <1>1, <1>2 DEF Bound, Tagged

(* All uses of one tag made by ParseTypes, wherever they stand in the      *)
(* stream, are bound to the same object, of the kind and tag they name.    *)
THEOREM UsesAgree == Spec => []UseBindsOneObject
<1> DEFINE Inv == Typed /\ Nothing /\ UsesBound
<1>1. Init => Inv
  BY TypedInit DEF Init, Nothing, UsesBound, Uses
<1>2. Inv /\ [Next]_vars => Inv'
  <2> SUFFICES ASSUME Inv, [Next]_vars PROVE Inv'
    OBVIOUS
  <2>1. CASE UNCHANGED vars
    <3>1. UNCHANGED <<syms, types, typedefs, pc>>
      BY <2>1 DEF vars, made
    <3>2. Uses' = Uses
      BY <3>1 DEF Uses, MembersOf
    <3> QED
      BY <2>1, <3>1, <3>2, TypedStep, BoundKept DEF Nothing, UsesBound
  <2> QED
    BY <2>1, TypedStep, NothingStep, UsesBoundStep
<1>3. Inv => UseBindsOneObject
  BY BoundUsesAgree
<1> QED
  BY <1>1, <1>2, <1>3, PTL DEF Spec

-----------------------------------------------------------------------------
(* Enum members are distinct: uniqueEnum looks at enumMembers, which has   *)
(* every name an enum was given.                                           *)

NamesTaken ==
  \A t \in EnumMembers : \A k \in DOMAIN types[t].fields :
    types[t].fields[k].name \in enumMembers

(* Any step but that of parseEnumTag leaves the fields of the enums alone. *)
LEMMA EnumsKept ==
  ASSUME Typed, Nothing,
         InitTaggedTypes \/ ParseTypedef \/ AddField \/ AddMethod
  PROVE  /\ enumMembers' = enumMembers
         /\ \A t \in DOMAIN types' : types'[t].kind = "enum" =>
              \/ t \in EnumMembers /\ types'[t] = types[t]
              \/ types'[t].fields = <<>>
<1>1. CASE InitTaggedTypes
  BY <1>1 DEF InitTaggedTypes, EmptyType
<1>2. CASE ParseTypedef
  BY <1>2, ParseTypedefDoes, NewObjectsEmpty DEF EnumMembers
<1>3. CASE AddField \/ AddMethod
  <2>1. /\ enumMembers' = enumMembers /\ DOMAIN types' = DOMAIN TypesAfter(Here)
        /\ cur \in DOMAIN types /\ types[cur].kind # "enum"
        /\ \A t \in DOMAIN types' : t # cur => types'[t] = TypesAfter(Here)[t]
        /\ \/ types'[cur] = [types[cur] EXCEPT !.fields = Append(@, NewMember)]
           \/ types'[cur] = [types[cur] EXCEPT !.methods = Append(@, NewMember)]
    BY <1>3, AddMemberDoes
  <2>2. types'[cur].kind = types[cur].kind
    BY <2>1, MembersAfter
  <2>3. \A t \in DOMAIN TypesAfter(Here) :
          \/ t \in DOMAIN types /\ TypesAfter(Here)[t] = types[t]
          \/ TypesAfter(Here)[t].fields = <<>>
    BY NewObjectsEmpty
  <2> QED
    BY <2>1, <2>2, <2>3 DEF EnumMembers
<1> QED
  BY <1>1, <1>2, <1>3

LEMMA EnumNamesStep ==
  ASSUME Typed, Nothing, NamesTaken, UniqueEnumMembers, Next
  PROVE  NamesTaken' /\ UniqueEnumMembers'
<1>1. CASE InitTaggedTypes \/ ParseTypedef \/ AddField \/ AddMethod
  <2>1. /\ enumMembers' = enumMembers
        /\ \A t \in EnumMembers' : \A k \in DOMAIN types'[t].fields :
             t \in EnumMembers /\ types'[t] = types[t]
    BY <1>1, EnumsKept DEF EnumMembers
  <2> QED
    BY <2>1 DEF NamesTaken, UniqueEnumMembers
<1>2. CASE AddEnumMember
  <2>1. /\ cur \in EnumMembers /\ DOMAIN types' = DOMAIN types
        /\ \A t \in DOMAIN types' : t # cur => types'[t] = types[t]
        /\ types'[cur] = [types[cur] EXCEPT !.fields = Append(@, NewEnumMember)]
        /\ enumMembers' = enumMembers \cup {NewEnumMember.name}
        /\ NewEnumMember.name \notin enumMembers
    BY <1>2, AddEnumMemberDoes DEF EnumMembers
  <2> HIDE DEF NewEnumMember
  <2>2. types[cur] \in Types /\ types[cur].fields \in Seq(Members)
    BY <2>1 DEF Typed, TypeOK, Types, EnumMembers
  <2>3. types'[cur].fields = Append(types[cur].fields, NewEnumMember) /\ types'[cur].kind = "enum"
    BY <2>1, <2>2 DEF Types, EnumMembers
  <2>4. EnumMembers' = EnumMembers
    BY <2>1, <2>3 DEF EnumMembers
  <2> DEFINE L == Len(types[cur].fields)
  <2>5. /\ DOMAIN types'[cur].fields = DOMAIN types[cur].fields \cup {L + 1}
        /\ L + 1 \notin DOMAIN types[cur].fields
        /\ \A k \in DOMAIN types[cur].fields : types'[cur].fields[k] = types[cur].fields[k]
        /\ types'[cur].fields[L + 1] = NewEnumMember
    BY <2>2, <2>3
  <2>6. \A t \in EnumMembers' : \A k \in DOMAIN types'[t].fields :
          \/ /\ k \in DOMAIN types[t].fields /\ types'[t].fields[k].name = types[t].fields[k].name
             /\ types'[t].fields[k].name \in enumMembers
          \/ t = cur /\ k = L + 1 /\ types'[t].fields[k].name = NewEnumMember.name
    <3> SUFFICES ASSUME NEW t \in EnumMembers, NEW k \in DOMAIN types'[t].fields
                 PROVE  \/ /\ k \in DOMAIN types[t].fields
                           /\ types'[t].fields[k].name = types[t].fields[k].name
                           /\ types'[t].fields[k].name \in enumMembers
                        \/ t = cur /\ k = L + 1 /\ types'[t].fields[k].name = NewEnumMember.name
      BY <2>4
    <3>1. CASE t # cur
      BY <2>1, <3>1 DEF NamesTaken, EnumMembers
    <3>2. CASE t = cur
      <4> HIDE DEF L
      <4> QED
        BY <2>1, <2>5, <3>2 DEF NamesTaken
    <3> QED
      BY <3>1, <3>2
  <2> HIDE DEF L
  <2>7. NamesTaken'
    BY <2>1, <2>6 DEF NamesTaken
  <2>8. UniqueEnumMembers'
    BY <2>1, <2>4, <2>6 DEF UniqueEnumMembers
  <2> QED
    BY <2>7, <2>8
<1>3. CASE UNCHANGED <<syms, made>>
  BY <1>3 DEF made, NamesTaken, UniqueEnumMembers, EnumMembers
<1> QED
  BY <1>1, <1>2, <1>3, StepKinds

(* The members of the enums have names of their own, whatever the enums    *)
(* of the stream are called and however often they are defined.            *)
THEOREM EnumMembersDistinct == Spec => []UniqueEnumMembers
<1> DEFINE Inv == Typed /\ Nothing /\ NamesTaken /\ UniqueEnumMembers
<1>1. Init => Inv
  BY TypedInit DEF Init, Nothing, NamesTaken, UniqueEnumMembers, EnumMembers
<1>2. Inv /\ [Next]_vars => Inv'
  <2> SUFFICES ASSUME Inv, [Next]_vars PROVE Inv'
    OBVIOUS
  <2>1. CASE UNCHANGED vars
    BY <2>1, TypedStep DEF vars, made, Nothing, NamesTaken, UniqueEnumMembers, EnumMembers
  <2> QED
    BY <2>1, TypedStep, NothingStep, EnumNamesStep
<1>3. Inv => UniqueEnumMembers
  OBVIOUS
<1> QED
  BY <1>1, <1>2, <1>3, PTL DEF Spec

-----------------------------------------------------------------------------
(* Every definition is there in the end, and nothing else.                 *)

FieldsAt(o) == {o.fields[k].at : k \in DOMAIN o.fields}
Ascending(o) == \A k, l \in DOMAIN o.fields : k < l => o.fields[k].at < o.fields[l].at

(* While the sequence of the definition at i is read, the object being     *)
(* filled has the fields of the n symbols read so far.                     *)
Reading ==
  pc = "tag" =>
    /\ i \in Scaffolds /\ i + n <= Len(syms)
    /\ types[cur].kind = KindOf(syms[i].class)
    /\ types[cur].tag = ValidName[syms[i].name] /\ types[cur].size = SizeOf(syms[i])
    /\ \A k \in i + 1 .. i + n : ~ IsEOS(syms[k]) /\ k \notin Scaffolds
    /\ FieldsAt(types[cur]) = {k \in i + 1 .. i + n : IsFieldOf(KindOf(syms[i].class), syms[k])}
    /\ Ascending(types[cur])

(* The definitions before i are there, and what is there is theirs.        *)
ReadBefore ==
  /\ pc = "init" => i = 1
  /\ pc = "done" => i > Len(syms)
  /\ pc \in {"top", "tag", "done"} =>
       /\ \A j \in Scaffolds : j < i /\ FieldsOf(j) # {} =>
            \E t \in DOMAIN types : t # cur /\ types[t].fields # <<>> /\ FilledFrom(t, j)
       /\ \A t \in DOMAIN types : t # cur /\ types[t].fields # <<>> =>
            \E j \in Scaffolds : j < i /\ FieldsOf(j) # {} /\ FilledFrom(t, j)

(* A sequence of members that gets one more.                               *)
LEMMA FieldsAppended ==
  ASSUME NEW o \in Types, NEW m, NEW q, q = [o EXCEPT !.fields = Append(@, m)]
  PROVE  /\ FieldsAt(q) = FieldsAt(o) \cup {m.at} /\ q.fields # <<>>
         /\ q.kind = o.kind /\ q.tag = o.tag /\ q.size = o.size
<1>1. o.fields \in Seq(Members)
  BY DEF Types
<1>2. /\ q.fields = Append(o.fields, m)
      /\ q.kind = o.kind /\ q.tag = o.tag /\ q.size = o.size
  BY DEF Types
<1> DEFINE L == Len(o.fields)
<1>3. /\ L \in Nat /\ DOMAIN o.fields = 1 .. L /\ DOMAIN q.fields = 1 .. L + 1
      /\ \A k \in 1 .. L : q.fields[k] = o.fields[k]
      /\ q.fields[L + 1] = m
  BY <1>1, <1>2
<1> HIDE DEF L
<1>4. FieldsAt(q) = FieldsAt(o) \cup {m.at}
  <2>1. \A k \in 1 .. L + 1 : k \in 1 .. L \/ k = L + 1
    BY <1>3
  <2>2. \A k \in 1 .. L : k \in 1 .. L + 1
    BY <1>3
  <2>3. L + 1 \in 1 .. L + 1
    BY <1>3
  <2> QED
    BY <1>3, <2>1, <2>2, <2>3 DEF FieldsAt
<1>6. q.fields # <<>>
  <2>1. L + 1 \in DOMAIN q.fields
    BY <1>3
  <2> QED
    BY <2>1
<1> QED
  BY <1>2, <1>4, <1>6

(* Its members stay in the order of the symbols.                           *)
LEMMA StillAscending ==
  ASSUME NEW o \in Types, NEW m, NEW q, q = [o EXCEPT !.fields = Append(@, m)],
         Ascending(o), \A a \in FieldsAt(o) : a < m.at
  PROVE  Ascending(q)
<1>1. o.fields \in Seq(Members) /\ q.fields = Append(o.fields, m)
  BY DEF Types
<1> DEFINE L == Len(o.fields)
<1>2. /\ L \in Nat /\ DOMAIN o.fields = 1 .. L /\ DOMAIN q.fields = 1 .. L + 1
      /\ \A k \in 1 .. L : q.fields[k] = o.fields[k]
      /\ q.fields[L + 1] = m
  BY <1>1
<1> HIDE DEF L
<1> SUFFICES ASSUME NEW k \in 1 .. L + 1, NEW l \in 1 .. L + 1, k < l
             PROVE  q.fields[k].at < q.fields[l].at
  BY <1>2 DEF Ascending
<1>3. k \in 1 .. L /\ (l \in 1 .. L \/ l = L + 1)
  BY <1>2
<1>4. o.fields[k].at \in FieldsAt(o)
  BY <1>2, <1>3 DEF FieldsAt
<1> QED
  BY <1>2, <1>3, <1>4 DEF Ascending

(* The positions of the stream, and what depends on the stream alone.      *)
LEMMA StreamKept ==
  ASSUME syms' = syms
  PROVE  /\ Scaffolds' = Scaffolds
         /\ \A j : FieldsOf(j)' = FieldsOf(j)
BY DEF Scaffolds, FieldsOf, EndOf, Pos

LEMMA FilledStays ==
  ASSUME syms' = syms, NEW t, NEW j, types'[t] = types[t]
  PROVE  FilledFrom(t, j)' <=> FilledFrom(t, j)
BY StreamKept DEF FilledFrom

(* The EOS of a sequence is the first one after its definition.            *)
LEMMA EndIsFirst ==
  ASSUME Typed, NEW j \in Scaffolds, NEW e \in 1 .. Len(syms), e > j, IsEOS(syms[e]),
         \A k \in j + 1 .. e - 1 : ~ IsEOS(syms[k])
  PROVE  EndOf(j) = e
<1>1. DOMAIN syms = 1 .. Len(syms) /\ Len(syms) \in Nat /\ j \in Nat
  BY SymbolProperty DEF Typed, Scaffolds
<1>2. \A x \in 1 .. Len(syms) :
        x > j /\ IsEOS(syms[x]) /\ (\A k \in j + 1 .. x - 1 : ~ IsEOS(syms[k])) => x = e
  <2> SUFFICES ASSUME NEW x \in 1 .. Len(syms), x > j, IsEOS(syms[x]),
                      \A k \in j + 1 .. x - 1 : ~ IsEOS(syms[k]), x # e
               PROVE  FALSE
    OBVIOUS
  <2>1. CASE x < e
    <3>1. x \in j + 1 .. e - 1
      BY <1>1, <2>1
    <3> QED
      BY <3>1
  <2>2. CASE e < x
    <3>1. e \in j + 1 .. x - 1
      BY <1>1, <2>2
    <3> QED
      BY <3>1
  <2> QED
    BY <1>1, <2>1, <2>2
<1> QED
  BY <1>1, <1>2 DEF EndOf, Pos

(* One more symbol of the sequence is read.                                *)
LEMMA ReadOne ==
  ASSUME Typed, Reading, pc = "tag", pc' = "tag", i + 1 + n \in 1 .. Len(syms),
         UNCHANGED <<syms, i, cur>>, n' = n + 1, ~ IsEOS(Here), ~ IsTagDef(Here),
         \/ /\ IsFieldOf(types[cur].kind, Here)
            /\ \E m : /\ types'[cur] = [types[cur] EXCEPT !.fields = Append(@, m)]
                      /\ m.at = i + 1 + n
         \/ /\ ~ IsFieldOf(types[cur].kind, Here)
            /\ types'[cur].fields = types[cur].fields /\ types'[cur].kind = types[cur].kind
            /\ types'[cur].tag = types[cur].tag /\ types'[cur].size = types[cur].size
  PROVE  Reading'
<1>0. i \in Nat /\ n \in Nat /\ n' \in Nat /\ types[cur] \in Types /\ Len(syms) \in Nat
  BY SymbolProperty DEF Typed, TypeOK
<1>1. /\ i \in Scaffolds /\ i + n <= Len(syms)
      /\ types[cur].kind = KindOf(syms[i].class)
      /\ types[cur].tag = ValidName[syms[i].name] /\ types[cur].size = SizeOf(syms[i])
      /\ \A k \in i + 1 .. i + n : ~ IsEOS(syms[k]) /\ k \notin Scaffolds
      /\ FieldsAt(types[cur]) = {k \in i + 1 .. i + n : IsFieldOf(KindOf(syms[i].class), syms[k])}
      /\ Ascending(types[cur])
  BY DEF Reading
<1>2. i + 1 .. i + n' = (i + 1 .. i + n) \cup {i + 1 + n}
  BY <1>0
<1>3. Here = syms[i + 1 + n]
  BY DEF Here
<1>4. \A k \in i + 1 .. i + n' : ~ IsEOS(syms[k]) /\ k \notin Scaffolds
  <2>1. i + 1 + n \notin Scaffolds
    BY <1>3 DEF Scaffolds
  <2> QED
    BY <1>1, <1>2, <1>3, <2>1
<1>5. /\ types'[cur].kind = types[cur].kind /\ types'[cur].tag = types[cur].tag
      /\ types'[cur].size = types[cur].size
      /\ FieldsAt(types'[cur]) = {k \in i + 1 .. i + n' : IsFieldOf(KindOf(syms[i].class), syms[k])}
      /\ Ascending(types'[cur])
  <2>1. ASSUME IsFieldOf(types[cur].kind, Here), NEW m,
               types'[cur] = [types[cur] EXCEPT !.fields = Append(@, m)], m.at = i + 1 + n
        PROVE  /\ FieldsAt(types'[cur]) = FieldsAt(types[cur]) \cup {i + 1 + n}
               /\ types'[cur].kind = types[cur].kind /\ types'[cur].tag = types[cur].tag
               /\ types'[cur].size = types[cur].size /\ Ascending(types'[cur])
    <3> DEFINE o == types[cur]
               q == types'[cur]
    <3>1. o \in Types /\ Ascending(o) /\ q = [o EXCEPT !.fields = Append(@, m)]
      BY <1>0, <1>1, <2>1
    <3>2. \A a \in FieldsAt(o) : a < m.at
      BY <1>0, <1>1, <2>1
    <3> HIDE DEF o, q
    <3>3. /\ FieldsAt(q) = FieldsAt(o) \cup {m.at} /\ Ascending(q)
          /\ q.kind = o.kind /\ q.tag = o.tag /\ q.size = o.size
      <4>1. /\ FieldsAt(q) = FieldsAt(o) \cup {m.at}
            /\ q.kind = o.kind /\ q.tag = o.tag /\ q.size = o.size
        BY <3>1, FieldsAppended
      <4>2. Ascending(q)
        BY <3>1, <3>2, StillAscending
      <4> QED
        BY <4>1, <4>2
    <3> QED
      BY <2>1, <3>3 DEF o, q
  <2>3. CASE IsFieldOf(types[cur].kind, Here)
    BY <1>1, <1>2, <1>3, <2>1, <2>3
  <2>2. CASE /\ ~ IsFieldOf(types[cur].kind, Here)
             /\ types'[cur].fields = types[cur].fields /\ types'[cur].kind = types[cur].kind
             /\ types'[cur].tag = types[cur].tag /\ types'[cur].size = types[cur].size
    BY <1>1, <1>2, <1>3, <2>2 DEF FieldsAt, Ascending
  <2> QED
    BY <2>2, <2>3
<1>6. i + n' <= Len(syms) /\ Scaffolds' = Scaffolds
  BY <1>0, StreamKept
<1> QED
  BY <1>1, <1>4, <1>5, <1>6 DEF Reading

LEMMA ReadingStep ==
  ASSUME Typed, Reading, Next
  PROVE  Reading'
<1>1. CASE FoundScaffold
  <2>1. /\ AtTagDef /\ CandidatesOf(syms[i]) # {} /\ n' = 0 /\ pc' = "tag"
        /\ cur' = FindEmpty(types, KindOf(syms[i].class), ValidName[syms[i].name], SizeOf(syms[i]))
        /\ UNCHANGED <<syms, types, i>>
    BY <1>1 DEF FoundScaffold, BeginTag, made
  <2>2. cur' \in CandidatesOf(syms[i])
    BY <2>1, FindEmptyProperty DEF CandidatesOf, Typed
  <2>3. i \in Scaffolds' /\ i <= Len(syms) /\ i \in Nat /\ Len(syms) \in Nat
    BY <2>1, StreamKept, SymbolProperty DEF AtTagDef, AtTop, Scaffolds, Typed, TypeOK
  <2>4. i + 1 .. i + 0 = {}
    BY <2>3
  <2>5. FieldsAt(types[cur']) = {} /\ Ascending(types[cur'])
    BY <2>2 DEF CandidatesOf, Candidates, FieldsAt, Ascending
  <2> QED
    BY <2>1, <2>2, <2>3, <2>4, <2>5 DEF Reading, CandidatesOf, Candidates, Tagged
<1>2. CASE AddField
  <2>1. /\ pc = "tag" /\ pc' = "tag" /\ UNCHANGED <<syms, i, cur>> /\ n' = n + 1
        /\ i + 1 + n \in 1 .. Len(syms)
        /\ types[cur].kind # "enum"
        /\ types'[cur] = [types[cur] EXCEPT !.fields = Append(@, NewMember)]
    <3>1. ~ AddMethod
      BY <1>2 DEF AddField, AddMethod, IsField, IsStructField, IsUnionField, IsMethod
    <3> QED
      BY <1>2, <3>1, AddMemberDoes
  <2>2. IsFieldOf(types[cur].kind, Here) /\ ~ IsEOS(Here) /\ ~ IsTagDef(Here)
    BY <1>2, <2>1 DEF AddField, IsField, IsStructField, IsUnionField, IsFieldOf, IsEOS, IsTagDef,
       TagClasses, CurKind
  <2>3. NewMember.at = i + 1 + n
    BY DEF NewMember, Member
  <2> HIDE DEF NewMember
  <2> QED
    BY <2>1, <2>2, <2>3, ReadOne
<1>3. CASE AddMethod
  <2>1. /\ pc = "tag" /\ pc' = "tag" /\ UNCHANGED <<syms, i, cur>> /\ n' = n + 1
        /\ i + 1 + n \in 1 .. Len(syms) /\ cur \in DOMAIN types
        /\ types'[cur] = [types[cur] EXCEPT !.methods = Append(@, NewMember)]
    <3>1. ~ AddField
      BY <1>3 DEF AddField, AddMethod, IsField, IsStructField, IsUnionField, IsMethod
    <3> QED
      BY <1>3, <3>1, AddMemberDoes
  <2>2. ~ IsFieldOf(types[cur].kind, Here) /\ ~ IsEOS(Here) /\ ~ IsTagDef(Here)
    BY <1>3 DEF AddMethod, IsMethod, IsFieldOf, IsEOS, IsTagDef, TagClasses, CurKind
  <2>3. /\ types'[cur].fields = types[cur].fields /\ types'[cur].kind = types[cur].kind
        /\ types'[cur].tag = types[cur].tag /\ types'[cur].size = types[cur].size
    BY <2>1 DEF Typed, TypeOK, Types
  <2> QED
    BY <2>1, <2>2, <2>3, ReadOne
<1>4. CASE AddEnumMember
  <2>1. /\ pc = "tag" /\ pc' = "tag" /\ UNCHANGED <<syms, i, cur>> /\ n' = n + 1
        /\ i + 1 + n \in 1 .. Len(syms) /\ IsEnumMember(Here) /\ types[cur].kind = "enum"
        /\ types'[cur] = [types[cur] EXCEPT !.fields = Append(@, NewEnumMember)]
    BY <1>4, AddEnumMemberDoes
  <2>2. IsFieldOf(types[cur].kind, Here) /\ ~ IsEOS(Here) /\ ~ IsTagDef(Here)
    BY <2>1 DEF IsEnumMember, IsFieldOf, IsEOS, IsTagDef, TagClasses, IsDefn
  <2>3. NewEnumMember.at = i + 1 + n
    BY DEF NewEnumMember, Member
  <2> HIDE DEF NewEnumMember
  <2> QED
    BY <2>1, <2>2, <2>3, ReadOne
<1>5. CASE PassOver
  <2>1. /\ InTag /\ ~ IsDefn(Here) /\ pc = "tag" /\ pc' = "tag"
        /\ UNCHANGED <<syms, types, i, cur>> /\ n' = n + 1
    BY <1>5 DEF PassOver, made, InTag
  <2>2. i + 1 + n \in 1 .. Len(syms)
    BY <2>1, HereProperty
  <2>3. ~ IsFieldOf(types[cur].kind, Here) /\ ~ IsEOS(Here) /\ ~ IsTagDef(Here)
    BY <2>1 DEF IsFieldOf, IsEOS, IsTagDef, IsDefn
  <2> QED
    BY <2>1, <2>2, <2>3, ReadOne
<1>6. CASE \/ InitTaggedTypes \/ BadBase \/ MissingScaffold \/ ParseTypedef \/ BadTypedef
           \/ SkipSymbol \/ Finish \/ BadType \/ BadClass \/ EndTag \/ Unreachable
  <2>1. pc' # "tag"
    BY <1>6 DEF InitTaggedTypes, BadBase, MissingScaffold, BeginTag, ParseTypedef, BadTypedef,
       SkipSymbol, Finish, BadType, BadClass, EndTag, Unreachable, Panic, AtTypedef, AtTop
  <2> QED
    BY <2>1 DEF Reading
<1> QED
  BY <1>1, <1>2, <1>3, <1>4, <1>5, <1>6
  DEF Next, TopStep, TagStep, MissingScaffold, FoundScaffold

(* A step that begins and ends no definition, and gives no object fields.  *)
LEMMA ReadBeforeKept ==
  ASSUME Typed, Nothing, ReadBefore, Next, syms' = syms,
         pc \in {"top", "tag"}, pc' \in {"top", "tag", "done"},
         \A j \in Scaffolds : j < i' <=> j < i,
         DOMAIN types \subseteq DOMAIN types',
         \A t \in DOMAIN types' : t # cur' /\ types'[t].fields # <<>> =>
           t \in DOMAIN types /\ t # cur /\ types'[t] = types[t],
         pc' = "done" => i' > Len(syms')
  PROVE  ReadBefore'
<1>0. Scaffolds' = Scaffolds /\ \A j : FieldsOf(j)' = FieldsOf(j)
  BY StreamKept
<1>1. ASSUME NEW j \in Scaffolds, j < i', FieldsOf(j) # {}
      PROVE  \E t \in DOMAIN types' : t # cur' /\ types'[t].fields # <<>> /\ FilledFrom(t, j)'
  <2>1. PICK t \in DOMAIN types : t # cur /\ types[t].fields # <<>> /\ FilledFrom(t, j)
    BY <1>1 DEF ReadBefore
  <2>2. t # cur' /\ types'[t] = types[t]
    BY <2>1, FrozenStep
  <2>3. FilledFrom(t, j)'
    BY <2>1, <2>2, FilledStays
  <2> QED
    BY <2>1, <2>2, <2>3
<1>2. ASSUME NEW t \in DOMAIN types', t # cur', types'[t].fields # <<>>
      PROVE  \E j \in Scaffolds : j < i' /\ FieldsOf(j) # {} /\ FilledFrom(t, j)'
  <2>1. t \in DOMAIN types /\ t # cur /\ types'[t] = types[t]
    BY <1>2
  <2>2. PICK j \in Scaffolds : j < i /\ FieldsOf(j) # {} /\ FilledFrom(t, j)
    BY <1>2, <2>1 DEF ReadBefore
  <2>3. FilledFrom(t, j)'
    BY <2>1, <2>2, FilledStays
  <2> QED
    BY <2>2, <2>3
<1> QED
  BY <1>0, <1>1, <1>2 DEF ReadBefore

(* The EOS ends the definition at i: its object has what it should.        *)
LEMMA ReadBeforeEnd ==
  ASSUME Typed, Nothing, Reading, ReadBefore, Next, EndTag
  PROVE  ReadBefore'
<1>1. /\ InTag /\ IsEOS(Here) /\ i' = i + (n + 1) + 1 /\ cur' = None /\ pc = "tag" /\ pc' = "top"
      /\ UNCHANGED <<syms, types>> /\ cur \in DOMAIN types
  BY DEF EndTag, made, InTag, Typed, TypeOK
<1>2. i \in Nat /\ n \in Nat /\ i + 1 + n \in 1 .. Len(syms) /\ Len(syms) \in Nat
  BY <1>1, HereProperty, SymbolProperty DEF Typed, TypeOK
<1>3. /\ i \in Scaffolds
      /\ types[cur].kind = KindOf(syms[i].class)
      /\ types[cur].tag = ValidName[syms[i].name] /\ types[cur].size = SizeOf(syms[i])
      /\ \A k \in i + 1 .. i + n : ~ IsEOS(syms[k]) /\ k \notin Scaffolds
      /\ FieldsAt(types[cur]) = {k \in i + 1 .. i + n : IsFieldOf(KindOf(syms[i].class), syms[k])}
      /\ Ascending(types[cur])
  BY <1>1 DEF Reading
<1>4. EndOf(i) = i + 1 + n
  <2>1. \A k \in i + 1 .. (i + 1 + n) - 1 : k \in i + 1 .. i + n
    BY <1>2
  <2>2. i + 1 + n > i
    BY <1>2
  <2> QED
    BY <1>1, <1>2, <1>3, <2>1, <2>2, EndIsFirst DEF Here
<1>5. FieldsOf(i) = FieldsAt(types[cur])
  <2>1. i + 1 .. EndOf(i) - 1 = i + 1 .. i + n
    BY <1>2, <1>4
  <2> QED
    BY <1>3, <2>1 DEF FieldsOf
<1>6. FilledFrom(cur, i)
  BY <1>3, <1>5 DEF FilledFrom, FieldsAt, Ascending
<1>7. FieldsOf(i) # {} <=> types[cur].fields # <<>>
  <2>1. types[cur].fields \in Seq(Members)
    BY <1>1 DEF Typed, TypeOK, Types
  <2> DEFINE L == Len(types[cur].fields)
  <2>2. L \in Nat /\ DOMAIN types[cur].fields = 1 .. L /\ (types[cur].fields = <<>> <=> L = 0)
    BY <2>1
  <2> HIDE DEF L
  <2>3. L # 0 => 1 \in 1 .. L
    BY <2>2
  <2>4. L = 0 => 1 .. L = {}
    BY <2>2
  <2> QED
    BY <1>5, <2>2, <2>3, <2>4 DEF FieldsAt
<1>8. \A j \in Scaffolds : j < i' <=> j < i \/ j = i
  <2> SUFFICES ASSUME NEW j \in Scaffolds PROVE j < i' <=> j < i \/ j = i
    OBVIOUS
  <2>1. j \in Nat
    BY SymbolProperty DEF Scaffolds, Typed
  <2>2. j \notin i + 1 .. i + n
    BY <1>3
  <2>3. j # i + 1 + n
    BY <1>1 DEF Scaffolds, Here, IsTagDef, IsEOS
  <2> QED
    BY <1>1, <1>2, <2>1, <2>2, <2>3
<1>9. /\ Scaffolds' = Scaffolds /\ \A j : FieldsOf(j)' = FieldsOf(j)
      /\ \A t, j : FilledFrom(t, j)' <=> FilledFrom(t, j)
  BY <1>1, StreamKept, FilledStays
<1>10. \A t \in DOMAIN types : t # None
  BY DEF Typed, TypeOK, Ids, None
<1>11. ASSUME NEW j \in Scaffolds, j < i', FieldsOf(j) # {}
       PROVE  \E t \in DOMAIN types : types[t].fields # <<>> /\ FilledFrom(t, j)
  <2>1. CASE j = i
    BY <1>1, <1>6, <1>7, <1>11, <2>1
  <2>2. CASE j < i
    BY <1>1, <1>11, <2>2 DEF ReadBefore
  <2> QED
    BY <1>8, <1>11, <2>1, <2>2
<1>12. ASSUME NEW t \in DOMAIN types, types[t].fields # <<>>
       PROVE  \E j \in Scaffolds : j < i' /\ FieldsOf(j) # {} /\ FilledFrom(t, j)
  <2>1. CASE t = cur
    BY <1>3, <1>6, <1>7, <1>8, <1>12, <2>1
  <2>2. CASE t # cur
    BY <1>1, <1>8, <1>12, <2>2 DEF ReadBefore
  <2> QED
    BY <2>1, <2>2
<1> QED
  BY <1>1, <1>9, <1>10, <1>11, <1>12 DEF ReadBefore

LEMMA ReadBeforeStep ==
  ASSUME Typed, Nothing, Reading, ReadBefore, Next
  PROVE  ReadBefore'
<1>0. i \in Nat /\ n \in Nat /\ \A j \in Scaffolds : j \in 1 .. Len(syms) /\ j \in Nat
  BY SymbolProperty DEF Typed, TypeOK, Scaffolds
<1>1. CASE InitTaggedTypes
  <2>1. /\ pc = "init" /\ pc' = "top" /\ syms' = syms /\ i' = i /\ i = 1
        /\ \A t \in DOMAIN types' : types'[t].fields = <<>>
    BY <1>1 DEF InitTaggedTypes, EmptyType, cursor, ReadBefore
  <2>2. \A j \in Scaffolds' : ~ (j < i')
    BY <1>0, <2>1, StreamKept
  <2> QED
    BY <2>1, <2>2 DEF ReadBefore
<1>2. CASE FoundScaffold
  <2>1. /\ pc = "top" /\ pc' = "tag" /\ UNCHANGED <<syms, types, i>> /\ cur = None
        /\ CandidatesOf(syms[i]) # {}
        /\ cur' = FindEmpty(types, KindOf(syms[i].class), ValidName[syms[i].name], SizeOf(syms[i]))
    BY <1>2 DEF FoundScaffold, BeginTag, made, AtTagDef, AtTop, Typed, TypeOK
  <2>2. \A t \in DOMAIN types : t # None
    BY DEF Typed, TypeOK, Ids, None
  <2> QED
    BY <2>1, <2>2, ReadBeforeKept
<1>3. CASE ParseTypedef
  <2>1. /\ pc = "top" /\ pc' = "top" /\ cur' = cur /\ i' = i + 1 /\ syms' = syms /\ cur = None
        /\ IsSymbol(syms[i]) /\ IsDefn(syms[i]) /\ types' = TypesAfter(syms[i])
        /\ fresh \notin DOMAIN types
    BY <1>3, ParseTypedefDoes DEF Typed, TypeOK
  <2>2. i \notin Scaffolds
    BY <1>3 DEF ParseTypedef, AtTypedef, Scaffolds, IsTagDef, TagClasses
  <2>3. \A j \in Scaffolds : j < i' <=> j < i
    BY <1>0, <2>1, <2>2
  <2>4. DOMAIN types \subseteq DOMAIN types'
    BY <2>1, ParseTypeProperty
  <2>5. \A t \in DOMAIN types' : t # cur' /\ types'[t].fields # <<>> =>
           t \in DOMAIN types /\ t # cur /\ types'[t] = types[t]
    BY <2>1, NewObjectsEmpty
  <2> QED
    BY <2>1, <2>3, <2>4, <2>5, ReadBeforeKept
<1>4. CASE SkipSymbol
  <2>1. /\ pc = "top" /\ pc' = "top" /\ i' = i + 1 /\ UNCHANGED <<syms, types, cur>>
        /\ AtTop /\ ~ AtTagDef
    BY <1>4 DEF SkipSymbol, made, AtTop
  <2>2. i \notin Scaffolds
    BY <2>1 DEF AtTagDef, Scaffolds
  <2>3. \A j \in Scaffolds : j < i' <=> j < i
    BY <1>0, <2>1, <2>2
  <2> QED
    BY <2>1, <2>3, ReadBeforeKept
<1>5. CASE Finish
  <2>1. /\ pc = "top" /\ pc' = "done" /\ UNCHANGED <<syms, types, i, cur>> /\ i > Len(syms)
    BY <1>5 DEF Finish, made, cursor
  <2> QED
    BY <2>1, ReadBeforeKept
<1>6. CASE AddField \/ AddMethod
  <2>1. /\ pc = "tag" /\ pc' = "tag" /\ cur' = cur /\ i' = i /\ syms' = syms
        /\ IsSymbol(Here) /\ IsDefn(Here) /\ DOMAIN types' = DOMAIN TypesAfter(Here)
        /\ \A t \in DOMAIN types' : t # cur => types'[t] = TypesAfter(Here)[t]
    BY <1>6, AddMemberDoes
  <2>2. DOMAIN types \subseteq DOMAIN types'
    BY <2>1, ParseTypeProperty
  <2>3. \A t \in DOMAIN types' : t # cur' /\ types'[t].fields # <<>> =>
           t \in DOMAIN types /\ t # cur /\ types'[t] = types[t]
    BY <2>1, NewObjectsEmpty
  <2> QED
    BY <2>1, <2>2, <2>3, ReadBeforeKept
<1>7. CASE AddEnumMember
  <2>1. /\ pc = "tag" /\ pc' = "tag" /\ cur' = cur /\ i' = i /\ syms' = syms
        /\ DOMAIN types' = DOMAIN types
        /\ \A t \in DOMAIN types' : t # cur => types'[t] = types[t]
    BY <1>7, AddEnumMemberDoes
  <2> QED
    BY <2>1, ReadBeforeKept
<1>8. CASE PassOver
  <2>1. pc = "tag" /\ pc' = "tag" /\ UNCHANGED <<syms, types, i, cur>>
    BY <1>8 DEF PassOver, made, InTag
  <2> QED
    BY <2>1, ReadBeforeKept
<1>9. CASE EndTag
  BY <1>9, ReadBeforeEnd
<1>10. CASE BadBase \/ MissingScaffold \/ BadTypedef \/ BadType \/ BadClass \/ Unreachable
  <2>1. pc' \in Panics
    BY <1>10 DEF BadBase, MissingScaffold, BeginTag, BadTypedef, BadType, BadClass, Unreachable,
       Panic, Panics
  <2> QED
    BY <2>1 DEF ReadBefore, Panics
<1> QED
  BY <1>1, <1>2, <1>3, <1>4, <1>5, <1>6, <1>7, <1>8, <1>9, <1>10
  DEF Next, TopStep, TagStep, MissingScaffold, FoundScaffold

DefInv == Typed /\ Nothing /\ Reading /\ ReadBefore

LEMMA DefInvInit == Init => DefInv
BY TypedInit DEF Init, DefInv, Nothing, Reading, ReadBefore

LEMMA DefInvStep == DefInv /\ [Next]_vars => DefInv'
<1> SUFFICES ASSUME DefInv, [Next]_vars PROVE DefInv'
  OBVIOUS
<1>1. CASE UNCHANGED vars
  <2>1. UNCHANGED <<syms, types, typedefs, i, n, cur, pc>>
    BY <1>1 DEF vars, made, cursor
  <2>2. /\ Scaffolds' = Scaffolds /\ \A j : FieldsOf(j)' = FieldsOf(j)
        /\ \A t, j : FilledFrom(t, j)' <=> FilledFrom(t, j)
    BY <2>1, StreamKept, FilledStays
  <2>3. Reading'
    BY <2>1, <2>2 DEF DefInv, Reading
  <2>4. ReadBefore'
    BY <2>1, <2>2 DEF DefInv, ReadBefore
  <2> QED
    BY <1>1, <2>1, <2>3, <2>4, TypedStep DEF DefInv, Nothing
<1> QED
  BY <1>1, TypedStep, NothingStep, ReadingStep, ReadBeforeStep DEF DefInv

(* When the pass over any stream is over, each definition with fields has  *)
(* filled an object of its kind, tag and size with all its fields, in the  *)
(* order of the stream, and no object has other fields.                    *)
THEOREM EveryDefinitionRead == Spec => []DefinitionsComplete
<1>1. DefInv => DefinitionsComplete
  <2> SUFFICES ASSUME DefInv, pc = "done" PROVE DefinitionsComplete
    BY DEF DefinitionsComplete
  <2>1. \A j \in Scaffolds : j < i
    BY SymbolProperty DEF DefInv, ReadBefore, Scaffolds, Typed, TypeOK
  <2>2. \A t \in DOMAIN types : t # cur
    BY DEF DefInv, Typed, TypeOK, Ids, None
  <2>3. /\ \A j \in Scaffolds : FieldsOf(j) # {} =>
             \E t \in DOMAIN types : types[t].fields # <<>> /\ FilledFrom(t, j)
        /\ \A t \in DOMAIN types : types[t].fields # <<>> =>
             \E j \in Scaffolds : FieldsOf(j) # {} /\ FilledFrom(t, j)
    BY <2>1, <2>2 DEF DefInv, ReadBefore
  <2> QED
    BY <2>3 DEF DefinitionsComplete
<1> QED
  BY <1>1, DefInvInit, DefInvStep, PTL DEF Spec

-----------------------------------------------------------------------------
(* A stream the pass is written for is accepted.                           *)

(* Of a closed sequence, what comes before an EOS found by reading on is   *)
(* before its end.                                                         *)
LEMMA EndIsAhead ==
  ASSUME Typed, NEW j \in Scaffolds, Closed(j),
         NEW k \in Nat, j <= k, \A x \in j + 1 .. k : ~ IsEOS(syms[x])
  PROVE  /\ EndOf(j) \in 1 .. Len(syms) /\ EndOf(j) > k
         /\ IsEOS(syms[EndOf(j)])
<1>1. DOMAIN syms = 1 .. Len(syms) /\ Len(syms) \in Nat /\ j \in Nat
  BY SymbolProperty DEF Typed, Scaffolds
<1> DEFINE S == {e \in Pos : e > j /\ IsEOS(syms[e])}
<1>2. S \subseteq Nat /\ S # {}
  BY <1>1 DEF Closed, Pos
<1>3. PICK e \in S : \A y \in S : e <= y
  BY <1>2, LeastExists
<1>4. e \in Pos /\ e > j /\ IsEOS(syms[e]) /\ \A x \in j + 1 .. e - 1 : ~ IsEOS(syms[x])
  <2> SUFFICES ASSUME NEW x \in j + 1 .. e - 1, IsEOS(syms[x]) PROVE FALSE
    BY <1>3
  <2>1. x \in S
    BY <1>1, <1>3 DEF Pos
  <2> QED
    BY <1>1, <1>3, <2>1 DEF Pos
<1>5. EndOf(j) = e
  BY <1>1, <1>4, EndIsFirst DEF Pos
<1>6. ~ (e <= k)
  BY <1>1, <1>4 DEF Pos
<1> QED
  BY <1>1, <1>4, <1>5, <1>6 DEF Pos

(* Inside a well-formed sequence the next symbol is one its loop knows.    *)
LEMMA WellFormedHere ==
  ASSUME Typed, Reading, WellFormed, pc = "tag"
  PROVE  /\ i + 1 + n <= Len(syms)
         /\ IsDefn(Here) /\ ~ IsEOS(Here) =>
              /\ IsFieldOf(CurKind, Here) \/ IsMethodOf(CurKind, Here)
              /\ CurKind # "enum" => TypeParses(Here)
<1>1. /\ i \in Scaffolds /\ i + n <= Len(syms) /\ CurKind = KindOf(syms[i].class)
      /\ \A k \in i + 1 .. i + n : ~ IsEOS(syms[k])
  BY DEF Reading, CurKind
<1>2. i \in Nat /\ n \in Nat /\ Len(syms) \in Nat
  BY SymbolProperty DEF Typed, TypeOK
<1>3. /\ Closed(i)
      /\ \A k \in i + 1 .. EndOf(i) - 1 :
           \/ ~ IsDefn(syms[k])
           \/ /\ \/ IsFieldOf(KindOf(syms[i].class), syms[k])
                 \/ IsMethodOf(KindOf(syms[i].class), syms[k])
              /\ syms[i].class = "ENTAG" \/ TypeParses(syms[k])
  BY <1>1 DEF WellFormed
<1>4. EndOf(i) \in 1 .. Len(syms) /\ EndOf(i) > i + n /\ IsEOS(syms[EndOf(i)])
  <2>1. i + n \in Nat /\ i <= i + n
    BY <1>2
  <2> QED
    BY <1>1, <1>3, <2>1, EndIsAhead
<1>5. i + 1 + n <= Len(syms)
  BY <1>2, <1>4
<1>6. ASSUME IsDefn(Here), ~ IsEOS(Here)
      PROVE  /\ IsFieldOf(CurKind, Here) \/ IsMethodOf(CurKind, Here)
             /\ CurKind # "enum" => TypeParses(Here)
  <2>1. i + 1 + n # EndOf(i)
    BY <1>4, <1>6 DEF Here
  <2>2. i + 1 + n \in i + 1 .. EndOf(i) - 1
    BY <1>2, <1>4, <2>1
  <2>3. syms[i].class = "ENTAG" => KindOf(syms[i].class) = "enum"
    BY DEF KindOf
  <2> QED
    BY <1>1, <1>3, <1>6, <2>2, <2>3 DEF Here
<1> QED
  BY <1>5, <1>6

LEMMA AcceptedStep ==
  ASSUME Typed, Reading, IInv, WellFormed, pc \notin Panics, Next
  PROVE  pc' \notin Panics
<1>1. i \in Nat /\ DOMAIN syms = 1 .. Len(syms) /\ (pc = "tag" => types[cur] \in Types)
  BY SymbolProperty DEF Typed, TypeOK
<1>2. ~ BadBase
  <2>1. AtTagDef => i \in Scaffolds
    BY <1>1 DEF AtTagDef, AtTop, Scaffolds, Typed, TypeOK
  <2> QED
    BY <2>1 DEF BadBase, WellFormed
<1>3. ~ BadTypedef
  <2>1. AtTypedef => i \in Pos
    BY <1>1 DEF AtTypedef, AtTop, Pos, Typed, TypeOK
  <2> QED
    BY <2>1 DEF BadTypedef, AtTypedef, WellFormed
<1>4. ~ BadType
  BY WellFormedHere DEF BadType, HasType, IsField, IsStructField, IsUnionField, IsMethod, IsDefn,
     IsEOS, InTag
<1>5. ~ BadClass
  <2> SUFFICES ASSUME BadClass PROVE FALSE
    OBVIOUS
  <2>1. IsFieldOf(CurKind, Here) \/ IsMethodOf(CurKind, Here)
    BY WellFormedHere DEF BadClass, InTag
  <2>2. CurKind \in Kinds
    BY <1>1 DEF BadClass, InTag, CurKind, Types
  <2> QED
    BY <2>1, <2>2 DEF BadClass, IsFieldOf, IsMethodOf, HasType, IsField, IsStructField,
       IsUnionField, IsMethod, IsEnumMember, Kinds
<1>6. ~ Unreachable
  <2>1. Len(syms) \in Nat /\ n \in Nat
    BY SymbolProperty DEF Typed, TypeOK
  <2> QED
    BY <1>1, <2>1, WellFormedHere DEF Unreachable
<1>7. ~ MissingScaffold
  <2>1. pc' # "missing"
    BY IInvStep DEF IInv, ScaffoldNeverMissing
  <2> QED
    BY <2>1 DEF MissingScaffold, BeginTag, Panic
<1>8. CASE InitTaggedTypes \/ FoundScaffold \/ Finish \/ EndTag
  BY <1>8 DEF InitTaggedTypes, FoundScaffold, BeginTag, Finish, EndTag, Panics
<1>9. CASE \/ ParseTypedef \/ SkipSymbol \/ AddField \/ AddMethod \/ AddEnumMember \/ PassOver
  BY <1>9 DEF ParseTypedef, SkipSymbol, AddField, AddMethod, AddEnumMember, PassOver, InTag, Panics
<1> QED
  BY <1>2, <1>3, <1>4, <1>5, <1>6, <1>7, <1>8, <1>9
  DEF Next, TopStep, TagStep, MissingScaffold, FoundScaffold

(* A stream whose tag sequences are closed and use the classes and types   *)
(* that are supported goes through ParseTypes without a panic.             *)
THEOREM WellFormedStreamsAccepted == Spec => []WellFormedAccepted
<1> DEFINE Inv == DefInv /\ IInv /\ WellFormedAccepted
<1>1. Init => Inv
  BY DefInvInit DEF Init, DefInv, IInv, EnoughScaffolds, ScaffoldNeverMissing,
     WellFormedAccepted, Panics
<1>2. Inv /\ [Next]_vars => Inv'
  <2> SUFFICES ASSUME Inv, [Next]_vars PROVE Inv'
    OBVIOUS
  <2>1. DefInv' /\ IInv' /\ syms' = syms
    BY DefInvStep, IInvStep
    DEF Next, InitTaggedTypes, TopStep, TagStep, BadBase, BeginTag,
     ParseTypedef, BadTypedef, SkipSymbol, Finish, AddField, AddMethod, BadType,
     AddEnumMember, BadClass, PassOver, EndTag, Unreachable, Panic, vars
  <2>2. WellFormed' = WellFormed
    BY <2>1, StreamKept DEF WellFormed, Closed, EndOf, Pos
  <2>3. CASE UNCHANGED vars
    BY <2>1, <2>2, <2>3 DEF vars, WellFormedAccepted
  <2>4. CASE Next
    BY <2>1, <2>2, <2>4, AcceptedStep DEF WellFormedAccepted, DefInv
  <2> QED
    BY <2>1, <2>3, <2>4
<1>3. Inv => WellFormedAccepted
  OBVIOUS
<1> QED
  BY <1>1, <1>2, <1>3, PTL DEF Spec
=============================================================================
