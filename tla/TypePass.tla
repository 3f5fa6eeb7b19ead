------------------------------ MODULE TypePass ------------------------------
(***************************************************************************)
(* The first pass over a symbol stream, Parser.ParseTypes of               *)
(* csym/parse_types.go: it gives every tagged type (struct, union, enum)   *)
(* of the stream an object, fills the objects from the tag sequences that  *)
(* define them, and records the typedefs.                                  *)
(*                                                                         *)
(* Structs, unions and enums are handled by three copies of the same code; *)
(* they are one heap of objects here, told apart by their kind.  An object *)
(* is identified by a number that grows in the order of creation, so that  *)
(* p.Structs is the ids of kind "struct" in increasing order and           *)
(* p.StructTags[tag] those among them with that tag.  The scaffold that    *)
(* initTaggedTypes makes for the definition at position j of the stream    *)
(* has the id j.                                                           *)
(*                                                                         *)
(* A type is abstracted to its base, the object or typedef it is bound to, *)
(* and the number of its array modifiers.                                  *)
(***************************************************************************)
EXTENDS Integers, Sequences, FiniteSets

CONSTANTS
  Streams,    (* the symbol streams to translate, a set of sequences       *)
  Names,      (* the names and tags that occur in them                     *)
  ValidName,  (* validName: each name to the C identifier made of it       *)
  VtblTag,    (* "__vtbl_ptr_type"                                         *)
  BoolName    (* "bool"                                                    *)

TagClasses == {"STRTAG", "UNTAG", "ENTAG"}
Kinds == {"struct", "union", "enum"}
KindOf(class) == [STRTAG |-> "struct", UNTAG |-> "union", ENTAG |-> "enum"][class]
BaseOf(kind)  == [struct |-> "Struct", union |-> "Union", enum |-> "Enum"][kind]
KindOfBase(base) == [Struct |-> "struct", Union |-> "union", Enum |-> "enum"][base]

TaggedBases == {"Struct", "Union", "Enum"}

(* Int stands for the bases that map to a C type of their own, Float for   *)
(* those parseBase does not support (FLOAT, DOUBLE, MOE).                  *)
Bases == TaggedBases \cup {"Null", "Int", "Float"}

(* What the passes read of a definition symbol.  A Def has neither tag nor *)
(* dimensions; a symbol with another body is not looked into here.         *)
IsDefn(s) == s.body \in {"Def", "Def2"}

IsSymbol(s) ==
  /\ s.body \in STRING
  /\ IsDefn(s) =>
       /\ s.class \in STRING /\ s.base \in Bases
       /\ s.size \in Nat /\ s.arys \in Nat /\ s.name \in Names
  /\ s.body = "Def2" => s.tag \in Names /\ s.dims \in Nat

(* A name is a sequence of numbers, the empty name <<>>; uniqueEnum's      *)
(* "%s_DUPLICATE_%d" is Append(name, index), injective as the string is.   *)
ASSUME NamesAssumption ==
  /\ Names \subseteq Seq(Nat)
  /\ {<<>>, VtblTag, BoolName} \subseteq Names
  /\ ValidName \in [Names -> Names]

ASSUME StreamsAssumption ==
  \A s \in Streams : /\ Len(s) \in Nat /\ DOMAIN s = 1 .. Len(s)
                     /\ \A j \in DOMAIN s : IsSymbol(s[j])

VARIABLES
  syms,        (* the stream                                               *)
  types,       (* id |-> tagged type, the objects of the three kinds       *)
  fresh,       (* the id of the next object made                           *)
  typedefs,    (* p.Typedefs                                               *)
  boolDef,     (* p.Types["bool"]: 0 predeclared, else an index of typedefs*)
  enumMembers, (* p.enumMembers                                            *)
  i,           (* the index of ParseTypes' loop                            *)
  n,           (* the index of the loop inside parse{Struct,Union,Enum}Tag *)
  cur,         (* the object that loop fills, or None                      *)
  pc           (* "init", "top", "tag", "done" or the reason of a panic    *)

made   == <<types, fresh, typedefs, boolDef, enumMembers>>
cursor == <<i, n, cur>>
vars   == <<syms, made, cursor, pc>>

None == -1
Panics == {"missing", "base", "class", "unsupported", "unreachable"}

-----------------------------------------------------------------------------
(* The heap of tagged types.                                               *)

LastOf(S) == CHOOSE x \in S : \A y \in S : y <= x

EmptyType(kind, tag, size) ==
  [kind |-> kind, tag |-> tag, size |-> size, fields |-> <<>>, methods |-> <<>>]

Tagged(heap, kind, tag) ==
  {t \in DOMAIN heap : heap[t].kind = kind /\ heap[t].tag = tag}

(* A plausible defect: only a type not defined yet is found.               *)
FindTypeForward(heap, kind, tag) ==
  LET S == {t \in Tagged(heap, kind, tag) : heap[t].fields = <<>>}
  IN IF S = {} THEN None ELSE LastOf(S)

(* findStruct, findUnion and findEnum as parseBase calls them (the size is *)
(* not matched): the last object with the tag.  On None they make one.     *)
FindType(heap, kind, tag) ==
  IF Tagged(heap, kind, tag) = {} THEN None ELSE LastOf(Tagged(heap, kind, tag))

(* The objects findEmpty{Struct,Union,Enum} accepts; it keeps the last.    *)
Candidates(heap, kind, tag, size) ==
  {t \in Tagged(heap, kind, tag) : heap[t].size = size /\ heap[t].fields = <<>>}

(* A plausible defect: the emptiness of the object is not looked at.       *)
FindEmptyAny(heap, kind, tag, size) ==
  LastOf({t \in Tagged(heap, kind, tag) : heap[t].size = size})

FindEmpty(heap, kind, tag, size) == LastOf(Candidates(heap, kind, tag, size))

IsTagDef(s) == s.body = "Def" /\ s.class \in TagClasses

(* An enum has no size.                                                    *)
SizeOf(s) == IF s.class = "ENTAG" THEN 0 ELSE s.size

CandidatesOf(s) ==
  Candidates(types, KindOf(s.class), ValidName[s.name], SizeOf(s))

-----------------------------------------------------------------------------
(* Types of members and typedefs.                                          *)

(* The only Defs and Def2s parseType returns for: the base is supported    *)
(* and parseMods finds a dimension for every array modifier.               *)
TypeParses(s) ==
  /\ s.base # "Float"
  /\ s.arys <= IF s.body = "Def2" THEN s.dims ELSE 0

TagOf(s) == ValidName[IF s.body = "Def2" THEN s.tag ELSE <<>>]

MakesType(s) ==
  s.base \in TaggedBases /\ FindType(types, KindOfBase(s.base), TagOf(s)) = None

(* What the type of s is bound to.                                         *)
TypeRef(s) ==
  CASE s.base \in TaggedBases ->
         [to |-> "tagged", id |-> IF MakesType(s) THEN fresh
                                  ELSE FindType(types, KindOfBase(s.base), TagOf(s))]
    [] s.base = "Null" -> [to |-> "typedef", id |-> boolDef]
    [] OTHER           -> [to |-> "basic", id |-> 0]

(* The heap after parseType: with the object it made, if it made one.      *)
TypesAfter(s) ==
  IF MakesType(s)
  THEN [t \in DOMAIN types \cup {fresh} |->
          IF t = fresh THEN EmptyType(KindOfBase(s.base), TagOf(s), 0) ELSE types[t]]
  ELSE types

(* A plausible defect: the object made is not added to the lists.          *)
FreshAfterNoAdd(s) == fresh

FreshAfter(s) == IF MakesType(s) THEN fresh + 1 ELSE fresh

(* A plausible defect: one suffix is tried, and not looked up again.       *)
UniqueEnumOnce(name) ==
  IF name \in enumMembers THEN Append(name, 0) ELSE name

(* The indices uniqueEnum can end with: the first whose name is not taken. *)
FreeIndices(name) ==
  {k \in 0 .. Cardinality(enumMembers) : Append(name, k) \notin enumMembers}

UniqueEnum(name) ==
  IF name \notin enumMembers THEN name
  ELSE Append(name, CHOOSE k \in FreeIndices(name) :
                      \A j \in FreeIndices(name) : k <= j)

-----------------------------------------------------------------------------
Init ==
  /\ syms \in Streams
  /\ types = [t \in {} |-> 0] /\ fresh = 0
  /\ typedefs = <<>> /\ boolDef = 0 /\ enumMembers = {}
  /\ i = 1 /\ n = 0 /\ cur = None
  /\ pc = "init"

(* A panic ends the program: what the call had built is lost with it.      *)
Panic(why) == pc' = why /\ UNCHANGED <<syms, made, cursor>>

(* A plausible defect: a tag already seen gets no scaffold of its own.     *)
ScaffoldsByTag ==
  {j \in DOMAIN syms : IsTagDef(syms[j]) /\ \A k \in 1 .. j - 1 :
     ~ (IsTagDef(syms[k]) /\ syms[k].name = syms[j].name)}

Scaffolds == {j \in DOMAIN syms : IsTagDef(syms[j])}

(* initTaggedTypes: __vtbl_ptr_type and one scaffold per tag definition.   *)
InitTaggedTypes ==
  /\ pc = "init" /\ pc' = "top"
  /\ types' = [t \in {0} \cup Scaffolds |->
                 IF t = 0 THEN EmptyType("struct", VtblTag, 0)
                 ELSE EmptyType(KindOf(syms[t].class), ValidName[syms[t].name],
                                SizeOf(syms[t]))]
  /\ fresh' = Len(syms) + 1
  /\ UNCHANGED <<syms, typedefs, boolDef, enumMembers, cursor>>

-----------------------------------------------------------------------------
(* ParseTypes' loop.                                                       *)

AtTop == pc = "top" /\ i <= Len(syms)
AtTagDef == AtTop /\ IsTagDef(syms[i])
AtTypedef == AtTop /\ IsDefn(syms[i]) /\ syms[i].class = "TPDEF"

BadBase == /\ AtTagDef /\ syms[i].base # BaseOf(KindOf(syms[i].class))
           /\ Panic("base")

(* parse{Struct,Union,Enum}Tag up to their loop, with the panic of         *)
(* findEmpty{Struct,Union,Enum} when there is no object to fill.           *)
BeginTag ==
  LET s == syms[i] IN
  /\ AtTagDef /\ s.base = BaseOf(KindOf(s.class))
  /\ IF CandidatesOf(s) = {}
     THEN Panic("missing")
     ELSE /\ cur' = FindEmpty(types, KindOf(s.class), ValidName[s.name], SizeOf(s))
          /\ n' = 0 /\ pc' = "tag"
          /\ UNCHANGED <<syms, made, i>>

(* parseTypedef: the type is resolved before the name is (re)bound.        *)
ParseTypedef ==
  LET s == syms[i] IN
  /\ AtTypedef /\ TypeParses(s)
  /\ types' = TypesAfter(s) /\ fresh' = FreshAfter(s)
  /\ typedefs' = Append(typedefs, [at |-> i, name |-> ValidName[s.name], ref |-> TypeRef(s)])
  /\ boolDef' = IF ValidName[s.name] = BoolName THEN Len(typedefs) + 1 ELSE boolDef
  /\ i' = i + 1
  /\ UNCHANGED <<syms, enumMembers, n, cur, pc>>

BadTypedef == AtTypedef /\ ~ TypeParses(syms[i]) /\ Panic("unsupported")

SkipSymbol == /\ AtTop /\ ~ AtTagDef /\ ~ AtTypedef
              /\ i' = i + 1 /\ UNCHANGED <<syms, made, n, cur, pc>>

Finish == /\ pc = "top" /\ i > Len(syms)
          /\ pc' = "done" /\ UNCHANGED <<syms, made, cursor>>
-----------------------------------------------------------------------------
(* The loops of parseStructTag, parseUnionTag and parseEnumTag, over the   *)
(* symbols that follow the definition; other bodies are passed over.       *)

InTag == pc = "tag" /\ i + 1 + n <= Len(syms)
Here  == syms[i + 1 + n]
CurKind == types[cur].kind

IsStructField(s) == IsDefn(s) /\ s.class = "MOS"
IsUnionField(s)  == IsDefn(s) /\ s.class = "MOU"
IsEnumMember(s)  == s.body = "Def" /\ s.class = "MOE"
IsMethod(s)      == s.body = "Def" /\ s.class = "FIELD"
IsEOS(s)         == s.body = "Def2" /\ s.class = "EOS"

(* A plausible defect: a member whose type has a tag is not expected.      *)
IsFieldOfDef(kind, s) ==
  /\ s.body = "Def"
  /\ \/ kind = "struct" /\ IsStructField(s)
     \/ kind = "union"  /\ IsUnionField(s)

IsField(kind, s) == \/ kind = "struct" /\ IsStructField(s)
                    \/ kind = "union"  /\ IsUnionField(s)

HasType(kind, s) == \/ IsField(kind, s)
                    \/ kind = "struct" /\ IsMethod(s)

Member(s, name, ref) == [at |-> i + 1 + n, name |-> name, ref |-> ref]

AddField ==
  /\ InTag /\ IsField(CurKind, Here) /\ TypeParses(Here)
  /\ types' = [TypesAfter(Here) EXCEPT ![cur].fields =
                 Append(@, Member(Here, ValidName[Here.name], TypeRef(Here)))]
  /\ fresh' = FreshAfter(Here)
  /\ n' = n + 1
  /\ UNCHANGED <<syms, typedefs, boolDef, enumMembers, i, cur, pc>>

AddMethod ==
  /\ InTag /\ CurKind = "struct" /\ IsMethod(Here) /\ TypeParses(Here)
  /\ types' = [TypesAfter(Here) EXCEPT ![cur].methods =
                 Append(@, Member(Here, ValidName[Here.name], TypeRef(Here)))]
  /\ fresh' = FreshAfter(Here)
  /\ n' = n + 1
  /\ UNCHANGED <<syms, typedefs, boolDef, enumMembers, i, cur, pc>>

BadType == InTag /\ HasType(CurKind, Here) /\ ~ TypeParses(Here) /\ Panic("unsupported")

AddEnumMember ==
  LET name == UniqueEnum(ValidName[Here.name]) IN
  /\ InTag /\ CurKind = "enum" /\ IsEnumMember(Here)
  /\ types' = [types EXCEPT ![cur].fields =
                 Append(@, Member(Here, name, [to |-> "basic", id |-> 0]))]
  /\ enumMembers' = enumMembers \cup {name}
  /\ n' = n + 1
  /\ UNCHANGED <<syms, fresh, typedefs, boolDef, i, cur, pc>>

BadClass ==
  /\ InTag /\ IsDefn(Here) /\ ~ HasType(CurKind, Here) /\ ~ IsEOS(Here)
  /\ ~ (CurKind = "enum" /\ IsEnumMember(Here))
  /\ Panic("class")

PassOver == /\ InTag /\ ~ IsDefn(Here)
            /\ n' = n + 1 /\ UNCHANGED <<syms, made, i, cur, pc>>

(* The EOS: n + 1 is returned, added to i, and ParseTypes' i++ follows.    *)
EndTag == /\ InTag /\ IsEOS(Here)
          /\ i' = i + (n + 1) + 1 /\ cur' = None /\ n' = 0 /\ pc' = "top"
          /\ UNCHANGED <<syms, made>>

Unreachable == pc = "tag" /\ i + 1 + n > Len(syms) /\ Panic("unreachable")

-----------------------------------------------------------------------------
TopStep == \/ BadBase \/ BeginTag \/ ParseTypedef
           \/ BadTypedef \/ SkipSymbol \/ Finish

TagStep == \/ AddField \/ AddMethod \/ BadType \/ AddEnumMember
           \/ BadClass \/ PassOver \/ EndTag \/ Unreachable

Next == InitTaggedTypes \/ TopStep \/ TagStep

Spec == Init /\ [][Next]_vars

-----------------------------------------------------------------------------
(* The properties.                                                         *)

Ids == 0 .. fresh - 1
Refs == [to : {"tagged", "typedef", "basic"}, id : Nat]
Members == [at : Nat, name : Seq(Nat), ref : Refs]
Types == [kind : Kinds, tag : Names, size : Nat,
          fields : Seq(Members), methods : Seq(Members)]

(* The state has its shape; the identity of a new object is unused; and    *)
(* exactly while a tag sequence is read there is an object to fill.        *)
TypeOK ==
  /\ fresh \in Nat
  /\ DOMAIN types \subseteq Ids /\ \A t \in DOMAIN types : types[t] \in Types
  /\ typedefs \in Seq(Members) /\ boolDef \in 0 .. Len(typedefs)
  /\ enumMembers \subseteq Seq(Nat) /\ IsFiniteSet(enumMembers)
  /\ i \in Nat \ {0} /\ n \in Nat
  /\ pc = "tag" => cur \in DOMAIN types
  /\ pc \in {"init", "top", "done"} => cur = None
  /\ pc \in {"init", "top", "tag", "done"} \cup Panics

(* findEmptyStruct and its copies "assert that the type exists": however   *)
(* often a tag is defined, declared forward by a use, or shared between    *)
(* structs, unions and enums, the scaffolds initTaggedTypes made are       *)
(* enough, and the panics of lines 358-360, 460-462, 559-561 are not       *)
(* reached.                                                                *)
ScaffoldNeverMissing == pc # "missing"

(* Why: of the definitions still to come with the kind, tag and size of    *)
(* the one at j there are never more than objects they could be given.     *)
NextTop == IF pc = "tag" THEN i + 1 ELSE i
SameKey(j, k) == /\ KindOf(syms[j].class) = KindOf(syms[k].class)
                 /\ ValidName[syms[j].name] = ValidName[syms[k].name]
                 /\ SizeOf(syms[j]) = SizeOf(syms[k])
Pending(j) == {k \in Scaffolds : k >= NextTop /\ SameKey(j, k)}
Open(j) == CandidatesOf(syms[j]) \ {cur}

EnoughScaffolds ==
  pc \in {"top", "tag"} =>
    \A j \in Scaffolds : j >= NextTop => Cardinality(Open(j)) >= Cardinality(Pending(j))

Pos == DOMAIN syms
EndOf(j) == CHOOSE e \in Pos : /\ e > j /\ IsEOS(syms[e])
                              /\ \A k \in j + 1 .. e - 1 : ~ IsEOS(syms[k])

Closed(j) == \E e \in Pos : e > j /\ IsEOS(syms[e])

(* What a tag sequence consists of: fields (enum members), and methods.    *)
IsFieldOf(kind, s) ==
  /\ IsDefn(s) /\ s.class = [struct |-> "MOS", union |-> "MOU", enum |-> "MOE"][kind]
  /\ kind = "enum" => s.body = "Def"
IsMethodOf(kind, s) == kind = "struct" /\ s.body = "Def" /\ s.class = "FIELD"

(* The positions of the fields (enum members) of the definition at j.      *)
FieldsOf(j) ==
  {k \in j + 1 .. EndOf(j) - 1 : IsFieldOf(KindOf(syms[j].class), syms[k])}

FilledFrom(t, j) ==
  /\ types[t].kind = KindOf(syms[j].class)
  /\ types[t].tag = ValidName[syms[j].name] /\ types[t].size = SizeOf(syms[j])
  /\ {types[t].fields[k].at : k \in DOMAIN types[t].fields} = FieldsOf(j)
  /\ \A k, l \in DOMAIN types[t].fields :
       k < l => types[t].fields[k].at < types[t].fields[l].at

(* When the pass is over, each definition with fields filled one object of *)
(* its kind, tag and size with all its fields, in order, and no object     *)
(* has fields of anything else: the same tag and size may be defined any   *)
(* number of times, as header files included by several sources are.       *)
DefinitionsComplete ==
  pc = "done" =>
    LET filled == {t \in DOMAIN types : types[t].fields # <<>>}
        defs   == {j \in Scaffolds : FieldsOf(j) # {}}
    IN /\ \A j \in defs : \E t \in filled : FilledFrom(t, j)
       /\ \A t \in filled : \E j \in defs : FilledFrom(t, j)

(* An object that has fields is filled by no second definition: only the   *)
(* sequence being read adds to an object, and it never takes up one that   *)
(* an earlier sequence gave fields.  One with methods only still counts as *)
(* empty, and a second definition of its tag may go into it.               *)
DefinedIsFrozen ==
  [][\A t \in DOMAIN types : types[t].fields # <<>> /\ t # cur =>
       t # cur' /\ types'[t] = types[t]]_vars

MembersOf(t) == {types[t].fields[k] : k \in DOMAIN types[t].fields}
                \cup {types[t].methods[k] : k \in DOMAIN types[t].methods}

(* Every use of a tagged type made so far: a member or a typedef.          *)
Uses == {m \in (UNION {MembersOf(t) : t \in DOMAIN types})
               \cup {typedefs[k] : k \in DOMAIN typedefs} : m.ref.to = "tagged"}

(* All the uses of one tag, wherever they stand in the stream, before the  *)
(* definition of the type or after it, are bound to the same object, and   *)
(* that object has the kind and the tag the symbol names.                  *)
UseBindsOneObject ==
  \A m \in Uses :
    /\ m.ref.id \in DOMAIN types
    /\ types[m.ref.id].kind = KindOfBase(syms[m.at].base)
    /\ types[m.ref.id].tag = TagOf(syms[m.at])
    /\ \A o \in Uses :
         /\ syms[o.at].base = syms[m.at].base
         /\ TagOf(syms[o.at]) = TagOf(syms[m.at])
         => o.ref = m.ref

EnumMembers == {t \in DOMAIN types : types[t].kind = "enum"}

(* Enum members share one scope in C: no two members of the enums have the *)
(* same name, also when a name of the stream reads like one that           *)
(* uniqueEnum makes.                                                       *)
UniqueEnumMembers ==
  \A t, u \in EnumMembers : \A k \in DOMAIN types[t].fields, l \in DOMAIN types[u].fields :
    types[t].fields[k].name = types[u].fields[l].name => t = u /\ k = l

(* The streams parse_types.go is written for.                              *)
WellFormed ==
  /\ \A j \in Scaffolds :
       /\ syms[j].base = BaseOf(KindOf(syms[j].class)) /\ Closed(j)
       /\ \A k \in j + 1 .. EndOf(j) - 1 :
            \/ ~ IsDefn(syms[k])
            \/ /\ \/ IsFieldOf(KindOf(syms[j].class), syms[k])
                  \/ IsMethodOf(KindOf(syms[j].class), syms[k])
               /\ syms[j].class = "ENTAG" \/ TypeParses(syms[k])
  /\ \A j \in Pos : IsDefn(syms[j]) /\ syms[j].class = "TPDEF" => TypeParses(syms[j])

(* A stream whose tag sequences are closed and use supported classes and   *)
(* types is translated without a panic.                                    *)
WellFormedAccepted == WellFormed => pc \notin Panics
=============================================================================
