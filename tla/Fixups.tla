------------------------------- MODULE Fixups -------------------------------
(***************************************************************************)
(* RemoveDuplicateTypes and MakeNamesUnique of csym/parse_fixups.go, which *)
(* main.go calls after ParseTypes and ParseDecls (TypePass, DeclPass): the *)
(* structs and then the unions that are reflect.DeepEqual to an earlier    *)
(* one with the same tag are dropped from the parser's lists and their     *)
(* uses replaced, and the types, variables and functions that still share  *)
(* a name are renamed.                                                     *)
(*                                                                         *)
(* The heap is that of the passes; an object in dropped is in none of the  *)
(* lists any more.  p.StructTags[tag] is List("struct", tag), in the order *)
(* of the ids: its keys are the tags of the stream, which types keeps,     *)
(* while renamed has the tags given since.  The same holds for unions and  *)
(* enums.                                                                  *)
(***************************************************************************)
EXTENDS DeclPass

(* What DeepEqual sees of a type besides the tagged type or typedef at its *)
(* base: its modifiers, their dimensions, and which basic type Int is.     *)
ASSUME FixAssumption ==
  \A s \in Streams : \A j \in DOMAIN s : IsDefn(s[j]) => s[j].form \in STRING

VARIABLES
  dropped,  (* the types that were taken off the lists                     *)
  renamed,  (* the types with a new tag |-> that tag                       *)
  renaming, (* the type in UniqueStructTag (and copies) and its newTag     *)
  stage,    (* the call that comes next, "fixed" or "overflow"             *)
  parsed    (* the heap before the fixups, for the properties only         *)

fixVars == <<dropped, renamed, renaming, stage, parsed>>
everyVar == <<allVars, fixVars>>

NoTag == [id |-> None, tag |-> <<>>]

(* A plausible defect: the lists of tags keep the types that were dropped. *)
ListedAll(kind) == {t \in DOMAIN types : types[t].kind = kind}

Listed(kind) == {t \in DOMAIN types \ dropped : types[t].kind = kind}
List(kind, tag) == {t \in Listed(kind) : types[t].tag = tag}

-----------------------------------------------------------------------------
(* reflect.DeepEqual: types are a graph whose nodes are the references to  *)
(* tagged types and typedefs; equal are the nodes that no path tells apart.*)

RefsOf(members) == [k \in DOMAIN members |-> members[k].ref]

Succ(heap, r) ==
  CASE r.to = "tagged" -> RefsOf(heap[r.id].fields) \o RefsOf(heap[r.id].methods)
    [] r.to = "typedef" /\ r.id # 0 -> <<typedefs[r.id].ref>>
    [] OTHER -> <<[to |-> "basic", id |-> 0]>>

Nodes(heap) ==
  {[to |-> "tagged", id |-> t] : t \in DOMAIN heap}
  \cup {[to |-> "typedef", id |-> k] : k \in 0 .. Len(typedefs)}

(* The largest part of a relation on nodes that is closed under successors:*)
(* a round that drops something splits a class of nodes.                   *)
Related(R, r, q) == r = q \/ <<r, q>> \in R

SuccRelated(heap, R, r, q) ==
  /\ DOMAIN Succ(heap, r) = DOMAIN Succ(heap, q)
  /\ \A x \in DOMAIN Succ(heap, r) : Related(R, Succ(heap, r)[x], Succ(heap, q)[x])

StillRelated(heap, R) == {p \in R : SuccRelated(heap, R, p[1], p[2])}

LargestClosed(heap, pairs) ==
  LET closed[k \in 0 .. Cardinality(Nodes(heap))] ==
        IF k = 0 THEN pairs ELSE StillRelated(heap, closed[k - 1])
  IN closed[Cardinality(Nodes(heap))]

(* A plausible defect: two fields with one name are the same.              *)
FieldShapeName(member) == [name |-> member.name]

FieldShape(member) ==
  LET s == syms[member.at] IN
  [name |-> member.name, offset |-> s.value, size |-> s.size, form |-> s.form]

MemberShape(member) == [name |-> member.name, value |-> syms[member.at].value]

ShapesOf(kind, members) ==
  [k \in DOMAIN members |->
     IF kind = "enum" THEN MemberShape(members[k]) ELSE FieldShape(members[k])]

(* What a node is, apart from what it refers to.  The predeclared bool is  *)
(* the typedef 0 of c.Int.                                                 *)
Shape(heap, r) ==
  CASE r.to = "tagged" ->
         LET t == heap[r.id] IN
         <<t.kind, t.tag, t.size, ShapesOf(t.kind, t.fields), ShapesOf(t.kind, t.methods)>>
    [] r.to = "typedef" /\ r.id # 0 ->
         <<"typedef", typedefs[r.id].name, syms[typedefs[r.id].at].form, typedefs[r.id].ref.to>>
    [] OTHER -> <<"typedef", BoolName, "int", "basic">>

SameShape(heap) == {p \in Nodes(heap) \X Nodes(heap) :
                      p[1] # p[2] /\ p[1].to = p[2].to /\ Shape(heap, p[1]) = Shape(heap, p[2])}

DeepEqual(heap) ==
  {<<p[1].id, p[2].id>> :
     p \in {q \in LargestClosed(heap, SameShape(heap)) : q[1].to = "tagged"}}

-----------------------------------------------------------------------------
(* removeStructsDuplicates and removeUnionsDuplicates.                     *)

(* A plausible defect: only neighbours in the list are compared.           *)
ReplacedByNeighbour(kind, equal) ==
  [t \in Listed(kind) |->
     LET before == {u \in List(kind, types[t].tag) : u < t} IN
     IF before # {} /\ <<LastOf(before), t>> \in equal THEN LastOf(before) ELSE t]

(* typeRemap, with the types that are kept mapped to themselves: in each   *)
(* list of tags, a type is replaced by the first that is equal.            *)
ReplacedBy(kind, equal) ==
  [t \in Listed(kind) |->
     FirstOf({t} \cup {u \in List(kind, types[t].tag) : <<u, t>> \in equal})]

RefAfter(remap, r) ==
  IF r.to = "tagged" /\ r.id \in DOMAIN remap THEN [r EXCEPT !.id = remap[r.id]] ELSE r

UsesAfter(remap, uses) == [k \in DOMAIN uses |-> [uses[k] EXCEPT !.ref = RefAfter(remap, @)]]

(* The uses in the listed structs and unions.  A VarDecl is none of the    *)
(* cases of replaceUsedSubtypesInType: the typedefs stay as they are.      *)
HeapAfter(remap) ==
  [t \in DOMAIN types |->
     IF t \in Listed("struct") \cup Listed("union")
     THEN [types[t] EXCEPT !.fields = UsesAfter(remap, @), !.methods = UsesAfter(remap, @)]
     ELSE types[t]]

(* A plausible defect: the parameters are not looked into.                 *)
FuncAfterNoParams(remap, f) ==
  [f EXCEPT !.ref = RefAfter(remap, @),
            !.blocks = [b \in DOMAIN f.blocks |->
                          [f.blocks[b] EXCEPT !.locals = UsesAfter(remap, @)]]]

FuncAfter(remap, f) ==
  [f EXCEPT !.ref = RefAfter(remap, @), !.params = UsesAfter(remap, @),
            !.blocks = [b \in DOMAIN f.blocks |->
                          [f.blocks[b] EXCEPT !.locals = UsesAfter(remap, @)]]]

OverlayAfter(remap, o) ==
  [o EXCEPT !.vars = UsesAfter(remap, @),
            !.funcs = [x \in DOMAIN o.funcs |-> FuncAfter(remap, o.funcs[x])]]

(* replaceUsedSubtypesInType follows the members of a union into the union *)
(* itself, and does not end if some unions lead to each other.             *)
UnionsIn(heap, t) == {r.id : r \in {q \in {heap[t].fields[k].ref : k \in DOMAIN heap[t].fields} :
                                      q.to = "tagged" /\ heap[q.id].kind = "union"}}
UnionCycle(heap) ==
  \E C \in SUBSET Listed("union") \ {{}} : \A t \in C : UnionsIn(heap, t) \cap C # {}

Removals == {"structs", "unions", "structs again"}
RemovedKind == IF stage = "unions" THEN "union" ELSE "struct"
AfterRemoval ==
  CASE stage = "structs" -> "unions" [] stage = "unions" -> "structs again" [] OTHER -> "struct"

RemoveDuplicates ==
  /\ stage \in Removals
  /\ LET remap == ReplacedBy(RemovedKind, DeepEqual(types))
         heap  == HeapAfter(remap)
     IN IF UnionCycle(heap)
        THEN stage' = "overflow" /\ UNCHANGED <<types, overlays, dropped, parsed>>
        ELSE /\ types' = heap
             /\ overlays' = [o \in DOMAIN overlays |-> OverlayAfter(remap, overlays[o])]
             /\ dropped' = dropped \cup {t \in DOMAIN remap : remap[t] # t}
             /\ stage' = AfterRemoval
             /\ parsed' = IF stage = "structs" THEN types ELSE parsed
  /\ UNCHANGED <<renamed, renaming>>

-----------------------------------------------------------------------------
(* makeStructsUnique, makeUnionsUnique, makeEnumsUnique: the stage is the  *)
(* kind.  The lists are visited in the order of a Go map, each from its    *)
(* first element.                                                          *)

ListOf(t) == List(types[t].kind, types[t].tag)

IsNext(t) ==
  /\ t \in Listed(stage) \ DOMAIN renamed /\ Cardinality(ListOf(t)) >= 2
  /\ \A u \in ListOf(t) : u < t => u \in DOMAIN renamed
  /\ \A u \in DOMAIN renamed \cap Listed(stage) :
       ListOf(u) = ListOf(t) \/ ListOf(u) \subseteq DOMAIN renamed

BeginRename(t) ==
  /\ stage \in Kinds /\ renaming = NoTag /\ IsNext(t)
  /\ renaming' = [id |-> t, tag |-> types[t].tag]
  /\ UNCHANGED <<types, overlays, dropped, renamed, stage, parsed>>

(* A plausible defect: the tag that was made is not looked up.             *)
TagTakenOnce(kind, tag) == tag = types[renaming.id].tag

(* Whether the tag is a key of the parser's map.                           *)
TagTaken(kind, tag) == \E t \in DOMAIN types : types[t].kind = kind /\ types[t].tag = tag

(* A plausible defect: the place of the type in its list is not used.      *)
TagIndexLen(t, list) == Cardinality(list)

(* k of UniqueStructTag: the type's place in the list, or the list's       *)
(* length if it is not in there.                                           *)
TagIndex(t, list) == IF t \in list THEN Cardinality({u \in list : u < t}) ELSE Cardinality(list)

(* A plausible defect: each try is made from the type's tag, not the last. *)
RetryTagOfType ==
  LET list == List(stage, renaming.tag) IN
  /\ stage \in Kinds /\ renaming # NoTag /\ TagTaken(stage, renaming.tag)
  /\ renaming' = [renaming EXCEPT
       !.tag = Append(types[renaming.id].tag, TagIndex(renaming.id, list))]
  /\ UNCHANGED <<types, overlays, dropped, renamed, stage, parsed>>

(* UniqueTag's "%s_duplicate_%s%d" of the tag and k.                       *)
RetryTag ==
  LET list == List(stage, renaming.tag) IN
  /\ stage \in Kinds /\ renaming # NoTag /\ TagTaken(stage, renaming.tag)
  /\ renaming' = [renaming EXCEPT !.tag = Append(@, TagIndex(renaming.id, list))]
  /\ UNCHANGED <<types, overlays, dropped, renamed, stage, parsed>>

AcceptTag ==
  /\ stage \in Kinds /\ renaming # NoTag /\ ~ TagTaken(stage, renaming.tag)
  /\ renamed' = [t \in DOMAIN renamed \cup {renaming.id} |->
                   IF t = renaming.id THEN renaming.tag ELSE renamed[t]]
  /\ renaming' = NoTag
  /\ UNCHANGED <<types, overlays, dropped, stage, parsed>>

AfterTags == [struct |-> "union", union |-> "enum", enum |-> "names"]

EndTags ==
  /\ stage \in Kinds /\ renaming = NoTag
  /\ \A t \in Listed(stage) : Cardinality(ListOf(t)) >= 2 => t \in DOMAIN renamed
  /\ stage' = AfterTags[stage]
  /\ UNCHANGED <<types, overlays, dropped, renamed, renaming, parsed>>

-----------------------------------------------------------------------------
(* makeVarNamesUniqueInOverlay, makeFuncNamesUniqueInOverlay, per overlay. *)

Key(v) == ValidName[syms[v.at].name]
IsExtern(v) == syms[v.at].class = "EXT"

(* A plausible defect: two do not count as several.                        *)
SharedMoreThanTwo(same) == Cardinality(same) > 2

Shared(same) == Cardinality(same) >= 2

VarsUnique(vs) ==
  [x \in DOMAIN vs |->
     IF ~ IsExtern(vs[x]) /\ Shared({y \in DOMAIN vs : Key(vs[y]) = Key(vs[x]) /\ ~ IsExtern(vs[y])})
     THEN [vs[x] EXCEPT !.name = UniqueFuncName(@, syms[vs[x].at].value)] ELSE vs[x]]

FuncsUnique(fs) ==
  [x \in DOMAIN fs |->
     IF Shared({y \in DOMAIN fs : fs[y].key = fs[x].key})
     THEN [fs[x] EXCEPT !.name = UniqueFuncName(@, fs[x].addr)] ELSE fs[x]]

MakeDeclNamesUnique ==
  /\ stage = "names" /\ stage' = "fixed"
  /\ overlays' = [o \in DOMAIN overlays |->
       [overlays[o] EXCEPT !.vars = VarsUnique(@), !.funcs = FuncsUnique(@)]]
  /\ UNCHANGED <<types, dropped, renamed, renaming, parsed>>

-----------------------------------------------------------------------------
FixInit ==
  /\ dropped = {} /\ renamed = [t \in {} |-> <<>>] /\ renaming = NoTag
  /\ stage = "structs" /\ parsed = [t \in {} |-> 0]

TagsStep == (\E t \in DOMAIN types : BeginRename(t)) \/ RetryTag \/ AcceptTag \/ EndTags

FixStep ==
  /\ mode = "end" /\ (RemoveDuplicates \/ TagsStep \/ MakeDeclNamesUnique)
  /\ UNCHANGED <<fresh, overlayIDs, curOverlay, d, inner, mode>> /\ UnchangedPass1

FixNext == (BothNext /\ UNCHANGED fixVars) \/ FixStep

FixSpec == BothInit /\ FixInit /\ [][FixNext]_everyVar

FairFixSpec == FixSpec /\ WF_everyVar(FixNext)

-----------------------------------------------------------------------------
(* The properties.                                                         *)

TagNow(t) == IF t \in DOMAIN renamed THEN renamed[t] ELSE types[t].tag

Stages == Removals \cup Kinds \cup {"names", "fixed", "overflow"}

(* The state has its shape, that of the declarations (DeclTypeOK) until    *)
(* they get names that are none of the stream: what is dropped or renamed  *)
(* exists, a type is not renamed once it is dropped, and one is being      *)
(* renamed only in the stage of its kind.                                  *)
FixTypeOK ==
  /\ stage # "fixed" => DeclTypeOK
  /\ dropped \subseteq DOMAIN types /\ \A t \in dropped : types[t].kind # "enum"
  /\ DOMAIN renamed \subseteq DOMAIN types \ dropped
  /\ \A t \in DOMAIN renamed : renamed[t] \in Seq(Nat)
  /\ renaming # NoTag => /\ stage \in Kinds /\ renaming.id \in Listed(stage) \ DOMAIN renamed
                         /\ renaming.tag \in Seq(Nat)
  /\ stage \in Stages /\ (mode # "end" => stage = "structs")

AfterRemovals == stage \in Kinds \cup {"names", "fixed"}

(* The uses that a reader of the output meets, typedefs apart: members of  *)
(* listed types, variables, functions, parameters and locals.              *)
LiveUses ==
  {u \in (UNION {MembersOf(t) : t \in DOMAIN types \ dropped})
         \cup (UNION {VarsOf(overlays[o]) : o \in DOMAIN overlays}) : u.ref.to = "tagged"}

(* What refers to a struct or union that RemoveDuplicateTypes took off the *)
(* lists is rewritten, wherever it stands and however deep, also if the    *)
(* union that it was in is dropped itself in a later call.                 *)
UsesAreListed == AfterRemovals => \A u \in LiveUses : u.ref.id \notin dropped

(* An independent reading of "the same type": the symbols agree in all     *)
(* that is printed of them, and lead to types that agree in their turn.    *)
SameSymbol(x, y) ==
  /\ x.name = y.name /\ syms[x.at].value = syms[y.at].value
  /\ syms[x.at].size = syms[y.at].size /\ syms[x.at].form = syms[y.at].form

SameMembers(xs, ys) ==
  DOMAIN xs = DOMAIN ys /\ \A k \in DOMAIN xs : SameSymbol(xs[k], ys[k])

SameTagged(heap, t, u) ==
  /\ heap[t].kind = heap[u].kind /\ heap[t].tag = heap[u].tag /\ heap[t].size = heap[u].size
  /\ SameMembers(heap[t].fields, heap[u].fields)
  /\ SameMembers(heap[t].methods, heap[u].methods)

Bools == {0} \cup {k \in DOMAIN typedefs : typedefs[k].name = BoolName}

SameTypedef(k, l) ==
  LET IsInt(x) == x = 0 \/ (typedefs[x].ref.to = "basic" /\ syms[typedefs[x].at].form = "int")
  IN \/ IsInt(k) /\ IsInt(l)
     \/ /\ k # 0 /\ l # 0 /\ typedefs[k].ref.to = typedefs[l].ref.to
        /\ syms[typedefs[k].at].form = syms[typedefs[l].at].form

SameReading(heap) ==
  {p \in Nodes(heap) \X Nodes(heap) :
     \/ p[1].to = "tagged" /\ p[2].to = "tagged" /\ SameTagged(heap, p[1].id, p[2].id)
     \/ /\ p[1].to = "typedef" /\ p[2].to = "typedef"
        /\ {p[1].id, p[2].id} \subseteq Bools /\ SameTypedef(p[1].id, p[2].id)}

Alike(heap) == LargestClosed(heap, SameReading(heap))

(* The type that the passes bound a symbol to: all uses of a tag are bound *)
(* to one object (UseBindsOneObject, DeclsBindDefinitions).                *)
RefIn(heap, s) ==
  [to |-> "tagged", id |-> LastOf(Tagged(heap, KindOfBase(s.base), TagOf(s)))]

(* Dropping duplicates changes no type: what a member or declaration       *)
(* refers to in the end is the same type, member for member and through    *)
(* any number of pointers and cycles, as what the symbol was bound to.     *)
MeaningKept ==
  stage = "fixed" =>
    LET same == Alike(parsed) IN
    \A u \in LiveUses : Related(same, u.ref, RefIn(parsed, syms[u.at]))

(* No duplicates are left: of the listed structs and unions with one tag   *)
(* any two differ, although whether structs are equal may depend on the    *)
(* unions in them and the other way round.                                 *)
NoDuplicatesLeft ==
  stage = "fixed" =>
    LET same == Alike(parsed) IN
    \A t, u \in Listed("struct") \cup Listed("union") :
      <<[to |-> "tagged", id |-> t], [to |-> "tagged", id |-> u]>> \in same => t = u

(* After MakeNamesUnique the tags of the structs are distinct, and so are  *)
(* those of the unions and of the enums, also if the stream has tags that  *)
(* read like generated ones, and in whatever order the maps are visited.   *)
TagsDistinct ==
  stage \in {"names", "fixed"} =>
    \A t, u \in DOMAIN types \ dropped :
      types[t].kind = types[u].kind /\ TagNow(t) = TagNow(u) => t = u

(* The stages of the renaming as FreshTags sees them.                      *)
TagsKnown == stage \in Kinds \cup {"names", "fixed"}
Fresh == INSTANCE FreshTags WITH
  given   <- IF TagsKnown
             THEN [t \in DOMAIN types \ dropped |-> <<types[t].kind, types[t].tag>>] ELSE <<>>,
  carried <- IF TagsKnown
             THEN [t \in DOMAIN types \ dropped |-> <<types[t].kind, TagNow(t)>>] ELSE <<>>,
  over    <- stage \in {"names", "fixed"}

(* The loops of UniqueStructTag and its copies, one lookup at a time,      *)
(* implement FreshTags: each type is given at once a tag that no other has.*)
TagsAreFresh == Fresh!Spec

(* No name of a variable or function of an overlay reads like another one  *)
(* followed by one address or two.                                         *)
ReadsAs(x, y) == Len(x) \in {Len(y) + 1, Len(y) + 2} /\ SubSeq(x, 1, Len(y)) = y
PlainNames ==
  \A o \in DOMAIN overlays :
    LET vs == overlays[o].vars
        fs == overlays[o].funcs
    IN /\ \A x, y \in DOMAIN vs : ~ ReadsAs(Key(vs[x]), Key(vs[y]))
       /\ \A x, y \in DOMAIN fs : ~ ReadsAs(fs[x].key, fs[y].key)

(* Real variables of an overlay that share their name in the stream, and   *)
(* functions, can be told apart by their name if they have different       *)
(* addresses, although findFunc may have renamed a function before.        *)
NamesTellAddresses ==
  stage = "fixed" /\ PlainNames =>
    \A o \in DOMAIN overlays :
      LET vs == overlays[o].vars
          fs == overlays[o].funcs
      IN /\ \A x, y \in DOMAIN vs :
              vs[x].name = vs[y].name /\ ~ IsExtern(vs[x]) /\ ~ IsExtern(vs[y])
              => syms[vs[x].at].value = syms[vs[y].at].value
         /\ \A x, y \in DOMAIN fs : fs[x].name = fs[y].name => fs[x].addr = fs[y].addr

(* Both fixups end, unless a pass panicked or the stack overflows.         *)
FixupsEnd ==
  <>(pc \in Panics \/ mode \in DeclPanics \/ stage \in {"fixed", "overflow"})

(* parse_fixups.go:10, RemoveDuplicateTypes "goes through parsed types": a *)
(* stream that both passes are written for is gone through.                *)
WellFormedFixed == WellFormed /\ WellFormedDecls => stage # "overflow"
=============================================================================
