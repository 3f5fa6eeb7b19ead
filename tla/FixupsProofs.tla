---------------------------- MODULE FixupsProofs ----------------------------
(***************************************************************************)
(* The fixups, for all streams and names.  RemoveDuplicateTypes compares a *)
(* heap that it rewrites: as long as that is the parsed heap but for       *)
(* references to what is alike in there, it finds equal just what was      *)
(* alike, so no call changes what a use means and none leaves duplicates.  *)
(* MakeNamesUnique gives the tagged types distinct tags: the names that    *)
(* UniqueStructTag and its copies look up for a type form a chain, and the *)
(* chains of two types never meet at a name that both could be given.      *)
(* From this the renaming implements FreshTags.  The names of variables    *)
(* and functions end with an address wherever several share one.           *)
(***************************************************************************)
EXTENDS Fixups, DeclScopeProofs

-----------------------------------------------------------------------------
(* The chain of names.  Each name is the one before with the place that    *)
(* the type has in the list of that name, or the length of the list.       *)

ListIn(heap, gone, kind, tag) ==
  {u \in DOMAIN heap \ gone : heap[u].kind = kind /\ heap[u].tag = tag}

Prefix(v, len) == [p \in 1 .. len |-> v[p]]

OnChain(heap, gone, t, v) ==
  LET key == heap[t].tag IN
  /\ v \in Seq(Nat) /\ Len(v) > Len(key) /\ Prefix(v, Len(key)) = key
  /\ \A p \in Len(key) + 1 .. Len(v) :
       v[p] = TagIndex(t, ListIn(heap, gone, heap[t].kind, Prefix(v, p - 1)))

HeapShape(heap) ==
  /\ IsFiniteSet(DOMAIN heap) /\ DOMAIN heap \subseteq Nat
  /\ \A t \in DOMAIN heap : /\ {"kind", "tag"} \subseteq DOMAIN heap[t]
                            /\ heap[t].kind \in Kinds /\ heap[t].tag \in Seq(Nat)

(* The place in a list tells its elements apart, and from all others.      *)
LEMMA IndexTells ==
  ASSUME NEW L, IsFiniteSet(L), L \subseteq Nat, NEW t, NEW u \in L,
         TagIndex(t, L) = TagIndex(u, L)
  PROVE  t = u
<1> DEFINE Below(w) == {x \in L : x < w}
<1>1. \A w : IsFiniteSet(Below(w)) /\ Cardinality(Below(w)) <= Cardinality(L)
             /\ (Cardinality(Below(w)) = Cardinality(L) => Below(w) = L)
  <2> SUFFICES ASSUME NEW w
               PROVE  IsFiniteSet(Below(w)) /\ Cardinality(Below(w)) <= Cardinality(L)
                      /\ (Cardinality(Below(w)) = Cardinality(L) => Below(w) = L)
    OBVIOUS
  <2>1. Below(w) \subseteq L
    OBVIOUS
  <2> HIDE DEF Below
  <2> QED
    BY <2>1, FS_Subset
<1>2. TagIndex(u, L) = Cardinality(Below(u))
  BY DEF TagIndex
<1>3. CASE t \notin L
  <2>1. Cardinality(Below(u)) = Cardinality(L)
    BY <1>2, <1>3 DEF TagIndex
  <2>2. u \in Below(u)
    <3> HIDE DEF Below
    <3> QED
      BY <1>1, <2>1
  <2> QED
    BY <2>2
<1>4. CASE t \in L
  <2>1. Cardinality(Below(t)) = Cardinality(Below(u))
    BY <1>2, <1>4 DEF TagIndex
  <2>2. ASSUME NEW x \in L, NEW y \in L, x < y, Cardinality(Below(x)) = Cardinality(Below(y))
        PROVE  FALSE
    <3>1. ASSUME NEW z \in Below(x) PROVE z \in Below(y)
      <4>1. z \in L /\ z \in Nat /\ x \in Nat /\ y \in Nat /\ z < x
        OBVIOUS
      <4> QED
        BY <2>2, <4>1
    <3>2. x \in Below(y) /\ x \notin Below(x)
      BY <2>2
    <3> HIDE DEF Below
    <3> QED
      BY <1>1, <2>2, <3>1, <3>2, FS_Subset
  <2>3. ~ (t < u) /\ ~ (u < t)
    BY <1>4, <2>1, <2>2
  <2> QED
    BY <1>4, <2>3
<1> QED
  BY <1>3, <1>4

(* Where the chain of the type with the longer tag begins, that of the     *)
(* other goes through the same list at another place of it.                *)
LEMMA LongerChainApart ==
  ASSUME NEW heap, NEW gone, HeapShape(heap),
         NEW t \in DOMAIN heap \ gone, NEW u \in DOMAIN heap \ gone,
         heap[t].kind = heap[u].kind, Len(heap[t].tag) <= Len(heap[u].tag),
         NEW v, OnChain(heap, gone, t, v), OnChain(heap, gone, u, v)
  PROVE  t = u
<1> DEFINE key == heap[u].tag
           L == ListIn(heap, gone, heap[u].kind, key)
           p == Len(key) + 1
<1>1. heap[t].tag \in Seq(Nat) /\ key \in Seq(Nat)
  BY DEF HeapShape
<1>2. Len(heap[t].tag) \in Nat /\ Len(key) \in Nat
  BY <1>1
<1>3. v \in Seq(Nat) /\ Len(v) \in Nat /\ Len(v) > Len(key) /\ Prefix(v, Len(key)) = key
  BY DEF OnChain
<1>4. p \in Len(heap[t].tag) + 1 .. Len(v) /\ p \in Len(key) + 1 .. Len(v) /\ p - 1 = Len(key)
  BY <1>2, <1>3
<1>5. v[p] = TagIndex(t, ListIn(heap, gone, heap[t].kind, Prefix(v, p - 1)))
  <2> HIDE DEF p
  <2> QED
    BY <1>4 DEF OnChain
<1>6. v[p] = TagIndex(u, ListIn(heap, gone, heap[u].kind, Prefix(v, p - 1)))
  <2> HIDE DEF p
  <2> QED
    BY <1>4 DEF OnChain
<1>7. Prefix(v, p - 1) = key
  BY <1>3, <1>4
<1>8. TagIndex(t, L) = TagIndex(u, L)
  BY <1>5, <1>6, <1>7
<1>9. u \in L /\ L \subseteq DOMAIN heap /\ DOMAIN heap \subseteq Nat /\ IsFiniteSet(DOMAIN heap)
  BY DEF ListIn, HeapShape
<1>10. L \subseteq Nat /\ IsFiniteSet(L)
  <2> HIDE DEF L
  <2> QED
    BY <1>9, FS_Subset
<1> QED
  <2> HIDE DEF L
  <2> QED
    BY <1>8, <1>9, <1>10, IndexTells

LEMMA ChainsApart ==
  ASSUME NEW heap, NEW gone, HeapShape(heap),
         NEW t \in DOMAIN heap \ gone, NEW u \in DOMAIN heap \ gone,
         heap[t].kind = heap[u].kind,
         NEW v, OnChain(heap, gone, t, v), OnChain(heap, gone, u, v)
  PROVE  t = u
<1>1. Len(heap[t].tag) \in Nat /\ Len(heap[u].tag) \in Nat
  <2>1. heap[t].tag \in Seq(Nat) /\ heap[u].tag \in Seq(Nat)
    BY DEF HeapShape
  <2> QED
    BY <2>1
<1>2. CASE Len(heap[t].tag) <= Len(heap[u].tag)
  BY <1>2, LongerChainApart
<1>3. CASE Len(heap[u].tag) <= Len(heap[t].tag)
  BY <1>3, LongerChainApart
<1> QED
  BY <1>1, <1>2, <1>3

(* A lookup that fails extends the chain by one.                           *)
LEMMA ChainExtends ==
  ASSUME NEW heap, NEW gone, HeapShape(heap), NEW t \in DOMAIN heap, NEW v,
         v = heap[t].tag \/ OnChain(heap, gone, t, v)
  PROVE  OnChain(heap, gone, t, Append(v, TagIndex(t, ListIn(heap, gone, heap[t].kind, v))))
<1> DEFINE key == heap[t].tag
           x == TagIndex(t, ListIn(heap, gone, heap[t].kind, v))
           w == Append(v, x)
<1>1. key \in Seq(Nat) /\ Len(key) \in Nat
  BY DEF HeapShape
<1>2. v \in Seq(Nat) /\ Len(v) \in Nat /\ Len(v) >= Len(key)
  BY <1>1 DEF OnChain
<1>3. x \in Nat
  <2> DEFINE L == ListIn(heap, gone, heap[t].kind, v)
             B == {u \in L : u < t}
  <2>1. L \subseteq DOMAIN heap /\ B \subseteq DOMAIN heap /\ IsFiniteSet(DOMAIN heap)
    BY DEF ListIn, HeapShape
  <2>2. Cardinality(L) \in Nat /\ Cardinality(B) \in Nat
    <3> HIDE DEF L, B
    <3> QED
      BY <2>1, FS_Subset, FS_CardinalityType
  <2> QED
    BY <2>2 DEF TagIndex
<1> HIDE DEF x
<1>4. w \in Seq(Nat) /\ Len(w) = Len(v) + 1 /\ w[Len(v) + 1] = x
      /\ \A p \in 1 .. Len(v) : w[p] = v[p]
  BY <1>2, <1>3
<1> HIDE DEF w
<1>5. \A len \in 0 .. Len(v) : Prefix(w, len) = Prefix(v, len)
  BY <1>2, <1>4 DEF Prefix
<1>6. \A s \in Seq(Nat) : Prefix(s, Len(s)) = s
  BY DEF Prefix
<1>7. Prefix(w, Len(key)) = key
  <2>1. Prefix(v, Len(key)) = key
    BY <1>1, <1>6 DEF OnChain
  <2> QED
    BY <1>1, <1>2, <1>5, <2>1
<1>8. ASSUME NEW p \in Len(key) + 1 .. Len(w)
      PROVE  w[p] = TagIndex(t, ListIn(heap, gone, heap[t].kind, Prefix(w, p - 1)))
  <2>1. p - 1 \in 0 .. Len(v) /\ p \in Nat
    BY <1>1, <1>2, <1>4, SMTT(30)
  <2>2. Prefix(w, p - 1) = Prefix(v, p - 1)
    BY <1>5, <2>1
  <2>3. CASE p = Len(v) + 1
    BY <1>2, <1>4, <1>6, <2>2, <2>3 DEF x
  <2>4. CASE p # Len(v) + 1
    <3>1. p \in Len(key) + 1 .. Len(v) /\ p \in 1 .. Len(v)
      <4>1. Len(key) \in Nat /\ Len(v) \in Nat /\ Len(w) = Len(v) + 1
        BY <1>1, <1>2, <1>4
      <4> HIDE DEF key
      <4> QED
        BY <4>1, <2>1, <2>4
    <3>2. v # key
      BY <1>1, <3>1
    <3>3. OnChain(heap, gone, t, v)
      BY <3>2
    <3>4. v[p] = TagIndex(t, ListIn(heap, gone, heap[t].kind, Prefix(v, p - 1)))
      BY <3>1, <3>3 DEF OnChain
    <3> QED
      BY <1>4, <2>2, <3>1, <3>4
  <2> QED
    BY <2>3, <2>4
<1>9. Len(w) > Len(key)
  BY <1>1, <1>2, <1>4
<1> QED
  BY <1>4, <1>7, <1>8, <1>9 DEF OnChain, w, x

-----------------------------------------------------------------------------
(* The passes.  Until the fixups begin the heap is typed, since it grows   *)
(* only by parseType; then it keeps its shape, and the passes are over.    *)

Heap == HeapShape(types)
Parsing == /\ stage = "structs" => Typed /\ d \in Nat \ {0} /\ m \in Nat
           /\ stage # "structs" => mode = "end"
           /\ mode = "end" => pc = "done"

LEMMA TypedHeap == Typed => Heap
<1> SUFFICES ASSUME Typed PROVE Heap
  OBVIOUS
<1>1. fresh \in Nat /\ DOMAIN types \subseteq 0 .. fresh - 1
  BY DEF Typed, TypeOK, Ids
<1>2. IsFiniteSet(DOMAIN types)
  <2>1. IsFiniteSet(0 .. fresh - 1)
    BY <1>1, FS_Interval
  <2>2. DOMAIN types \in SUBSET (0 .. fresh - 1)
    BY <1>1
  <2> QED
    BY <2>1, <2>2, FS_Subset, Zenon
<1>3. ASSUME NEW t \in DOMAIN types
      PROVE  /\ {"kind", "tag"} \subseteq DOMAIN types[t]
             /\ types[t].kind \in Kinds /\ types[t].tag \in Seq(Nat)
  <2>1. types[t] \in Types
    BY DEF Typed, TypeOK
  <2>2. types[t].tag \in Names /\ Names \subseteq Seq(Nat)
    BY <2>1, NamesAssumption DEF Types
  <2> QED
    BY <2>1, <2>2 DEF Types
<1> QED
  BY <1>1, <1>2, <1>3 DEF Heap, HeapShape

(* Once ParseDecls has ended neither pass takes a step, and it ends after  *)
(* ParseTypes.                                                             *)
LEMMA PassesOver ==
  /\ pc = "done" /\ mode = "end" => ~ BothNext
  /\ Parsing /\ BothNext => (mode' = "end" => pc' = "done")
<1>1. ASSUME pc = "done", Next PROVE FALSE
  BY <1>1 DEF Next, InitTaggedTypes, TopStep, TagStep, BadBase, BeginTag, ParseTypedef, BadTypedef,
     SkipSymbol, Finish, AddField, AddMethod, BadType, AddEnumMember, BadClass, PassOver, EndTag,
     Unreachable, AtTagDef, AtTypedef, AtTop, InTag
<1>2. ASSUME ParseDeclsStep PROVE /\ mode # "end" /\ pc' = pc
                                  /\ mode' = "end" => pc = "done"
  <2>1. pc' = pc
    BY <1>2 DEF ParseDeclsStep, UnchangedPass1
  <2>2. CASE DeclStep
    BY <2>1, <2>2 DEF DeclStep, AddSymbol, Ignore, AddGlobal, BadGlobal, BadTopClass, AddOverlay,
       SetOverlay, UnknownOverlay, BadTopBody, FinishDecls, AtDecl, DeclPanic
  <2>3. CASE LinesStep
    BY <2>1, <2>3 DEF LinesStep, BeginLines, NextLine, EndLines, SliceEnd, AtDecl, AtInner, Return,
       DeclPanic
  <2>4. CASE FuncStep
    BY <2>1, <2>4 DEF FuncStep, SkipFunc, BeginFunc, EndFunc, BlockStart, BlockEnd, NilBlock,
       AddLocal, BadLocalType, BadLocalClass, BadFuncBody, AtFuncStart, AtFunc, AtLocal, AtDecl,
       AtInner, Return, DeclPanic
  <2> QED
    BY <1>2, <2>1, <2>2, <2>3, <2>4 DEF ParseDeclsStep
<1> QED
  BY <1>1, <1>2 DEF BothNext, Parsing, declVars

-----------------------------------------------------------------------------
(* The renaming.                                                           *)

Several(t) == Cardinality(ListOf(t)) >= 2

(* The kinds whose renaming is over.                                       *)
Passed ==
  CASE stage = "union" -> {"struct"}
    [] stage = "enum" -> {"struct", "union"}
    [] stage \in {"names", "fixed"} -> Kinds
    [] OTHER -> {}

ChainOf(t) == {v \in Seq(Nat) : OnChain(types, dropped, t, v)}

RenamedOK ==
  /\ DOMAIN renamed \subseteq DOMAIN types \ dropped
  /\ \A t \in DOMAIN renamed :
       renamed[t] \in ChainOf(t) /\ ~ TagTaken(types[t].kind, renamed[t])
RenamingOK ==
  renaming # NoTag =>
    /\ stage \in Kinds
    /\ renaming.id \in Listed(stage) \ DOMAIN renamed /\ Several(renaming.id)
    /\ renaming.tag \in ChainOf(renaming.id) \cup {types[renaming.id].tag}
PassedOK ==
  \A t \in DOMAIN types \ dropped :
    types[t].kind \in Passed /\ Several(t) => t \in DOMAIN renamed
NotYet == stage \in Removals \cup {"overflow"} => DOMAIN renamed = {} /\ renaming = NoTag

FixInv ==
  /\ Parsing /\ Heap /\ stage \in Stages
  /\ NotYet /\ RenamedOK /\ RenamingOK /\ PassedOK

LEMMA ListOfIn ==
  \A t : ListOf(t) = ListIn(types, dropped, types[t].kind, types[t].tag)
  BY DEF ListOf, List, Listed, ListIn

(* Several types share their tag: there is another one.                    *)
LEMMA SeveralProperty ==
  ASSUME Heap, NEW t \in DOMAIN types \ dropped
  PROVE  Several(t) <=> \E u \in ListOf(t) : u # t
<1> DEFINE L == ListOf(t)
<1>1. t \in L /\ L \subseteq DOMAIN types /\ IsFiniteSet(DOMAIN types)
  BY DEF Heap, HeapShape, ListOf, List, Listed
<1>2. IsFiniteSet(L) /\ IsFiniteSet({t}) /\ Cardinality({t}) = 1 /\ Cardinality(L) \in Nat
  <2> HIDE DEF L
  <2> QED
    BY <1>1, FS_Subset, FS_Singleton, FS_CardinalityType
<1>3. Cardinality(L) >= 2 <=> \E u \in L : u # t
  <2> HIDE DEF L
  <2>1. CASE L = {t}
    BY <1>2, <2>1
  <2>2. CASE L # {t}
    <3>1. {t} \subseteq L
      BY <1>1
    <3>2. Cardinality({t}) <= Cardinality(L) /\ Cardinality({t}) # Cardinality(L)
      BY <1>1, <1>2, <2>2, <3>1, FS_Subset
    <3>3. \E u \in L : u # t
      BY <1>1, <2>2
    <3> QED
      BY <1>2, <3>2, <3>3
  <2> QED
    BY <2>1, <2>2
<1> QED
  BY <1>3 DEF Several

(* A tag that is accepted is no tag of the stream and given to no other.   *)
LEMMA AcceptedProperty ==
  ASSUME FixInv, AcceptTag
  PROVE  /\ renaming.id \in Listed(stage) \ DOMAIN renamed /\ Several(renaming.id)
         /\ types[renaming.id].kind = stage /\ stage \in Kinds
         /\ renaming.tag \in ChainOf(renaming.id) /\ ~ TagTaken(stage, renaming.tag)
         /\ \A u \in DOMAIN renamed : types[u].kind = stage => renamed[u] # renaming.tag
<1>1. renaming # NoTag /\ ~ TagTaken(stage, renaming.tag) /\ stage \in Kinds
  BY DEF AcceptTag
<1>2. renaming.id \in Listed(stage) \ DOMAIN renamed /\ Several(renaming.id)
  BY <1>1 DEF FixInv, RenamingOK
<1>3. renaming.id \in DOMAIN types \ dropped /\ types[renaming.id].kind = stage
  BY <1>2 DEF Listed
<1>4. renaming.tag # types[renaming.id].tag
  BY <1>1, <1>3 DEF TagTaken
<1>5. renaming.tag \in ChainOf(renaming.id)
  BY <1>1, <1>4 DEF FixInv, RenamingOK
<1>6. ASSUME NEW u \in DOMAIN renamed, types[u].kind = stage, renamed[u] = renaming.tag
      PROVE  FALSE
  <2>1. u \in DOMAIN types \ dropped /\ OnChain(types, dropped, u, renaming.tag)
    BY <1>6 DEF FixInv, RenamedOK, ChainOf
  <2>2. OnChain(types, dropped, renaming.id, renaming.tag)
    BY <1>5 DEF ChainOf
  <2>3. u = renaming.id
    BY <1>3, <1>6, <2>1, <2>2, ChainsApart DEF FixInv, Heap
  <2> QED
    BY <1>2, <2>3
<1> QED
  BY <1>1, <1>2, <1>3, <1>5, <1>6

LEMMA FixInvInit == BothInit /\ FixInit => FixInv
<1> SUFFICES ASSUME BothInit, FixInit PROVE FixInv
  OBVIOUS
<1>1. Parsing /\ Heap
  BY TypedInit, TypedHeap DEF BothInit, DeclInit, FixInit, Parsing
<1>2. stage = "structs" /\ DOMAIN renamed = {} /\ renaming = NoTag
  BY DEF FixInit
<1>3. Passed = {} /\ stage \in Stages
  BY <1>2 DEF Passed, Stages, Removals
<1> QED
  BY <1>1, <1>2, <1>3 DEF FixInv, NotYet, RenamedOK, RenamingOK, PassedOK

LEMMA RemovalKeepsHeap == Heap /\ RemoveDuplicates => Heap'
<1> SUFFICES ASSUME Heap, RemoveDuplicates PROVE Heap'
  OBVIOUS
<1>1. ASSUME NEW remap PROVE HeapShape(HeapAfter(remap))
  <2>1. DOMAIN HeapAfter(remap) = DOMAIN types
    BY DEF HeapAfter
  <2>2. ASSUME NEW t \in DOMAIN types
        PROVE  /\ {"kind", "tag"} \subseteq DOMAIN HeapAfter(remap)[t]
               /\ HeapAfter(remap)[t].kind = types[t].kind /\ HeapAfter(remap)[t].tag = types[t].tag
    BY DEF HeapAfter, Heap, HeapShape
  <2> QED
    BY <2>1, <2>2 DEF Heap, HeapShape
<1>2. types' = types \/ \E remap : types' = HeapAfter(remap)
  BY DEF RemoveDuplicates
<1> QED
  BY <1>1, <1>2 DEF Heap

(* What the renaming leaves as it is.                                      *)
LEMMA RenameKeeps ==
  ASSUME FixInv, UNCHANGED <<types, dropped, mode, pc>>, mode = "end", stage' # "structs"
  PROVE  /\ Parsing' /\ Heap'
         /\ \A t : /\ ChainOf(t)' = ChainOf(t) /\ Several(t)' = Several(t)
                   /\ Listed(t)' = Listed(t)
         /\ \A k, v : TagTaken(k, v)' = TagTaken(k, v)
<1>1. Parsing'
  BY DEF FixInv, Parsing
<1>2. Heap'
  BY DEF FixInv, Heap
<1> QED
  BY <1>1, <1>2 DEF ChainOf, Several, ListOf, List, Listed, TagTaken

LEMMA FixInvStep == FixInv /\ [FixNext]_everyVar => FixInv'
<1> SUFFICES ASSUME FixInv, [FixNext]_everyVar PROVE FixInv'
  OBVIOUS
<1> USE DEF FixInv
<1>1. CASE BothNext /\ UNCHANGED fixVars
  <2>1. UNCHANGED <<dropped, renamed, renaming, stage>> /\ BothNext
    BY <1>1 DEF fixVars
  <2>2. stage = "structs"
    BY <2>1, PassesOver DEF Parsing
  <2>3. Begun
    BY <2>2 DEF Parsing, Begun
  <2>4. ASSUME Next, UNCHANGED declVars PROVE Begun'
    BY <2>3, <2>4, TypedStep DEF Begun, declVars, inner
  <2>5. ASSUME ParseDeclsStep PROVE Begun'
    BY <2>3, <2>5, DeclsTyped
  <2>6. Begun'
    BY <2>1, <2>4, <2>5 DEF BothNext
  <2>7. Typed' => Heap'
    BY TypedHeap, PTL
  <2>8. Parsing' /\ Heap'
    BY <2>1, <2>2, <2>6, <2>7, PassesOver DEF Parsing, Begun
  <2>9. Passed' = {} /\ renaming' = NoTag /\ DOMAIN renamed' = {} /\ stage' \in Stages
    BY <2>1, <2>2 DEF Passed, NotYet, Removals
  <2> QED
    BY <2>8, <2>9 DEF NotYet, RenamedOK, RenamingOK, PassedOK
<1>f. ASSUME FixStep PROVE mode = "end" /\ UNCHANGED <<mode, pc>>
  BY <1>f DEF FixStep, UnchangedPass1
<1>2. CASE FixStep /\ RemoveDuplicates
  <2>1. stage \in Removals /\ UNCHANGED <<renamed, renaming>>
    BY <1>2 DEF RemoveDuplicates
  <2>2. stage' \in {"overflow", "unions", "structs again", "struct"}
    BY <1>2 DEF RemoveDuplicates, AfterRemoval
  <2>3. Heap'
    BY <1>2, RemovalKeepsHeap
  <2>4. Parsing'
    BY <1>2, <1>f, <2>2 DEF Parsing
  <2>5. Passed' = {} /\ stage' \in Stages
    BY <2>2 DEF Passed, Stages, Removals, Kinds
  <2>6. renaming' = NoTag /\ DOMAIN renamed' = {}
    BY <2>1 DEF NotYet
  <2> QED
    BY <2>3, <2>4, <2>5, <2>6 DEF NotYet, RenamedOK, RenamingOK, PassedOK
<1>3. ASSUME FixStep, NEW t \in DOMAIN types, BeginRename(t) PROVE FixInv'
  <2>1. /\ stage \in Kinds /\ IsNext(t) /\ renaming' = [id |-> t, tag |-> types[t].tag]
        /\ UNCHANGED <<types, dropped, renamed, stage>>
    BY <1>3 DEF BeginRename
  <2>2. stage \notin Removals \cup {"overflow", "structs"}
    BY <2>1 DEF Kinds, Removals
  <2>3. Passed' = Passed
    BY <2>1 DEF Passed
  <2>4. /\ Parsing' /\ Heap'
        /\ \A u : ChainOf(u)' = ChainOf(u) /\ Several(u)' = Several(u) /\ Listed(u)' = Listed(u)
        /\ \A k, v : TagTaken(k, v)' = TagTaken(k, v)
    BY <1>3, <1>f, <2>1, <2>2, RenameKeeps
  <2>5. t \in Listed(stage) \ DOMAIN renamed /\ Several(t)
    BY <2>1 DEF IsNext, Several
  <2>6. RenamingOK'
    BY <2>1, <2>4, <2>5 DEF RenamingOK
  <2> QED
    BY <2>1, <2>2, <2>3, <2>4, <2>6 DEF NotYet, RenamedOK, PassedOK
<1>4. CASE FixStep /\ RetryTag
  <2> DEFINE t == renaming.id
             tag == renaming.tag
             x == TagIndex(t, List(stage, tag))
  <2>1. /\ stage \in Kinds /\ renaming # NoTag /\ renaming' = [renaming EXCEPT !.tag = Append(@, x)]
        /\ UNCHANGED <<types, dropped, renamed, stage>>
    BY <1>4 DEF RetryTag
  <2>2. stage \notin Removals \cup {"overflow", "structs"}
    BY <2>1 DEF Kinds, Removals
  <2>3. Passed' = Passed
    BY <2>1 DEF Passed
  <2>4. /\ Parsing' /\ Heap'
        /\ \A u : ChainOf(u)' = ChainOf(u) /\ Several(u)' = Several(u) /\ Listed(u)' = Listed(u)
        /\ \A k, v : TagTaken(k, v)' = TagTaken(k, v)
    BY <1>4, <1>f, <2>1, <2>2, RenameKeeps
  <2>5. /\ t \in Listed(stage) \ DOMAIN renamed /\ Several(t)
        /\ tag \in ChainOf(t) \cup {types[t].tag}
    BY <2>1 DEF RenamingOK
  <2>6. t \in DOMAIN types /\ types[t].kind = stage
    BY <2>5 DEF Listed
  <2>7. List(stage, tag) = ListIn(types, dropped, types[t].kind, tag)
    BY <2>6 DEF List, Listed, ListIn
  <2>8. OnChain(types, dropped, t, Append(tag, x))
    BY <2>5, <2>6, <2>7, ChainExtends DEF ChainOf, Heap
  <2>9. Append(tag, x) \in ChainOf(t)
    BY <2>8 DEF ChainOf, OnChain
  <2> QED
    BY <2>1, <2>2, <2>3, <2>4, <2>5, <2>9 DEF NotYet, RenamedOK, PassedOK, RenamingOK
<1>5. CASE FixStep /\ AcceptTag
  <2> DEFINE t == renaming.id
             tag == renaming.tag
  <2>1. /\ DOMAIN renamed' = DOMAIN renamed \cup {t} /\ renamed'[t] = tag
        /\ \A u \in DOMAIN renamed : u # t => renamed'[u] = renamed[u]
        /\ renaming' = NoTag /\ UNCHANGED <<types, dropped, stage>>
    BY <1>5 DEF AcceptTag
  <2>2. /\ t \in Listed(stage) \ DOMAIN renamed /\ Several(t) /\ types[t].kind = stage
        /\ stage \in Kinds /\ tag \in ChainOf(t) /\ ~ TagTaken(stage, tag)
    BY <1>5, AcceptedProperty
  <2>3. stage \notin Removals \cup {"overflow", "structs"}
    BY <2>2 DEF Kinds, Removals
  <2>4. /\ Parsing' /\ Heap'
        /\ \A u : ChainOf(u)' = ChainOf(u) /\ Several(u)' = Several(u) /\ Listed(u)' = Listed(u)
        /\ \A k, v : TagTaken(k, v)' = TagTaken(k, v)
    BY <1>5, <1>f, <2>1, <2>3, RenameKeeps
  <2>5. Passed' = Passed
    BY <2>1 DEF Passed
  <2>6. t \in DOMAIN types \ dropped
    BY <2>2 DEF Listed
  <2>7. RenamedOK'
    BY <2>1, <2>2, <2>4, <2>6 DEF RenamedOK
  <2> QED
    BY <2>1, <2>3, <2>4, <2>5, <2>7 DEF NotYet, PassedOK, RenamingOK
<1>6. CASE FixStep /\ EndTags
  <2>1. /\ stage \in Kinds /\ renaming = NoTag /\ stage' = AfterTags[stage]
        /\ \A t \in Listed(stage) : Several(t) => t \in DOMAIN renamed
        /\ UNCHANGED <<types, dropped, renamed, renaming>>
    BY <1>6 DEF EndTags, Several
  <2>2. stage' \in {"union", "enum", "names"} /\ Passed' \subseteq Passed \cup {stage}
    BY <2>1 DEF AfterTags, Kinds, Passed
  <2>3. stage' \notin Removals \cup {"overflow", "structs"} /\ stage' \in Stages
    BY <2>2 DEF Removals, Stages, Kinds
  <2>4. /\ Parsing' /\ Heap'
        /\ \A u : ChainOf(u)' = ChainOf(u) /\ Several(u)' = Several(u) /\ Listed(u)' = Listed(u)
        /\ \A k, v : TagTaken(k, v)' = TagTaken(k, v)
    BY <1>6, <1>f, <2>1, <2>3, RenameKeeps
  <2>5. PassedOK'
    BY <2>1, <2>2, <2>4 DEF PassedOK, Listed
  <2> QED
    BY <2>1, <2>3, <2>4, <2>5 DEF NotYet, RenamedOK, RenamingOK
<1>7. CASE FixStep /\ MakeDeclNamesUnique
  <2>1. /\ stage = "names" /\ stage' = "fixed" /\ UNCHANGED <<types, dropped, renamed, renaming>>
    BY <1>7 DEF MakeDeclNamesUnique
  <2>2. Passed' = Passed /\ stage' \in Stages /\ stage' \notin Removals
    BY <2>1 DEF Passed, Stages, Removals
  <2>3. /\ Parsing' /\ Heap'
        /\ \A u : ChainOf(u)' = ChainOf(u) /\ Several(u)' = Several(u) /\ Listed(u)' = Listed(u)
        /\ \A k, v : TagTaken(k, v)' = TagTaken(k, v)
    BY <1>7, <1>f, <2>1, RenameKeeps
  <2>4. renaming = NoTag
    BY <2>1 DEF RenamingOK, Kinds
  <2> QED
    BY <2>1, <2>2, <2>3, <2>4 DEF NotYet, RenamedOK, RenamingOK, PassedOK
<1>8. CASE UNCHANGED everyVar
  <2>1. UNCHANGED <<syms, types, fresh, typedefs, boolDef, enumMembers, i, n, cur, pc, d, m, mode,
                    dropped, renamed, renaming, stage>>
    BY <1>8 DEF everyVar, allVars, vars, made, cursor, declVars, inner, fixVars
  <2>2. Passed' = Passed /\ Heap' /\ Parsing'
    BY <2>1 DEF Passed, Heap, Parsing, Typed, TypeOK, Ids
  <2>3. /\ \A t : ChainOf(t)' = ChainOf(t) /\ Several(t)' = Several(t) /\ Listed(t)' = Listed(t)
        /\ \A k, v : TagTaken(k, v)' = TagTaken(k, v)
    BY <2>1 DEF ChainOf, Several, ListOf, List, Listed, TagTaken
  <2> QED
    BY <2>1, <2>2, <2>3 DEF NotYet, RenamedOK, RenamingOK, PassedOK
<1> QED
  BY <1>1, <1>2, <1>3, <1>4, <1>5, <1>6, <1>7, <1>8 DEF FixNext, FixStep, TagsStep

LEMMA FixInvHolds == FixSpec => []FixInv
  BY FixInvInit, FixInvStep, PTL DEF FixSpec

-----------------------------------------------------------------------------
(* The theorems.                                                           *)

LEMMA InvDistinct ==
  ASSUME FixInv, \A t \in DOMAIN types \ dropped : types[t].kind \in Passed,
         NEW t \in DOMAIN types \ dropped, NEW u \in DOMAIN types \ dropped,
         types[t].kind = types[u].kind, TagNow(t) = TagNow(u)
  PROVE  t = u
<1> USE DEF FixInv
<1>1. ASSUME NEW x \in DOMAIN renamed, NEW y \in DOMAIN types \ dropped, y \notin DOMAIN renamed,
             types[x].kind = types[y].kind
      PROVE  TagNow(x) # TagNow(y)
  BY <1>1 DEF RenamedOK, TagTaken, TagNow
<1>2. CASE t \in DOMAIN renamed /\ u \in DOMAIN renamed
  <2>1. OnChain(types, dropped, t, TagNow(t)) /\ OnChain(types, dropped, u, TagNow(u))
    BY <1>2 DEF RenamedOK, ChainOf, TagNow
  <2> QED
    BY <2>1, ChainsApart DEF Heap
<1>3. CASE t \notin DOMAIN renamed /\ u \notin DOMAIN renamed
  <2>1. u \in ListOf(t)
    BY <1>3 DEF TagNow, ListOf, List, Listed
  <2>2. ~ Several(t)
    BY <1>3 DEF PassedOK
  <2> QED
    BY <2>1, <2>2, SeveralProperty
<1> QED
  BY <1>1, <1>2, <1>3

LEMMA DistinctFromInv == FixInv => TagsDistinct
<1> SUFFICES ASSUME FixInv, stage \in {"names", "fixed"},
                    NEW t \in DOMAIN types \ dropped, NEW u \in DOMAIN types \ dropped,
                    types[t].kind = types[u].kind, TagNow(t) = TagNow(u)
             PROVE  t = u
  BY DEF TagsDistinct
<1>1. \A x \in DOMAIN types \ dropped : types[x].kind \in Passed
  BY DEF FixInv, Heap, HeapShape, Passed
<1> QED
  BY <1>1, InvDistinct

(* After MakeNamesUnique no two structs, unions or enums that are printed  *)
(* have the same tag, for every stream, every way names are made valid and *)
(* every order in which the maps are visited: also if the stream has tags  *)
(* that read like those UniqueStructTag and its copies make.               *)
THEOREM RenamedApart == FixSpec => []TagsDistinct
  BY DistinctFromInv, FixInvHolds, PTL

(* FreshTags' variables as functions of the state, and its actions in them.*)
Given == IF TagsKnown
         THEN [t \in DOMAIN types \ dropped |-> <<types[t].kind, types[t].tag>>] ELSE <<>>
Carried == IF TagsKnown
           THEN [t \in DOMAIN types \ dropped |-> <<types[t].kind, TagNow(t)>>] ELSE <<>>
Over == stage \in {"names", "fixed"}

LEMMA FreshActions ==
  /\ UNCHANGED <<Given, Carried, Over>> => UNCHANGED Fresh!tagVars
  /\ Given = <<>> /\ Carried' = Given' /\ ~ Over' => Fresh!Start
  /\ \A t : /\ ~ Over /\ Carried[t] = Given[t]
            /\ \E u \in DOMAIN Given \ {t} : Given[u] = Given[t]
            /\ \A u \in DOMAIN Given : Given[u] # Carried'[t]
            /\ \A u \in DOMAIN Carried : Carried[u] # Carried'[t]
            /\ Carried' = [Carried EXCEPT ![t] = Carried'[t]]
            /\ UNCHANGED <<Given, Over>>
            => Fresh!Rename(t)
  /\ /\ \A t, u \in DOMAIN Carried : Carried[t] = Carried[u] => t = u
     /\ Over' /\ UNCHANGED <<Given, Carried>>
     => Fresh!End
<1>1. UNCHANGED <<Given, Carried, Over>> => UNCHANGED Fresh!tagVars
  BY DEF Given, Carried, Over, Fresh!tagVars
<1>2. Given = <<>> /\ Carried' = Given' /\ ~ Over' => Fresh!Start
  BY DEF Given, Carried, Over, Fresh!Start
<1>3. ASSUME NEW t, ~ Over, Carried[t] = Given[t],
             \E u \in DOMAIN Given \ {t} : Given[u] = Given[t],
             \A u \in DOMAIN Given : Given[u] # Carried'[t],
             \A u \in DOMAIN Carried : Carried[u] # Carried'[t],
             Carried' = [Carried EXCEPT ![t] = Carried'[t]],
             UNCHANGED <<Given, Over>>
      PROVE  Fresh!Rename(t)
  <2>1. Carried'[t] \notin Fresh!TagsIn(Given) \cup Fresh!TagsIn(Carried)
    BY <1>3 DEF Fresh!TagsIn
  <2> QED
    BY <1>3, <2>1 DEF Given, Carried, Over, Fresh!Rename
<1>4. /\ \A t, u \in DOMAIN Carried : Carried[t] = Carried[u] => t = u
      /\ Over' /\ UNCHANGED <<Given, Carried>>
      => Fresh!End
  BY DEF Given, Carried, Over, Fresh!End
<1> QED
  BY <1>1, <1>2, <1>3, <1>4

(* The steps that FreshTags does not see.                                  *)
LEMMA Stutters ==
  ASSUME TagsKnown' = TagsKnown, Over' = Over,
         TagsKnown => UNCHANGED <<types, dropped, renamed>>
  PROVE  UNCHANGED <<Given, Carried, Over>>
  BY DEF Given, Carried, TagNow

(* A tag that is accepted.                                                 *)
LEMMA AcceptIsRename ==
  ASSUME FixInv, AcceptTag, NEW t, t = renaming.id
  PROVE  t \in DOMAIN Given /\ Fresh!Rename(t)
<1> DEFINE T == DOMAIN types \ dropped
<1>1. /\ t \in Listed(stage) \ DOMAIN renamed /\ Several(t)
      /\ types[t].kind = stage /\ stage \in Kinds /\ ~ TagTaken(stage, renaming.tag)
      /\ \A u \in DOMAIN renamed : types[u].kind = stage => renamed[u] # renaming.tag
  BY AcceptedProperty
<1>2. /\ UNCHANGED <<types, dropped, stage>> /\ DOMAIN renamed' = DOMAIN renamed \cup {t}
      /\ renamed'[t] = renaming.tag /\ \A u \in DOMAIN renamed : u # t => renamed'[u] = renamed[u]
  BY DEF AcceptTag
<1>3. TagsKnown /\ TagsKnown' /\ ~ Over /\ ~ Over'
  BY <1>1, <1>2 DEF TagsKnown, Over, Kinds
<1>4. /\ Given = [u \in T |-> <<types[u].kind, types[u].tag>>] /\ Given' = Given
      /\ Carried = [u \in T |-> <<types[u].kind, TagNow(u)>>]
      /\ Carried' = [u \in T |-> <<types[u].kind, TagNow(u)'>>]
  BY <1>2, <1>3 DEF Given, Carried
<1>5. /\ t \in T /\ TagNow(t) = types[t].tag /\ TagNow(t)' = renaming.tag
      /\ \A u \in T : u # t => TagNow(u)' = TagNow(u)
  BY <1>1, <1>2 DEF Listed, TagNow
<1>6. \E u \in DOMAIN Given \ {t} : Given[u] = Given[t]
  <2>1. PICK u \in ListOf(t) : u # t
    BY <1>1, <1>5, SeveralProperty DEF FixInv
  <2>2. u \in T /\ types[u].kind = types[t].kind /\ types[u].tag = types[t].tag
    BY <2>1 DEF ListOf, List, Listed
  <2> QED
    BY <1>4, <1>5, <2>1, <2>2
<1>7. Carried'[t] = <<stage, renaming.tag>>
  BY <1>1, <1>4, <1>5
<1>8. \A u \in T : Given[u] # Carried'[t] /\ Carried[u] # Carried'[t]
  <2> SUFFICES ASSUME NEW u \in T
               PROVE  Given[u] # Carried'[t] /\ Carried[u] # Carried'[t]
    OBVIOUS
  <2>1. types[u].kind = stage => types[u].tag # renaming.tag
    BY <1>1 DEF TagTaken
  <2>2. types[u].kind = stage => TagNow(u) # renaming.tag
    BY <1>1, <2>1 DEF TagNow
  <2> QED
    BY <1>4, <1>7, <2>1, <2>2
<1>9. Carried' = [Carried EXCEPT ![t] = Carried'[t]]
  BY <1>4, <1>5
<1>10. Carried[t] = Given[t] /\ t \in DOMAIN Given /\ DOMAIN Given = T /\ DOMAIN Carried = T
  BY <1>4, <1>5
<1>11. /\ Given' = Given /\ Over' = Over
       /\ \A u \in DOMAIN Given : Given[u] # Carried'[t]
       /\ \A u \in DOMAIN Carried : Carried[u] # Carried'[t]
  BY <1>2, <1>4, <1>8, <1>10 DEF Over
<1> QED
  BY <1>3, <1>6, <1>9, <1>10, <1>11, FreshActions

(* The renaming of the three kinds, a Go map visited in any order and one  *)
(* lookup at a time, implements FreshTags: a type is given once, in one    *)
(* step, a tag that neither the stream nor another type has.               *)
THEOREM RenamingIsFresh == FixSpec => TagsAreFresh
<1>1. BothInit /\ FixInit => Fresh!Init
  BY DEF FixInit, Fresh!Init, TagsKnown, Kinds
<1>2. FixInv /\ [FixNext]_everyVar => [Fresh!Next]_Fresh!tagVars
  <2> SUFFICES ASSUME FixInv, [FixNext]_everyVar PROVE [Fresh!Next]_Fresh!tagVars
    OBVIOUS
  <2>0. TagsKnown <=> stage \in {"struct", "union", "enum", "names", "fixed"}
    BY DEF TagsKnown, Kinds
  <2>1. ASSUME UNCHANGED stage, UNCHANGED renamed,
               stage \in Kinds \cup {"names", "fixed"} => UNCHANGED <<types, dropped>>
        PROVE  UNCHANGED Fresh!tagVars
    <3>1. TagsKnown' = TagsKnown /\ Over' = Over
      BY <2>1 DEF TagsKnown, Over
    <3>2. TagsKnown => UNCHANGED <<types, dropped, renamed>>
      BY <2>1 DEF TagsKnown
    <3> QED
      BY <3>1, <3>2, Stutters, FreshActions
  <2>2. CASE BothNext /\ UNCHANGED fixVars
    <3>1. stage = "structs" /\ UNCHANGED <<dropped, renamed, stage>>
      BY <2>2, PassesOver DEF FixInv, Parsing, fixVars
    <3> QED
      BY <2>1, <3>1 DEF Kinds
  <2>3. CASE FixStep /\ RemoveDuplicates
    <3>1. stage \in Removals /\ DOMAIN renamed = {} /\ UNCHANGED renamed
      BY <2>3 DEF RemoveDuplicates, FixInv, NotYet
    <3>2. ~ TagsKnown /\ ~ Over /\ stage' \in {"overflow", "unions", "structs again", "struct"}
      BY <2>3, <3>1 DEF RemoveDuplicates, AfterRemoval, TagsKnown, Over, Removals, Kinds
    <3>3. CASE stage' = "struct"
      <4>1. TagsKnown' /\ ~ Over'
        BY <3>3 DEF TagsKnown, Over, Kinds
      <4>2. \A t : TagNow(t)' = types'[t].tag
        BY <3>1 DEF TagNow
      <4>3. Given = <<>> /\ Carried' = Given'
        BY <3>2, <4>1, <4>2 DEF Given, Carried
      <4> QED
        BY <4>1, <4>3, FreshActions DEF Fresh!Next
    <3>4. CASE stage' # "struct"
      <4>1. ~ TagsKnown' /\ ~ Over'
        BY <3>2, <3>4 DEF TagsKnown, Over, Kinds
      <4>2. TagsKnown' = TagsKnown /\ Over' = Over
        <5>1. TagsKnown' <=> TagsKnown
          BY <3>2, <4>1
        <5>2. Over' <=> Over
          BY <3>2, <4>1
        <5> QED
          BY <5>1, <5>2 DEF TagsKnown, Over
      <4> QED
        BY <3>2, <4>2, Stutters, FreshActions
    <3> QED
      BY <3>3, <3>4
  <2>4. CASE FixStep /\ ((\E t \in DOMAIN types : BeginRename(t)) \/ RetryTag)
    BY <2>1, <2>4 DEF BeginRename, RetryTag
  <2>5. CASE FixStep /\ AcceptTag
    <3>1. \A t : t = renaming.id => t \in DOMAIN Given /\ Fresh!Rename(t)
      BY <2>5, AcceptIsRename
    <3> QED
      BY <3>1 DEF Fresh!Next, Given
  <2>6. CASE FixStep /\ EndTags
    <3>1. /\ stage \in Kinds /\ stage' = AfterTags[stage] /\ UNCHANGED <<types, dropped, renamed>>
      BY <2>6 DEF EndTags
    <3>2. TagsKnown /\ TagsKnown'
      BY <3>1 DEF TagsKnown, AfterTags, Kinds
    <3>3. Given' = Given /\ Carried' = Carried
      BY <3>1, <3>2 DEF Given, Carried, TagNow
    <3>4. CASE stage' = "names"
      <4>1. FixInv'
        BY FixInvStep
      <4>2. TagsDistinct'
        BY <4>1, DistinctFromInv, PTL
      <4>3. \A t, u \in DOMAIN Carried : Carried[t] = Carried[u] => t = u
        BY <3>1, <3>2, <3>4, <4>2 DEF Carried, TagsDistinct, TagNow
      <4>4. Over'
        BY <3>4 DEF Over
      <4> QED
        BY <3>3, <4>3, <4>4, FreshActions DEF Fresh!Next
    <3>5. CASE stage' # "names"
      <4>1. Over' = Over
        BY <3>1, <3>5 DEF Over, AfterTags, Kinds
      <4> QED
        BY <3>3, <4>1, FreshActions
    <3> QED
      BY <3>4, <3>5
  <2>7. CASE FixStep /\ MakeDeclNamesUnique
    <3>1. /\ stage = "names" /\ stage' = "fixed" /\ UNCHANGED <<types, dropped, renamed>>
      BY <2>7 DEF MakeDeclNamesUnique
    <3>2. TagsKnown' = TagsKnown /\ Over' = Over
      BY <3>1 DEF TagsKnown, Over
    <3> QED
      BY <3>1, <3>2, Stutters, FreshActions
  <2>8. CASE UNCHANGED everyVar
    <3>1. UNCHANGED <<types, dropped, renamed, stage>>
      BY <2>8 DEF everyVar, allVars, vars, made, fixVars
    <3> QED
      BY <2>1, <3>1
  <2> QED
    BY <2>2, <2>3, <2>4, <2>5, <2>6, <2>7, <2>8 DEF FixNext, FixStep, TagsStep
<1> QED
  BY <1>1, <1>2, FixInvHolds, PTL DEF FixSpec, TagsAreFresh, Fresh!Spec

-----------------------------------------------------------------------------
(* LargestClosed.  Its value is the last of as many rounds as there are    *)
(* nodes; that the rounds exist is shown as for the sums of increments.    *)

IsRounds(c, heap, pairs, len) ==
  /\ c = [x \in 0 .. len |-> c[x]] /\ c[0] = pairs
  /\ \A x \in 1 .. len : c[x] = StillRelated(heap, c[x - 1])

LEMMA RoundsExist ==
  ASSUME NEW heap, NEW pairs, NEW N \in Nat
  PROVE  \E c : IsRounds(c, heap, pairs, N)
<1> DEFINE bad == {x \in 0 .. N : ~ \E c : IsRounds(c, heap, pairs, x)}
<1>1. SUFFICES ASSUME bad # {} PROVE FALSE
  OBVIOUS
<1>2. bad \subseteq Nat
  OBVIOUS
<1>3. PICK len \in bad : \A y \in bad : len <= y
  BY <1>1, <1>2, LeastExists
<1>4. len \in 0 .. N /\ ~ \E c : IsRounds(c, heap, pairs, len)
  BY <1>3
<1>5. CASE len = 0
  <2>1. IsRounds([x \in 0 .. len |-> pairs], heap, pairs, len)
    BY <1>4, <1>5 DEF IsRounds
  <2> QED
    BY <1>4, <2>1
<1>6. CASE len # 0
  <2>1. len - 1 \in 0 .. N /\ len - 1 \notin bad
    BY <1>2, <1>3, <1>4, <1>6
  <2>2. PICK c : IsRounds(c, heap, pairs, len - 1)
    BY <2>1
  <2> DEFINE e == [x \in 0 .. len |-> IF x = len THEN StillRelated(heap, c[len - 1]) ELSE c[x]]
  <2>3. e = [x \in 0 .. len |-> e[x]]
    OBVIOUS
  <2>4. e[0] = pairs
    BY <1>4, <1>6, <2>2 DEF IsRounds
  <2>5. ASSUME NEW x \in 1 .. len PROVE e[x] = StillRelated(heap, e[x - 1])
    <3>1. x - 1 \in 0 .. len /\ x - 1 # len /\ e[x - 1] = c[x - 1]
      BY <1>4
    <3>2. CASE x = len
      BY <1>4, <3>1, <3>2
    <3>3. CASE x # len
      <4>1. x \in 1 .. len - 1 /\ x \in 0 .. len
        BY <1>4, <3>3
      <4>2. e[x] = c[x] /\ c[x] = StillRelated(heap, c[x - 1])
        BY <2>2, <3>3, <4>1 DEF IsRounds
      <4> QED
        BY <3>1, <4>2
    <3> QED
      BY <3>2, <3>3
  <2> HIDE DEF e
  <2>6. IsRounds(e, heap, pairs, len)
    BY <2>3, <2>4, <2>5 DEF IsRounds
  <2> QED
    BY <1>4, <2>6
<1> QED
  BY <1>5, <1>6

LEMMA LargestIsLast ==
  ASSUME NEW heap, NEW pairs, NEW N \in Nat, N = Cardinality(Nodes(heap))
  PROVE  \E c : IsRounds(c, heap, pairs, N) /\ LargestClosed(heap, pairs) = c[N]
<1> DEFINE S(c) == [x \in 0 .. N |-> IF x = 0 THEN pairs ELSE StillRelated(heap, c[x - 1])]
           closed == CHOOSE c : c = S(c)
<1>1. LargestClosed(heap, pairs) = closed[N]
  BY DEF LargestClosed
<1>2. PICK t : IsRounds(t, heap, pairs, N)
  BY RoundsExist
<1>3. t = S(t)
  <2>1. /\ t = [x \in 0 .. N |-> t[x]]
        /\ \A x \in 0 .. N : t[x] = IF x = 0 THEN pairs ELSE StillRelated(heap, t[x - 1])
    <3>1. t = [x \in 0 .. N |-> t[x]]
      BY <1>2 DEF IsRounds
    <3>2. t[0] = pairs /\ \A x \in 1 .. N : t[x] = StillRelated(heap, t[x - 1])
      BY <1>2 DEF IsRounds
    <3>3. \A x \in 0 .. N : x = 0 \/ x \in 1 .. N
      OBVIOUS
    <3>4. \A x \in 0 .. N : t[x] = IF x = 0 THEN pairs ELSE StillRelated(heap, t[x - 1])
      BY <3>2, <3>3, Zenon
    <3> QED
      BY <3>1, <3>4, Zenon
  <2> QED
    BY <2>1
<1>4. closed = S(closed)
  BY <1>3, Zenon
<1>5. /\ closed = [x \in 0 .. N |-> closed[x]]
      /\ \A x \in 0 .. N : closed[x] = IF x = 0 THEN pairs ELSE StillRelated(heap, closed[x - 1])
  <2>1. DOMAIN closed = 0 .. N /\ closed = [x \in DOMAIN closed |-> closed[x]]
    BY <1>4
  <2> QED
    BY <1>4, <2>1
<1> HIDE DEF closed
<1>6. IsRounds(closed, heap, pairs, N)
  <2>1. closed[0] = pairs
    BY <1>5, 0 \in 0 .. N
  <2>2. \A x \in 1 .. N : closed[x] = StillRelated(heap, closed[x - 1])
    <3>1. \A x \in 1 .. N : x \in 0 .. N /\ x # 0
      OBVIOUS
    <3> QED
      BY <1>5, <3>1, Zenon
  <2> QED
    BY <1>5, <2>1, <2>2, Zenon DEF IsRounds
<1> QED
  BY <1>1, <1>6

(* Each round keeps an equivalence one, and part of those before it.       *)
Equivalence(R) ==
  /\ \A x, y : Related(R, x, y) => Related(R, y, x)
  /\ \A x, y, z : Related(R, x, y) /\ Related(R, y, z) => Related(R, x, z)

LEMMA RoundEquivalence ==
  ASSUME NEW heap, NEW R, R \subseteq Nodes(heap) \X Nodes(heap), Equivalence(R)
  PROVE  Equivalence(StillRelated(heap, R))
<1> DEFINE S == StillRelated(heap, R)
<1>1. \A x, y : <<x, y>> \in S <=> <<x, y>> \in R /\ SuccRelated(heap, R, x, y)
  BY DEF StillRelated
<1> HIDE DEF S
<1>2. ASSUME NEW x, NEW y, <<x, y>> \in S PROVE Related(S, y, x)
  <2>1. Related(R, y, x) /\ SuccRelated(heap, R, y, x)
    BY <1>1, <1>2 DEF Equivalence, SuccRelated, Related
  <2> QED
    BY <1>1, <2>1 DEF Related
<1>3. ASSUME NEW x, NEW y, NEW z, <<x, y>> \in S, <<y, z>> \in S PROVE Related(S, x, z)
  <2>1. Related(R, x, y) /\ Related(R, y, z) /\ SuccRelated(heap, R, x, y) /\ SuccRelated(heap, R, y, z)
    BY <1>1, <1>3 DEF Related
  <2>2. Related(R, x, z)
    BY <2>1 DEF Equivalence
  <2>3. SuccRelated(heap, R, x, z)
    BY <2>1, Zenon DEF Equivalence, SuccRelated
  <2> QED
    BY <1>1, <2>2, <2>3 DEF Related
<1> QED
  BY <1>2, <1>3 DEF Equivalence, Related, S

LEMMA RoundsProperty ==
  ASSUME NEW heap, NEW pairs, pairs \subseteq Nodes(heap) \X Nodes(heap), Equivalence(pairs),
         NEW N \in Nat, NEW c, IsRounds(c, heap, pairs, N)
  PROVE  \A x \in 0 .. N : c[x] \subseteq pairs /\ Equivalence(c[x]) /\ c[N] \subseteq c[x]
<1>1. c[0] = pairs /\ \A x \in 1 .. N : c[x] = StillRelated(heap, c[x - 1])
  BY DEF IsRounds
<1>2. \A x \in 0 .. N : c[x] \subseteq pairs /\ Equivalence(c[x])
  <2> DEFINE bad == {x \in 0 .. N : ~ (c[x] \subseteq pairs /\ Equivalence(c[x]))}
  <2>1. SUFFICES ASSUME bad # {} PROVE FALSE
    OBVIOUS
  <2>2. bad \subseteq Nat
    OBVIOUS
  <2>3. PICK x \in bad : \A y \in bad : x <= y
    BY <2>1, <2>2, LeastExists
  <2>4. x \in 0 .. N /\ ~ (c[x] \subseteq pairs /\ Equivalence(c[x]))
    BY <2>3
  <2>5. x # 0
    BY <1>1, <2>4
  <2>6. x - 1 \in 0 .. N /\ x - 1 \notin bad /\ x \in 1 .. N
    BY <2>2, <2>3, <2>4, <2>5
  <2>7. c[x - 1] \subseteq pairs /\ Equivalence(c[x - 1]) /\ c[x] = StillRelated(heap, c[x - 1])
    BY <1>1, <2>6
  <2>8. Equivalence(c[x])
    BY <2>7, RoundEquivalence
  <2>9. c[x] \subseteq c[x - 1]
    BY <2>7 DEF StillRelated
  <2> QED
    BY <2>4, <2>7, <2>8, <2>9
<1>3. \A x \in 0 .. N : c[N] \subseteq c[x]
  <2> DEFINE bad == {y \in 0 .. N : ~ (c[N] \subseteq c[N - y])}
  <2>1. SUFFICES ASSUME bad # {} PROVE FALSE
    <3>1. ASSUME NEW x \in 0 .. N PROVE c[N] \subseteq c[x]
      <4>1. N - x \in 0 .. N /\ N - (N - x) = x
        OBVIOUS
      <4> QED
        BY <2>1, <4>1
    <3> QED
      BY <3>1
  <2>2. bad \subseteq Nat
    OBVIOUS
  <2>3. PICK y \in bad : \A z \in bad : y <= z
    BY <2>1, <2>2, LeastExists
  <2>4. y \in 0 .. N /\ ~ (c[N] \subseteq c[N - y])
    BY <2>3
  <2>5. y # 0
    BY <2>4
  <2>6. y - 1 \in 0 .. N /\ y - 1 \notin bad /\ N - (y - 1) \in 1 .. N /\ N - (y - 1) - 1 = N - y
    BY <2>2, <2>3, <2>4, <2>5
  <2>7. c[N] \subseteq c[N - (y - 1)]
    BY <2>6
  <2>8. c[N - (y - 1)] = StillRelated(heap, c[N - y])
    BY <1>1, <2>6
  <2> QED
    BY <2>4, <2>7, <2>8 DEF StillRelated
<1> QED
  BY <1>2, <1>3

-----------------------------------------------------------------------------
(* What DeepEqual says of a heap whose references lead to the same types   *)
(* as those of another, is what Alike says of that other: a round of one   *)
(* keeps two nodes together if and only if it does in the other.           *)

Node(t) == [to |-> "tagged", id |-> t]

(* All bools look like the predeclared one or a typedef of that name; the  *)
(* members of an enum refer to nothing and have names of their own.        *)
GoodRef(r) == r.to = "typedef" => r.id \in Bools
EnumFields(o) ==
  o.kind = "enum" => o.methods = <<>> /\ \A x \in DOMAIN o.fields : o.fields[x].ref.to = "basic"
PlainObject(o) == o \in Types /\ EnumFields(o) /\ \A u \in MembersIn(o) : GoodRef(u.ref)
PlainHeap(heap) == IsFiniteSet(DOMAIN heap) /\ \A t \in DOMAIN heap : PlainObject(heap[t])
PlainTypedefs ==
  typedefs \in Seq(Members) /\ boolDef \in Bools /\ \A x \in DOMAIN typedefs : GoodRef(typedefs[x].ref)
EnumsApart(heap) ==
  \A t, u \in DOMAIN heap : heap[t].kind = "enum" /\ heap[u].kind = "enum" =>
    \A x \in DOMAIN heap[t].fields, y \in DOMAIN heap[u].fields :
      heap[t].fields[x].name = heap[u].fields[y].name => t = u /\ x = y

(* The objects are those of orig but for references that R relates.        *)
MembersLike(R, xs, ys) ==
  /\ DOMAIN xs = DOMAIN ys
  /\ \A x \in DOMAIN xs : /\ xs[x].at = ys[x].at /\ xs[x].name = ys[x].name
                          /\ Related(R, xs[x].ref, ys[x].ref)
ObjectLike(R, o, p) ==
  /\ o.kind = p.kind /\ o.tag = p.tag /\ o.size = p.size
  /\ MembersLike(R, o.fields, p.fields) /\ MembersLike(R, o.methods, p.methods)
LikeBy(R, heap, orig) ==
  DOMAIN heap = DOMAIN orig /\ \A t \in DOMAIN orig : heap[t] \in Types /\ ObjectLike(R, heap[t], orig[t])

LEMMA NodeCount ==
  ASSUME NEW heap, IsFiniteSet(DOMAIN heap), typedefs \in Seq(Members)
  PROVE  Cardinality(Nodes(heap)) \in Nat
<1> DEFINE A == {[to |-> "tagged", id |-> t] : t \in DOMAIN heap}
           B == {[to |-> "typedef", id |-> x] : x \in 0 .. Len(typedefs)}
<1>1. IsFiniteSet(A)
  <2> DEFINE f == [t \in DOMAIN heap |-> [to |-> "tagged", id |-> t]]
  <2>1. f \in Surjection(DOMAIN heap, A)
    BY DEF Surjection
  <2> QED
    BY <2>1, FS_Surjection
<1>2. IsFiniteSet(B)
  <2> DEFINE f == [x \in 0 .. Len(typedefs) |-> [to |-> "typedef", id |-> x]]
  <2>1. f \in Surjection(0 .. Len(typedefs), B)
    BY DEF Surjection
  <2>2. IsFiniteSet(0 .. Len(typedefs))
    BY FS_Interval
  <2> QED
    BY <2>1, <2>2, FS_Surjection
<1>3. Nodes(heap) = A \cup B
  BY DEF Nodes
<1> HIDE DEF A, B
<1> QED
  BY <1>1, <1>2, <1>3, FS_Union, FS_CardinalityType

LEMMA NodesAre ==
  ASSUME NEW heap, NEW x
  PROVE  x \in Nodes(heap) <=> \/ x.to = "tagged" /\ x.id \in DOMAIN heap /\ x = Node(x.id)
                               \/ /\ x.to = "typedef" /\ x.id \in 0 .. Len(typedefs)
                                  /\ x = [to |-> "typedef", id |-> x.id]
BY DEF Nodes, Node

(* What a node of a plain heap refers to.                                  *)
LEMMA SuccOfTagged ==
  ASSUME NEW heap, NEW t, heap[t] \in Types
  PROVE  LET s == Succ(heap, Node(t))
             f == heap[t].fields
             g == heap[t].methods
         IN /\ f \in Seq(Members) /\ g \in Seq(Members)
            /\ DOMAIN s = 1 .. Len(f) + Len(g)
            /\ \A x \in DOMAIN s : s[x] = IF x <= Len(f) THEN f[x].ref ELSE g[x - Len(f)].ref
<1> DEFINE s == Succ(heap, Node(t))
           f == heap[t].fields
           g == heap[t].methods
<1>1. f \in Seq(Members) /\ g \in Seq(Members)
  BY DEF Types
<1>2. s = RefsOf(f) \o RefsOf(g)
  BY DEF Succ, Node
<1> HIDE DEF s, f, g
<1>3. RefsOf(f) \in Seq(Refs) /\ Len(RefsOf(f)) = Len(f)
      /\ RefsOf(g) \in Seq(Refs) /\ Len(RefsOf(g)) = Len(g)
  <2>1. ASSUME NEW h \in Seq(Members) PROVE RefsOf(h) \in Seq(Refs) /\ Len(RefsOf(h)) = Len(h)
    <3>1. DOMAIN h = 1 .. Len(h) /\ Len(h) \in Nat /\ \A x \in 1 .. Len(h) : h[x].ref \in Refs
      <4>1. DOMAIN h = 1 .. Len(h) /\ Len(h) \in Nat /\ \A x \in 1 .. Len(h) : h[x] \in Members
        BY <2>1
      <4> QED
        BY <4>1 DEF Members
    <3>2. RefsOf(h) = [x \in 1 .. Len(h) |-> h[x].ref]
      BY <3>1 DEF RefsOf
    <3> QED
      BY <3>1, <3>2
  <2> QED
    BY <1>1, <2>1
<1>4. /\ \A x \in 1 .. Len(f) : RefsOf(f)[x] = f[x].ref
      /\ \A x \in 1 .. Len(g) : RefsOf(g)[x] = g[x].ref
  BY <1>1 DEF RefsOf
<1> HIDE DEF RefsOf
<1>5. DOMAIN s = 1 .. Len(f) + Len(g)
  <2>1. Len(RefsOf(f) \o RefsOf(g)) = Len(f) + Len(g) /\ RefsOf(f) \o RefsOf(g) \in Seq(Refs)
    BY <1>3
  <2> QED
    BY <1>2, <2>1
<1>6. ASSUME NEW x \in DOMAIN s PROVE s[x] = IF x <= Len(f) THEN f[x].ref ELSE g[x - Len(f)].ref
  <2>1. CASE x <= Len(f)
    BY <1>1, <1>2, <1>3, <1>4, <1>5, <2>1
  <2>2. CASE x > Len(f)
    <3>1. s[x] = RefsOf(g)[x - Len(f)] /\ x - Len(f) \in 1 .. Len(g)
      BY <1>1, <1>2, <1>3, <1>5, <2>2
    <3> QED
      BY <1>1, <1>4, <1>5, <2>2, <3>1
  <2> QED
    BY <1>1, <1>5, <2>1, <2>2
<1>7. \A x \in DOMAIN s : s[x] = IF x <= Len(f) THEN f[x].ref ELSE g[x - Len(f)].ref
  BY <1>6, Zenon
<1>8. f \in Seq(Members) /\ g \in Seq(Members)
  BY <1>1
<1> QED
  BY <1>5, <1>7, <1>8, Zenon DEF s, f, g

LEMMA SuccLike ==
  ASSUME NEW R, NEW heap, NEW orig, LikeBy(R, heap, orig), PlainHeap(orig), NEW x \in Nodes(orig)
  PROVE  /\ DOMAIN Succ(heap, x) = DOMAIN Succ(orig, x)
         /\ \A y \in DOMAIN Succ(orig, x) : Related(R, Succ(heap, x)[y], Succ(orig, x)[y])
<1>1. CASE x.to = "tagged"
  <2> DEFINE t == x.id
  <2>1. x = Node(t) /\ t \in DOMAIN orig
    BY <1>1, NodesAre
  <2>2. heap[t] \in Types /\ orig[t] \in Types /\ ObjectLike(R, heap[t], orig[t])
    BY <2>1 DEF LikeBy, PlainHeap, PlainObject
  <2> HIDE DEF t
  <2> DEFINE f == heap[t].fields
             g == heap[t].methods
             ff == orig[t].fields
             gg == orig[t].methods
             s == Succ(heap, Node(t))
             ss == Succ(orig, Node(t))
  <2>3. /\ f \in Seq(Members) /\ g \in Seq(Members) /\ DOMAIN s = 1 .. Len(f) + Len(g)
        /\ \A y \in DOMAIN s : s[y] = IF y <= Len(f) THEN f[y].ref ELSE g[y - Len(f)].ref
    BY <2>2, SuccOfTagged, Zenon
  <2>4. /\ ff \in Seq(Members) /\ gg \in Seq(Members) /\ DOMAIN ss = 1 .. Len(ff) + Len(gg)
        /\ \A y \in DOMAIN ss : ss[y] = IF y <= Len(ff) THEN ff[y].ref ELSE gg[y - Len(ff)].ref
    BY <2>2, SuccOfTagged, Zenon
  <2>5. /\ DOMAIN f = DOMAIN ff /\ DOMAIN g = DOMAIN gg
        /\ \A y \in DOMAIN f : Related(R, f[y].ref, ff[y].ref)
        /\ \A y \in DOMAIN g : Related(R, g[y].ref, gg[y].ref)
    BY <2>2 DEF ObjectLike, MembersLike
  <2> HIDE DEF f, g, ff, gg, s, ss
  <2>6. Len(f) = Len(ff) /\ Len(g) = Len(gg) /\ Len(f) \in Nat /\ Len(g) \in Nat
        /\ DOMAIN f = 1 .. Len(f) /\ DOMAIN g = 1 .. Len(g)
    BY <2>3, <2>4, <2>5
  <2>7. ASSUME NEW y \in DOMAIN ss PROVE Related(R, s[y], ss[y])
    <3>1. y \in 1 .. Len(f) + Len(g)
      BY <2>4, <2>6
    <3>2. CASE y <= Len(f)
      <4>1. y \in DOMAIN f
        BY <2>6, <3>1, <3>2
      <4>2. s[y] = f[y].ref /\ ss[y] = ff[y].ref
        BY <2>3, <2>4, <2>6, <3>1, <3>2
      <4> QED
        BY <2>5, <4>1, <4>2
    <3>3. CASE ~ (y <= Len(f))
      <4>1. y - Len(f) \in DOMAIN g
        BY <2>6, <3>1, <3>3
      <4>2. s[y] = g[y - Len(f)].ref /\ ss[y] = gg[y - Len(f)].ref
        BY <2>3, <2>4, <2>6, <3>1, <3>3
      <4> QED
        BY <2>5, <4>1, <4>2
    <3> QED
      BY <3>2, <3>3
  <2>8. DOMAIN s = DOMAIN ss
    BY <2>3, <2>4, <2>6
  <2> QED
    BY <2>1, <2>7, <2>8 DEF s, ss
<1>2. CASE x.to # "tagged"
  <2>1. Succ(heap, x) = Succ(orig, x)
    BY <1>2 DEF Succ
  <2> QED
    BY <2>1 DEF Related
<1> QED
  BY <1>1, <1>2

LEMMA SuccGood ==
  ASSUME NEW orig, PlainHeap(orig), PlainTypedefs, NEW x \in Nodes(orig), NEW y \in DOMAIN Succ(orig, x)
  PROVE  GoodRef(Succ(orig, x)[y])
<1>1. CASE x.to = "tagged"
  <2> DEFINE t == x.id
             f == orig[t].fields
             g == orig[t].methods
             s == Succ(orig, Node(t))
  <2>1. x = Node(t) /\ t \in DOMAIN orig
    BY <1>1, NodesAre
  <2>2. orig[t] \in Types /\ \A u \in MembersIn(orig[t]) : GoodRef(u.ref)
    BY <2>1 DEF PlainHeap, PlainObject
  <2>3. /\ f \in Seq(Members) /\ g \in Seq(Members) /\ DOMAIN s = 1 .. Len(f) + Len(g)
        /\ \A z \in DOMAIN s : s[z] = IF z <= Len(f) THEN f[z].ref ELSE g[z - Len(f)].ref
    BY <2>2, SuccOfTagged
  <2>4. (\A z \in DOMAIN f : GoodRef(f[z].ref)) /\ \A z \in DOMAIN g : GoodRef(g[z].ref)
    BY <2>2 DEF MembersIn
  <2> HIDE DEF f, g, s
  <2>5. y \in DOMAIN s
    BY <2>1 DEF s
  <2>6. CASE y <= Len(f)
    <3>1. y \in DOMAIN f /\ s[y] = f[y].ref
      BY <2>3, <2>5, <2>6
    <3> QED
      BY <2>1, <2>4, <3>1 DEF s
  <2>7. CASE ~ (y <= Len(f))
    <3>1. y - Len(f) \in DOMAIN g /\ s[y] = g[y - Len(f)].ref
      BY <2>3, <2>5, <2>7
    <3> QED
      BY <2>1, <2>4, <3>1 DEF s
  <2> QED
    BY <2>6, <2>7
<1>2. CASE x.to # "tagged"
  <2>1. x.to = "typedef" /\ x.id \in 0 .. Len(typedefs)
    BY <1>2, NodesAre
  <2>2. CASE x.id # 0
    <3>1. Succ(orig, x) = <<typedefs[x.id].ref>> /\ x.id \in DOMAIN typedefs
      BY <1>2, <2>1, <2>2 DEF Succ, PlainTypedefs
    <3> QED
      BY <3>1 DEF PlainTypedefs
  <2>3. CASE x.id = 0
    BY <1>2, <2>1, <2>3 DEF Succ, GoodRef
  <2> QED
    BY <2>2, <2>3
<1> QED
  BY <1>1, <1>2

(* What a node is does not depend on what it refers to.                    *)
LEMMA ShapeLike ==
  ASSUME NEW R, NEW heap, NEW orig, LikeBy(R, heap, orig), NEW x \in Nodes(orig)
  PROVE  Shape(heap, x) = Shape(orig, x)
<1>1. CASE x.to = "tagged"
  <2> DEFINE t == x.id
  <2>1. x.to = "tagged" /\ t \in DOMAIN orig
    BY <1>1, NodesAre
  <2>2. ObjectLike(R, heap[t], orig[t])
    BY <2>1 DEF LikeBy
  <2>3. ASSUME NEW kind, NEW xs, NEW ys, MembersLike(R, xs, ys)
        PROVE  ShapesOf(kind, xs) = ShapesOf(kind, ys)
    <3>1. DOMAIN xs = DOMAIN ys /\ \A z \in DOMAIN xs : xs[z].at = ys[z].at /\ xs[z].name = ys[z].name
      BY <2>3 DEF MembersLike
    <3>2. \A z \in DOMAIN xs : /\ MemberShape(xs[z]) = MemberShape(ys[z])
                               /\ FieldShape(xs[z]) = FieldShape(ys[z])
      BY <3>1 DEF MemberShape, FieldShape
    <3> QED
      BY <3>1, <3>2, Zenon DEF ShapesOf
  <2>4. /\ heap[t].kind = orig[t].kind /\ heap[t].tag = orig[t].tag /\ heap[t].size = orig[t].size
        /\ ShapesOf(heap[t].kind, heap[t].fields) = ShapesOf(orig[t].kind, orig[t].fields)
        /\ ShapesOf(heap[t].kind, heap[t].methods) = ShapesOf(orig[t].kind, orig[t].methods)
    BY <2>2, <2>3 DEF ObjectLike
  <2> QED
    BY <2>1, <2>4 DEF Shape
<1>2. CASE x.to # "tagged"
  BY <1>2 DEF Shape
<1> QED
  BY <1>1, <1>2

LEMMA ReadingEquivalence ==
  ASSUME NEW heap
  PROVE  SameReading(heap) \subseteq Nodes(heap) \X Nodes(heap) /\ Equivalence(SameReading(heap))
<1> DEFINE R == SameReading(heap)
<1>1. \A x, y : SameSymbol(x, y) => SameSymbol(y, x)
  BY DEF SameSymbol
<1>2. \A x, y, z : SameSymbol(x, y) /\ SameSymbol(y, z) => SameSymbol(x, z)
  BY DEF SameSymbol
<1>3. \A xs, ys : SameMembers(xs, ys) => SameMembers(ys, xs)
  BY <1>1, Zenon DEF SameMembers
<1>4. \A xs, ys, zs : SameMembers(xs, ys) /\ SameMembers(ys, zs) => SameMembers(xs, zs)
  BY <1>2, Zenon DEF SameMembers
<1>5. \A t, u : SameTagged(heap, t, u) => SameTagged(heap, u, t)
  BY <1>3, Zenon DEF SameTagged
<1>6. \A t, u, v : SameTagged(heap, t, u) /\ SameTagged(heap, u, v) => SameTagged(heap, t, v)
  BY <1>4 DEF SameTagged
<1>7. \A a, b : SameTypedef(a, b) => SameTypedef(b, a)
  BY DEF SameTypedef
<1>8. \A a, b, c : SameTypedef(a, b) /\ SameTypedef(b, c) => SameTypedef(a, c)
  BY DEF SameTypedef
<1>9. \A x, y : <<x, y>> \in R <=>
        /\ x \in Nodes(heap) /\ y \in Nodes(heap)
        /\ \/ x.to = "tagged" /\ y.to = "tagged" /\ SameTagged(heap, x.id, y.id)
           \/ /\ x.to = "typedef" /\ y.to = "typedef"
              /\ {x.id, y.id} \subseteq Bools /\ SameTypedef(x.id, y.id)
  BY DEF SameReading
<1>10. R \subseteq Nodes(heap) \X Nodes(heap)
  BY DEF SameReading
<1> HIDE DEF R
<1>11. \A x, y : <<x, y>> \in R => <<y, x>> \in R
  BY <1>5, <1>7, <1>9
<1>12. ASSUME NEW x, NEW y, NEW z, <<x, y>> \in R, <<y, z>> \in R PROVE <<x, z>> \in R
  <2>1. CASE x.to = "tagged"
    <3>1. y.to = "tagged" /\ z.to = "tagged" /\ SameTagged(heap, x.id, y.id) /\ SameTagged(heap, y.id, z.id)
      BY <1>9, <1>12, <2>1
    <3>2. SameTagged(heap, x.id, z.id)
      BY <1>6, <3>1
    <3> QED
      BY <1>9, <1>12, <2>1, <3>1, <3>2
  <2>2. CASE x.to # "tagged"
    <3>1. /\ x.to = "typedef" /\ y.to = "typedef" /\ z.to = "typedef"
          /\ x.id \in Bools /\ z.id \in Bools
          /\ SameTypedef(x.id, y.id) /\ SameTypedef(y.id, z.id)
      BY <1>9, <1>12, <2>2
    <3>2. SameTypedef(x.id, z.id)
      BY <1>8, <3>1
    <3> QED
      BY <1>9, <1>12, <3>1, <3>2
  <2> QED
    BY <2>1, <2>2
<1> QED
  BY <1>10, <1>11, <1>12 DEF Equivalence, Related, R

(* Two nodes are told apart by their shapes if and only if they are by     *)
(* what is printed of them: enums that are alike have no members.          *)
LEMMA BaseAgrees ==
  ASSUME NEW orig, PlainHeap(orig), EnumsApart(orig), NEW x \in Nodes(orig), NEW y \in Nodes(orig),
         GoodRef(x), GoodRef(y), x # y
  PROVE  <<x, y>> \in SameShape(orig) <=> <<x, y>> \in SameReading(orig)
<1>1. <<x, y>> \in SameShape(orig) <=> x.to = y.to /\ Shape(orig, x) = Shape(orig, y)
  BY DEF SameShape
<1>2. CASE x.to = "tagged" /\ y.to = "tagged"
  <2> DEFINE o == orig[x.id]
             p == orig[y.id]
  <2>1. x.id \in DOMAIN orig /\ y.id \in DOMAIN orig /\ x.id # y.id
    BY <1>2, NodesAre
  <2>2. <<x, y>> \in SameReading(orig) <=> SameTagged(orig, x.id, y.id)
    BY <1>2 DEF SameReading
  <2>3. /\ Shape(orig, x) = <<o.kind, o.tag, o.size, ShapesOf(o.kind, o.fields), ShapesOf(o.kind, o.methods)>>
        /\ Shape(orig, y) = <<p.kind, p.tag, p.size, ShapesOf(p.kind, p.fields), ShapesOf(p.kind, p.methods)>>
    BY <1>2 DEF Shape
  <2>4. Shape(orig, x) = Shape(orig, y) <=>
          /\ o.kind = p.kind /\ o.tag = p.tag /\ o.size = p.size
          /\ ShapesOf(o.kind, o.fields) = ShapesOf(p.kind, p.fields)
          /\ ShapesOf(o.kind, o.methods) = ShapesOf(p.kind, p.methods)
    <3> HIDE DEF o, p
    <3> QED
      BY <2>3
  <2>5. \A v, w : FieldShape(v) = FieldShape(w) <=> SameSymbol(v, w)
    BY DEF FieldShape, SameSymbol
  <2>6. \A kind, xs, ys : kind # "enum" => (ShapesOf(kind, xs) = ShapesOf(kind, ys) <=> SameMembers(xs, ys))
    <3> SUFFICES ASSUME NEW kind, NEW xs, NEW ys, kind # "enum"
                 PROVE  ShapesOf(kind, xs) = ShapesOf(kind, ys) <=> SameMembers(xs, ys)
      OBVIOUS
    <3>1. /\ ShapesOf(kind, xs) = [z \in DOMAIN xs |-> FieldShape(xs[z])]
          /\ ShapesOf(kind, ys) = [z \in DOMAIN ys |-> FieldShape(ys[z])]
      BY DEF ShapesOf
    <3>2. ShapesOf(kind, xs) = ShapesOf(kind, ys) <=>
            DOMAIN xs = DOMAIN ys /\ \A z \in DOMAIN xs : FieldShape(xs[z]) = FieldShape(ys[z])
      <4> HIDE DEF FieldShape
      <4> QED
        BY <3>1
    <3> QED
      BY <2>5, <3>2, Zenon DEF SameMembers
  <2>7. CASE o.kind # "enum" \/ p.kind # o.kind
    <3> HIDE DEF o, p
    <3>1. Shape(orig, x) = Shape(orig, y) <=>
            /\ o.kind = p.kind /\ o.tag = p.tag /\ o.size = p.size
            /\ SameMembers(o.fields, p.fields) /\ SameMembers(o.methods, p.methods)
      BY <2>4, <2>6, <2>7
    <3> QED
      BY <1>1, <1>2, <2>2, <3>1 DEF SameTagged, o, p
  <2>8. CASE o.kind = "enum" /\ p.kind = "enum"
    <3>1. o.methods = <<>> /\ p.methods = <<>>
      BY <2>1, <2>8 DEF PlainHeap, PlainObject, EnumFields
    <3>2. \A z \in DOMAIN o.fields : z \in DOMAIN p.fields => o.fields[z].name # p.fields[z].name
      BY <2>1, <2>8 DEF EnumsApart
    <3>3. ShapesOf("enum", o.fields) = ShapesOf("enum", p.fields) => DOMAIN o.fields = {} /\ DOMAIN p.fields = {}
      <4>1. \A xs : ShapesOf("enum", xs) = [z \in DOMAIN xs |-> MemberShape(xs[z])]
        BY DEF ShapesOf
      <4>2. \A z : /\ MemberShape(o.fields[z]).name = o.fields[z].name
                   /\ MemberShape(p.fields[z]).name = p.fields[z].name
        BY DEF MemberShape
      <4> HIDE DEF o, p, MemberShape
      <4> QED
        BY <3>2, <4>1, <4>2
    <3>4. SameMembers(o.fields, p.fields) => DOMAIN o.fields = {} /\ DOMAIN p.fields = {}
      BY <3>2 DEF SameMembers, SameSymbol
    <3>5. \A xs, ys : DOMAIN xs = {} /\ DOMAIN ys = {} =>
            ShapesOf("enum", xs) = ShapesOf("enum", ys) /\ SameMembers(xs, ys)
      BY DEF ShapesOf, SameMembers
    <3>6. DOMAIN o.methods = {} /\ DOMAIN p.methods = {}
      BY <3>1
    <3> HIDE DEF o, p
    <3>7. Shape(orig, x) = Shape(orig, y) <=>
            /\ o.tag = p.tag /\ o.size = p.size
            /\ SameMembers(o.fields, p.fields) /\ SameMembers(o.methods, p.methods)
      BY <2>4, <2>8, <3>3, <3>4, <3>5, <3>6
    <3> QED
      BY <1>1, <1>2, <2>2, <2>8, <3>7 DEF SameTagged, o, p
  <2> QED
    BY <2>7, <2>8
<1>3. CASE x.to = "typedef" /\ y.to = "typedef"
  <2>1. x.id \in Bools /\ y.id \in Bools
    BY <1>3 DEF GoodRef
  <2>2. <<x, y>> \in SameReading(orig) <=> SameTypedef(x.id, y.id)
    BY <1>3, <2>1 DEF SameReading
  <2> DEFINE form(w) == IF w = 0 THEN "int" ELSE syms[typedefs[w].at].form
             to(w) == IF w = 0 THEN "basic" ELSE typedefs[w].ref.to
  <2>3. \A w : w.to = "typedef" /\ w.id \in Bools =>
          Shape(orig, w) = <<"typedef", BoolName, form(w.id), to(w.id)>>
    BY DEF Shape, Bools
  <2>4. SameTypedef(x.id, y.id) <=> form(x.id) = form(y.id) /\ to(x.id) = to(y.id)
    BY DEF SameTypedef
  <2> HIDE DEF form, to
  <2>5. Shape(orig, x) = Shape(orig, y) <=> form(x.id) = form(y.id) /\ to(x.id) = to(y.id)
    BY <1>3, <2>1, <2>3
  <2> QED
    BY <1>1, <1>3, <2>2, <2>4, <2>5
<1>4. CASE x.to # y.to
  BY <1>1, <1>4 DEF SameReading
<1> QED
  BY <1>2, <1>3, <1>4, NodesAre

LEMMA LikeIsGood ==
  ASSUME NEW R, NEW orig, R \subseteq SameReading(orig), NEW x, NEW y, Related(R, x, y), GoodRef(y)
  PROVE  GoodRef(x)
<1>1. x = y \/ <<x, y>> \in SameReading(orig)
  BY DEF Related
<1> QED
  BY <1>1 DEF SameReading, GoodRef

(* The rounds of DeepEqual of the heap are those of Alike of the original. *)
LEMMA RoundsAgree ==
  ASSUME NEW heap, NEW orig, PlainHeap(orig), EnumsApart(orig), PlainTypedefs, NEW N \in Nat,
         NEW c, IsRounds(c, heap, SameShape(heap), N),
         NEW a, IsRounds(a, orig, SameReading(orig), N), LikeBy(a[N], heap, orig)
  PROVE  \A z \in 0 .. N : \A x, y : GoodRef(x) /\ GoodRef(y) =>
           (Related(c[z], x, y) <=> Related(a[z], x, y))
<1>1. c[0] = SameShape(heap) /\ \A z \in 1 .. N : c[z] = StillRelated(heap, c[z - 1])
  BY DEF IsRounds
<1>2. a[0] = SameReading(orig) /\ \A z \in 1 .. N : a[z] = StillRelated(orig, a[z - 1])
  BY DEF IsRounds
<1>3. \A z \in 0 .. N : a[z] \subseteq SameReading(orig) /\ Equivalence(a[z]) /\ a[N] \subseteq a[z]
  BY ReadingEquivalence, RoundsProperty
<1>4. Nodes(heap) = Nodes(orig)
  BY DEF LikeBy, Nodes
<1>5. SameShape(heap) = SameShape(orig)
  <2>1. \A x \in Nodes(orig) : Shape(heap, x) = Shape(orig, x)
    BY ShapeLike
  <2> QED
    BY <1>4, <2>1 DEF SameShape
<1> DEFINE Agree(z) == \A x, y : GoodRef(x) /\ GoodRef(y) => (Related(c[z], x, y) <=> Related(a[z], x, y))
           bad == {z \in 0 .. N : ~ Agree(z)}
<1>6. SUFFICES ASSUME bad # {} PROVE FALSE
  OBVIOUS
<1>7. bad \subseteq Nat
  OBVIOUS
<1>8. PICK z \in bad : \A y \in bad : z <= y
  BY <1>6, <1>7, LeastExists
<1>9. z \in 0 .. N /\ ~ Agree(z)
  BY <1>8
<1>10. CASE z = 0
  <2>1. ASSUME NEW x, NEW y, GoodRef(x), GoodRef(y)
        PROVE  Related(SameShape(orig), x, y) <=> Related(SameReading(orig), x, y)
    <3>1. CASE x \in Nodes(orig) /\ y \in Nodes(orig) /\ x # y
      BY <2>1, <3>1, BaseAgrees DEF Related
    <3>2. CASE ~ (x \in Nodes(orig) /\ y \in Nodes(orig))
      BY <3>2 DEF Related, SameShape, SameReading
    <3> QED
      BY <3>1, <3>2 DEF Related
  <2> QED
    BY <1>1, <1>2, <1>5, <1>9, <1>10, <2>1
<1>11. CASE z # 0
  <2>1. z - 1 \in 0 .. N /\ z - 1 \notin bad /\ z \in 1 .. N
    BY <1>7, <1>8, <1>9, <1>11
  <2> DEFINE cc == c[z - 1]
             aa == a[z - 1]
  <2>2. Agree(z - 1)
    BY <2>1
  <2>3. \A x, y : GoodRef(x) /\ GoodRef(y) => (Related(cc, x, y) <=> Related(aa, x, y))
    BY <2>2
  <2>4. c[z] = StillRelated(heap, cc) /\ a[z] = StillRelated(orig, aa)
    BY <1>1, <1>2, <2>1
  <2>5. aa \subseteq SameReading(orig) /\ Equivalence(aa) /\ a[N] \subseteq aa
    BY <1>3, <2>1
  <2> HIDE DEF cc, aa
  <2>6. ASSUME NEW x \in Nodes(orig), NEW y \in Nodes(orig)
        PROVE  SuccRelated(heap, cc, x, y) <=> SuccRelated(orig, aa, x, y)
    <3>1. /\ DOMAIN Succ(heap, x) = DOMAIN Succ(orig, x)
          /\ \A e \in DOMAIN Succ(orig, x) : Related(a[N], Succ(heap, x)[e], Succ(orig, x)[e])
      BY SuccLike
    <3>2. /\ DOMAIN Succ(heap, y) = DOMAIN Succ(orig, y)
          /\ \A e \in DOMAIN Succ(orig, y) : Related(a[N], Succ(heap, y)[e], Succ(orig, y)[e])
      BY SuccLike
    <3>3. /\ \A e \in DOMAIN Succ(orig, x) : GoodRef(Succ(orig, x)[e])
          /\ \A e \in DOMAIN Succ(orig, y) : GoodRef(Succ(orig, y)[e])
      BY SuccGood
    <3>4. ASSUME NEW e \in DOMAIN Succ(orig, x), e \in DOMAIN Succ(orig, y)
          PROVE  Related(cc, Succ(heap, x)[e], Succ(heap, y)[e])
                   <=> Related(aa, Succ(orig, x)[e], Succ(orig, y)[e])
      <4> DEFINE hx == Succ(heap, x)[e]
                 hy == Succ(heap, y)[e]
                 ox == Succ(orig, x)[e]
                 oy == Succ(orig, y)[e]
      <4>1. Related(a[N], hx, ox) /\ Related(a[N], hy, oy) /\ GoodRef(ox) /\ GoodRef(oy)
        BY <3>1, <3>2, <3>3, <3>4
      <4> HIDE DEF hx, hy, ox, oy
      <4>2. Related(aa, hx, ox) /\ Related(aa, hy, oy)
        BY <2>5, <4>1 DEF Related
      <4>3. GoodRef(hx) /\ GoodRef(hy)
        BY <2>5, <4>1, <4>2, LikeIsGood
      <4>4. Related(cc, hx, hy) <=> Related(aa, hx, hy)
        BY <2>3, <4>3
      <4>5. Related(aa, hx, hy) <=> Related(aa, ox, oy)
        BY <2>5, <4>2 DEF Equivalence
      <4> QED
        BY <4>4, <4>5 DEF hx, hy, ox, oy
    <3> QED
      BY <3>1, <3>2, <3>4, Zenon DEF SuccRelated
  <2>7. ASSUME NEW x, NEW y, GoodRef(x), GoodRef(y)
        PROVE  Related(c[z], x, y) <=> Related(a[z], x, y)
    <3>1. CASE x = y
      BY <3>1 DEF Related
    <3>2. CASE x # y
      <4>1. /\ Related(c[z], x, y) <=> <<x, y>> \in cc /\ SuccRelated(heap, cc, x, y)
            /\ Related(a[z], x, y) <=> <<x, y>> \in aa /\ SuccRelated(orig, aa, x, y)
        BY <2>4, <3>2 DEF Related, StillRelated
      <4>2. <<x, y>> \in cc <=> <<x, y>> \in aa
        BY <2>3, <2>7, <3>2 DEF Related
      <4>3. <<x, y>> \in aa => x \in Nodes(orig) /\ y \in Nodes(orig)
        BY <2>5 DEF SameReading
      <4> QED
        BY <2>6, <4>1, <4>2, <4>3
    <3> QED
      BY <3>1, <3>2
  <2> QED
    BY <1>9, <2>7
<1> QED
  BY <1>10, <1>11

LEMMA AlikeProperty ==
  ASSUME NEW orig, PlainHeap(orig), PlainTypedefs
  PROVE  Alike(orig) \subseteq SameReading(orig) /\ Equivalence(Alike(orig))
<1> DEFINE N == Cardinality(Nodes(orig))
<1>1. N \in Nat
  BY NodeCount DEF PlainHeap, PlainTypedefs
<1> HIDE DEF N
<1>2. PICK a : IsRounds(a, orig, SameReading(orig), N) /\ LargestClosed(orig, SameReading(orig)) = a[N]
  BY <1>1, LargestIsLast DEF N
<1>3. Alike(orig) = a[N] /\ N \in 0 .. N
  BY <1>1, <1>2 DEF Alike
<1> QED
  BY <1>1, <1>2, <1>3, ReadingEquivalence, RoundsProperty

LEMMA EqualIsAlike ==
  ASSUME NEW heap, NEW orig, PlainHeap(orig), EnumsApart(orig), PlainTypedefs,
         LikeBy(Alike(orig), heap, orig), NEW t, NEW u
  PROVE  <<u, t>> \in DeepEqual(heap) <=> u # t /\ <<Node(u), Node(t)>> \in Alike(orig)
<1> DEFINE N == Cardinality(Nodes(orig))
<1>1. N \in Nat /\ Nodes(heap) = Nodes(orig)
  BY NodeCount DEF PlainHeap, PlainTypedefs, LikeBy, Nodes
<1>2. N = Cardinality(Nodes(heap)) /\ N = Cardinality(Nodes(orig))
  BY <1>1
<1> HIDE DEF N
<1>3. PICK a : IsRounds(a, orig, SameReading(orig), N) /\ LargestClosed(orig, SameReading(orig)) = a[N]
  BY <1>1, <1>2, LargestIsLast
<1>4. PICK c : IsRounds(c, heap, SameShape(heap), N) /\ LargestClosed(heap, SameShape(heap)) = c[N]
  BY <1>1, <1>2, LargestIsLast
<1>5. Alike(orig) = a[N] /\ N \in 0 .. N
  BY <1>1, <1>3 DEF Alike
<1>6. \A x, y : GoodRef(x) /\ GoodRef(y) => (Related(c[N], x, y) <=> Related(a[N], x, y))
  <2>1. LikeBy(a[N], heap, orig)
    BY <1>5
  <2> QED
    BY <1>1, <1>3, <1>4, <1>5, <2>1, RoundsAgree
<1>7. c[N] \subseteq SameShape(heap)
  <2>1. \A x \in 1 .. N : c[x] = StillRelated(heap, c[x - 1])
    BY <1>4 DEF IsRounds
  <2> DEFINE bad == {x \in 0 .. N : ~ c[x] \subseteq SameShape(heap)}
  <2>2. SUFFICES ASSUME bad # {} PROVE FALSE
    BY <1>5
  <2>3. bad \subseteq Nat
    OBVIOUS
  <2>4. PICK x \in bad : \A y \in bad : x <= y
    BY <2>2, <2>3, LeastExists
  <2>5. x \in 0 .. N /\ ~ c[x] \subseteq SameShape(heap)
    BY <2>4
  <2>6. x # 0
    BY <1>4, <2>5 DEF IsRounds
  <2>7. x - 1 \in 0 .. N /\ x - 1 \notin bad /\ x \in 1 .. N
    <3>1. x \in Nat /\ x <= N
      BY <1>1, <2>5
    <3> HIDE DEF bad
    <3>2. x - 1 \notin bad
      BY <2>4, <3>1
    <3> QED
      BY <1>1, <2>6, <3>1, <3>2
  <2>8. c[x - 1] \subseteq SameShape(heap) /\ c[x] = StillRelated(heap, c[x - 1])
    BY <2>1, <2>7
  <2> QED
    BY <2>5, <2>8 DEF StillRelated
<1>8. <<u, t>> \in DeepEqual(heap) <=> <<Node(u), Node(t)>> \in c[N]
  <2>1. ASSUME NEW p \in c[N], p[1].to = "tagged"
        PROVE  p = <<Node(p[1].id), Node(p[2].id)>>
    <3>1. p \in Nodes(heap) \X Nodes(heap) /\ p[1].to = p[2].to
      BY <1>7, <2>1 DEF SameShape
    <3>2. p[1] \in Nodes(heap) /\ p[2] \in Nodes(heap) /\ p = <<p[1], p[2]>>
      BY <3>1
    <3>3. p[1] = Node(p[1].id) /\ p[2] = Node(p[2].id)
      BY <2>1, <3>1, <3>2, NodesAre
    <3> QED
      BY <3>2, <3>3
  <2>2. ASSUME <<u, t>> \in DeepEqual(heap) PROVE <<Node(u), Node(t)>> \in c[N]
    <3>1. PICK p \in c[N] : p[1].to = "tagged" /\ <<u, t>> = <<p[1].id, p[2].id>>
      BY <1>4, <2>2 DEF DeepEqual
    <3> QED
      BY <2>1, <3>1
  <2>3. ASSUME <<Node(u), Node(t)>> \in c[N] PROVE <<u, t>> \in DeepEqual(heap)
    <3> DEFINE p == <<Node(u), Node(t)>>
    <3>1. p[1].to = "tagged" /\ p[1].id = u /\ p[2].id = t
      BY DEF Node
    <3>2. p \in {q \in LargestClosed(heap, SameShape(heap)) : q[1].to = "tagged"}
      BY <1>4, <2>3, <3>1
    <3>3. <<p[1].id, p[2].id>> \in DeepEqual(heap)
      BY <3>2 DEF DeepEqual
    <3> QED
      BY <3>1, <3>3
  <2> QED
    BY <2>2, <2>3
<1>9. GoodRef(Node(u)) /\ GoodRef(Node(t))
  BY DEF GoodRef, Node
<1>10. Node(u) = Node(t) <=> u = t
  BY DEF Node
<1>11. <<Node(u), Node(t)>> \in c[N] => u # t
  BY <1>7, <1>10 DEF SameShape
<1> QED
  BY <1>5, <1>6, <1>8, <1>9, <1>10, <1>11 DEF Related

-----------------------------------------------------------------------------
(* typeRemap.  A type is replaced by a listed one that is alike and that   *)
(* stays itself, and of two that are alike the later is replaced.          *)

LEMMA FirstIs ==
  ASSUME NEW S, S \subseteq Nat, S # {}
  PROVE  FirstOf(S) \in S /\ \A y \in S : FirstOf(S) <= y
<1>1. \E x \in S : \A y \in S : x <= y
  BY LeastExists
<1> QED
  BY <1>1 DEF FirstOf

Remaps(R, kind, remap) ==
  /\ DOMAIN remap = Listed(kind)
  /\ \A t \in Listed(kind) : /\ remap[t] \in Listed(kind) /\ remap[remap[t]] = remap[t]
                             /\ Related(R, Node(remap[t]), Node(t))

LEMMA KeptOne ==
  ASSUME NEW orig, PlainHeap(orig), EnumsApart(orig), PlainTypedefs,
         LikeBy(Alike(orig), types, orig), DOMAIN types \subseteq Nat, NEW kind
  PROVE  LET remap == ReplacedBy(kind, DeepEqual(types)) IN
         /\ Remaps(Alike(orig), kind, remap)
         /\ \A t, u \in Listed(kind) :
              t < u /\ <<Node(t), Node(u)>> \in Alike(orig) => remap[u] # u
<1> DEFINE R == Alike(orig)
           remap == ReplacedBy(kind, DeepEqual(types))
           Equals(t) == {u \in List(kind, types[t].tag) : <<u, t>> \in DeepEqual(types)}
<1>1. Equivalence(R) /\ R \subseteq SameReading(orig)
  BY AlikeProperty
<1>2. ASSUME NEW t, NEW u
      PROVE  <<u, t>> \in DeepEqual(types) <=> u # t /\ <<Node(u), Node(t)>> \in R
  BY EqualIsAlike
<1>3. DOMAIN remap = Listed(kind) /\ \A t \in Listed(kind) : remap[t] = FirstOf({t} \cup Equals(t))
  BY DEF ReplacedBy
<1>4. Listed(kind) \subseteq Nat
  BY DEF Listed
<1>5. \A tag : List(kind, tag) \subseteq Listed(kind)
  BY DEF List
<1> HIDE DEF R, remap
<1>6. \A t : Equals(t) = {u \in List(kind, types[t].tag) : u # t /\ <<Node(u), Node(t)>> \in R}
  BY <1>2
<1>7. \A t, u : Related(R, Node(u), Node(t)) <=> u = t \/ <<Node(u), Node(t)>> \in R
  BY DEF Related, Node
<1>8. \A t \in Listed(kind) : t \in List(kind, types[t].tag)
  BY DEF List
<1>9. \A t, u : u \in List(kind, types[t].tag) => types[u].tag = types[t].tag
  BY DEF List
<1> HIDE DEF Equals
<1>10. ASSUME NEW t \in Listed(kind)
       PROVE  /\ remap[t] \in List(kind, types[t].tag) /\ Related(R, Node(remap[t]), Node(t))
              /\ \A u \in List(kind, types[t].tag) : Related(R, Node(u), Node(t)) => remap[t] <= u
  <2> DEFINE S == {t} \cup Equals(t)
  <2>1. S = {u \in List(kind, types[t].tag) : Related(R, Node(u), Node(t))}
    BY <1>6, <1>7, <1>8
  <2>2. S \subseteq Nat /\ S # {}
    BY <1>4, <1>5, <2>1
  <2>3. FirstOf(S) \in S /\ \A u \in S : FirstOf(S) <= u
    BY <2>2, FirstIs
  <2>4. remap[t] = FirstOf(S)
    BY <1>3
  <2> HIDE DEF S
  <2> QED
    BY <2>1, <2>3, <2>4
<1>11. ASSUME NEW t \in Listed(kind)
       PROVE  remap[t] \in Listed(kind) /\ remap[remap[t]] = remap[t]
  <2> DEFINE u == remap[t]
             v == remap[u]
  <2>1. u \in List(kind, types[t].tag) /\ u \in Listed(kind) /\ Related(R, Node(u), Node(t))
    BY <1>5, <1>10
  <2>2. v \in List(kind, types[u].tag) /\ Related(R, Node(v), Node(u))
    BY <1>10, <2>1
  <2>3. types[u].tag = types[t].tag
    BY <1>9, <2>1
  <2>4. Related(R, Node(v), Node(t))
    BY <1>1, <2>1, <2>2 DEF Equivalence
  <2>5. u <= v
    BY <1>10, <2>2, <2>3, <2>4
  <2>6. v <= u
    <3>1. u \in List(kind, types[u].tag) /\ Related(R, Node(u), Node(u))
      BY <1>8, <2>1 DEF Related
    <3> QED
      BY <1>10, <2>1, <3>1
  <2>7. u \in Nat /\ v \in Nat
    BY <1>4, <1>5, <2>1, <2>2
  <2> HIDE DEF u, v
  <2>8. u = v
    BY <2>5, <2>6, <2>7
  <2> QED
    BY <2>1, <2>8 DEF u, v
<1>12. ASSUME NEW t \in Listed(kind), NEW u \in Listed(kind), t < u, <<Node(t), Node(u)>> \in R
       PROVE  remap[u] # u
  <2>1. types[t].tag = types[u].tag
    <3>1. SameTagged(orig, t, u)
      BY <1>1, <1>12 DEF SameReading, Node
    <3>2. t \in DOMAIN types /\ u \in DOMAIN types
      BY DEF Listed
    <3>3. types[t].tag = orig[t].tag /\ types[u].tag = orig[u].tag
      BY <3>2 DEF LikeBy, ObjectLike
    <3> QED
      BY <3>1, <3>3 DEF SameTagged
  <2>2. t \in List(kind, types[u].tag) /\ Related(R, Node(t), Node(u))
    BY <1>8, <1>12, <2>1 DEF Related
  <2>3. remap[u] <= t /\ remap[u] \in Nat
    BY <1>4, <1>10, <1>11, <2>2
  <2> QED
    BY <1>4, <1>12, <2>3
<1> QED
  BY <1>3, <1>10, <1>11, <1>12 DEF Remaps, R, remap

(* A call of replaceUsedSubtypes keeps where each use stands, and what it  *)
(* leads to is alike.                                                      *)
Replaces(R, remap) ==
  \A r \in Refs : /\ RefAfter(remap, r) \in Refs /\ RefAfter(remap, r).to = r.to
                  /\ Related(R, RefAfter(remap, r), r)

LEMMA RefReplaced ==
  ASSUME NEW R, NEW kind, NEW remap, Remaps(R, kind, remap), DOMAIN types \subseteq Nat
  PROVE  /\ Replaces(R, remap)
         /\ \A r \in Refs : r.to = "tagged" =>
              RefAfter(remap, r) = Node(IF r.id \in Listed(kind) THEN remap[r.id] ELSE r.id)
<1>1. \A t \in Listed(kind) : t \in Nat
  BY DEF Listed
<1>2. DOMAIN remap = Listed(kind)
      /\ \A t \in Listed(kind) : remap[t] \in Listed(kind) /\ Related(R, Node(remap[t]), Node(t))
  BY DEF Remaps
<1>3. ASSUME NEW r \in Refs
      PROVE  /\ RefAfter(remap, r) \in Refs /\ RefAfter(remap, r).to = r.to
             /\ Related(R, RefAfter(remap, r), r)
             /\ r.to = "tagged" =>
                  RefAfter(remap, r) = Node(IF r.id \in Listed(kind) THEN remap[r.id] ELSE r.id)
  <2>1. r = [to |-> r.to, id |-> r.id] /\ r.id \in Nat
    BY DEF Refs
  <2>2. CASE r.to = "tagged" /\ r.id \in Listed(kind)
    <3>1. RefAfter(remap, r) = [r EXCEPT !.id = remap[r.id]]
      BY <1>2, <2>2 DEF RefAfter
    <3>2. RefAfter(remap, r) = [to |-> "tagged", id |-> remap[r.id]]
      BY <2>1, <2>2, <3>1
    <3>3. r = Node(r.id) /\ RefAfter(remap, r) = Node(remap[r.id])
      BY <2>1, <2>2, <3>2 DEF Node
    <3>4. remap[r.id] \in Nat /\ Related(R, Node(remap[r.id]), Node(r.id))
      BY <1>1, <1>2, <2>2
    <3> QED
      BY <2>2, <3>2, <3>3, <3>4 DEF Refs
  <2>3. CASE ~ (r.to = "tagged" /\ r.id \in Listed(kind))
    <3>1. RefAfter(remap, r) = r
      BY <1>2, <2>3 DEF RefAfter
    <3> QED
      BY <2>1, <2>3, <3>1 DEF Related, Node
  <2> QED
    BY <2>2, <2>3
<1> QED
  BY <1>3 DEF Replaces

LEMMA UsesReplaced ==
  ASSUME NEW R, NEW remap, Replaces(R, remap)
  PROVE  /\ \A h \in Seq(Members) : UsesAfter(remap, h) \in Seq(Members)
         /\ \A h \in Seq(Vars) : UsesAfter(remap, h) \in Seq(Vars)
         /\ \A h \in Seq(Members) \cup Seq(Vars) :
              /\ DOMAIN UsesAfter(remap, h) = DOMAIN h
              /\ \A x \in DOMAIN h : /\ UsesAfter(remap, h)[x].at = h[x].at
                                     /\ UsesAfter(remap, h)[x].name = h[x].name
                                     /\ UsesAfter(remap, h)[x].ref = RefAfter(remap, h[x].ref)
                                     /\ h[x].ref \in Refs
<1>1. \A h : UsesAfter(remap, h) = [x \in DOMAIN h |-> [h[x] EXCEPT !.ref = RefAfter(remap, h[x].ref)]]
  BY DEF UsesAfter
<1>2. ASSUME NEW u \in Members
      PROVE  /\ [u EXCEPT !.ref = RefAfter(remap, u.ref)] \in Members
             /\ [u EXCEPT !.ref = RefAfter(remap, u.ref)].at = u.at
             /\ [u EXCEPT !.ref = RefAfter(remap, u.ref)].name = u.name
             /\ [u EXCEPT !.ref = RefAfter(remap, u.ref)].ref = RefAfter(remap, u.ref)
             /\ u.ref \in Refs
  <2>1. u.ref \in Refs /\ RefAfter(remap, u.ref) \in Refs
    BY DEF Members, Replaces
  <2> QED
    BY <2>1 DEF Members
<1>3. ASSUME NEW u \in Vars
      PROVE  /\ [u EXCEPT !.ref = RefAfter(remap, u.ref)] \in Vars
             /\ [u EXCEPT !.ref = RefAfter(remap, u.ref)].at = u.at
             /\ [u EXCEPT !.ref = RefAfter(remap, u.ref)].name = u.name
             /\ [u EXCEPT !.ref = RefAfter(remap, u.ref)].ref = RefAfter(remap, u.ref)
             /\ u.ref \in Refs
  <2>1. u.ref \in Refs /\ RefAfter(remap, u.ref) \in Refs
    BY DEF Vars, Replaces
  <2> QED
    BY <2>1 DEF Vars
<1>4. ASSUME NEW h \in Seq(Members) PROVE UsesAfter(remap, h) \in Seq(Members)
  <2>1. DOMAIN h = 1 .. Len(h) /\ Len(h) \in Nat /\ \A x \in DOMAIN h : h[x] \in Members
    OBVIOUS
  <2> HIDE DEF Members
  <2> QED
    BY <1>1, <1>2, <2>1
<1>5. ASSUME NEW h \in Seq(Vars) PROVE UsesAfter(remap, h) \in Seq(Vars)
  <2>1. DOMAIN h = 1 .. Len(h) /\ Len(h) \in Nat /\ \A x \in DOMAIN h : h[x] \in Vars
    OBVIOUS
  <2> QED
    BY <1>1, <1>3, <2>1
<1>6. ASSUME NEW h \in Seq(Members) \cup Seq(Vars), NEW x \in DOMAIN h
      PROVE  h[x] \in Members \/ h[x] \in Vars
  <2>1. CASE h \in Seq(Members)
    BY <1>6, <2>1
  <2>2. CASE h \in Seq(Vars)
    BY <1>6, <2>2
  <2> QED
    BY <2>1, <2>2
<1>7. \A h : DOMAIN UsesAfter(remap, h) = DOMAIN h
  BY <1>1
<1>8. ASSUME NEW h \in Seq(Members) \cup Seq(Vars), NEW x \in DOMAIN h
      PROVE  /\ UsesAfter(remap, h)[x].at = h[x].at /\ UsesAfter(remap, h)[x].name = h[x].name
             /\ UsesAfter(remap, h)[x].ref = RefAfter(remap, h[x].ref) /\ h[x].ref \in Refs
  <2>1. UsesAfter(remap, h)[x] = [h[x] EXCEPT !.ref = RefAfter(remap, h[x].ref)]
    BY <1>1
  <2> QED
    BY <1>2, <1>3, <1>6, <2>1
<1> QED
  BY <1>4, <1>5, <1>7, <1>8

TypeAfter(remap, o) ==
  [o EXCEPT !.fields = UsesAfter(remap, o.fields), !.methods = UsesAfter(remap, o.methods)]

LEMMA HeapAfterIs ==
  ASSUME NEW remap
  PROVE  /\ DOMAIN HeapAfter(remap) = DOMAIN types
         /\ \A t \in DOMAIN types :
              HeapAfter(remap)[t] =
                IF t \in Listed("struct") \cup Listed("union")
                THEN TypeAfter(remap, types[t]) ELSE types[t]
BY DEF HeapAfter, TypeAfter

LEMMA TypeReplaced ==
  ASSUME NEW R, NEW remap, Replaces(R, remap), NEW o \in Types
  PROVE  LET q == TypeAfter(remap, o) IN
         /\ q \in Types /\ q.kind = o.kind /\ q.tag = o.tag /\ q.size = o.size
         /\ q.fields = UsesAfter(remap, o.fields) /\ q.methods = UsesAfter(remap, o.methods)
<1> DEFINE fs == UsesAfter(remap, o.fields)
           ms == UsesAfter(remap, o.methods)
           p == [o EXCEPT !.fields = fs]
           r == [p EXCEPT !.methods = ms]
           q == TypeAfter(remap, o)
<1>1. o.fields \in Seq(Members) /\ o.methods \in Seq(Members)
  BY DEF Types
<1>2. fs \in Seq(Members) /\ ms \in Seq(Members)
  BY <1>1, UsesReplaced
<1>3. q = r
  BY DEF TypeAfter
<1> HIDE DEF fs, ms, q
<1>4. p \in Types /\ p.kind = o.kind /\ p.tag = o.tag /\ p.size = o.size /\ p.fields = fs
  BY <1>2 DEF Types
<1> HIDE DEF p
<1>5. r \in Types /\ r.kind = p.kind /\ r.tag = p.tag /\ r.size = p.size
      /\ r.fields = p.fields /\ r.methods = ms
  BY <1>2, <1>4 DEF Types
<1> HIDE DEF r
<1> QED
  BY <1>3, <1>4, <1>5 DEF fs, ms, q

LEMMA HeapReplaced ==
  ASSUME NEW R, NEW remap, Replaces(R, remap), Equivalence(R), NEW orig, LikeBy(R, types, orig)
  PROVE  LikeBy(R, HeapAfter(remap), orig)
<1>1. DOMAIN HeapAfter(remap) = DOMAIN orig
  BY DEF HeapAfter, LikeBy
<1>2. ASSUME NEW t \in DOMAIN orig
      PROVE  HeapAfter(remap)[t] \in Types /\ ObjectLike(R, HeapAfter(remap)[t], orig[t])
  <2>1. types[t] \in Types /\ ObjectLike(R, types[t], orig[t]) /\ t \in DOMAIN types
    BY DEF LikeBy
  <2> DEFINE o == types[t]
             q == TypeAfter(remap, o)
  <2>2. HeapAfter(remap)[t] = o \/ HeapAfter(remap)[t] = q
    BY <2>1, HeapAfterIs
  <2>3. o.fields \in Seq(Members) /\ o.methods \in Seq(Members)
    BY <2>1 DEF Types
  <2>5. q \in Types /\ q.kind = o.kind /\ q.tag = o.tag /\ q.size = o.size
        /\ q.fields = UsesAfter(remap, o.fields) /\ q.methods = UsesAfter(remap, o.methods)
    <3>1. o \in Types
      BY <2>1
    <3> HIDE DEF o
    <3> QED
      BY <3>1, TypeReplaced
  <2>6. ASSUME NEW h \in Seq(Members), NEW g, MembersLike(R, h, g)
        PROVE  MembersLike(R, UsesAfter(remap, h), g)
    <3>1. DOMAIN UsesAfter(remap, h) = DOMAIN g
      BY <2>6, UsesReplaced DEF MembersLike
    <3>2. ASSUME NEW x \in DOMAIN h
          PROVE  /\ UsesAfter(remap, h)[x].at = g[x].at /\ UsesAfter(remap, h)[x].name = g[x].name
                 /\ Related(R, UsesAfter(remap, h)[x].ref, g[x].ref)
      <4>1. h[x].at = g[x].at /\ h[x].name = g[x].name /\ Related(R, h[x].ref, g[x].ref)
        BY <2>6 DEF MembersLike
      <4>2. /\ UsesAfter(remap, h)[x].at = h[x].at /\ UsesAfter(remap, h)[x].name = h[x].name
            /\ UsesAfter(remap, h)[x].ref = RefAfter(remap, h[x].ref) /\ h[x].ref \in Refs
        BY UsesReplaced
      <4>3. Related(R, RefAfter(remap, h[x].ref), h[x].ref)
        BY <4>2 DEF Replaces
      <4> QED
        BY <4>1, <4>2, <4>3 DEF Equivalence
    <3> QED
      BY <2>6, <3>1, <3>2 DEF MembersLike
  <2>7. ObjectLike(R, q, orig[t])
    BY <2>1, <2>3, <2>5, <2>6 DEF ObjectLike
  <2> HIDE DEF o, q
  <2> QED
    BY <2>1, <2>2, <2>5, <2>7 DEF o
<1> QED
  BY <1>1, <1>2 DEF LikeBy

(* The declarations of an overlay.                                         *)
LEMMA FunctionIsSeq ==
  ASSUME NEW S, NEW len \in Nat, NEW c \in [1 .. len -> S]
  PROVE  c \in Seq(S)
OBVIOUS

LEMMA BlocksReplaced ==
  ASSUME NEW R, NEW remap, Replaces(R, remap), NEW bs \in Seq(BlockRecs), NEW cs,
         cs = [b \in DOMAIN bs |-> [bs[b] EXCEPT !.locals = UsesAfter(remap, @)]]
  PROVE  /\ cs \in Seq(BlockRecs) /\ DOMAIN cs = DOMAIN bs
         /\ \A b \in DOMAIN bs : /\ bs[b].locals \in Seq(Vars)
                                 /\ cs[b].locals = UsesAfter(remap, bs[b].locals)
<1>1. ASSUME NEW e \in BlockRecs
      PROVE  /\ e.locals \in Seq(Vars)
             /\ [e EXCEPT !.locals = UsesAfter(remap, e.locals)] \in BlockRecs
             /\ [e EXCEPT !.locals = UsesAfter(remap, e.locals)].locals = UsesAfter(remap, e.locals)
  <2>1. e.locals \in Seq(Vars)
    BY DEF BlockRecs
  <2>2. UsesAfter(remap, e.locals) \in Seq(Vars)
    BY <2>1, UsesReplaced
  <2> QED
    BY <2>1, <2>2 DEF BlockRecs
<1>2. DOMAIN bs = 1 .. Len(bs) /\ Len(bs) \in Nat /\ \A b \in DOMAIN bs : bs[b] \in BlockRecs
  OBVIOUS
<1>3. DOMAIN cs = DOMAIN bs /\ \A b \in DOMAIN bs :
        cs[b] = [bs[b] EXCEPT !.locals = UsesAfter(remap, bs[b].locals)]
  OBVIOUS
<1> HIDE DEF BlockRecs
<1>4. \A b \in DOMAIN bs : cs[b] \in BlockRecs /\ bs[b].locals \in Seq(Vars)
                           /\ cs[b].locals = UsesAfter(remap, bs[b].locals)
  BY <1>1, <1>2, <1>3
<1>5. cs \in Seq(BlockRecs)
  <2>1. cs \in [1 .. Len(bs) -> BlockRecs]
    BY <1>2, <1>4
  <2> QED
    BY <1>2, <2>1, FunctionIsSeq
<1> QED
  BY <1>3, <1>4, <1>5

LEMMA FuncReplaced ==
  ASSUME NEW R, NEW remap, Replaces(R, remap), NEW f \in FuncRecs
  PROVE  LET g == FuncAfter(remap, f) IN
         /\ g \in FuncRecs /\ g.at = f.at /\ g.ref = RefAfter(remap, f.ref) /\ f.ref \in Refs
         /\ f.params \in Seq(Vars) /\ g.params = UsesAfter(remap, f.params)
         /\ DOMAIN g.blocks = DOMAIN f.blocks
         /\ \A b \in DOMAIN f.blocks : /\ f.blocks[b].locals \in Seq(Vars)
                                       /\ g.blocks[b].locals = UsesAfter(remap, f.blocks[b].locals)
<1> DEFINE rr == RefAfter(remap, f.ref)
           vs == UsesAfter(remap, f.params)
           bs == [b \in DOMAIN f.blocks |-> [f.blocks[b] EXCEPT !.locals = UsesAfter(remap, @)]]
           f1 == [f EXCEPT !.ref = rr]
           f2 == [f1 EXCEPT !.params = vs]
           g == FuncAfter(remap, f)
<1>1. f.ref \in Refs /\ f.params \in Seq(Vars) /\ f.blocks \in Seq(BlockRecs)
  <2>1. f.ref \in Refs /\ f.params \in Seq(Vars)
    BY DEF FuncRecs
  <2> QED
    BY <2>1, FuncParts
<1>2. rr \in Refs /\ vs \in Seq(Vars)
  BY <1>1, UsesReplaced DEF Replaces
<1>3. /\ bs \in Seq(BlockRecs) /\ DOMAIN bs = DOMAIN f.blocks
      /\ \A b \in DOMAIN f.blocks : /\ f.blocks[b].locals \in Seq(Vars)
                                    /\ bs[b].locals = UsesAfter(remap, f.blocks[b].locals)
  BY <1>1, BlocksReplaced
<1>4. g = [f2 EXCEPT !.blocks = bs]
  <2>1. g = [f EXCEPT !.ref = rr, !.params = vs, !.blocks = bs]
    BY DEF FuncAfter
  <2> HIDE DEF rr, vs, bs
  <2> QED
    BY <2>1
<1> HIDE DEF rr, vs, bs, g
<1>5. FuncRecs = [at : Nat, addr : Nat, key : Names, name : Seq(Nat), ref : Refs, void : BOOLEAN,
             path : Nat, lineStart : 0 .. Uint32 - 1, lineEnd : 0 .. Uint32 - 1,
             params : Seq(Vars), blocks : Seq(BlockRecs)]
  BY DEF FuncRecs
<1>6. f1 \in FuncRecs /\ f1.at = f.at /\ f1.ref = rr
  BY <1>2, <1>5
<1> HIDE DEF f1
<1>7. f2 \in FuncRecs /\ f2.at = f1.at /\ f2.ref = f1.ref /\ f2.params = vs
  BY <1>2, <1>5, <1>6
<1> HIDE DEF f2
<1>8. g \in FuncRecs /\ g.at = f2.at /\ g.ref = f2.ref /\ g.params = f2.params /\ g.blocks = bs
  BY <1>3, <1>4, <1>5, <1>7
<1> QED
  BY <1>1, <1>3, <1>6, <1>7, <1>8 DEF g, rr, vs

LEMMA OverlayReplaced ==
  ASSUME NEW R, NEW remap, Replaces(R, remap), NEW o \in OverlayRecs
  PROVE  LET q == OverlayAfter(remap, o) IN
         /\ q \in OverlayRecs /\ o.vars \in Seq(Vars) /\ o.funcs \in Seq(FuncRecs)
         /\ q.vars = UsesAfter(remap, o.vars)
         /\ q.funcs = [x \in DOMAIN o.funcs |-> FuncAfter(remap, o.funcs[x])]
<1> DEFINE vs == UsesAfter(remap, o.vars)
           fs == [x \in DOMAIN o.funcs |-> FuncAfter(remap, o.funcs[x])]
           o1 == [o EXCEPT !.vars = vs]
           q == OverlayAfter(remap, o)
<1>1. o.vars \in Seq(Vars) /\ o.funcs \in Seq(FuncRecs)
  BY DEF OverlayRecs
<1>2. vs \in Seq(Vars)
  BY <1>1, UsesReplaced
<1>3. fs \in Seq(FuncRecs)
  <2>1. DOMAIN o.funcs = 1 .. Len(o.funcs) /\ Len(o.funcs) \in Nat
        /\ \A x \in DOMAIN o.funcs : o.funcs[x] \in FuncRecs
    BY <1>1
  <2>2. \A x \in DOMAIN o.funcs : FuncAfter(remap, o.funcs[x]) \in FuncRecs
    BY <2>1, FuncReplaced
  <2> QED
    BY <2>1, <2>2
<1>4. q = [o1 EXCEPT !.funcs = fs]
  <2>1. q = [o EXCEPT !.vars = vs, !.funcs = fs]
    BY DEF OverlayAfter
  <2> HIDE DEF vs, fs
  <2> QED
    BY <2>1
<1> HIDE DEF vs, fs, q
<1>5. OverlayRecs = [id : Nat, symbols : Seq(SymbolRecs), lines : Seq(Lines), vars : Seq(Vars),
                     funcs : Seq(FuncRecs)]
  BY DEF OverlayRecs, SymbolRecs
<1>6. o1 \in OverlayRecs /\ o1.vars = vs
  BY <1>2, <1>5
<1> HIDE DEF o1
<1>7. q \in OverlayRecs /\ q.vars = o1.vars /\ q.funcs = fs
  BY <1>3, <1>4, <1>5, <1>6
<1> QED
  BY <1>1, <1>6, <1>7 DEF q, vs, fs

Lives(v) ==
  /\ v.ref.to = "tagged"
  /\ \/ \E t \in DOMAIN types \ dropped : v \in MembersOf(t)
     \/ \E o \in DOMAIN overlays : v \in VarsOf(overlays[o])

LEMMA LiveIs == \A v : v \in LiveUses <=> Lives(v)
<1>1. ASSUME NEW v PROVE v \in LiveUses <=> Lives(v)
  <2> DEFINE A == UNION {MembersOf(t) : t \in DOMAIN types \ dropped}
             B == UNION {VarsOf(overlays[o]) : o \in DOMAIN overlays}
  <2>1. v \in A <=> \E t \in DOMAIN types \ dropped : v \in MembersOf(t)
    OBVIOUS
  <2>2. v \in B <=> \E o \in DOMAIN overlays : v \in VarsOf(overlays[o])
    OBVIOUS
  <2>3. LiveUses = {w \in A \cup B : w.ref.to = "tagged"}
    BY DEF LiveUses
  <2> HIDE DEF A, B
  <2> QED
    BY <2>1, <2>2, <2>3 DEF Lives
<1> QED
  BY <1>1

(* What a live use was before.                                             *)
LEMMA RemovedUses ==
  ASSUME NEW R, NEW remap, Replaces(R, remap),
         types' = HeapAfter(remap), dropped \subseteq dropped',
         overlays' = [o \in DOMAIN overlays |-> OverlayAfter(remap, overlays[o])],
         overlays \in Seq(OverlayRecs),
         \A t \in DOMAIN types : types[t] \in Types /\ EnumFields(types[t]),
         NEW u \in LiveUses'
  PROVE  \E v \in LiveUses : v.at = u.at /\ u.ref = RefAfter(remap, v.ref) /\ v.ref \in Refs
<1> DEFINE Was(v) == v.at = u.at /\ u.ref = RefAfter(remap, v.ref) /\ v.ref \in Refs
<1>1. u.ref.to = "tagged"
  BY DEF LiveUses
<1>2. \A v : Was(v) => v.ref.to = "tagged"
  BY <1>1 DEF Replaces
<1>3. ASSUME NEW h \in Seq(Members) \cup Seq(Vars), NEW x \in DOMAIN UsesAfter(remap, h),
             u = UsesAfter(remap, h)[x]
      PROVE  x \in DOMAIN h /\ Was(h[x])
  BY <1>3, UsesReplaced
<1>4. CASE \E t \in DOMAIN types' \ dropped' : u \in MembersOf(t)'
  <2>1. PICK t \in DOMAIN types' \ dropped' : u \in MembersOf(t)'
    BY <1>4
  <2>2. t \in DOMAIN types \ dropped /\ types[t] \in Types /\ EnumFields(types[t])
    BY <2>1, HeapAfterIs
  <2>3. CASE types[t].kind = "enum"
    <3>1. types'[t] = types[t]
      BY <2>2, <2>3, HeapAfterIs DEF Listed
    <3>2. types[t].methods = <<>> /\ \A x \in DOMAIN types[t].fields : types[t].fields[x].ref.to = "basic"
      BY <2>2, <2>3 DEF EnumFields
    <3>3. MembersOf(t)' = MembersOf(t)
      BY <3>1 DEF MembersOf
    <3>4. \A v \in MembersOf(t) : v.ref.to = "basic"
      BY <3>2 DEF MembersOf
    <3> QED
      BY <1>1, <2>1, <3>3, <3>4
  <2>4. CASE types[t].kind # "enum"
    <3> DEFINE o == types[t]
               q == TypeAfter(remap, o)
    <3>1. t \in Listed("struct") \cup Listed("union")
      BY <2>2, <2>4 DEF Listed, Types, Kinds
    <3>2. types'[t] = q
      BY <2>2, <3>1, HeapAfterIs
    <3>3. q.fields = UsesAfter(remap, o.fields) /\ q.methods = UsesAfter(remap, o.methods)
      <4>1. o \in Types
        BY <2>2
      <4> HIDE DEF o
      <4> QED
        BY <4>1, TypeReplaced
    <3>4. o.fields \in Seq(Members) /\ o.methods \in Seq(Members)
      BY <2>2 DEF Types
    <3>5. \/ \E x \in DOMAIN UsesAfter(remap, o.fields) : u = UsesAfter(remap, o.fields)[x]
          \/ \E x \in DOMAIN UsesAfter(remap, o.methods) : u = UsesAfter(remap, o.methods)[x]
      BY <2>1, <3>2, <3>3 DEF MembersOf
    <3>6. \/ \E x \in DOMAIN o.fields : Was(o.fields[x])
          \/ \E x \in DOMAIN o.methods : Was(o.methods[x])
      <4> HIDE DEF Was, o
      <4> QED
        BY <1>3, <3>4, <3>5
    <3>7. \E v \in MembersOf(t) : Was(v)
      BY <3>6 DEF MembersOf
    <3>8. PICK v \in MembersOf(t) : Was(v)
      BY <3>7
    <3>9. v \in LiveUses
      BY <1>2, <2>2, <3>8 DEF LiveUses
    <3> QED
      BY <3>8, <3>9
  <2> QED
    BY <2>3, <2>4
<1>5. CASE \E e \in DOMAIN overlays' : u \in VarsOf(overlays'[e])
  <2>1. PICK e \in DOMAIN overlays' : u \in VarsOf(overlays'[e])
    BY <1>5
  <2> DEFINE o == overlays[e]
             q == OverlayAfter(remap, o)
  <2>2. e \in DOMAIN overlays /\ overlays'[e] = q
    BY <2>1
  <2>3. o \in OverlayRecs
    BY <2>2
  <2>4. /\ o.vars \in Seq(Vars) /\ o.funcs \in Seq(FuncRecs) /\ q.vars = UsesAfter(remap, o.vars)
        /\ q.funcs = [x \in DOMAIN o.funcs |-> FuncAfter(remap, o.funcs[x])]
    BY <2>3, OverlayReplaced
  <2>5. ASSUME NEW x \in DOMAIN o.funcs
        PROVE  LET f == o.funcs[x]
                   g == q.funcs[x]
               IN /\ g.at = f.at /\ g.ref = RefAfter(remap, f.ref) /\ f.ref \in Refs
                  /\ f.params \in Seq(Vars) /\ g.params = UsesAfter(remap, f.params)
                  /\ DOMAIN g.blocks = DOMAIN f.blocks
                  /\ \A b \in DOMAIN f.blocks : /\ f.blocks[b].locals \in Seq(Vars)
                                                /\ g.blocks[b].locals = UsesAfter(remap, f.blocks[b].locals)
    <3>1. o.funcs[x] \in FuncRecs /\ q.funcs[x] = FuncAfter(remap, o.funcs[x])
      BY <2>4
    <3> HIDE DEF o, q
    <3> QED
      BY <3>1, FuncReplaced
  <2>6. DOMAIN q.funcs = DOMAIN o.funcs
    BY <2>4
  <2> HIDE DEF o, q
  <2>7. \/ \E x \in DOMAIN q.vars : u = q.vars[x]
        \/ \E x \in DOMAIN q.funcs : u = q.funcs[x]
        \/ \E x \in DOMAIN q.funcs :
             \/ \E p \in DOMAIN q.funcs[x].params : u = q.funcs[x].params[p]
             \/ \E b \in DOMAIN q.funcs[x].blocks : \E l \in DOMAIN q.funcs[x].blocks[b].locals :
                  u = q.funcs[x].blocks[b].locals[l]
    BY <2>1, <2>2 DEF VarsOf, Declarations
  <2>8. \/ \E x \in DOMAIN o.vars : Was(o.vars[x])
        \/ \E x \in DOMAIN o.funcs : Was(o.funcs[x])
        \/ \E x \in DOMAIN o.funcs :
             \/ \E p \in DOMAIN o.funcs[x].params : Was(o.funcs[x].params[p])
             \/ \E b \in DOMAIN o.funcs[x].blocks : \E l \in DOMAIN o.funcs[x].blocks[b].locals :
                  Was(o.funcs[x].blocks[b].locals[l])
    <3>1. ASSUME NEW x \in DOMAIN q.vars, u = q.vars[x] PROVE x \in DOMAIN o.vars /\ Was(o.vars[x])
      BY <1>3, <2>4, <3>1
    <3>2. ASSUME NEW x \in DOMAIN q.funcs, u = q.funcs[x] PROVE x \in DOMAIN o.funcs /\ Was(o.funcs[x])
      BY <2>5, <2>6, <3>2
    <3>3. ASSUME NEW x \in DOMAIN q.funcs, NEW p \in DOMAIN q.funcs[x].params, u = q.funcs[x].params[p]
          PROVE  x \in DOMAIN o.funcs /\ p \in DOMAIN o.funcs[x].params /\ Was(o.funcs[x].params[p])
      <4>1. x \in DOMAIN o.funcs
        BY <2>6
      <4>2. o.funcs[x].params \in Seq(Vars) /\ q.funcs[x].params = UsesAfter(remap, o.funcs[x].params)
        BY <2>5, <4>1
      <4> HIDE DEF Was
      <4> QED
        BY <1>3, <3>3, <4>1, <4>2
    <3>4. ASSUME NEW x \in DOMAIN q.funcs, NEW b \in DOMAIN q.funcs[x].blocks,
                 NEW l \in DOMAIN q.funcs[x].blocks[b].locals, u = q.funcs[x].blocks[b].locals[l]
          PROVE  /\ x \in DOMAIN o.funcs /\ b \in DOMAIN o.funcs[x].blocks
                 /\ l \in DOMAIN o.funcs[x].blocks[b].locals /\ Was(o.funcs[x].blocks[b].locals[l])
      <4>1. x \in DOMAIN o.funcs
        BY <2>6
      <4>2. b \in DOMAIN o.funcs[x].blocks
        BY <2>5, <4>1
      <4>3. /\ o.funcs[x].blocks[b].locals \in Seq(Vars)
            /\ q.funcs[x].blocks[b].locals = UsesAfter(remap, o.funcs[x].blocks[b].locals)
        BY <2>5, <4>1, <4>2
      <4> HIDE DEF Was
      <4> QED
        BY <1>3, <3>4, <4>1, <4>2, <4>3
    <3> HIDE DEF Was
    <3> QED
      BY <2>7, <3>1, <3>2, <3>3, <3>4, Zenon
  <2>9. \E v \in VarsOf(o) : Was(v)
    <3> HIDE DEF Was
    <3> QED
      BY <2>8 DEF VarsOf, Declarations
  <2>10. PICK v \in VarsOf(o) : Was(v)
    BY <2>9
  <2>11. v \in LiveUses
    <3>1. v \in VarsOf(overlays[e]) /\ v.ref.to = "tagged" /\ e \in DOMAIN overlays
      BY <1>2, <2>2, <2>10 DEF o
    <3> QED
      BY <3>1, LiveIs DEF Lives
  <2> QED
    BY <2>10, <2>11
<1>6. \/ \E t \in DOMAIN types' \ dropped' : u \in MembersOf(t)'
      \/ \E e \in DOMAIN overlays' : u \in VarsOf(overlays'[e])
  <2>1. (\A v : v \in LiveUses <=> Lives(v))'
    BY LiveIs, PTL
  <2>2. Lives(u)'
    BY <2>1
  <2>3. \A o : VarsOf(o)' = VarsOf(o')
    BY DEF VarsOf, Declarations
  <2> QED
    BY <2>2, <2>3 DEF Lives
<1> QED
  BY <1>4, <1>5, <1>6

(* The rounds read nothing but the heap, the symbols and the typedefs.     *)
LEMMA AlikeKept ==
  ASSUME UNCHANGED <<syms, typedefs>>
  PROVE  \A heap : Alike(heap)' = Alike(heap)
<1>1. \A heap : Nodes(heap)' = Nodes(heap)
  BY DEF Nodes
<1>2. \A heap, r : Succ(heap, r)' = Succ(heap, r)
  BY DEF Succ
<1>3. \A heap, R, r, q : SuccRelated(heap, R, r, q)' = SuccRelated(heap, R, r, q)
  BY <1>2 DEF SuccRelated
<1>4. \A heap, R : StillRelated(heap, R)' = StillRelated(heap, R)
  BY <1>3 DEF StillRelated
<1>5. ASSUME NEW heap, NEW pairs
      PROVE  LargestClosed(heap, pairs)' = LargestClosed(heap, pairs)
  <2> DEFINE F(c) == [x \in 0 .. Cardinality(Nodes(heap)) |->
                        IF x = 0 THEN pairs ELSE StillRelated(heap, c[x - 1])]
             G(c) == [x \in 0 .. Cardinality(Nodes(heap)') |->
                        IF x = 0 THEN pairs ELSE StillRelated(heap, c[x - 1])']
  <2>1. \A c : (c = F(c)) <=> (c = G(c))
    BY <1>1, <1>4
  <2>2. (CHOOSE c : c = F(c)) = (CHOOSE c : c = G(c))
    <3> HIDE DEF F, G
    <3> QED
      BY <2>1, Zenon
  <2>3. LargestClosed(heap, pairs) = (CHOOSE c : c = F(c))[Cardinality(Nodes(heap))]
    BY Zenon DEF LargestClosed
  <2>4. LargestClosed(heap, pairs)' = (CHOOSE c : c = G(c))[Cardinality(Nodes(heap)')]
    BY Zenon DEF LargestClosed
  <2> HIDE DEF F, G
  <2> QED
    BY <1>1, <2>2, <2>3, <2>4
<1>6. \A heap : SameReading(heap)' = SameReading(heap)
  <2>1. \A heap, t, u : SameTagged(heap, t, u)' = SameTagged(heap, t, u)
    BY DEF SameTagged, SameMembers, SameSymbol
  <2>2. \A x, y : SameTypedef(x, y)' = SameTypedef(x, y)
    BY DEF SameTypedef
  <2>3. Bools' = Bools
    BY DEF Bools
  <2> QED
    BY <1>1, <2>1, <2>2, <2>3 DEF SameReading
<1> QED
  BY <1>5, <1>6 DEF Alike

-----------------------------------------------------------------------------
(* The invariant of RemoveDuplicateTypes, about the heap that the passes   *)
(* left and what is alike in it: the heap is that one but for references   *)
(* to what is alike, so is what the uses lead to, the kinds that a call is *)
(* done with have no two alike, and no use leads to what was dropped.      *)

Origin == IF stage = "structs" THEN types ELSE parsed
DoneKinds ==
  IF stage = "structs" THEN {} ELSE IF stage = "unions" THEN {"struct"} ELSE {"struct", "union"}

Meaning ==
  \A u \in LiveUses : Related(Alike(Origin), u.ref, RefIn(Origin, syms[u.at]))
Distinct ==
  \A t, u \in DOMAIN types \ dropped :
    types[t].kind \in DoneKinds /\ <<Node(t), Node(u)>> \in Alike(Origin) => t = u
UsesKept == \A u \in LiveUses : u.ref.id \notin dropped

PlainOrigin == PlainHeap(Origin) /\ EnumsApart(Origin) /\ PlainTypedefs

DupInv == PlainOrigin /\ LikeBy(Alike(Origin), types, Origin) /\ Meaning /\ Distinct /\ UsesKept

(* All of it but the last parts is about what no step of FixStep changes.  *)
LEMMA OriginKept ==
  ASSUME Origin' = Origin, UNCHANGED <<syms, typedefs, boolDef>>
  PROVE  /\ Alike(Origin)' = Alike(Origin)
         /\ PlainOrigin => PlainOrigin'
         /\ \A s : RefIn(Origin, s)' = RefIn(Origin, s)
<1>1. Alike(Origin)' = Alike(Origin)
  <2>1. \A heap : Alike(heap)' = Alike(heap)
    BY AlikeKept
  <2> QED
    BY <2>1
<1>2. PlainOrigin => PlainOrigin'
  <2>1. \A heap : PlainHeap(heap)' = PlainHeap(heap)
    BY DEF PlainHeap, PlainObject, EnumFields, GoodRef, Bools, MembersIn
  <2>2. PlainTypedefs => PlainTypedefs'
    BY DEF PlainTypedefs, GoodRef, Bools
  <2>3. EnumsApart(Origin) => EnumsApart(Origin)'
    BY DEF EnumsApart
  <2> QED
    BY <2>1, <2>2, <2>3 DEF PlainOrigin
<1>3. \A s : RefIn(Origin, s)' = RefIn(Origin, s)
  BY DEF RefIn, Tagged
<1> QED
  BY <1>1, <1>2, <1>3

LEMMA EnumFieldsLike ==
  ASSUME PlainOrigin, LikeBy(Alike(Origin), types, Origin), NEW t \in DOMAIN types
  PROVE  types[t] \in Types /\ EnumFields(types[t])
<1> DEFINE R == Alike(Origin)
           o == types[t]
           q == Origin[t]
<1>1. R \subseteq Nodes(Origin) \X Nodes(Origin)
  BY AlikeProperty DEF PlainOrigin, SameReading
<1>2. o \in Types /\ ObjectLike(R, o, q) /\ EnumFields(q)
  BY DEF LikeBy, PlainOrigin, PlainHeap, PlainObject
<1>3. \A x, y : Related(R, x, y) /\ y.to = "basic" => x.to = "basic"
  <2>1. \A x \in Nodes(Origin) : x.to # "basic"
    BY NodesAre
  <2> HIDE DEF R
  <2> QED
    BY <1>1, <2>1 DEF Related
<1> HIDE DEF R, o, q
<1>4. ASSUME o.kind = "enum"
      PROVE  o.methods = <<>> /\ \A x \in DOMAIN o.fields : o.fields[x].ref.to = "basic"
  <2>1. q.methods = <<>> /\ \A x \in DOMAIN q.fields : q.fields[x].ref.to = "basic"
    BY <1>2, <1>4 DEF EnumFields, ObjectLike
  <2>2. DOMAIN o.methods = {} /\ o.methods \in Seq(Members)
    BY <1>2, <2>1 DEF ObjectLike, MembersLike, Types
  <2>3. o.methods = <<>>
    <3>1. ASSUME NEW v \in Seq(Members), DOMAIN v = {} PROVE v = <<>>
      <4>1. Len(v) \in Nat /\ 1 .. Len(v) = {}
        BY <3>1
      <4>2. Len(v) = 0
        <5>1. Len(v) > 0 => 1 \in 1 .. Len(v)
          BY <4>1
        <5> QED
          BY <4>1, <5>1
      <4> QED
        BY <4>2
    <3> QED
      BY <2>2, <3>1
  <2>4. \A x \in DOMAIN o.fields : o.fields[x].ref.to = "basic"
    BY <1>2, <1>3, <2>1 DEF ObjectLike, MembersLike
  <2> QED
    BY <2>3, <2>4
<1> QED
  BY <1>2, <1>4 DEF EnumFields, o

(* A call of RemoveDuplicateTypes.                                         *)
LEMMA RemovalKeepsDup ==
  ASSUME Heap, DupInv, overlays \in Seq(OverlayRecs), RemoveDuplicates, stage' # "overflow",
         UNCHANGED <<syms, typedefs, boolDef>>
  PROVE  DupInv' /\ overlays' \in Seq(OverlayRecs) /\ DOMAIN overlays' = DOMAIN overlays
<1> DEFINE R == Alike(Origin)
           kind == RemovedKind
           remap == ReplacedBy(kind, DeepEqual(types))
<1>1. /\ stage \in Removals /\ types' = HeapAfter(remap)
      /\ overlays' = [o \in DOMAIN overlays |-> OverlayAfter(remap, overlays[o])]
      /\ dropped' = dropped \cup {t \in DOMAIN remap : remap[t] # t}
      /\ stage' = AfterRemoval
      /\ parsed' = IF stage = "structs" THEN types ELSE parsed
  BY DEF RemoveDuplicates
<1>2. DOMAIN types \subseteq Nat
  BY DEF Heap, HeapShape
<1>3. /\ PlainHeap(Origin) /\ EnumsApart(Origin) /\ PlainTypedefs /\ LikeBy(R, types, Origin)
      /\ Equivalence(R) /\ R \subseteq SameReading(Origin)
  BY AlikeProperty DEF DupInv, PlainOrigin
<1>4. /\ Remaps(R, kind, remap)
      /\ \A t, u \in Listed(kind) : t < u /\ <<Node(t), Node(u)>> \in R => remap[u] # u
  BY <1>2, <1>3, KeptOne
<1> HIDE DEF remap
<1>s. /\ stage \in {"structs", "unions", "structs again"} /\ stage' = AfterRemoval
      /\ parsed' = IF stage = "structs" THEN types ELSE parsed
  BY <1>1, Zenon DEF Removals
<1>t. /\ stage = "structs" => stage' = "unions"
      /\ stage = "unions" => stage' = "structs again"
      /\ stage = "structs again" => stage' = "struct"
  BY <1>s, Zenon DEF AfterRemoval
<1>5. Origin' = Origin
  BY <1>s, <1>t DEF Origin
<1>6. /\ Alike(Origin)' = R /\ PlainOrigin'
      /\ \A s : RefIn(Origin, s)' = RefIn(Origin, s)
  <2>1. PlainOrigin
    BY DEF DupInv
  <2> QED
    BY <1>5, <2>1, OriginKept
<1>7. DoneKinds' \subseteq DoneKinds \cup {kind}
  BY <1>s, <1>t DEF DoneKinds, RemovedKind
<1> HIDE DEF R, kind
<1>8. /\ Replaces(R, remap)
      /\ \A r \in Refs : r.to = "tagged" =>
           RefAfter(remap, r) = Node(IF r.id \in Listed(kind) THEN remap[r.id] ELSE r.id)
  BY <1>2, <1>4, RefReplaced
<1>9. LikeBy(R, types', Origin)
  BY <1>1, <1>3, <1>8, HeapReplaced
<1>10. LikeBy(Alike(Origin), types, Origin)'
  BY <1>5, <1>6, <1>9 DEF LikeBy, ObjectLike, MembersLike, Related
<1>11. DOMAIN remap = Listed(kind) /\ \A t \in Listed(kind) : remap[t] \in Listed(kind)
       /\ remap[remap[t]] = remap[t]
  BY <1>4 DEF Remaps
<1>12. \A t : t \in dropped' <=> t \in dropped \/ (t \in Listed(kind) /\ remap[t] # t)
  BY <1>1, <1>11
<1>13. ASSUME NEW u \in LiveUses'
       PROVE  /\ Related(R, u.ref, RefIn(Origin, syms[u.at])) /\ u.ref.id \notin dropped'
  <2>1. \A t \in DOMAIN types : types[t] \in Types /\ EnumFields(types[t])
    BY EnumFieldsLike DEF DupInv
  <2>2. dropped \subseteq dropped'
    BY <1>12
  <2>3. PICK v \in LiveUses : v.at = u.at /\ u.ref = RefAfter(remap, v.ref) /\ v.ref \in Refs
    BY <1>1, <1>8, <2>1, <2>2, RemovedUses
  <2>4. Related(R, v.ref, RefIn(Origin, syms[v.at])) /\ v.ref.id \notin dropped
    BY DEF DupInv, Meaning, UsesKept, R
  <2>5. Related(R, u.ref, v.ref)
    BY <1>8, <2>3 DEF Replaces
  <2>6. Related(R, u.ref, RefIn(Origin, syms[u.at]))
    BY <1>3, <2>3, <2>4, <2>5 DEF Equivalence
  <2>7. v.ref.to = "tagged"
    BY DEF LiveUses
  <2>8. u.ref.id = IF v.ref.id \in Listed(kind) THEN remap[v.ref.id] ELSE v.ref.id
    BY <1>8, <2>3, <2>7 DEF Node
  <2>9. u.ref.id \notin dropped'
    <3>1. Listed(kind) \cap dropped = {}
      BY DEF Listed
    <3> QED
      BY <1>11, <1>12, <2>4, <2>8, <3>1
  <2> QED
    BY <2>6, <2>9
<1>14. Meaning' /\ UsesKept'
  BY <1>6, <1>13 DEF Meaning, UsesKept, Related
<1>15. ASSUME NEW t \in DOMAIN types' \ dropped', NEW u \in DOMAIN types' \ dropped',
              types'[t].kind \in DoneKinds', <<Node(t), Node(u)>> \in R
       PROVE  t = u
  <2>1. DOMAIN types' = DOMAIN types /\ \A x \in DOMAIN types : types'[x].kind = types[x].kind
    BY <1>3, <1>9 DEF LikeBy, ObjectLike
  <2>2. t \in DOMAIN types \ dropped /\ u \in DOMAIN types \ dropped
    BY <1>12, <2>1
  <2>3. types[t].kind = types[u].kind
    <3>1. SameTagged(Origin, t, u) /\ t \in DOMAIN Origin /\ u \in DOMAIN Origin
      BY <1>3, <1>15, <2>2 DEF SameReading, Node, LikeBy
    <3> QED
      BY <1>3, <3>1 DEF SameTagged, LikeBy, ObjectLike
  <2>4. CASE types[t].kind = kind
    <3>1. t \in Listed(kind) /\ u \in Listed(kind) /\ remap[t] = t /\ remap[u] = u
      BY <1>12, <2>2, <2>3, <2>4 DEF Listed
    <3>2. <<Node(u), Node(t)>> \in R \/ Node(u) = Node(t)
      BY <1>3, <1>15 DEF Equivalence, Related
    <3>3. ~ t < u /\ (Node(u) = Node(t) \/ ~ u < t)
      BY <1>4, <1>15, <3>1, <3>2
    <3>4. t \in Nat /\ u \in Nat
      BY <1>2, <2>2
    <3> QED
      BY <3>3, <3>4 DEF Node
  <2>5. CASE types[t].kind # kind
    <3>1. types[t].kind \in DoneKinds
      BY <1>7, <1>15, <2>1, <2>2, <2>5
    <3> QED
      BY <1>15, <2>2, <3>1 DEF DupInv, Distinct, R
  <2> QED
    BY <2>4, <2>5
<1>16. Distinct'
  BY <1>6, <1>15 DEF Distinct, Node
<1>17. overlays' \in Seq(OverlayRecs) /\ DOMAIN overlays' = DOMAIN overlays
  <2>1. ASSUME NEW o \in DOMAIN overlays PROVE OverlayAfter(remap, overlays[o]) \in OverlayRecs
    <3>1. overlays[o] \in OverlayRecs
      OBVIOUS
    <3> QED
      BY <1>8, <3>1, OverlayReplaced
  <2>2. DOMAIN overlays = 1 .. Len(overlays) /\ Len(overlays) \in Nat
    OBVIOUS
  <2> QED
    BY <1>1, <2>1, <2>2
<1> QED
  BY <1>6, <1>10, <1>14, <1>16, <1>17 DEF DupInv

(* The renaming changes no type and nothing that a use leads to.           *)
LEMMA DupKept ==
  ASSUME DupInv, UNCHANGED <<types, dropped, parsed, syms, typedefs, boolDef>>,
         Origin' = Origin, DoneKinds' = DoneKinds,
         \A u \in LiveUses' : \E v \in LiveUses : v.at = u.at /\ v.ref = u.ref
  PROVE  DupInv'
<1>1. Origin' = Origin /\ DoneKinds' = DoneKinds
  OBVIOUS
<1>2. Alike(Origin)' = Alike(Origin) /\ \A s : RefIn(Origin, s)' = RefIn(Origin, s)
  BY <1>1, OriginKept
<1>3. PlainOrigin'
  BY <1>1, OriginKept DEF DupInv
<1>4. LikeBy(Alike(Origin), types, Origin)'
  BY <1>1, <1>2 DEF DupInv, LikeBy, ObjectLike, MembersLike, Related
<1>5. Meaning'
  BY <1>2 DEF DupInv, Meaning, Related
<1>6. Distinct'
  BY <1>1, <1>2 DEF DupInv, Distinct, Node
<1>7. UsesKept'
  BY DEF DupInv, UsesKept
<1> QED
  BY <1>3, <1>4, <1>5, <1>6, <1>7 DEF DupInv

LEMMA LiveKept ==
  ASSUME UNCHANGED <<types, overlays, dropped>>
  PROVE  LiveUses' = LiveUses
BY DEF LiveUses, MembersOf, VarsOf, Declarations

LEMMA NamedUses ==
  ASSUME MakeDeclNamesUnique, overlays \in Seq(OverlayRecs), NEW u \in LiveUses'
  PROVE  \E v \in LiveUses : v.at = u.at /\ v.ref = u.ref
<1> DEFINE Was(v) == v.at = u.at /\ v.ref = u.ref
<1>1. /\ UNCHANGED <<types, dropped>> /\ DOMAIN overlays' = DOMAIN overlays
      /\ \A e \in DOMAIN overlays :
           overlays'[e] = [overlays[e] EXCEPT !.vars = VarsUnique(@), !.funcs = FuncsUnique(@)]
  BY DEF MakeDeclNamesUnique
<1>2. (\A v : v \in LiveUses <=> Lives(v))'
  BY LiveIs, PTL
<1>3. u.ref.to = "tagged"
      /\ \/ \E t \in DOMAIN types \ dropped : u \in MembersOf(t)'
         \/ \E e \in DOMAIN overlays : u \in VarsOf(overlays'[e])
  <2>1. Lives(u)'
    BY <1>2
  <2>2. \A o : VarsOf(o)' = VarsOf(o')
    BY DEF VarsOf, Declarations
  <2> QED
    BY <1>1, <2>1, <2>2 DEF Lives
<1>4. CASE \E t \in DOMAIN types \ dropped : u \in MembersOf(t)'
  <2>1. \A t : MembersOf(t)' = MembersOf(t)
    BY <1>1 DEF MembersOf
  <2> QED
    BY <1>3, <1>4, <2>1, LiveIs DEF Lives
<1>5. CASE \E e \in DOMAIN overlays : u \in VarsOf(overlays'[e])
  <2>1. PICK e \in DOMAIN overlays : u \in VarsOf(overlays'[e])
    BY <1>5
  <2> DEFINE o == overlays[e]
             q == overlays'[e]
             vs == VarsUnique(o.vars)
             fs == FuncsUnique(o.funcs)
             p == [o EXCEPT !.vars = vs]
  <2>2. o \in OverlayRecs /\ o.vars \in Seq(Vars) /\ o.funcs \in Seq(FuncRecs)
    <3>1. o \in OverlayRecs
      OBVIOUS
    <3> HIDE DEF o
    <3> QED
      BY <3>1 DEF OverlayRecs
  <2>3. q = [p EXCEPT !.funcs = fs]
    <3>1. q = [o EXCEPT !.vars = vs, !.funcs = fs]
      BY <1>1
    <3> HIDE DEF o, q, vs, fs
    <3> QED
      BY <3>1
  <2>4. /\ DOMAIN vs = DOMAIN o.vars
        /\ \A x \in DOMAIN o.vars : vs[x].at = o.vars[x].at /\ vs[x].ref = o.vars[x].ref
    <3>1. DOMAIN vs = DOMAIN o.vars
      BY DEF VarsUnique
    <3>2. ASSUME NEW x \in DOMAIN o.vars PROVE vs[x].at = o.vars[x].at /\ vs[x].ref = o.vars[x].ref
      <4>1. o.vars[x] \in Vars
        BY <2>2
      <4>2. vs[x] = o.vars[x] \/ \E y : vs[x] = [o.vars[x] EXCEPT !.name = y]
        BY DEF VarsUnique
      <4> QED
        BY <4>1, <4>2 DEF Vars
    <3> QED
      BY <3>1, <3>2
  <2>5. /\ DOMAIN fs = DOMAIN o.funcs
        /\ \A x \in DOMAIN o.funcs : /\ fs[x].at = o.funcs[x].at /\ fs[x].ref = o.funcs[x].ref
                                     /\ fs[x].params = o.funcs[x].params
                                     /\ fs[x].blocks = o.funcs[x].blocks
    <3>1. DOMAIN fs = DOMAIN o.funcs
      BY DEF FuncsUnique
    <3>2. ASSUME NEW x \in DOMAIN o.funcs
          PROVE  /\ fs[x].at = o.funcs[x].at /\ fs[x].ref = o.funcs[x].ref
                 /\ fs[x].params = o.funcs[x].params /\ fs[x].blocks = o.funcs[x].blocks
      <4>1. o.funcs[x] \in FuncRecs
        BY <2>2
      <4>2. fs[x] = o.funcs[x] \/ \E y : fs[x] = [o.funcs[x] EXCEPT !.name = y]
        BY DEF FuncsUnique
      <4> QED
        BY <4>1, <4>2 DEF FuncRecs
    <3> QED
      BY <3>1, <3>2
  <2> HIDE DEF vs, fs
  <2>6. q.vars = vs /\ q.funcs = fs
    <3>1. {"vars", "funcs"} \subseteq DOMAIN o
      BY <2>2 DEF OverlayRecs
    <3> HIDE DEF o, q
    <3> QED
      BY <2>3, <3>1
  <2> HIDE DEF o, q, p
  <2>7. \E v \in VarsOf(o) : Was(v)
    <3>1. u \in VarsOf(q)
      BY <2>1 DEF q
    <3> QED
      BY <2>4, <2>5, <2>6, <3>1 DEF VarsOf, Declarations
  <2> QED
    BY <1>3, <2>7, LiveIs DEF Lives, o
<1> QED
  BY <1>3, <1>4, <1>5

-----------------------------------------------------------------------------
(* The heap that the passes leave is a plain one.                          *)

PlainObjects ==
  \A t \in DOMAIN types : EnumFields(types[t]) /\ \A u \in MembersIn(types[t]) : GoodRef(u.ref)

LEMMA RefIsGood ==
  ASSUME PlainTypedefs, NEW s
  PROVE  GoodRef(TypeRef(s))
<1>1. \/ \E t : TypeRef(s) = [to |-> "tagged", id |-> t]
      \/ TypeRef(s) = [to |-> "typedef", id |-> boolDef]
      \/ TypeRef(s) = [to |-> "basic", id |-> 0]
  <2>1. CASE s.base \in TaggedBases
    <3>1. s.base # "Null"
      BY <2>1 DEF TaggedBases
    <3> QED
      BY <2>1, <3>1, Zenon DEF TypeRef
  <2>2. CASE s.base = "Null"
    <3>1. s.base \notin TaggedBases
      BY <2>2 DEF TaggedBases
    <3> QED
      BY <2>2, <3>1, Zenon DEF TypeRef
  <2>3. CASE s.base \notin TaggedBases /\ s.base # "Null"
    BY <2>3, Zenon DEF TypeRef
  <2> QED
    BY <2>1, <2>2, <2>3
<1>2. CASE \E t : TypeRef(s) = [to |-> "tagged", id |-> t]
  BY <1>2 DEF GoodRef
<1>3. CASE TypeRef(s) = [to |-> "typedef", id |-> boolDef]
  BY <1>3 DEF GoodRef, PlainTypedefs
<1>4. CASE TypeRef(s) = [to |-> "basic", id |-> 0]
  BY <1>4 DEF GoodRef
<1> QED
  BY <1>1, <1>2, <1>3, <1>4

(* The objects after a step: some as they were, some empty, perhaps one    *)
(* with one more member.                                                   *)
LEMMA PlainGrows ==
  ASSUME PlainObjects, Bools \subseteq Bools', NEW mem, GoodRef(mem.ref),
         \A t \in DOMAIN types' :
           \/ t \in DOMAIN types /\ types'[t] = types[t]
           \/ types'[t].fields = <<>> /\ types'[t].methods = <<>>
           \/ /\ t \in DOMAIN types /\ EnumFields(types'[t])
              /\ MembersIn(types'[t]) \subseteq MembersIn(types[t]) \cup {mem}
  PROVE  PlainObjects'
<1>1. \A r : GoodRef(r) => GoodRef(r)'
  BY DEF GoodRef
<1>2. \A o : EnumFields(o)' = EnumFields(o) /\ MembersIn(o)' = MembersIn(o)
  BY DEF EnumFields, MembersIn
<1>3. ASSUME NEW t \in DOMAIN types'
      PROVE  EnumFields(types'[t]) /\ \A u \in MembersIn(types'[t]) : GoodRef(u.ref)
  <2>1. CASE t \in DOMAIN types /\ types'[t] = types[t]
    BY <2>1 DEF PlainObjects
  <2>2. CASE types'[t].fields = <<>> /\ types'[t].methods = <<>>
    BY <2>2 DEF EnumFields, MembersIn
  <2>3. CASE /\ t \in DOMAIN types /\ EnumFields(types'[t])
             /\ MembersIn(types'[t]) \subseteq MembersIn(types[t]) \cup {mem}
    BY <2>3 DEF PlainObjects
  <2> QED
    BY <2>1, <2>2, <2>3
<1> QED
  BY <1>1, <1>3 DEF PlainObjects, EnumFields, MembersIn

LEMMA PlainTypesStep ==
  ASSUME Typed, Nothing, PlainObjects, PlainTypedefs, Next
  PROVE  PlainObjects' /\ PlainTypedefs'
<1>1. CASE InitTaggedTypes
  <2>1. \A t \in DOMAIN types' : types'[t].fields = <<>> /\ types'[t].methods = <<>>
    BY <1>1 DEF InitTaggedTypes, EmptyType
  <2>2. UNCHANGED <<typedefs, boolDef>>
    BY <1>1 DEF InitTaggedTypes
  <2> QED
    BY <2>1, <2>2 DEF PlainObjects, PlainTypedefs, EnumFields, MembersIn, GoodRef, Bools
<1>2. CASE ParseTypedef
  <2>1. types' = TypesAfter(syms[i]) /\ typedefs' = Append(typedefs, NewTypedef)
    BY <1>2, ParseTypedefDoes
  <2>2. boolDef' = IF NewTypedef.name = BoolName THEN Len(typedefs) + 1 ELSE boolDef
    BY <1>2 DEF ParseTypedef, NewTypedef
  <2>3. NewTypedef.ref = TypeRef(syms[i])
    BY DEF NewTypedef
  <2> HIDE DEF NewTypedef
  <2>4. /\ Len(typedefs) \in Nat /\ DOMAIN typedefs = 1 .. Len(typedefs)
        /\ DOMAIN typedefs' = 1 .. Len(typedefs) + 1
        /\ typedefs'[Len(typedefs) + 1] = NewTypedef
        /\ \A x \in DOMAIN typedefs : typedefs'[x] = typedefs[x]
    BY <2>1 DEF PlainTypedefs
  <2>5. Bools \subseteq Bools'
    BY <2>4 DEF Bools
  <2>6. boolDef' \in Bools'
    BY <2>2, <2>4, <2>5 DEF Bools, PlainTypedefs
  <2>7. GoodRef(TypeRef(syms[i]))
    BY RefIsGood
  <2>8. \A r : GoodRef(r) => GoodRef(r)'
    BY <2>5 DEF GoodRef
  <2>9. \A x \in DOMAIN typedefs' : GoodRef(typedefs'[x].ref)
    BY <2>3, <2>4, <2>7 DEF PlainTypedefs
  <2>10. \A t \in DOMAIN types' : \/ t \in DOMAIN types /\ types'[t] = types[t]
                                  \/ types'[t].fields = <<>> /\ types'[t].methods = <<>>
    BY <2>1, NewObjectsEmpty
  <2>11. PlainObjects'
    BY <2>5, <2>7, <2>10, <2>3, PlainGrows
  <2>12. Typed'
    BY TypedStep
  <2> QED
    BY <2>6, <2>8, <2>9, <2>11, <2>12 DEF PlainTypedefs, Typed, TypeOK
<1>3. CASE AddField \/ AddMethod
  <2>1. /\ UNCHANGED <<typedefs, boolDef>>
        /\ cur \in DOMAIN types /\ types[cur].kind # "enum"
        /\ DOMAIN types' = DOMAIN TypesAfter(Here)
        /\ \A t \in DOMAIN types' : t # cur => types'[t] = TypesAfter(Here)[t]
        /\ \/ types'[cur] = [types[cur] EXCEPT !.fields = Append(@, NewMember)]
           \/ types'[cur] = [types[cur] EXCEPT !.methods = Append(@, NewMember)]
    BY <1>3, AddMemberDoes
  <2>2. NewMember.ref = TypeRef(Here)
    BY DEF NewMember, Member
  <2> HIDE DEF NewMember
  <2>3. types'[cur].kind = types[cur].kind
        /\ MembersIn(types'[cur]) \subseteq MembersIn(types[cur]) \cup {NewMember}
    <3>1. CASE types'[cur] = [types[cur] EXCEPT !.fields = Append(@, NewMember)]
      BY <2>1, <3>1, MembersAfter
    <3>2. CASE types'[cur] = [types[cur] EXCEPT !.methods = Append(@, NewMember)]
      BY <2>1, <3>2, MembersAfter
    <3> QED
      BY <2>1, <3>1, <3>2
  <2>4. \A t \in DOMAIN TypesAfter(Here) :
          \/ t \in DOMAIN types /\ TypesAfter(Here)[t] = types[t]
          \/ TypesAfter(Here)[t].fields = <<>> /\ TypesAfter(Here)[t].methods = <<>>
    BY NewObjectsEmpty
  <2>5. EnumFields(types'[cur])
    BY <2>1, <2>3 DEF EnumFields
  <2>6. GoodRef(NewMember.ref)
    BY <2>2, RefIsGood
  <2>7. Bools' = Bools
    BY <2>1 DEF Bools
  <2>8. \A t \in DOMAIN types' :
           \/ t \in DOMAIN types /\ types'[t] = types[t]
           \/ types'[t].fields = <<>> /\ types'[t].methods = <<>>
           \/ /\ t \in DOMAIN types /\ EnumFields(types'[t])
              /\ MembersIn(types'[t]) \subseteq MembersIn(types[t]) \cup {NewMember}
    BY <2>1, <2>3, <2>4, <2>5
  <2>9. PlainObjects'
    BY <2>6, <2>7, <2>8, PlainGrows
  <2> QED
    BY <2>1, <2>7, <2>9 DEF PlainTypedefs, GoodRef
<1>4. CASE AddEnumMember
  <2>1. /\ UNCHANGED <<typedefs, boolDef>> /\ cur \in DOMAIN types /\ types[cur].kind = "enum"
        /\ DOMAIN types' = DOMAIN types
        /\ \A t \in DOMAIN types' : t # cur => types'[t] = types[t]
        /\ types'[cur] = [types[cur] EXCEPT !.fields = Append(@, NewEnumMember)]
    BY <1>4, AddEnumMemberDoes
  <2>2. NewEnumMember.ref.to = "basic"
    BY DEF NewEnumMember, Member
  <2> HIDE DEF NewEnumMember
  <2>3. MembersIn(types'[cur]) \subseteq MembersIn(types[cur]) \cup {NewEnumMember}
    BY <2>1, MembersAfter
  <2>4. types[cur] \in Types /\ types[cur].fields \in Seq(Members)
    BY <2>1 DEF Typed, TypeOK, Types
  <2>5. types'[cur].fields = Append(types[cur].fields, NewEnumMember)
        /\ types'[cur].methods = types[cur].methods
    BY <2>1, <2>4 DEF Types
  <2>6. types[cur].methods = <<>> /\ \A x \in DOMAIN types[cur].fields : types[cur].fields[x].ref.to = "basic"
    BY <2>1 DEF PlainObjects, EnumFields
  <2>7. \A x \in DOMAIN types'[cur].fields : types'[cur].fields[x].ref.to = "basic"
    BY <2>2, <2>4, <2>5, <2>6
  <2>8. EnumFields(types'[cur])
    BY <2>5, <2>6, <2>7 DEF EnumFields
  <2>9. GoodRef(NewEnumMember.ref)
    BY <2>2 DEF GoodRef
  <2>10. Bools' = Bools
    BY <2>1 DEF Bools
  <2>11. \A t \in DOMAIN types' :
           \/ t \in DOMAIN types /\ types'[t] = types[t]
           \/ types'[t].fields = <<>> /\ types'[t].methods = <<>>
           \/ /\ t \in DOMAIN types /\ EnumFields(types'[t])
              /\ MembersIn(types'[t]) \subseteq MembersIn(types[t]) \cup {NewEnumMember}
    BY <2>1, <2>3, <2>8
  <2>12. PlainObjects'
    BY <2>9, <2>10, <2>11, PlainGrows
  <2> QED
    BY <2>1, <2>10, <2>12 DEF PlainTypedefs, GoodRef
<1>5. CASE UNCHANGED <<syms, made>>
  BY <1>5 DEF made, PlainObjects, PlainTypedefs, EnumFields, MembersIn, GoodRef, Bools
<1> QED
  BY <1>1, <1>2, <1>3, <1>4, <1>5, StepKinds

ParsedInv == HeapInv /\ NamesTaken /\ UniqueEnumMembers /\ PlainObjects /\ PlainTypedefs

LEMMA ParsedInvInit == BothInit => ParsedInv
<1> SUFFICES ASSUME BothInit PROVE ParsedInv
  OBVIOUS
<1>1. /\ overlays = <<EmptyOverlay(0)>> /\ typedefs = <<>> /\ pc = "init" /\ boolDef = 0
      /\ DOMAIN types = {}
  BY DEF BothInit, Init, DeclInit
<1>2. HeapInv
  <2>1. DOMAIN overlays = {1} /\ overlays[1].vars = <<>> /\ overlays[1].funcs = <<>>
    BY <1>1 DEF EmptyOverlay
  <2>2. FitOverlays(types)
    BY <2>1 DEF FitOverlays
  <2>3. UsesBound
    BY <1>1 DEF UsesBound, Uses
  <2> QED
    BY <1>1, <2>2, <2>3, StandingInit DEF HeapInv, Standing, Nothing, HeapOrigin
<1>3. NamesTaken /\ UniqueEnumMembers /\ PlainObjects
  BY <1>1 DEF NamesTaken, UniqueEnumMembers, EnumMembers, PlainObjects
<1>4. PlainTypedefs
  BY <1>1 DEF PlainTypedefs, Bools
<1> QED
  BY <1>2, <1>3, <1>4 DEF ParsedInv

LEMMA ParsedInvStep == ParsedInv /\ [BothNext]_allVars => ParsedInv'
<1> SUFFICES ASSUME ParsedInv, [BothNext]_allVars PROVE ParsedInv'
  OBVIOUS
<1>1. HeapInv'
  BY HeapInvStep DEF ParsedInv
<1>2. CASE ParseDeclsStep
  <2>1. /\ typedefs' = typedefs
        /\ \A t \in DOMAIN types' : \/ t \in DOMAIN types /\ types'[t] = types[t]
                                    \/ types'[t].fields = <<>> /\ types'[t].methods = <<>>
    BY <1>2, DeclsGrow DEF ParsedInv, HeapInv
  <2>2. boolDef' = boolDef /\ enumMembers' = enumMembers
    BY <1>2 DEF ParseDeclsStep, UnchangedPass1
  <2>3. NamesTaken' /\ UniqueEnumMembers'
    <3>1. \A t \in EnumMembers' : \A x \in DOMAIN types'[t].fields :
            t \in EnumMembers /\ types'[t] = types[t]
      BY <2>1 DEF EnumMembers
    <3> QED
      BY <2>2, <3>1 DEF ParsedInv, NamesTaken, UniqueEnumMembers
  <2>4. Bools' = Bools
    BY <2>1 DEF Bools
  <2>5. PlainObjects'
    <3> DEFINE none == [ref |-> [to |-> "basic"]]
    <3>1. GoodRef(none.ref)
      BY DEF GoodRef
    <3> HIDE DEF none
    <3> QED
      BY <2>1, <2>4, <3>1, PlainGrows DEF ParsedInv
  <2>6. PlainTypedefs'
    BY <2>1, <2>2, <2>4 DEF ParsedInv, PlainTypedefs, GoodRef
  <2> QED
    BY <1>1, <2>3, <2>5, <2>6 DEF ParsedInv
<1>3. CASE Next
  BY <1>1, <1>3, PlainTypesStep, EnumNamesStep DEF ParsedInv, HeapInv, DeclTyped, Begun
<1>4. CASE UNCHANGED <<types, typedefs, boolDef, enumMembers>>
  BY <1>1, <1>4 DEF ParsedInv, NamesTaken, UniqueEnumMembers, EnumMembers, PlainObjects,
     PlainTypedefs, EnumFields, MembersIn, GoodRef, Bools
<1> QED
  BY <1>2, <1>3, <1>4 DEF BothNext, allVars, vars, made

(* What the passes leave is where RemoveDuplicateTypes can begin.          *)
LEMMA ParsedIsDup ==
  ASSUME ParsedInv, stage = "structs", dropped = {}
  PROVE  DupInv
<1>1. Origin = types /\ DoneKinds = {}
  BY DEF Origin, DoneKinds
<1>2. Typed
  BY DEF ParsedInv, HeapInv, DeclTyped, Begun
<1>3. PlainHeap(types)
  <2>1. IsFiniteSet(DOMAIN types)
    BY <1>2, TypedHeap DEF Heap, HeapShape
  <2> QED
    BY <1>2, <2>1 DEF PlainHeap, PlainObject, ParsedInv, PlainObjects, Typed, TypeOK
<1>4. EnumsApart(types)
  BY DEF ParsedInv, UniqueEnumMembers, EnumMembers, EnumsApart
<1>5. LikeBy(Alike(types), types, types)
  BY <1>2 DEF LikeBy, ObjectLike, MembersLike, Related, Typed, TypeOK
<1>6. ASSUME NEW u \in LiveUses PROVE u.ref = RefIn(types, syms[u.at])
  <2>1. u.ref.to = "tagged"
        /\ \/ \E t \in DOMAIN types : u \in MembersOf(t)
           \/ \E o \in DOMAIN overlays : u \in VarsOf(overlays[o])
    BY LiveIs DEF Lives
  <2>2. Fits(types, u)
    <3>1. CASE \E t \in DOMAIN types : u \in MembersOf(t)
      <4>1. u \in Uses
        BY <2>1, <3>1 DEF Uses
      <4> QED
        BY <2>1, <4>1, UsesFit DEF ParsedInv, HeapInv, UsesBound
    <3>2. CASE \E o \in DOMAIN overlays : u \in VarsOf(overlays[o])
      <4>1. PICK o \in DOMAIN overlays : u \in VarsOf(overlays[o])
        BY <3>2
      <4>2. \/ \E x \in DOMAIN overlays[o].vars : u = overlays[o].vars[x]
            \/ \E x \in DOMAIN overlays[o].funcs : u = overlays[o].funcs[x]
            \/ \E x \in DOMAIN overlays[o].funcs :
                 \/ \E p \in DOMAIN overlays[o].funcs[x].params : u = overlays[o].funcs[x].params[p]
                 \/ \E b \in DOMAIN overlays[o].funcs[x].blocks :
                      \E l \in DOMAIN overlays[o].funcs[x].blocks[b].locals :
                        u = overlays[o].funcs[x].blocks[b].locals[l]
        BY <4>1 DEF VarsOf, Declarations
      <4>3. /\ \A x \in DOMAIN overlays[o].vars : Fits(types, overlays[o].vars[x])
            /\ \A x \in DOMAIN overlays[o].funcs : FitFunc(types, overlays[o].funcs[x])
        BY DEF ParsedInv, HeapInv, FitOverlays
      <4> QED
        BY <4>2, <4>3, Zenon DEF FitFunc
    <3> QED
      BY <2>1, <3>1, <3>2
  <2> QED
    BY <2>1, <2>2 DEF Fits, FindType, RefIn
<1>7. Meaning
  BY <1>1, <1>6 DEF Meaning, Related
<1>8. Distinct /\ UsesKept
  BY <1>1 DEF Distinct, UsesKept
<1> QED
  BY <1>1, <1>3, <1>4, <1>5, <1>7, <1>8 DEF DupInv, PlainOrigin, ParsedInv

(* The invariant of the fixups.                                            *)
DroppedOK == dropped \subseteq DOMAIN types /\ \A t \in dropped : types[t].kind # "enum"

RemovalInv ==
  /\ FixInv /\ DroppedOK
  /\ stage = "structs" => ParsedInv /\ dropped = {}
  /\ stage \notin {"structs", "overflow"} => DupInv
  /\ stage # "fixed" => DeclTypeOK

LEMMA RemovalInvInit == BothInit /\ FixInit => RemovalInv
<1> SUFFICES ASSUME BothInit, FixInit PROVE RemovalInv
  OBVIOUS
<1>1. FixInv /\ ParsedInv
  BY FixInvInit, ParsedInvInit
<1>2. stage = "structs" /\ dropped = {}
  BY DEF FixInit
<1>3. DeclTypeOK
  BY <1>1 DEF ParsedInv, HeapInv, DeclTyped
<1> QED
  BY <1>1, <1>2, <1>3 DEF RemovalInv, DroppedOK

LEMMA RemovalStep ==
  ASSUME RemovalInv, RemoveDuplicates, mode = "end",
         UNCHANGED <<syms, typedefs, boolDef, overlayIDs, curOverlay, d, inner, mode>>
  PROVE  /\ DroppedOK' /\ DeclTypeOK'
         /\ stage' \notin {"structs", "overflow"} => DupInv'
         /\ stage' # "structs"
<1> DEFINE remap == ReplacedBy(RemovedKind, DeepEqual(types))
<1>1. stage \in {"structs", "unions", "structs again"}
  BY DEF RemoveDuplicates, Removals
<1>2. DupInv
  BY <1>1, ParsedIsDup DEF RemovalInv
<1>3. DeclTypeOK /\ Heap
  BY <1>1 DEF RemovalInv, FixInv
<1>4. overlays \in Seq(OverlayRecs)
  BY <1>3 DEF DeclTypeOK
<1>5. \/ stage' = "overflow" /\ UNCHANGED <<types, overlays, dropped>>
      \/ /\ types' = HeapAfter(remap) /\ stage' = AfterRemoval
         /\ dropped' = dropped \cup {t \in DOMAIN remap : remap[t] # t}
  BY DEF RemoveDuplicates
<1>6. DOMAIN remap = Listed(RemovedKind) /\ RemovedKind # "enum"
  BY DEF ReplacedBy, RemovedKind
<1> HIDE DEF remap
<1>7. AfterRemoval \notin {"structs", "overflow"}
  BY <1>1, Zenon DEF AfterRemoval
<1>8. stage' # "structs"
  BY <1>5, <1>7
<1>9. CASE stage' = "overflow"
  <2>1. UNCHANGED <<types, overlays, dropped>>
    BY <1>5, <1>7, <1>9
  <2>2. DeclTypeOK'
    BY <1>3, <2>1 DEF DeclTypeOK, CurFunc, Funcs, Cur, Stack, inner
  <2> QED
    BY <1>8, <1>9, <2>1, <2>2 DEF RemovalInv, DroppedOK
<1>10. CASE stage' # "overflow"
  <2>1. DupInv' /\ overlays' \in Seq(OverlayRecs) /\ DOMAIN overlays' = DOMAIN overlays
    BY <1>2, <1>3, <1>4, <1>10, RemovalKeepsDup
  <2>2. Len(overlays') = Len(overlays)
    BY <1>4, <2>1
  <2>3. DeclTypeOK'
    <3>1. UNCHANGED <<m, curLine, fn, curBlock, blocks>>
      BY DEF inner
    <3> QED
      BY <1>3, <2>1, <2>2, <3>1 DEF DeclTypeOK
  <2>4. DroppedOK'
    <3>1. types' = HeapAfter(remap) /\ dropped' = dropped \cup {t \in DOMAIN remap : remap[t] # t}
      BY <1>5, <1>10
    <3>2. DOMAIN types' = DOMAIN types /\ \A t \in DOMAIN types : types'[t].kind = types[t].kind
      BY <1>3, <3>1 DEF HeapAfter, Heap, HeapShape
    <3>3. \A t \in Listed(RemovedKind) : t \in DOMAIN types /\ types[t].kind # "enum"
      BY <1>6 DEF Listed
    <3> QED
      BY <1>6, <3>1, <3>2, <3>3 DEF RemovalInv, DroppedOK
  <2> QED
    BY <1>8, <2>1, <2>3, <2>4
<1> QED
  BY <1>9, <1>10

LEMMA RemovalInvStep == RemovalInv /\ [FixNext]_everyVar => RemovalInv'
<1> SUFFICES ASSUME RemovalInv, [FixNext]_everyVar PROVE RemovalInv'
  OBVIOUS
<1>1. FixInv'
  BY FixInvStep DEF RemovalInv
<1>2. Parsing /\ stage \in Stages
  BY DEF RemovalInv, FixInv
<1>3. CASE BothNext /\ UNCHANGED fixVars
  <2>1. stage = "structs" /\ UNCHANGED <<stage, dropped>>
    BY <1>2, <1>3, PassesOver DEF Parsing, fixVars
  <2>2. ParsedInv'
    BY <1>3, <2>1, ParsedInvStep DEF RemovalInv
  <2>3. DeclTypeOK'
    BY <2>2 DEF ParsedInv, HeapInv, DeclTyped
  <2> QED
    BY <1>1, <2>1, <2>2, <2>3 DEF RemovalInv, DroppedOK
<1>4. CASE UNCHANGED everyVar
  <2>1. UNCHANGED allVars /\ UNCHANGED fixVars
    BY <1>4 DEF everyVar
  <2>2. UNCHANGED <<dropped, stage, parsed>>
    BY <2>1 DEF fixVars
  <2>3. UNCHANGED <<syms, types, typedefs, boolDef, overlays, overlayIDs, curOverlay, d, m, curLine,
                    fn, curBlock, blocks, mode>>
    BY <2>1 DEF allVars, vars, made, declVars, recorded, inner
  <2>4. stage = "structs" => ParsedInv'
    BY <2>1, ParsedInvStep DEF RemovalInv
  <2>5. DupInv => DupInv'
    <3>1. LiveUses' = LiveUses
      BY <2>2, <2>3, LiveKept
    <3>2. Origin' = Origin /\ DoneKinds' = DoneKinds
      BY <2>2, <2>3 DEF Origin, DoneKinds
    <3> QED
      BY <2>2, <2>3, <3>1, <3>2, DupKept
  <2>6. DeclTypeOK => DeclTypeOK'
    BY <2>3 DEF DeclTypeOK, CurFunc, Funcs, Cur, Stack
  <2>7. DroppedOK'
    BY <2>2, <2>3 DEF RemovalInv, DroppedOK
  <2> QED
    BY <1>1, <2>2, <2>4, <2>5, <2>6, <2>7 DEF RemovalInv
<1>5. CASE FixStep
  <2>1. /\ mode = "end" /\ UNCHANGED <<fresh, overlayIDs, curOverlay, d, inner, mode>>
        /\ UNCHANGED <<syms, typedefs, boolDef>>
    BY <1>5 DEF FixStep, UnchangedPass1
  <2>2. CASE RemoveDuplicates
    BY <1>1, <2>1, <2>2, RemovalStep DEF RemovalInv
  <2>3. CASE TagsStep
    <3>1. /\ stage \in Kinds /\ UNCHANGED <<types, overlays, dropped, parsed>>
          /\ stage' = stage \/ stage' = AfterTags[stage]
      BY <2>3 DEF TagsStep, BeginRename, RetryTag, AcceptTag, EndTags
    <3>2. stage' \in Kinds \cup {"names"}
      BY <3>1 DEF Kinds, AfterTags
    <3>3. LiveUses' = LiveUses
      BY <3>1, LiveKept
    <3>4. Origin' = Origin /\ DoneKinds' = DoneKinds
      BY <3>1, <3>2 DEF Origin, DoneKinds, Kinds
    <3>5. DupInv'
      BY <2>1, <3>1, <3>3, <3>4, DupKept DEF RemovalInv, Kinds
    <3>6. DeclTypeOK'
      BY <2>1, <3>1 DEF RemovalInv, Kinds, DeclTypeOK, CurFunc, Funcs, Cur, Stack, inner
    <3> QED
      BY <1>1, <3>1, <3>2, <3>5, <3>6 DEF RemovalInv, DroppedOK, Kinds
  <2>4. CASE MakeDeclNamesUnique
    <3>1. stage = "names" /\ stage' = "fixed" /\ UNCHANGED <<types, dropped, parsed>>
      BY <2>4 DEF MakeDeclNamesUnique
    <3>2. DeclTypeOK /\ DupInv
      BY <3>1 DEF RemovalInv
    <3>3. \A u \in LiveUses' : \E v \in LiveUses : v.at = u.at /\ v.ref = u.ref
      BY <2>4, <3>2, NamedUses DEF DeclTypeOK
    <3>4. Origin' = Origin /\ DoneKinds' = DoneKinds
      BY <3>1 DEF Origin, DoneKinds
    <3>5. DupInv'
      BY <2>1, <3>1, <3>2, <3>3, <3>4, DupKept
    <3> QED
      BY <1>1, <3>1, <3>5 DEF RemovalInv, DroppedOK
  <2> QED
    BY <1>5, <2>2, <2>3, <2>4 DEF FixStep
<1> QED
  BY <1>3, <1>4, <1>5 DEF FixNext

LEMMA RemovalInvHolds == FixSpec => []RemovalInv
<1> QED
  BY RemovalInvInit, RemovalInvStep, PTL DEF FixSpec

(* The state of the fixups has its shape: what is dropped or renamed is a  *)
(* type that is there, no enum is dropped, none is renamed once it is, and *)
(* the declarations keep theirs until they are renamed.                    *)
THEOREM FixTypeCorrect == FixSpec => []FixTypeOK
<1>1. RemovalInv => FixTypeOK
  <2> SUFFICES ASSUME RemovalInv PROVE FixTypeOK
    OBVIOUS
  <2>1. FixInv /\ DroppedOK
    BY DEF RemovalInv
  <2>2. Parsing /\ Heap /\ RenamedOK /\ RenamingOK /\ stage \in Stages
    BY <2>1 DEF FixInv
  <2>3. \A t : ChainOf(t) \subseteq Seq(Nat)
    BY DEF ChainOf
  <2>4. DOMAIN renamed \subseteq DOMAIN types \ dropped /\ \A t \in DOMAIN renamed : renamed[t] \in Seq(Nat)
    BY <2>2, <2>3 DEF RenamedOK
  <2>5. renaming # NoTag => /\ stage \in Kinds /\ renaming.id \in Listed(stage) \ DOMAIN renamed
                            /\ renaming.tag \in Seq(Nat)
    BY <2>2, <2>3 DEF RenamingOK, Heap, HeapShape, Listed
  <2>6. mode # "end" => stage = "structs"
    BY <2>2 DEF Parsing
  <2> QED
    BY <2>1, <2>2, <2>4, <2>5, <2>6 DEF FixTypeOK, DroppedOK, RemovalInv
<1> QED
  BY <1>1, RemovalInvHolds, PTL

(* No use that is left leads to a type that was dropped, be it a member, a *)
(* variable, a function, a parameter or a local: a call rewrites all of    *)
(* them, and the type that replaces a dropped one is listed itself.        *)
THEOREM NoUseIsLost == FixSpec => []UsesAreListed
<1>1. RemovalInv => UsesAreListed
  BY DEF RemovalInv, DupInv, UsesKept, UsesAreListed, AfterRemovals, Kinds
<1> QED
  BY <1>1, RemovalInvHolds, PTL

(* RemoveDuplicateTypes and MakeNamesUnique change the meaning of no use:  *)
(* what it leads to in the end is the same type, however deep, as what the *)
(* passes bound its symbol to.                                             *)
THEOREM MeaningIsKept == FixSpec => []MeaningKept
<1>1. RemovalInv => MeaningKept
  <2> SUFFICES ASSUME RemovalInv, stage = "fixed" PROVE MeaningKept
    BY DEF MeaningKept
  <2>1. Meaning /\ Origin = parsed
    BY DEF RemovalInv, DupInv, Origin
  <2> QED
    BY <2>1 DEF Meaning, MeaningKept
<1> QED
  BY <1>1, RemovalInvHolds, PTL

(* The two calls for structs and the one for unions leave no duplicates,   *)
(* although they compare types whose members they have replaced and may    *)
(* replace yet: of two listed structs or unions that are the same in the   *)
(* parsed program one would have been dropped.                             *)
THEOREM DuplicatesAreGone == FixSpec => []NoDuplicatesLeft
<1>1. RemovalInv => NoDuplicatesLeft
  <2> SUFFICES ASSUME RemovalInv, stage = "fixed" PROVE NoDuplicatesLeft
    BY DEF NoDuplicatesLeft
  <2>1. Distinct /\ Origin = parsed /\ DoneKinds = {"struct", "union"}
    BY DEF RemovalInv, DupInv, Origin, DoneKinds
  <2>2. \A t \in Listed("struct") \cup Listed("union") :
          t \in DOMAIN types \ dropped /\ types[t].kind \in DoneKinds
    BY <2>1 DEF Listed
  <2> QED
    BY <2>1, <2>2 DEF Distinct, NoDuplicatesLeft, Node
<1> QED
  BY <1>1, RemovalInvHolds, PTL

-----------------------------------------------------------------------------
(* The names of the declarations, until MakeNamesUnique makes some unique. *)

FuncNamed(f) == f.name = f.key \/ f.name = UniqueFuncName(f.key, f.addr)
NamesAsRead ==
  \A o \in DOMAIN overlays :
    /\ \A x \in DOMAIN overlays[o].vars : /\ overlays[o].vars[x].name = Key(overlays[o].vars[x])
                                          /\ overlays[o].vars[x].at \in 1 .. Len(syms)
    /\ \A x \in DOMAIN overlays[o].funcs : FuncNamed(overlays[o].funcs[x])

LEMMA NamedFuncs ==
  ASSUME DeclTyped, \A y \in DOMAIN Funcs : FuncNamed(Funcs[y]),
         NEW fs, FuncsAfter(fs), NEW x \in DOMAIN fs
  PROVE  FuncNamed(fs[x])
<1>1. Funcs \in Seq(FuncRecs) /\ \A y \in DOMAIN Funcs : FuncNamed(Funcs[y])
  BY CurTyped DEF DeclTyped, DeclTypeOK
<1>2. ASSUME NEW f, NEW g, FuncNamed(g), f.key = g.key, f.addr = g.addr, f.name = g.name
      PROVE  FuncNamed(f)
  BY <1>2 DEF FuncNamed
<1>3. ASSUME AddGlobal, Sym.func, fs = Append(Funcs, NewFunc) PROVE FuncNamed(fs[x])
  <2>1. NewFunc \in FuncRecs
    BY <1>3, AddGlobalWrites
  <2>2. FuncNamed(NewFunc)
    BY DEF FuncNamed, NewFunc, Func
  <2>3. x \in DOMAIN Funcs \/ fs[x] = NewFunc
    <3>1. DOMAIN fs = 1 .. Len(Funcs) + 1 /\ fs[Len(Funcs) + 1] = NewFunc
          /\ DOMAIN Funcs = 1 .. Len(Funcs) /\ Len(Funcs) \in Nat
      BY <1>1, <1>3, <2>1, OneMore
    <3> QED
      BY <3>1
  <2>4. x \in DOMAIN Funcs => fs[x] = Funcs[x]
    BY <1>1, <1>3, <2>1, OneMore
  <2> QED
    BY <1>1, <2>2, <2>3, <2>4, Zenon
<1>4. ASSUME BeginFunc, fs = BegunFuncs PROVE FuncNamed(fs[x])
  <2>1. /\ d \in 1 .. Len(syms) /\ Sym.body = "FuncStart"
        /\ DOMAIN BegunFuncs = DOMAIN FuncsAfterFind
        /\ BegunFuncs[FindFunc] = BegunFunc
        /\ \A y \in DOMAIN FuncsAfterFind : y # FindFunc => BegunFuncs[y] = FuncsAfterFind[y]
    BY <1>4, BeginFuncWrites, Zenon
  <2>2. /\ DOMAIN FuncsAfterFind = 1 .. Len(FuncsAfterFind) /\ DOMAIN Funcs = 1 .. Len(Funcs)
        /\ FindFunc \in DOMAIN FuncsAfterFind /\ FuncsAfterFind[FindFunc] \in FuncRecs
        /\ \A y \in DOMAIN Funcs : FuncsAfterFind[y] = Funcs[y]
        /\ \/ FuncsAfterFind = Funcs
           \/ /\ Len(FuncsAfterFind) = Len(Funcs) + 1 /\ FindFunc = Len(Funcs) + 1
              /\ FuncsAfterFind[FindFunc] = EmptyFunc
    <3>1. DOMAIN Funcs = 1 .. Len(Funcs)
      BY <1>1
    <3> QED
      BY <2>1, <3>1, FindFuncProperty, Zenon
  <2>3. FuncNamed(EmptyFunc)
    <3>1. /\ EmptyFunc.key = ValidName[syms[d].name] /\ EmptyFunc.addr = syms[d].value
          /\ \/ EmptyFunc.name = ValidName[syms[d].name]
             \/ EmptyFunc.name = UniqueFuncName(ValidName[syms[d].name], syms[d].value)
      BY DEF EmptyFunc, Func
    <3> QED
      BY <3>1 DEF FuncNamed
  <2>4. \A y \in DOMAIN FuncsAfterFind : FuncNamed(FuncsAfterFind[y])
    <3>1. CASE FuncsAfterFind = Funcs
      BY <1>1, <3>1
    <3>2. CASE /\ Len(FuncsAfterFind) = Len(Funcs) + 1 /\ FindFunc = Len(Funcs) + 1
               /\ FuncsAfterFind[FindFunc] = EmptyFunc
      <4>1. \A y \in DOMAIN FuncsAfterFind : y \in DOMAIN Funcs \/ y = FindFunc
        BY <1>1, <2>2, <3>2
      <4> QED
        BY <1>1, <2>2, <2>3, <3>2, <4>1, Zenon
    <3> QED
      BY <2>2, <3>1, <3>2, Zenon
  <2>5. /\ BegunFunc.key = FuncsAfterFind[FindFunc].key
        /\ BegunFunc.addr = FuncsAfterFind[FindFunc].addr
        /\ BegunFunc.name = FuncsAfterFind[FindFunc].name
    <3> DEFINE g == FuncsAfterFind[FindFunc]
               p == Sym.path
               l == Sym.line
    <3>1. g \in FuncRecs /\ BegunFunc = [[g EXCEPT !.path = p] EXCEPT !.lineStart = l]
      BY <2>2, Zenon DEF BegunFunc
    <3> HIDE DEF g, p, l
    <3>2. BegunFunc.key = g.key /\ BegunFunc.addr = g.addr /\ BegunFunc.name = g.name
      BY <3>1 DEF FuncRecs
    <3> QED
      BY <3>2 DEF g
  <2>6. FuncNamed(BegunFunc)
    BY <1>2, <2>2, <2>4, <2>5, Zenon
  <2>7. CASE x = FindFunc
    BY <1>4, <2>1, <2>6, <2>7, Zenon
  <2>8. CASE x # FindFunc
    BY <1>4, <2>1, <2>4, <2>8
  <2> QED
    BY <2>7, <2>8
<1>5. ASSUME mode = "func", NEW f, Same(f, CurFunc), fs = [Funcs EXCEPT ![fn] = f]
      PROVE  FuncNamed(fs[x])
  <2>1. fn \in DOMAIN Funcs /\ CurFunc = Funcs[fn]
    BY <1>5, FuncChanges
  <2>2. FuncNamed(f)
    BY <1>1, <1>2, <1>5, <2>1 DEF Same
  <2> QED
    BY <1>1, <1>5, <2>2
<1>6. ASSUME EndFunc, fs = [Funcs EXCEPT ![fn] = EndedFunc] PROVE FuncNamed(fs[x])
  BY <1>5, <1>6, EndFuncDoes, FuncChanges, Zenon
<1>7. ASSUME BlockStart, fs = [Funcs EXCEPT ![fn] = BlockFunc] PROVE FuncNamed(fs[x])
  BY <1>5, <1>7, BlockStartDoes, FuncChanges, Zenon
<1>8. ASSUME AddLocal, fs = [Funcs EXCEPT ![fn] = LocalFunc] PROVE FuncNamed(fs[x])
  BY <1>5, <1>8, AddLocalDoes, FuncChanges, Zenon
<1> QED
  BY <1>1, <1>3, <1>4, <1>6, <1>7, <1>8, Zenon DEF FuncsAfter

LEMMA NamesParsed ==
  ASSUME DeclTyped, Place, NamesAsRead, ParseDeclsStep
  PROVE  NamesAsRead'
<1>1. syms' = syms
  BY DeclsGrow
<1>2. ASSUME NEW o \in DOMAIN overlays', NEW x \in DOMAIN overlays'[o].vars
      PROVE  /\ overlays'[o].vars[x].name = ValidName[syms[overlays'[o].vars[x].at].name]
             /\ overlays'[o].vars[x].at \in 1 .. Len(syms)
  <2> DEFINE e == overlays'[o].vars[x]
  <2>1. OldVar(o, e) \/ NewVar(e)
    BY VarsAfterStep
  <2> HIDE DEF e
  <2>2. ASSUME OldVar(o, e) PROVE e.name = ValidName[syms[e.at].name] /\ e.at \in 1 .. Len(syms)
    BY <2>2 DEF OldVar, NamesAsRead, Key
  <2>3. ASSUME NewVar(e) PROVE e.name = ValidName[syms[e.at].name] /\ e.at \in 1 .. Len(syms)
    BY <2>3, AddGlobalWrites DEF NewVar, Var
  <2> QED
    BY <2>1, <2>2, <2>3 DEF e
<1>3. ASSUME NEW o \in DOMAIN overlays', NEW x \in DOMAIN overlays'[o].funcs
      PROVE  FuncNamed(overlays'[o].funcs[x])
  <2>1. \A p \in DOMAIN overlays : \A y \in DOMAIN overlays[p].funcs : FuncNamed(overlays[p].funcs[y])
    BY DEF NamesAsRead
  <2>2. \A y \in DOMAIN Funcs : FuncNamed(Funcs[y])
    BY <2>1 DEF DeclTyped, DeclTypeOK, Funcs
  <2>3. \A fs : FuncsAfter(fs) => \A y \in DOMAIN fs : FuncNamed(fs[y])
    BY <2>2, NamedFuncs, Zenon
  <2>4. \/ /\ o \in DOMAIN overlays /\ x \in DOMAIN overlays[o].funcs
           /\ overlays'[o].funcs[x] = overlays[o].funcs[x]
        \/ \E fs : FuncsAfter(fs) /\ x \in DOMAIN fs /\ overlays'[o].funcs[x] = fs[x]
    BY FuncsBySteps
  <2> QED
    BY <2>1, <2>3, <2>4, Zenon
<1> QED
  BY <1>1, <1>2, <1>3 DEF NamesAsRead, Key, FuncNamed

(* What RemoveDuplicateTypes makes of a declaration keeps its name.        *)
LEMMA NamesReplaced ==
  ASSUME NamesAsRead, overlays \in Seq(OverlayRecs), RemoveDuplicates, syms' = syms
  PROVE  NamesAsRead'
<1>1. \/ overlays' = overlays
      \/ \E remap : overlays' = [o \in DOMAIN overlays |-> OverlayAfter(remap, overlays[o])]
  BY DEF RemoveDuplicates
<1>2. CASE overlays' = overlays
  BY <1>2 DEF NamesAsRead, Key, FuncNamed
<1>3. ASSUME NEW remap, overlays' = [o \in DOMAIN overlays |-> OverlayAfter(remap, overlays[o])]
      PROVE  NamesAsRead'
  <2>1. DOMAIN overlays' = DOMAIN overlays
    BY <1>3
  <2>2. ASSUME NEW o \in DOMAIN overlays
        PROVE  /\ overlays[o].vars \in Seq(Vars) /\ overlays[o].funcs \in Seq(FuncRecs)
               /\ overlays'[o].vars = UsesAfter(remap, overlays[o].vars)
               /\ overlays'[o].funcs =
                    [x \in DOMAIN overlays[o].funcs |-> FuncAfter(remap, overlays[o].funcs[x])]
    <3> DEFINE p == overlays[o]
               vs == UsesAfter(remap, p.vars)
               fs == [x \in DOMAIN p.funcs |-> FuncAfter(remap, p.funcs[x])]
    <3>1. p \in OverlayRecs /\ overlays'[o] = OverlayAfter(remap, p)
      BY <1>3
    <3>2. OverlayAfter(remap, p) = [[p EXCEPT !.vars = vs] EXCEPT !.funcs = fs]
      BY DEF OverlayAfter
    <3> HIDE DEF p, vs, fs
    <3>3. /\ p.vars \in Seq(Vars) /\ p.funcs \in Seq(FuncRecs)
          /\ overlays'[o].vars = vs /\ overlays'[o].funcs = fs
      BY <3>1, <3>2 DEF OverlayRecs
    <3> QED
      BY <3>3 DEF p, vs, fs
  <2>3. ASSUME NEW o \in DOMAIN overlays, NEW x \in DOMAIN overlays'[o].vars
        PROVE  /\ x \in DOMAIN overlays[o].vars
               /\ overlays'[o].vars[x].at = overlays[o].vars[x].at
               /\ overlays'[o].vars[x].name = overlays[o].vars[x].name
    <3> DEFINE v == overlays[o].vars[x]
               r == RefAfter(remap, v.ref)
    <3>1. x \in DOMAIN overlays[o].vars /\ v \in Vars
          /\ overlays'[o].vars[x] = [v EXCEPT !.ref = r]
      <4>1. overlays[o].vars \in Seq(Vars) /\ overlays'[o].vars = UsesAfter(remap, overlays[o].vars)
        BY <2>2
      <4> QED
        BY <4>1 DEF UsesAfter
    <3> HIDE DEF v, r
    <3>2. overlays'[o].vars[x].at = v.at /\ overlays'[o].vars[x].name = v.name
      BY <3>1 DEF Vars
    <3> QED
      BY <3>1, <3>2 DEF v
  <2>4. ASSUME NEW o \in DOMAIN overlays, NEW x \in DOMAIN overlays'[o].funcs
        PROVE  /\ x \in DOMAIN overlays[o].funcs
               /\ overlays'[o].funcs[x].key = overlays[o].funcs[x].key
               /\ overlays'[o].funcs[x].addr = overlays[o].funcs[x].addr
               /\ overlays'[o].funcs[x].name = overlays[o].funcs[x].name
    <3> DEFINE f == overlays[o].funcs[x]
               r == RefAfter(remap, f.ref)
               vs == UsesAfter(remap, f.params)
               bs == [b \in DOMAIN f.blocks |-> [f.blocks[b] EXCEPT !.locals = UsesAfter(remap, @)]]
    <3>1. x \in DOMAIN overlays[o].funcs /\ f \in FuncRecs
          /\ overlays'[o].funcs[x] = FuncAfter(remap, f)
      <4>1. /\ overlays[o].funcs \in Seq(FuncRecs)
            /\ overlays'[o].funcs =
                 [y \in DOMAIN overlays[o].funcs |-> FuncAfter(remap, overlays[o].funcs[y])]
        BY <2>2
      <4>2. x \in DOMAIN overlays[o].funcs
        BY <4>1
      <4> QED
        BY <4>1, <4>2
    <3>2. FuncAfter(remap, f) = [[[f EXCEPT !.ref = r] EXCEPT !.params = vs] EXCEPT !.blocks = bs]
      BY DEF FuncAfter
    <3> HIDE DEF f, r, vs, bs
    <3>3. /\ overlays'[o].funcs[x].key = f.key /\ overlays'[o].funcs[x].addr = f.addr
          /\ overlays'[o].funcs[x].name = f.name
      BY <3>1, <3>2 DEF FuncRecs
    <3> QED
      BY <3>1, <3>3 DEF f
  <2>5. ASSUME NEW o \in DOMAIN overlays', NEW x \in DOMAIN overlays'[o].vars
        PROVE  /\ overlays'[o].vars[x].name = ValidName[syms[overlays'[o].vars[x].at].name]
               /\ overlays'[o].vars[x].at \in 1 .. Len(syms)
    BY <2>1, <2>3 DEF NamesAsRead, Key
  <2>6. ASSUME NEW o \in DOMAIN overlays', NEW x \in DOMAIN overlays'[o].funcs
        PROVE  FuncNamed(overlays'[o].funcs[x])
    BY <2>1, <2>4 DEF NamesAsRead, FuncNamed
  <2> QED
    BY <2>5, <2>6 DEF NamesAsRead, Key, FuncNamed
<1> QED
  BY <1>1, <1>2, <1>3

(* A name that UniqueFuncName was asked for up to two times begins with    *)
(* the name it was asked for, and ends with the address if it was at all.  *)
Endings(name, addr) == {name, Append(name, addr), Append(Append(name, addr), addr)}

LEMMA EndingProperty ==
  ASSUME NEW p \in Seq(Nat), NEW a \in Nat, NEW s \in Endings(p, a)
  PROVE  /\ s \in Seq(Nat) /\ Len(s) \in Len(p) .. Len(p) + 2
         /\ \A e \in 1 .. Len(p) : s[e] = p[e]
         /\ s # p => Len(s) > Len(p) /\ s[Len(s)] = a
<1> DEFINE p1 == Append(p, a)
           p2 == Append(p1, a)
<1>1. p1 \in Seq(Nat) /\ Len(p1) = Len(p) + 1 /\ p1[Len(p) + 1] = a
      /\ \A e \in 1 .. Len(p) : p1[e] = p[e]
  OBVIOUS
<1>2. s = p \/ s = p1 \/ s = p2
  BY DEF Endings
<1>3. p2 = Append(p1, a)
  OBVIOUS
<1> HIDE DEF p1, p2
<1>4. p2 \in Seq(Nat) /\ Len(p2) = Len(p1) + 1 /\ p2[Len(p1) + 1] = a
      /\ \A e \in 1 .. Len(p1) : p2[e] = p1[e]
  BY <1>1, <1>3
<1>5. \A e \in 1 .. Len(p) : p2[e] = p[e]
  BY <1>1, <1>4
<1>6. CASE s = p
  BY <1>6
<1>7. CASE s = p1
  BY <1>1, <1>7
<1>8. CASE s = p2
  BY <1>1, <1>4, <1>5, <1>8
<1> QED
  BY <1>2, <1>6, <1>7, <1>8

LEMMA NamesReadApart ==
  ASSUME NEW p \in Seq(Nat), NEW q \in Seq(Nat), NEW a \in Nat, NEW b \in Nat,
         NEW s \in Endings(p, a), s \in Endings(q, b), ~ ReadsAs(p, q), ~ ReadsAs(q, p)
  PROVE  p = q /\ (s # p => a = b)
<1>1. /\ s \in Seq(Nat) /\ Len(s) \in Len(p) .. Len(p) + 2
      /\ \A e \in 1 .. Len(p) : s[e] = p[e]
      /\ s # p => s[Len(s)] = a
  BY EndingProperty
<1>2. /\ Len(s) \in Len(q) .. Len(q) + 2
      /\ \A e \in 1 .. Len(q) : s[e] = q[e]
      /\ s # q => s[Len(s)] = b
  BY EndingProperty
<1>3. ASSUME NEW x \in Seq(Nat), NEW y \in Seq(Nat), Len(y) < Len(x), Len(x) <= Len(y) + 2,
             \A e \in 1 .. Len(y) : x[e] = y[e]
      PROVE  ReadsAs(x, y)
  <2>1. Len(x) \in {Len(y) + 1, Len(y) + 2}
    BY <1>3
  <2>2. SubSeq(x, 1, Len(y)) \in Seq(Nat) /\ Len(SubSeq(x, 1, Len(y))) = Len(y)
        /\ \A e \in 1 .. Len(y) : SubSeq(x, 1, Len(y))[e] = x[e]
    BY <1>3
  <2>3. SubSeq(x, 1, Len(y)) = y
    BY <1>3, <2>2
  <2> QED
    BY <2>1, <2>3 DEF ReadsAs
<1>4. Len(p) = Len(q)
  <2>1. ~ Len(q) < Len(p)
    <3> SUFFICES ASSUME Len(q) < Len(p) PROVE FALSE
      OBVIOUS
    <3>1. \A e \in 1 .. Len(q) : p[e] = q[e]
      BY <1>1, <1>2
    <3> QED
      BY <1>1, <1>2, <1>3, <3>1
  <2>2. ~ Len(p) < Len(q)
    <3> SUFFICES ASSUME Len(p) < Len(q) PROVE FALSE
      OBVIOUS
    <3>1. \A e \in 1 .. Len(p) : q[e] = p[e]
      BY <1>1, <1>2
    <3> QED
      BY <1>1, <1>2, <1>3, <3>1
  <2> QED
    BY <2>1, <2>2
<1>5. p = q
  <2>1. \A e \in 1 .. Len(p) : p[e] = q[e]
    BY <1>1, <1>2, <1>4
  <2>2. p = [e \in 1 .. Len(p) |-> p[e]] /\ q = [e \in 1 .. Len(q) |-> q[e]]
    OBVIOUS
  <2>3. [e \in 1 .. Len(p) |-> p[e]] = [e \in 1 .. Len(q) |-> q[e]]
    BY <1>4, <2>1
  <2> QED
    BY <2>2, <2>3, Zenon
<1> QED
  BY <1>1, <1>2, <1>5

(* MakeNamesUnique renames a variable that is not extern, or a function,   *)
(* iff another one has its name in the stream.                             *)
LEMMA NamesMadeUnique ==
  ASSUME MakeDeclNamesUnique, overlays \in Seq(OverlayRecs), NEW o \in DOMAIN overlays
  PROVE  /\ DOMAIN overlays' = DOMAIN overlays
         /\ overlays[o].vars \in Seq(Vars) /\ overlays[o].funcs \in Seq(FuncRecs)
         /\ overlays'[o].vars = VarsUnique(overlays[o].vars)
         /\ overlays'[o].funcs = FuncsUnique(overlays[o].funcs)
<1> DEFINE p == overlays[o]
           q == overlays'[o]
           vs == VarsUnique(p.vars)
           fs == FuncsUnique(p.funcs)
           r == [p EXCEPT !.vars = vs]
<1>1. /\ DOMAIN overlays' = DOMAIN overlays
      /\ overlays'[o] = [overlays[o] EXCEPT !.vars = VarsUnique(@), !.funcs = FuncsUnique(@)]
  BY DEF MakeDeclNamesUnique
<1>2. p \in OverlayRecs
  OBVIOUS
<1>3. q = [r EXCEPT !.funcs = fs]
  <2>1. q = [p EXCEPT !.vars = vs, !.funcs = fs]
    BY <1>1
  <2> HIDE DEF p, q, vs, fs
  <2> QED
    BY <2>1
<1> HIDE DEF p, q, vs, fs
<1>4. /\ p.vars \in Seq(Vars) /\ p.funcs \in Seq(FuncRecs) /\ q.vars = vs /\ q.funcs = fs
  BY <1>2, <1>3 DEF OverlayRecs
<1> QED
  BY <1>1, <1>4 DEF p, q, vs, fs

LEMMA TwoAreShared ==
  ASSUME NEW A, IsFiniteSet(A), NEW B \in SUBSET A, NEW x \in B, NEW y \in B, x # y
  PROVE  Shared(B)
<1>1. IsFiniteSet(B)
  BY FS_Subset
<1>2. Cardinality({x, y}) = 2
  <2>1. IsFiniteSet({x}) /\ Cardinality({x}) = 1
    BY FS_Singleton
  <2>2. {x, y} = {x} \cup {y} /\ y \notin {x}
    OBVIOUS
  <2>3. Cardinality({x} \cup {y}) = 1 + 1
    BY <2>1, <2>2, FS_AddElement
  <2> QED
    BY <2>2, <2>3
<1>3. Cardinality({x, y}) <= Cardinality(B) /\ Cardinality(B) \in Nat
  BY <1>1, FS_Subset, FS_CardinalityType
<1> QED
  BY <1>2, <1>3 DEF Shared

LEMMA VarsToldApart ==
  ASSUME NEW vs \in Seq(Vars), \A x \in DOMAIN vs : vs[x].name = Key(vs[x]),
         \A x, y \in DOMAIN vs : ~ ReadsAs(Key(vs[x]), Key(vs[y])),
         \A x \in DOMAIN vs : syms[vs[x].at].value \in Nat,
         NEW x \in DOMAIN vs, NEW y \in DOMAIN vs, ~ IsExtern(vs[x]), ~ IsExtern(vs[y]),
         VarsUnique(vs)[x].name = VarsUnique(vs)[y].name
  PROVE  syms[vs[x].at].value = syms[vs[y].at].value
<1> DEFINE Sharing(z) == {w \in DOMAIN vs : Key(vs[w]) = Key(vs[z]) /\ ~ IsExtern(vs[w])}
           value(z) == syms[vs[z].at].value
           name(z) == VarsUnique(vs)[z].name
<1>1. ASSUME NEW z \in DOMAIN vs, ~ IsExtern(vs[z])
      PROVE  /\ vs[z].name \in Seq(Nat) /\ value(z) \in Nat
             /\ name(z) = IF Shared(Sharing(z)) THEN Append(vs[z].name, value(z)) ELSE vs[z].name
  <2>1. vs[z] \in Vars /\ value(z) \in Nat
    OBVIOUS
  <2>2. vs[z].name \in Seq(Nat)
    BY <2>1, NamesAssumption DEF Vars
  <2>3. VarsUnique(vs)[z] = IF Shared(Sharing(z))
                            THEN [vs[z] EXCEPT !.name = UniqueFuncName(@, value(z))] ELSE vs[z]
    BY <1>1 DEF VarsUnique
  <2> HIDE DEF Sharing, value
  <2> QED
    BY <2>1, <2>2, <2>3 DEF Vars, UniqueFuncName
<1>2. ASSUME NEW z \in DOMAIN vs, ~ IsExtern(vs[z])
      PROVE  name(z) \in Endings(vs[z].name, value(z)) /\ (Shared(Sharing(z)) => name(z) # vs[z].name)
  <2>1. Len(Append(vs[z].name, value(z))) # Len(vs[z].name)
    BY <1>1, <1>2
  <2> HIDE DEF Sharing, value, name
  <2> QED
    BY <1>1, <1>2, <2>1 DEF Endings
<1>3. CASE x = y
  BY <1>3
<1>4. CASE x # y
  <2>1. ~ ReadsAs(vs[x].name, vs[y].name) /\ ~ ReadsAs(vs[y].name, vs[x].name)
    OBVIOUS
  <2>2. name(x) = name(y)
    OBVIOUS
  <2> HIDE DEF Sharing, value, name
  <2>3. vs[x].name = vs[y].name /\ (name(x) # vs[x].name => value(x) = value(y))
    BY <1>1, <1>2, <2>1, <2>2, NamesReadApart
  <2>4. Shared(Sharing(x))
    <3>1. x \in Sharing(x) /\ y \in Sharing(x)
      BY <2>3 DEF Sharing
    <3>2. IsFiniteSet(DOMAIN vs) /\ Sharing(x) \subseteq DOMAIN vs
      BY FS_Interval DEF Sharing
    <3> QED
      BY <1>4, <3>1, <3>2, TwoAreShared
  <2>5. value(x) = value(y)
    BY <1>2, <2>3, <2>4
  <2> QED
    BY <2>5 DEF value
<1> QED
  BY <1>3, <1>4

LEMMA FuncsToldApart ==
  ASSUME NEW fs \in Seq(FuncRecs), \A x \in DOMAIN fs : FuncNamed(fs[x]),
         \A x, y \in DOMAIN fs : ~ ReadsAs(fs[x].key, fs[y].key),
         NEW x \in DOMAIN fs, NEW y \in DOMAIN fs,
         FuncsUnique(fs)[x].name = FuncsUnique(fs)[y].name
  PROVE  fs[x].addr = fs[y].addr
<1> DEFINE Sharing(z) == {w \in DOMAIN fs : fs[w].key = fs[z].key}
           key(z) == fs[z].key
           addr(z) == fs[z].addr
           name(z) == FuncsUnique(fs)[z].name
<1>1. ASSUME NEW z \in DOMAIN fs
      PROVE  /\ key(z) \in Seq(Nat) /\ addr(z) \in Nat
             /\ fs[z].name = key(z) \/ fs[z].name = Append(key(z), addr(z))
             /\ name(z) = IF Shared(Sharing(z)) THEN Append(fs[z].name, addr(z)) ELSE fs[z].name
  <2>1. fs[z] \in FuncRecs /\ FuncNamed(fs[z])
    OBVIOUS
  <2>2. key(z) \in Seq(Nat) /\ addr(z) \in Nat
    BY <2>1, NamesAssumption DEF FuncRecs
  <2>3. fs[z].name = key(z) \/ fs[z].name = Append(key(z), addr(z))
    BY <2>1 DEF FuncNamed, UniqueFuncName
  <2>4. FuncsUnique(fs)[z] = IF Shared(Sharing(z))
                             THEN [fs[z] EXCEPT !.name = UniqueFuncName(@, addr(z))] ELSE fs[z]
    BY DEF FuncsUnique
  <2> HIDE DEF Sharing, key, addr
  <2>5. name(z) = IF Shared(Sharing(z)) THEN Append(fs[z].name, addr(z)) ELSE fs[z].name
    BY <2>1, <2>4 DEF FuncRecs, UniqueFuncName
  <2> QED
    BY <2>2, <2>3, <2>5
<1>2. ASSUME NEW z \in DOMAIN fs
      PROVE  name(z) \in Endings(key(z), addr(z)) /\ (Shared(Sharing(z)) => name(z) # key(z))
  <2> DEFINE k1 == Append(key(z), addr(z))
             k2 == Append(k1, addr(z))
  <2>k. key(z) \in Seq(Nat) /\ addr(z) \in Nat
    BY <1>1, Zenon
  <2>1. k1 \in Seq(Nat) /\ Len(k1) = Len(key(z)) + 1
    <3> HIDE DEF key, addr
    <3> QED
      BY <2>k
  <2>2. Len(k2) = Len(k1) + 1 /\ Len(key(z)) \in Nat
    BY <1>1, <2>1
  <2>3. k1 # key(z) /\ k2 # key(z)
    BY <2>1, <2>2
  <2>4. fs[z].name = key(z) \/ fs[z].name = k1
    BY <1>1, Zenon
  <2>n. name(z) = IF Shared(Sharing(z)) THEN Append(fs[z].name, addr(z)) ELSE fs[z].name
    BY <1>1, Zenon
  <2>5. Endings(key(z), addr(z)) = {key(z), k1, k2}
    BY DEF Endings
  <2>6. /\ k1 = Append(key(z), addr(z)) /\ k2 = Append(k1, addr(z))
    OBVIOUS
  <2> HIDE DEF Sharing, key, addr, name, k1, k2
  <2> QED
    BY <2>3, <2>4, <2>n, <2>5, <2>6
<1>3. CASE x = y
  BY <1>3
<1>4. CASE x # y
  <2>1. ~ ReadsAs(key(x), key(y)) /\ ~ ReadsAs(key(y), key(x))
    OBVIOUS
  <2>2. name(x) = name(y)
    OBVIOUS
  <2> HIDE DEF Sharing, key, addr, name
  <2>3. key(x) = key(y) /\ (name(x) # key(x) => addr(x) = addr(y))
    BY <1>1, <1>2, <2>1, <2>2, NamesReadApart
  <2>4. Shared(Sharing(x))
    <3>1. x \in Sharing(x) /\ y \in Sharing(x)
      BY <2>3 DEF Sharing, key
    <3>2. IsFiniteSet(DOMAIN fs) /\ Sharing(x) \subseteq DOMAIN fs
      BY FS_Interval DEF Sharing
    <3> QED
      BY <1>4, <3>1, <3>2, TwoAreShared
  <2>5. addr(x) = addr(y)
    BY <1>2, <2>3, <2>4
  <2> QED
    BY <2>5 DEF addr
<1> QED
  BY <1>3, <1>4

(* A name tells the address of a declaration once MakeNamesUnique is done. *)
LEMMA NamesToldApart ==
  ASSUME NamesAsRead, DeclTypeOK, MakeDeclNamesUnique, syms' = syms, syms \in Streams
  PROVE  NamesTellAddresses'
<1> SUFFICES ASSUME PlainNames', NEW o \in DOMAIN overlays'
    PROVE  LET vs == overlays'[o].vars
               fs == overlays'[o].funcs
           IN /\ \A x, y \in DOMAIN vs :
                   vs[x].name = vs[y].name /\ ~ IsExtern(vs[x]) /\ ~ IsExtern(vs[y])
                   => syms[vs[x].at].value = syms[vs[y].at].value
              /\ \A x, y \in DOMAIN fs : fs[x].name = fs[y].name => fs[x].addr = fs[y].addr
  BY DEF NamesTellAddresses, IsExtern
<1> DEFINE vs == overlays[o].vars
           fs == overlays[o].funcs
           us == overlays'[o].vars
           gs == overlays'[o].funcs
<1>1. overlays \in Seq(OverlayRecs) /\ DOMAIN overlays' = DOMAIN overlays /\ o \in DOMAIN overlays
  BY DEF DeclTypeOK, MakeDeclNamesUnique
<1>2. vs \in Seq(Vars) /\ fs \in Seq(FuncRecs) /\ us = VarsUnique(vs) /\ gs = FuncsUnique(fs)
  BY <1>1, NamesMadeUnique
<1>3. /\ \A x \in DOMAIN vs : vs[x].name = Key(vs[x]) /\ vs[x].at \in 1 .. Len(syms)
      /\ \A x \in DOMAIN fs : FuncNamed(fs[x])
  BY <1>1 DEF NamesAsRead
<1>4. /\ \A x, y \in DOMAIN us : ~ ReadsAs(Key(us[x]), Key(us[y]))
      /\ \A x, y \in DOMAIN gs : ~ ReadsAs(gs[x].key, gs[y].key)
  BY DEF PlainNames, Key
<1>5. DOMAIN us = DOMAIN vs /\ DOMAIN gs = DOMAIN fs
  BY <1>2 DEF VarsUnique, FuncsUnique
<1> HIDE DEF vs, fs, us, gs
<1>6. ASSUME NEW x \in DOMAIN vs PROVE us[x].at = vs[x].at
  <2>1. vs[x] \in Vars
    BY <1>2
  <2>2. us[x] = vs[x] \/ \E w : us[x] = [vs[x] EXCEPT !.name = w]
    BY <1>2 DEF VarsUnique
  <2> QED
    BY <2>1, <2>2 DEF Vars
<1>7. ASSUME NEW x \in DOMAIN fs PROVE gs[x].key = fs[x].key /\ gs[x].addr = fs[x].addr
  <2>1. fs[x] \in FuncRecs
    BY <1>2
  <2>2. gs[x] = fs[x] \/ \E w : gs[x] = [fs[x] EXCEPT !.name = w]
    BY <1>2 DEF FuncsUnique
  <2> QED
    BY <2>1, <2>2 DEF FuncRecs
<1>8. \A x \in DOMAIN vs : syms[vs[x].at].value \in Nat
  <2>1. \A s : IsDeclSymbol(s) => s.value \in Nat
    BY DEF IsDeclSymbol
  <2>2. \A e \in 1 .. Len(syms) : IsDeclSymbol(syms[e])
    BY SymbolProperty, DeclAssumption
  <2> QED
    BY <1>3, <2>1, <2>2
<1>9. ASSUME NEW x \in DOMAIN us, NEW y \in DOMAIN us, us[x].name = us[y].name,
             ~ IsExtern(us[x]), ~ IsExtern(us[y])
      PROVE  syms[us[x].at].value = syms[us[y].at].value
  <2>1. ~ IsExtern(vs[x]) /\ ~ IsExtern(vs[y])
    BY <1>5, <1>6, <1>9 DEF IsExtern
  <2>2. \A z, w \in DOMAIN vs : ~ ReadsAs(Key(vs[z]), Key(vs[w]))
    BY <1>4, <1>5, <1>6 DEF Key
  <2>3. syms[vs[x].at].value = syms[vs[y].at].value
    BY <1>2, <1>3, <1>5, <1>8, <1>9, <2>1, <2>2, VarsToldApart
  <2> QED
    BY <1>5, <1>6, <2>3
<1>10. ASSUME NEW x \in DOMAIN gs, NEW y \in DOMAIN gs, gs[x].name = gs[y].name
       PROVE  gs[x].addr = gs[y].addr
  <2>1. \A z, w \in DOMAIN fs : ~ ReadsAs(fs[z].key, fs[w].key)
    BY <1>4, <1>5, <1>7
  <2>2. fs[x].addr = fs[y].addr
    BY <1>2, <1>3, <1>5, <1>10, <2>1, FuncsToldApart
  <2> QED
    BY <1>5, <1>7, <2>2
<1> QED
  BY <1>9, <1>10 DEF us, gs

NamesInv ==
  /\ RemovalInv /\ syms \in Streams
  /\ stage # "fixed" => NamesAsRead
  /\ NamesTellAddresses

LEMMA NamesInvInit == BothInit /\ FixInit => NamesInv
<1> SUFFICES ASSUME BothInit, FixInit PROVE NamesInv
  OBVIOUS
<1>1. RemovalInv /\ stage = "structs"
  BY RemovalInvInit DEF FixInit
<1>2. syms \in Streams
  BY DEF BothInit, Init
<1>3. NamesAsRead
  <2>1. overlays = <<EmptyOverlay(0)>>
    BY DEF BothInit, DeclInit
  <2>2. DOMAIN overlays = {1} /\ overlays[1].vars = <<>> /\ overlays[1].funcs = <<>>
    BY <2>1 DEF EmptyOverlay
  <2> QED
    BY <2>2 DEF NamesAsRead
<1> QED
  BY <1>1, <1>2, <1>3 DEF NamesInv, NamesTellAddresses

LEMMA NamesInvStep == NamesInv /\ [FixNext]_everyVar => NamesInv'
<1> SUFFICES ASSUME NamesInv, [FixNext]_everyVar PROVE NamesInv'
  OBVIOUS
<1>1. RemovalInv'
  BY RemovalInvStep DEF NamesInv
<1>2. RemovalInv /\ Parsing /\ stage \in Stages
  BY DEF NamesInv, RemovalInv, FixInv
<1>3. CASE BothNext /\ UNCHANGED fixVars
  <2>1. stage = "structs" /\ stage' = stage
    BY <1>2, <1>3, PassesOver DEF Parsing, fixVars
  <2>2. ParsedInv /\ NamesAsRead
    BY <1>2, <2>1 DEF RemovalInv, NamesInv
  <2>3. CASE Next /\ UNCHANGED declVars
    <3>1. syms' = syms /\ overlays' = overlays
      BY <2>3, TypesKeepDecls
    <3> QED
      BY <1>1, <2>1, <2>2, <3>1 DEF NamesInv, NamesAsRead, NamesTellAddresses, Key, FuncNamed
  <2>4. CASE ParseDeclsStep
    <3>1. syms' = syms /\ NamesAsRead'
      BY <2>2, <2>4, NamesParsed, DeclsGrow DEF ParsedInv, HeapInv
    <3> QED
      BY <1>1, <2>1, <3>1 DEF NamesInv, NamesTellAddresses
  <2> QED
    BY <1>3, <2>3, <2>4 DEF BothNext
<1>4. CASE UNCHANGED everyVar
  <2>1. UNCHANGED <<syms, overlays, stage>>
    BY <1>4 DEF everyVar, allVars, vars, declVars, recorded, fixVars
  <2> QED
    BY <1>1, <2>1 DEF NamesInv, NamesAsRead, NamesTellAddresses, PlainNames, Key, IsExtern, FuncNamed
<1>5. CASE FixStep
  <2>1. syms' = syms
    BY <1>5 DEF FixStep, UnchangedPass1
  <2>2. CASE RemoveDuplicates
    <3>1. stage \in Removals /\ stage' # "fixed"
      <4>1. stage \in Removals /\ (stage' = "overflow" \/ stage' = AfterRemoval)
        BY <2>2 DEF RemoveDuplicates
      <4>2. AfterRemoval # "fixed"
        BY Zenon DEF AfterRemoval
      <4> QED
        BY <4>1, <4>2
    <3>2. overlays \in Seq(OverlayRecs) /\ NamesAsRead
      BY <1>2, <3>1 DEF RemovalInv, NamesInv, Removals, DeclTypeOK
    <3>3. NamesAsRead'
      BY <2>1, <2>2, <3>2, NamesReplaced
    <3> QED
      BY <1>1, <2>1, <3>1, <3>3 DEF NamesInv, NamesTellAddresses
  <2>3. CASE TagsStep
    <3>1. /\ stage \in Kinds /\ overlays' = overlays
          /\ stage' = stage \/ stage' = AfterTags[stage]
      BY <2>3 DEF TagsStep, BeginRename, RetryTag, AcceptTag, EndTags
    <3>2. stage # "fixed" /\ stage' # "fixed"
      BY <3>1 DEF Kinds, AfterTags
    <3>3. NamesAsRead'
      BY <2>1, <3>1, <3>2 DEF NamesInv, NamesAsRead, Key, FuncNamed
    <3> QED
      BY <1>1, <2>1, <3>2, <3>3 DEF NamesInv, NamesTellAddresses
  <2>4. CASE MakeDeclNamesUnique
    <3>1. stage = "names" /\ stage' = "fixed"
      BY <2>4 DEF MakeDeclNamesUnique
    <3>2. NamesAsRead /\ DeclTypeOK /\ syms \in Streams
      BY <1>2, <3>1 DEF NamesInv, RemovalInv
    <3>3. NamesTellAddresses'
      BY <2>1, <2>4, <3>2, NamesToldApart
    <3> QED
      BY <1>1, <2>1, <3>1, <3>2, <3>3 DEF NamesInv
  <2> QED
    BY <1>5, <2>2, <2>3, <2>4 DEF FixStep
<1> QED
  BY <1>3, <1>4, <1>5 DEF FixNext

(* Variables that are not extern, and functions, that end with one name    *)
(* have one address: whoever shares a name in the stream gets its address  *)
(* appended, findFunc having done so before or not, and two names of the   *)
(* stream do not meet unless one of them reads like such a name itself.    *)
THEOREM NamesAreTold == FixSpec => []NamesTellAddresses
<1>1. NamesInv => NamesTellAddresses
  BY DEF NamesInv
<1>2. FixSpec => []NamesInv
  BY NamesInvInit, NamesInvStep, PTL DEF FixSpec
<1> QED
  BY <1>1, <1>2, PTL
=============================================================================
