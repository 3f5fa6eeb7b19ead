-------------------------------- MODULE Merge --------------------------------
(***************************************************************************)
(* pruneDuplicates of cmd/sym_dump/main.go with addUniqueStructs and its   *)
(* copies: the parsers of several SYM files (TypePass to Fixups) become    *)
(* one.  What reads the same as something before is dropped; a type keeps  *)
(* its tag, or is given another, while other types print it.               *)
(*                                                                         *)
(* A parser has its types, each with the key of its list in StructTags (or *)
(* UnionTags, EnumTags) and its tag, which MakeNamesUnique may have        *)
(* changed; a ref is 0 or the place of a type in that parser.  The texts   *)
(* that Def prints are compared, never parsed: a text is here the tuple of *)
(* what is printed.  A tag is a sequence of name parts, a part a name or   *)
(* format with a number.  The sorting by name is left out.                 *)
(***************************************************************************)
EXTENDS Integers, Sequences, FiniteSets

CONSTANTS
  Mergers,   (* the sequences of parsers                                   *)
  FakeNames  (* the tags "_<number>fake" that compilers make               *)

Kinds == {"enum", "struct", "union"}

(* All are strings, which is said of the literals for the provers.         *)
Names == STRING \cup Kinds \cup {"_dup_", "_fake_", "placeholder", "_duplicate_"}
Parts == Names \X Nat
Tags  == Seq(Parts)
Decls == [name : STRING, addr : Nat, ref : Nat]
Types == [kind : Kinds, key : Tags, tag : Tags, members : Seq([name : STRING, ref : Nat])]
Parsers ==
  [types : Seq(Types), typedefs : Seq(Decls),
   overlays : Seq([id : Nat, vars : Seq(Decls), funcs : Seq(Decls)])]

IsRef(p, r) == r = 0 \/ r \in DOMAIN p.types

IsDuplicateSuffix(part) == part[1] = "_duplicate_"

IsFakeTag(t) ==
  LET suffixes == {x \in DOMAIN t : IsDuplicateSuffix(t[x])}
      base == IF suffixes = {} THEN t
              ELSE SubSeq(t, 1, (CHOOSE x \in suffixes : \A y \in suffixes : y <= x) - 1)
  IN Len(base) = 1 /\ base[1] \in FakeNames

(* No anonymous union refers to itself, nor do several to each other: they *)
(* are printed in place, which would not end, and C cannot write such.     *)
Anonymous(p) == {x \in DOMAIN p.types : p.types[x].kind = "union" /\ IsFakeTag(p.types[x].tag)}
NoneInItself(p) ==
  \A S \in SUBSET Anonymous(p) : S # {} =>
    \E x \in S : \A y \in DOMAIN p.types[x].members : p.types[x].members[y].ref \notin S

(* Parsers are numbered from 1, as everything is here; the code's pnum is  *)
(* one less.                                                               *)
IsParser(p) ==
  /\ p \in Parsers
  /\ \A x \in DOMAIN p.types : \A y \in DOMAIN p.types[x].members :
       IsRef(p, p.types[x].members[y].ref)
  /\ NoneInItself(p)
  /\ \A x \in DOMAIN p.typedefs : IsRef(p, p.typedefs[x].ref)
  /\ p.overlays # <<>>
  /\ \A o \in DOMAIN p.overlays :
       /\ \A x \in DOMAIN p.overlays[o].vars : IsRef(p, p.overlays[o].vars[x].ref)
       /\ \A x \in DOMAIN p.overlays[o].funcs : IsRef(p, p.overlays[o].funcs[x].ref)

ASSUME MergeAssumption ==
  /\ \A m \in Mergers : m # <<>> /\ m \in Seq(Parsers) /\ \A n \in DOMAIN m : IsParser(m[n])
  /\ \A f \in FakeNames : ~ IsDuplicateSuffix(f) /\ f[1] # "placeholder"

VARIABLES
  ps,       (* the parsers, with the tags as they are now                  *)
  pnum,     (* the parser the loops are at                                 *)
  at,       (* what is added of it: a kind, "typedefs" or "decls"; "done"  *)
  added,    (* the types that the loops have gone through, <<pnum, place>> *)
  tag,      (* the loop variable tag of addUniqueStructs and its copies    *)
  fakes,    (* kind |-> fakeStruct and its like                            *)
  present,  (* the texts of enumPresent to funcDeclPresent                 *)
  kept,     (* the types of the result, <<pnum, place>>                    *)
  keys,     (* kind |-> the keys of the result's StructTags and its like   *)
  typedefs, (* the typedefs of the result, <<pnum, place>>                 *)
  overlays, (* the result's overlays: ID |-> the declarations there        *)
  next,     (* the next typedef or declaration of the parser               *)
  given     (* the parsers as they were given, for the properties only     *)

typeVars == <<added, tag, fakes, kept, keys>>
vars == <<ps, pnum, at, typeVars, present, typedefs, overlays, next, given>>

-----------------------------------------------------------------------------
(* Texts.                                                                  *)

Placeholder == << <<"placeholder", 0>> >>
FakeTag(kind, n, count) == << <<kind, n>>, <<"_fake_", count>> >>
DupTag(t, n) == Append(t, <<"_dup_", n>>)

(* Var.String of what refers to the type r of the parser p: the tag, or    *)
(* the members of a union with a fake tag.                                 *)
RefText(p, r) ==
  LET shown[x \in {0} \cup DOMAIN p.types] ==
        IF x = 0 THEN <<"basic">>
        ELSE LET t == p.types[x] IN
             IF t.kind = "union" /\ IsFakeTag(t.tag)
             THEN <<"inline", [y \in DOMAIN t.members |->
                                 <<t.members[y].name, shown[t.members[y].ref]>>]>>
             ELSE <<t.kind, t.tag>>
  IN shown[r]

(* Def of a struct, union or enum.                                         *)
TypeText(p, x) ==
  LET t == p.types[x] IN
  <<t.kind, t.tag, [y \in DOMAIN t.members |-> <<t.members[y].name, RefText(p, t.members[y].ref)>>]>>

(* A plausible defect: the address is left in.                             *)
DeclTextWithAddr(p, kind, decl) == <<kind, decl.name, decl.addr, RefText(p, decl.ref)>>

(* Def of a variable or function without its address and line numbers, and *)
(* of a typedef.                                                           *)
DeclText(p, kind, decl) == <<kind, decl.name, RefText(p, decl.ref)>>

-----------------------------------------------------------------------------
Init ==
  /\ ps \in Mergers /\ pnum = 1 /\ at = "enum"
  /\ added = {} /\ tag = <<>> /\ fakes = [kind \in Kinds |-> 0]
  /\ present = {} /\ kept = {} /\ keys = [kind \in Kinds |-> {}]
  /\ typedefs = <<>> /\ overlays = [id \in {} |-> 0] /\ next = 1 /\ given = ps

Parser == ps[pnum]

(* addUniqueStructs and its copies.  The lists are visited in the order of *)
(* a Go map.                                                               *)

ListOf(x) ==
  {y \in DOMAIN Parser.types :
     Parser.types[y].kind = Parser.types[x].kind /\ Parser.types[y].key = Parser.types[x].key}

IsAdded(x) == <<pnum, x>> \in added

IsNext(x) ==
  /\ Parser.types[x].kind = at /\ ~ IsAdded(x)
  /\ \A y \in ListOf(x) : y < x => IsAdded(y)
  /\ \A y \in DOMAIN Parser.types :
       IsAdded(y) /\ Parser.types[y].kind = at =>
         ListOf(y) = ListOf(x) \/ \A z \in ListOf(y) : IsAdded(z)

WithTag(x, t) == [ps EXCEPT ![pnum].types[x].tag = t]

(* A plausible defect: tag is the key again for each type of a list.       *)
TagBeforeIsKey(x) == Parser.types[x].key

(* The loop variable when the type is reached.                             *)
TagBefore(x) == IF \A y \in ListOf(x) : x <= y THEN Parser.types[x].key ELSE tag

(* A plausible defect: it is the tag alone that is looked up.              *)
ComparedTextTag(x) ==
  <<at, IF IsFakeTag(Parser.types[x].tag) THEN Placeholder ELSE Parser.types[x].tag>>

(* Types match even when their fake tags differ.                           *)
ComparedText(x) ==
  TypeText(IF IsFakeTag(Parser.types[x].tag) THEN WithTag(x, Placeholder)[pnum] ELSE Parser, x)

WithNewTag(x, t) == WithTag(x, t)

AddFake(x) ==
  LET new == FakeTag(at, pnum, fakes[at]) IN
  /\ IsFakeTag(Parser.types[x].tag)
  /\ tag' = new /\ ps' = WithNewTag(x, new) /\ fakes' = [fakes EXCEPT ![at] = @ + 1]
  /\ IF ComparedText(x) \in present THEN UNCHANGED <<kept, keys>>
     ELSE kept' = kept \cup {<<pnum, x>>} /\ keys' = [keys EXCEPT ![at] = @ \cup {new}]

(* A plausible defect: a tag that is taken is changed before the text is   *)
(* looked up.                                                              *)
DropTaggedRenamed(x) ==
  /\ ~ IsFakeTag(Parser.types[x].tag) /\ ComparedText(x) \in present
  /\ tag' = DupTag(TagBefore(x), pnum) /\ ps' = WithTag(x, DupTag(TagBefore(x), pnum))
  /\ UNCHANGED <<fakes, kept, keys>>

DropTagged(x) ==
  /\ ~ IsFakeTag(Parser.types[x].tag) /\ ComparedText(x) \in present
  /\ tag' = TagBefore(x) /\ UNCHANGED <<ps, fakes, kept, keys>>

KeepTagged(x) ==
  LET taken == TagBefore(x) \in keys[at]
      new   == IF taken THEN DupTag(TagBefore(x), pnum) ELSE TagBefore(x)
  IN /\ ~ IsFakeTag(Parser.types[x].tag) /\ ComparedText(x) \notin present
     /\ tag' = new /\ ps' = IF taken THEN WithTag(x, new) ELSE ps
     /\ kept' = kept \cup {<<pnum, x>>} /\ keys' = [keys EXCEPT ![at] = @ \cup {new}]
     /\ UNCHANGED fakes

AddType ==
  /\ at \in Kinds
  /\ \E x \in DOMAIN Parser.types :
       /\ IsNext(x) /\ (AddFake(x) \/ DropTagged(x) \/ KeepTagged(x))
       /\ added' = added \cup {<<pnum, x>>}
       /\ present' = present \cup {ComparedText(x)}
  /\ UNCHANGED <<pnum, at, typedefs, overlays, next>>

After == [enum |-> "struct", struct |-> "union", union |-> "typedefs"]

EndKind ==
  /\ at \in Kinds /\ \A x \in DOMAIN Parser.types : Parser.types[x].kind = at => IsAdded(x)
  /\ at' = After[at]
  /\ UNCHANGED <<ps, pnum, typeVars, present, typedefs, overlays, next>>

(* The typedefs of a parser, and then its turn is over; the declarations   *)
(* are added after the types of all parsers.                               *)

AddTypedef ==
  /\ at = "typedefs" /\ next <= Len(Parser.typedefs)
  /\ LET text == DeclText(Parser, "typedef", Parser.typedefs[next]) IN
     /\ typedefs' = IF text \in present THEN typedefs ELSE Append(typedefs, <<pnum, next>>)
     /\ present' = present \cup {text}
  /\ next' = next + 1
  /\ UNCHANGED <<ps, pnum, at, typeVars, overlays>>

EndTypedefs ==
  /\ at = "typedefs" /\ next > Len(Parser.typedefs) /\ next' = 1
  /\ IF pnum < Len(ps) THEN pnum' = pnum + 1 /\ at' = "enum" ELSE pnum' = 1 /\ at' = "decls"
  /\ UNCHANGED <<ps, typeVars, present, typedefs, overlays>>

-----------------------------------------------------------------------------
(* The declarations of a parser in the order of the loops, the default     *)
(* overlay last; each overlay comes with an entry of its own.              *)

Entry(o, kind, place, id) == [overlay |-> o, kind |-> kind, place |-> place, id |-> id]

EntriesOf(p, o) ==
  LET ov == p.overlays[o] IN
  <<Entry(o, "overlay", 0, ov.id)>>
  \o [x \in DOMAIN ov.vars |-> Entry(o, "var", x, ov.id)]
  \o [x \in DOMAIN ov.funcs |-> Entry(o, "func", x, ov.id)]

(* A plausible defect: the default overlay comes first.                    *)
EntriesDefaultFirst(p) ==
  LET upTo[o \in 0 .. Len(p.overlays)] ==
        IF o = 0 THEN <<>> ELSE upTo[o - 1] \o EntriesOf(p, o)
  IN upTo[Len(p.overlays)]

Entries(p) ==
  LET upTo[o \in 1 .. Len(p.overlays)] ==
        IF o = 1 THEN <<>> ELSE upTo[o - 1] \o EntriesOf(p, o)
  IN upTo[Len(p.overlays)] \o EntriesOf(p, 1)

DeclOf(p, e) ==
  IF e.kind = "var" THEN p.overlays[e.overlay].vars[e.place]
  ELSE p.overlays[e.overlay].funcs[e.place]

TheEntry == Entries(Parser)[next]
AtEntry(kinds) == at = "decls" /\ next <= Len(Entries(Parser)) /\ TheEntry.kind \in kinds

(* The panic("unreachable") here is: dst.Overlay is the one of NewParser   *)
(* until an overlay with the ID of the default binary comes first.         *)
AddOverlay ==
  /\ AtEntry({"overlay"}) /\ next' = next + 1
  /\ overlays' = [id \in DOMAIN overlays \cup {TheEntry.id} |->
                    IF id \in DOMAIN overlays THEN overlays[id] ELSE <<>>]
  /\ UNCHANGED <<ps, pnum, at, typeVars, present, typedefs>>

(* A plausible defect: declarations are added to the default overlay.      *)
TargetDefault(e) == 0

Target(e) == e.id

AddDecl ==
  /\ AtEntry({"var", "func"}) /\ next' = next + 1
  /\ LET text == DeclText(Parser, TheEntry.kind, DeclOf(Parser, TheEntry)) IN
     /\ overlays' = IF text \in present THEN overlays
                    ELSE [overlays EXCEPT ![Target(TheEntry)] =
                            Append(@, [pnum |-> pnum, entry |-> TheEntry])]
     /\ present' = present \cup {text}
  /\ UNCHANGED <<ps, pnum, at, typeVars, typedefs>>

EndDecls ==
  /\ at = "decls" /\ next > Len(Entries(Parser)) /\ next' = 1
  /\ IF pnum < Len(ps) THEN pnum' = pnum + 1 /\ UNCHANGED at ELSE at' = "done" /\ UNCHANGED pnum
  /\ UNCHANGED <<ps, typeVars, present, typedefs, overlays>>

Next ==
  /\ AddType \/ EndKind \/ AddTypedef \/ EndTypedefs \/ AddOverlay \/ AddDecl \/ EndDecls
  /\ UNCHANGED given

Spec == Init /\ [][Next]_vars

-----------------------------------------------------------------------------
(* The properties.                                                         *)

TypesOf(n) == {<<n, x>> : x \in DOMAIN given[n].types}
AllTypes == UNION {TypesOf(n) : n \in DOMAIN given}
KindOf(t) == given[t[1]].types[t[2]].kind
TagOf(t) == ps[t[1]].types[t[2]].tag
KeptDecls == UNION {{overlays[id][x] : x \in DOMAIN overlays[id]} : id \in DOMAIN overlays}

(* No tag of the SYM files reads like one that is made here or by          *)
(* MakeNamesUnique, which adds one number to a tag.                        *)
PlainTag(t) == \A x \in DOMAIN t : t[x][1] \notin Kinds \cup {"_dup_", "_fake_", "placeholder"}
MadeUnique(key, t) == \E n \in {t[x][2] : x \in DOMAIN t} : t = Append(key, <<"_duplicate_", n>>)
PlainTags ==
  \A t \in AllTypes : LET type == given[t[1]].types[t[2]] IN
    /\ PlainTag(type.tag) /\ PlainTag(type.key) /\ Len(type.key) = 1
    /\ type.tag = type.key \/ MadeUnique(type.key, type.tag)

(* How the type reads in its own SYM file, fake tags apart.                *)
OwnText(t) ==
  LET p == given[t[1]]
      x == t[2]
  IN TypeText(IF IsFakeTag(p.types[x].tag) THEN [p EXCEPT !.types[x].tag = Placeholder] ELSE p, x)

SameDecl(n, x, m, y) == x.name = y.name /\ RefText(ps[n], x.ref) = RefText(ps[m], y.ref)

(* Merging loses nothing: each type of each file has one in the result     *)
(* that reads the same in its own file, although tags change while types   *)
(* are compared, and each typedef, variable and function one that reads    *)
(* the same in the end.                                                    *)
NothingLost ==
  at = "done" /\ PlainTags =>
    /\ \A t \in AllTypes : \E u \in kept : OwnText(u) = OwnText(t)
    /\ \A n \in DOMAIN ps : \A x \in DOMAIN ps[n].typedefs : \E z \in DOMAIN typedefs :
         SameDecl(n, ps[n].typedefs[x], typedefs[z][1], ps[typedefs[z][1]].typedefs[typedefs[z][2]])
    /\ \A n \in DOMAIN ps : \A e \in {Entries(ps[n])[x] : x \in DOMAIN Entries(ps[n])} :
         e.kind # "overlay" =>
           \E r \in KeptDecls : /\ r.entry.kind = e.kind
             /\ SameDecl(n, DeclOf(ps[n], e), r.pnum, DeclOf(ps[r.pnum], r.entry))

(* Nothing is kept twice: variables, and functions, that read the same but *)
(* for their address are merged, in whichever files and overlays they are. *)
NothingTwice ==
  at = "done" =>
    \A r, q \in KeptDecls :
      /\ r.entry.kind = q.entry.kind
      /\ SameDecl(r.pnum, DeclOf(ps[r.pnum], r.entry), q.pnum, DeclOf(ps[q.pnum], q.entry))
      => r = q

(* In the result the tags of the enums, of the structs and of the unions   *)
(* are distinct and each type is alone under its key, whether the files    *)
(* had been through MakeNamesUnique or not.                                *)
MergedTagsDistinct ==
  PlainTags =>
    /\ \A t, u \in kept : KindOf(t) = KindOf(u) /\ TagOf(t) = TagOf(u) => t = u
    /\ \A kind \in Kinds : Cardinality(keys[kind]) = Cardinality({t \in kept : KindOf(t) = kind})

(* The tags that the result prints: of the members of its types, of its    *)
(* typedefs, variables and functions.                                      *)
RefsPrinted ==
  (UNION {{<<t[1], ps[t[1]].types[t[2]].members[y].ref>> :
             y \in DOMAIN ps[t[1]].types[t[2]].members} : t \in kept})
  \cup {<<typedefs[z][1], ps[typedefs[z][1]].typedefs[typedefs[z][2]].ref>> : z \in DOMAIN typedefs}
  \cup {<<r.pnum, DeclOf(ps[r.pnum], r.entry).ref>> : r \in KeptDecls}

DefinedIn(types) ==
  \A q \in {q \in RefsPrinted : q[2] # 0} :
    \E t \in types : KindOf(t) = KindOf(q) /\ TagOf(t) = TagOf(q)

OneTypePerTag ==
  \A t, u \in AllTypes :
    LET x == given[t[1]].types[t[2]]  y == given[u[1]].types[u[2]] IN
    /\ ~ IsFakeTag(x.tag) /\ x.tag = x.key
    /\ t[1] = u[1] /\ x.kind = y.kind /\ x.key = y.key => t = u

(* What the result refers to is in the result: if no file has two types    *)
(* with one tag, or a fake tag, a use of a type that was dropped names     *)
(* another type that was kept, also if some were given other tags.         *)
ReferencesDefined == at = "done" /\ PlainTags /\ OneTypePerTag => DefinedIn(kept)

(* Each overlay of each file is in the result, and each declaration in the *)
(* overlay of its ID.                                                      *)
OverlaysKept ==
  at = "done" =>
    /\ DOMAIN overlays = UNION {{given[n].overlays[o].id : o \in DOMAIN given[n].overlays} : n \in DOMAIN given}
    /\ \A id \in DOMAIN overlays : \A x \in DOMAIN overlays[id] :
         LET r == overlays[id][x] IN given[r.pnum].overlays[r.entry.overlay].id = id

(* The declarations of the parsers, as the result records them.            *)
DeclsIn(n, o) ==
  LET ov == given[n].overlays[o]
      Place(kind, x) == [pnum |-> n, entry |-> Entry(o, kind, x, ov.id)]
  IN {Place("var", x) : x \in DOMAIN ov.vars} \cup {Place("func", x) : x \in DOMAIN ov.funcs}
AllDecls == UNION {UNION {DeclsIn(n, o) : o \in DOMAIN given[n].overlays} : n \in DOMAIN given}

(* When an overlay has its turn: the default overlay comes last.           *)
Turn(p, o) == IF o = 1 THEN Len(p.overlays) ELSE o - 1
Precedes(p, e, f) ==
  \/ Turn(p, e.overlay) < Turn(p, f.overlay)
  \/ e.overlay = f.overlay /\ e.place < f.place
Earlier(r, q) == r.pnum < q.pnum \/ (r.pnum = q.pnum /\ Precedes(given[r.pnum], r.entry, q.entry))

(* The files and overlays share the texts seen, so that a declaration can  *)
(* go missing in its own overlay.  It does just if one that reads the same *)
(* comes before it: in an earlier file, in an overlay that has its turn    *)
(* before, or further up there.                                            *)
FirstIsKept ==
  at = "done" =>
    KeptDecls = {r \in AllDecls :
                   ~ \E q \in AllDecls :
                       /\ Earlier(q, r) /\ q.entry.kind = r.entry.kind
                       /\ SameDecl(q.pnum, DeclOf(ps[q.pnum], q.entry), r.pnum, DeclOf(ps[r.pnum], r.entry))}

(* main.go:117, "placeholder type name to make types match even when       *)
(* typename differ": what refers to a type with a fake tag refers to the   *)
(* type of the result that it matched.                                     *)
FakeReferencesDefined ==
  at = "done" /\ PlainTags =>
    \A q \in {q \in RefsPrinted : q[2] # 0} :
      IsFakeTag(given[q[1]].types[q[2]].tag) =>
        \E t \in kept : KindOf(t) = KindOf(q) /\ TagOf(t) = TagOf(q)
=============================================================================
