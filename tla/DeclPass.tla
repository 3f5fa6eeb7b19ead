------------------------------ MODULE DeclPass ------------------------------
(***************************************************************************)
(* The second pass over a symbol stream, Parser.ParseDecls of              *)
(* csym/parse_decls.go, after ParseTypes (TypePass) on the same stream and *)
(* the same parser: it records the symbols, line numbers, variables and    *)
(* functions of the default binary and of each overlay.                    *)
(*                                                                         *)
(* p.Overlays is overlays without its first element, the default overlay.  *)
(* A declaration keeps the position of the symbol it was made from ("at"); *)
(* sizes, storage classes and the line numbers of blocks are left out.     *)
(* p.curOverlay.funcNames[name] is the functions with the key name, in     *)
(* their order in Funcs: a function is appended to both at once.           *)
(***************************************************************************)
EXTENDS TypePass

CONSTANT Uint32   (* 2^32, less in the runs of TLC *)

(* What the pass reads of each body (the kinds Name5 and Name6 are decoded *)
(* as a Name2); a Def or Def2 also has func, whether the outermost         *)
(* modifier of its type is a function.                                     *)
NameBodies == {"Name1", "Name2"}
IncBodies  == {"IncSLD", "IncSLDByte", "IncSLDWord"}
SLDBodies  == IncBodies \cup {"SetSLD", "SetSLD2"}
LineBodies == {"SetSLD", "SetSLD2", "FuncStart", "FuncEnd", "BlockStart", "BlockEnd"}

IsDeclSymbol(s) ==
  /\ s.value \in Nat
  /\ IsDefn(s) => s.func \in BOOLEAN
  /\ s.body \in NameBodies \cup {"FuncStart"} => s.name \in Names
  /\ s.body \in LineBodies => s.line \in 0 .. Uint32 - 1
  /\ s.body \in {"IncSLDByte", "IncSLDWord"} => s.inc \in Nat
  /\ s.body \in {"SetSLD2", "FuncStart"} => s.path \in Nat
  /\ s.body = "Overlay" => s.id \in Nat

ASSUME DeclAssumption ==
  /\ Uint32 \in Nat \ {0}
  /\ \A s \in Streams : \A j \in DOMAIN s : IsDeclSymbol(s[j])

VARIABLES
  overlays,    (* the default overlay, then p.Overlays                     *)
  overlayIDs,  (* p.overlayIDs: overlay ID |-> index of overlays           *)
  curOverlay,  (* p.curOverlay, an index of overlays                       *)
  d,           (* the index of ParseDecls' loop                            *)
  m,           (* the index of the loop of parseLineNumbers or parseFunc   *)
  curLine,     (* curLine of that function                                 *)
  fn,          (* f of parseFunc, an index of the overlay's functions      *)
  curBlock,    (* curBlock of parseFunc, an index of f's blocks, or None   *)
  blocks,      (* the blockStack of parseFunc                              *)
  mode         (* "top", "lines", "func", "end" or the reason of a panic   *)

recorded == <<overlays, overlayIDs, curOverlay>>
inner    == <<m, curLine, fn, curBlock, blocks>>
declVars == <<recorded, d, inner, mode>>
allVars  == <<vars, declVars>>

DeclPanics == {"base", "class", "body", "overlay", "nil", "unreachable"}

-----------------------------------------------------------------------------
EmptyOverlay(id) ==
  [id |-> id, symbols |-> <<>>, lines |-> <<>>, vars |-> <<>>, funcs |-> <<>>]

Func(at, key, name, ref, void) ==
  [at |-> at, addr |-> syms[at].value, key |-> key, name |-> name, ref |-> ref,
   void |-> void, path |-> 0, lineStart |-> 0, lineEnd |-> 0,
   params |-> <<>>, blocks |-> <<>>]

Block(at) == [at |-> at, locals |-> <<>>]

Var(at) == [at |-> at, name |-> ValidName[syms[at].name], ref |-> TypeRef(syms[at])]

Funcs == overlays[curOverlay].funcs

(* What findFunc loops over: the functions with the name.                  *)
Namesakes(name) == {x \in DOMAIN Funcs : Funcs[x].key = name}

Found(s) == {x \in Namesakes(ValidName[s.name]) : Funcs[x].addr = s.value}

FirstOf(S) == CHOOSE x \in S : \A y \in S : x <= y

(* UniqueFuncName: "%s_addr_%08X" of the name and the address.             *)
UniqueFuncName(name, addr) == Append(name, addr)

(* emptyFunc for the FuncStart at d, with the name findFunc then gives it. *)
EmptyFunc ==
  LET name == ValidName[syms[d].name] IN
  Func(d, name, IF Namesakes(name) = {} THEN name ELSE UniqueFuncName(name, syms[d].value),
       [to |-> "basic", id |-> 0], TRUE)

(* findFunc for the FuncStart at d: the functions after it, and the index. *)
FuncsAfterFind == IF Found(syms[d]) # {} THEN Funcs ELSE Append(Funcs, EmptyFunc)
FindFunc == IF Found(syms[d]) # {} THEN FirstOf(Found(syms[d])) ELSE Len(Funcs) + 1

(* The line number entry for the symbol at j.                              *)
LineEntry(j, line) ==
  [at |-> j, addr |-> syms[j].value, path |-> line.path, line |-> line.line]

WithLine(o, j, line) == [o EXCEPT !.lines = Append(@, LineEntry(j, line))]

AddLine(j, line) == overlays' = [overlays EXCEPT ![curOverlay] = WithLine(@, j, line)]

-----------------------------------------------------------------------------
DeclInit ==
  /\ overlays = <<EmptyOverlay(0)>> /\ overlayIDs = [x \in {} |-> 0] /\ curOverlay = 1
  /\ d = 1 /\ m = 0
  /\ curLine = [path |-> 0, line |-> 0] /\ fn = 0 /\ curBlock = None /\ blocks = <<>>
  /\ mode = "top"

(* ParseDecls changes of TypePass's state only the heap of tagged types.   *)
UnchangedTypes == UNCHANGED <<types, fresh>>
UnchangedPass1 == UNCHANGED <<syms, typedefs, boolDef, enumMembers, cursor, pc>>

DeclPanic(why) ==
  mode' = why /\ UNCHANGED <<recorded, d, inner>> /\ UnchangedTypes

MakeType(s) == types' = TypesAfter(s) /\ fresh' = FreshAfter(s)

(* ParseDecls' loop.                                                       *)

AtDecl == pc = "done" /\ mode = "top" /\ d <= Len(syms)
Sym == syms[d]
Advance == d' = d + 1

AddSymbol ==
  /\ AtDecl /\ Sym.body \in NameBodies
  /\ overlays' = [overlays EXCEPT ![curOverlay].symbols =
                    Append(@, [at |-> d, addr |-> Sym.value, name |-> Sym.name])]
  /\ Advance /\ UnchangedTypes
  /\ UNCHANGED <<overlayIDs, curOverlay, inner, mode>>

IgnoredClasses(body) ==
  {"MOS", "MOU", "TPDEF", "MOE", "FIELD"}
  \cup IF body = "Def" THEN {"STRTAG", "UNTAG", "ENTAG", "103"} ELSE {"EOS"}
GlobalClasses == {"EXT", "STAT"}

(* A definition that ParseTypes handled, or an EndSLD without a group.     *)
Ignore ==
  /\ AtDecl
  /\ \/ Sym.body = "EndSLD"
     \/ IsDefn(Sym) /\ Sym.class \in IgnoredClasses(Sym.body)
  /\ Advance /\ UnchangedTypes /\ UNCHANGED <<recorded, inner, mode>>

IsGlobal(s) == IsDefn(s) /\ s.class \in GlobalClasses

(* parseGlobalDecl.                                                        *)
AddGlobal ==
  /\ AtDecl /\ IsGlobal(Sym) /\ TypeParses(Sym)
  /\ MakeType(Sym)
  /\ overlays' =
       IF Sym.func
       THEN [overlays EXCEPT ![curOverlay].funcs =
               Append(@, Func(d, ValidName[Sym.name], ValidName[Sym.name], TypeRef(Sym), FALSE))]
       ELSE [overlays EXCEPT ![curOverlay].vars = Append(@, Var(d))]
  /\ Advance /\ UNCHANGED <<overlayIDs, curOverlay, inner, mode>>

BadGlobal == AtDecl /\ IsGlobal(Sym) /\ ~ TypeParses(Sym) /\ DeclPanic("base")

BadTopClass == /\ AtDecl /\ IsDefn(Sym)
               /\ Sym.class \notin GlobalClasses \cup IgnoredClasses(Sym.body)
               /\ DeclPanic("class")

(* A plausible defect: an overlay with a known ID is not entered again.    *)
OverlayIDsOnce ==
  [x \in DOMAIN overlayIDs \cup {Sym.id} |->
     IF x \in DOMAIN overlayIDs THEN overlayIDs[x] ELSE Len(overlays) + 1]

OverlayIDsAfter ==
  [x \in DOMAIN overlayIDs \cup {Sym.id} |->
     IF x = Sym.id THEN Len(overlays) + 1 ELSE overlayIDs[x]]

(* parseOverlay: a second overlay with the same ID takes the place of the  *)
(* first in overlayIDs, and curOverlay stays.                              *)
AddOverlay ==
  /\ AtDecl /\ Sym.body = "Overlay"
  /\ overlays' = Append(overlays, EmptyOverlay(Sym.id))
  /\ overlayIDs' = OverlayIDsAfter
  /\ Advance /\ UnchangedTypes /\ UNCHANGED <<curOverlay, inner, mode>>

SetOverlay ==
  /\ AtDecl /\ Sym.body = "SetOverlay" /\ Sym.value \in DOMAIN overlayIDs
  /\ curOverlay' = overlayIDs[Sym.value]
  /\ Advance /\ UnchangedTypes /\ UNCHANGED <<overlays, overlayIDs, inner, mode>>

UnknownOverlay == /\ AtDecl /\ Sym.body = "SetOverlay" /\ Sym.value \notin DOMAIN overlayIDs
                  /\ DeclPanic("overlay")

TopBodies == NameBodies \cup {"SetSLD2", "EndSLD", "FuncStart", "Def", "Def2",
                              "Overlay", "SetOverlay"}
BadTopBody == AtDecl /\ Sym.body \notin TopBodies /\ DeclPanic("body")

FinishDecls == /\ pc = "done" /\ mode = "top" /\ d > Len(syms)
               /\ mode' = "end" /\ UnchangedTypes /\ UNCHANGED <<recorded, d, inner>>

-----------------------------------------------------------------------------
(* parseLineNumbers.                                                       *)

BeginLines ==
  LET line == [path |-> Sym.path, line |-> Sym.line] IN
  /\ AtDecl /\ Sym.body = "SetSLD2"
  /\ curLine' = line /\ AddLine(d, line)
  /\ m' = 0 /\ mode' = "lines"
  /\ UnchangedTypes /\ UNCHANGED <<overlayIDs, curOverlay, d, fn, curBlock, blocks>>

InnerPos == d + 1 + m
AtInner(where) == mode = where /\ InnerPos <= Len(syms)

(* A plausible defect: SetSLD counts from the line before it.              *)
LineAfterRelative(s) ==
  CASE s.body = "IncSLD" -> [curLine EXCEPT !.line = (@ + 1) % Uint32]
    [] s.body \in {"IncSLDByte", "IncSLDWord"} ->
         [curLine EXCEPT !.line = (@ + s.inc) % Uint32]
    [] s.body = "SetSLD" -> [curLine EXCEPT !.line = (@ + s.line) % Uint32]
    [] s.body = "SetSLD2" -> [path |-> s.path, line |-> s.line]

LineAfter(s) ==
  CASE s.body = "IncSLD" -> [curLine EXCEPT !.line = (@ + 1) % Uint32]
    [] s.body \in {"IncSLDByte", "IncSLDWord"} ->
         [curLine EXCEPT !.line = (@ + s.inc) % Uint32]
    [] s.body = "SetSLD" -> [curLine EXCEPT !.line = s.line]
    [] s.body = "SetSLD2" -> [path |-> s.path, line |-> s.line]

NextLine ==
  /\ AtInner("lines") /\ syms[InnerPos].body \in SLDBodies
  /\ curLine' = LineAfter(syms[InnerPos]) /\ AddLine(InnerPos, LineAfter(syms[InnerPos]))
  /\ m' = m + 1
  /\ UnchangedTypes
  /\ UNCHANGED <<overlayIDs, curOverlay, d, fn, curBlock, blocks, mode>>

(* ParseDecls adds the number returned to its index, then one.             *)
Return(used) ==
  /\ d' = d + used + 1 /\ m' = 0 /\ mode' = "top"
  /\ UnchangedTypes /\ UNCHANGED <<overlayIDs, curOverlay, curLine, fn>>

(* A plausible defect: the symbol that ends the group is always consumed.  *)
EndLinesConsume ==
  /\ AtInner("lines") /\ syms[InnerPos].body \notin SLDBodies
  /\ Return(m + 1) /\ UNCHANGED <<overlays, curBlock, blocks>>

(* An EndSLD is consumed; any other symbol is read again by ParseDecls.    *)
EndLines ==
  /\ AtInner("lines") /\ syms[InnerPos].body \notin SLDBodies
  /\ Return(IF syms[InnerPos].body = "EndSLD" THEN m + 1 ELSE m)
  /\ UNCHANGED <<overlays, curBlock, blocks>>

(* The panic("unreachable") of both loops.                                 *)
SliceEnd == mode \in {"lines", "func"} /\ InnerPos > Len(syms) /\ DeclPanic("unreachable")
-----------------------------------------------------------------------------
(* parseFunc.                                                              *)

AtFuncStart == AtDecl /\ Sym.body = "FuncStart"

FuncEnds == {j \in d + 1 .. Len(syms) : syms[j].body = "FuncEnd"}

(* A plausible defect: a function parsed before is parsed again.           *)
IsDuplicateNever == FALSE

(* The function has been parsed, and there is a FuncEnd to skip to.        *)
IsDuplicate ==
  Found(Sym) # {} /\ Funcs[FindFunc].lineStart # 0 /\ FuncEnds # {}

SkipFunc ==
  /\ AtFuncStart /\ IsDuplicate
  /\ d' = FirstOf(FuncEnds) + 1
  /\ UnchangedTypes /\ UNCHANGED <<recorded, inner, mode>>

BeginFunc ==
  LET line == [path |-> Sym.path, line |-> Sym.line] IN
  /\ AtFuncStart /\ ~ IsDuplicate
  /\ fn' = FindFunc
  /\ overlays' = [overlays EXCEPT ![curOverlay] =
       WithLine([@ EXCEPT !.funcs = [FuncsAfterFind EXCEPT ![FindFunc].path = Sym.path,
                                                           ![FindFunc].lineStart = Sym.line]],
                d, line)]
  /\ curLine' = line /\ curBlock' = None /\ blocks' = <<>>
  /\ m' = 0 /\ mode' = "func"
  /\ UnchangedTypes /\ UNCHANGED <<overlayIDs, curOverlay, d>>

(* parseFunc's f, and the line table, after one of its symbols.            *)
CurFunc == Funcs[fn]
SetFunc(f) == overlays' = [overlays EXCEPT ![curOverlay].funcs[fn] = f]
SetFuncAndLine(f, line) ==
  overlays' = [overlays EXCEPT ![curOverlay] =
                 WithLine([@ EXCEPT !.funcs[fn] = f], InnerPos, line)]

AtFunc(body) == AtInner("func") /\ syms[InnerPos].body = body

EndFunc ==
  /\ AtFunc("FuncEnd")
  /\ SetFunc([CurFunc EXCEPT !.lineEnd = syms[InnerPos].line])
  /\ curBlock' = None /\ blocks' = <<>>
  /\ Return(m + 1)

(* curLine.Line += body.Line - 1, an uint32.                               *)
BlockLine == [curLine EXCEPT !.line = (@ + syms[InnerPos].line - 1) % Uint32]

Pushed == IF curBlock # None THEN Append(blocks, curBlock) ELSE blocks

BlockStart ==
  /\ AtFunc("BlockStart")
  /\ blocks' = Pushed
  /\ curBlock' = Len(CurFunc.blocks) + 1
  /\ SetFuncAndLine([CurFunc EXCEPT !.blocks = Append(@, Block(InnerPos))], BlockLine)
  /\ curLine' = BlockLine /\ m' = m + 1
  /\ UnchangedTypes /\ UNCHANGED <<overlayIDs, curOverlay, d, fn, mode>>

(* A plausible defect: the end of a block leaves all of them.              *)
BlockAfterEndNone == None

(* The block that encloses the one that ends, or nil.                      *)
BlockAfterEnd == IF blocks = <<>> THEN None ELSE blocks[Len(blocks)]

BlockEnd ==
  /\ AtFunc("BlockEnd") /\ curBlock # None
  /\ curBlock' = BlockAfterEnd
  /\ blocks' = IF blocks = <<>> THEN blocks ELSE SubSeq(blocks, 1, Len(blocks) - 1)
  /\ AddLine(InnerPos, BlockLine)
  /\ curLine' = BlockLine /\ m' = m + 1
  /\ UnchangedTypes /\ UNCHANGED <<overlayIDs, curOverlay, d, fn, mode>>

(* curBlock.LineEnd is set before anything looks whether there is a block. *)
NilBlock == AtFunc("BlockEnd") /\ curBlock = None /\ DeclPanic("nil")

(* parseClass.                                                             *)
LocalClasses == {"AUTO", "EXT", "STAT", "REG", "LABEL", "ARG", "TPDEF", "REGPARM"}

AtLocal == AtInner("func") /\ IsDefn(syms[InnerPos])

(* addLocal and addParam: a name already there is left alone.              *)
AddedTo(list, v) ==
  IF \E x \in DOMAIN list : list[x].name = v.name THEN list ELSE Append(list, v)

AddLocal ==
  LET v == Var(InnerPos) IN
  /\ AtLocal /\ TypeParses(syms[InnerPos]) /\ syms[InnerPos].class \in LocalClasses
  /\ MakeType(syms[InnerPos])
  /\ SetFunc(IF curBlock # None
             THEN [CurFunc EXCEPT !.blocks[curBlock].locals = AddedTo(@, v)]
             ELSE [CurFunc EXCEPT !.params = AddedTo(@, v)])
  /\ m' = m + 1
  /\ UNCHANGED <<overlayIDs, curOverlay, d, curLine, fn, curBlock, blocks, mode>>

BadLocalType == AtLocal /\ ~ TypeParses(syms[InnerPos]) /\ DeclPanic("base")

BadLocalClass == /\ AtLocal /\ TypeParses(syms[InnerPos]) /\ syms[InnerPos].class \notin LocalClasses
                 /\ DeclPanic("class")

FuncBodies == {"FuncEnd", "BlockStart", "BlockEnd", "Def", "Def2"}
BadFuncBody == AtInner("func") /\ syms[InnerPos].body \notin FuncBodies /\ DeclPanic("body")

-----------------------------------------------------------------------------
DeclStep == \/ AddSymbol \/ Ignore \/ AddGlobal \/ BadGlobal \/ BadTopClass
            \/ AddOverlay \/ SetOverlay \/ UnknownOverlay \/ BadTopBody \/ FinishDecls

LinesStep == BeginLines \/ NextLine \/ EndLines \/ SliceEnd

FuncStep == \/ SkipFunc \/ BeginFunc \/ EndFunc \/ BlockStart \/ BlockEnd \/ NilBlock
            \/ AddLocal \/ BadLocalType \/ BadLocalClass \/ BadFuncBody

ParseDeclsStep == (DeclStep \/ LinesStep \/ FuncStep) /\ UnchangedPass1

(* main.go calls ParseTypes, then ParseDecls.                              *)
BothNext == (Next /\ UNCHANGED declVars) \/ ParseDeclsStep
BothInit == Init /\ DeclInit

BothSpec == BothInit /\ [][BothNext]_allVars

-----------------------------------------------------------------------------
(* The properties.                                                         *)

Lines == [at : Nat, addr : Nat, path : Nat, line : 0 .. Uint32 - 1]
Vars == [at : Nat, name : Names, ref : Refs]
BlockRecs == [at : Nat, locals : Seq(Vars)]
FuncRecs == [at : Nat, addr : Nat, key : Names, name : Seq(Nat), ref : Refs, void : BOOLEAN,
             path : Nat, lineStart : 0 .. Uint32 - 1, lineEnd : 0 .. Uint32 - 1,
             params : Seq(Vars), blocks : Seq(BlockRecs)]
OverlayRecs == [id : Nat, symbols : Seq([at : Nat, addr : Nat, name : Names]),
                lines : Seq(Lines), vars : Seq(Vars), funcs : Seq(FuncRecs)]

(* The blocks around the next symbol of a function, the current one last.  *)
Stack == IF curBlock = None THEN blocks ELSE Append(blocks, curBlock)

(* The state has its shape: the indices that stand for pointers are those  *)
(* of an existing overlay, function and block, and the stack holds the     *)
(* blocks around the current one, outermost first.                         *)
DeclTypeOK ==
  /\ overlays \in Seq(OverlayRecs)
  /\ curOverlay \in DOMAIN overlays
  /\ \A id \in DOMAIN overlayIDs : overlayIDs[id] \in 2 .. Len(overlays)
  /\ d \in Nat \ {0} /\ m \in Nat
  /\ curLine \in [path : Nat, line : 0 .. Uint32 - 1]
  /\ mode = "func" =>
       /\ fn \in DOMAIN Funcs
       /\ curBlock \in DOMAIN CurFunc.blocks \cup {None}
       /\ blocks \in Seq(DOMAIN CurFunc.blocks)
       /\ curBlock = None => blocks = <<>>
       /\ \A x, y \in DOMAIN Stack : x < y => Stack[x] < Stack[y]
  /\ mode # "func" => mode \in DeclPanics \/ (curBlock = None /\ blocks = <<>>)
  /\ mode \in {"top", "lines", "func", "end"} \cup DeclPanics

Stopped == mode \in {"end"} \cup DeclPanics

Declarations(o) ==
  {o.vars[x] : x \in DOMAIN o.vars} \cup {o.funcs[x] : x \in DOMAIN o.funcs}

IsBody(j, body) == syms[j].body = body
InFunc(j) == \E s \in 1 .. j - 1 :
               IsBody(s, "FuncStart") /\ \A h \in s + 1 .. j - 1 : ~ IsBody(h, "FuncEnd")

(* The symbols with one of the bodies that stand outside of functions.     *)
Outside(bodies) == {j \in Pos : syms[j].body \in bodies /\ ~ InFunc(j)}

(* Overlays are numbered in the order of their symbols: the one that the   *)
(* Overlay symbol at j makes.                                              *)
OverlayMadeAt(j) == 1 + Cardinality({h \in Outside({"Overlay"}) : h <= j})

(* The overlay that a reader of the stream would say is active at j: what  *)
(* the last SetOverlay before j names, as last declared before it.         *)
ActiveAt(j) ==
  LET sets == {h \in Outside({"SetOverlay"}) : h < j} IN
  IF sets = {} THEN 1
  ELSE OverlayMadeAt(LastOf({h \in Outside({"Overlay"}) :
         h < LastOf(sets) /\ syms[h].id = syms[LastOf(sets)].value}))

(* What has been recorded: the overlay, the list and the index of each     *)
(* entry, and the position of the symbol it was made from.                 *)
Records(o, v) ==
  {<<o, "symbols", x, v.symbols[x].at>> : x \in DOMAIN v.symbols}
  \cup {<<o, "lines", x, v.lines[x].at>> : x \in DOMAIN v.lines}
  \cup {<<o, "vars", x, v.vars[x].at>> : x \in DOMAIN v.vars}
  \cup {<<o, "funcs", x, v.funcs[x].at>> : x \in DOMAIN v.funcs}
Recorded == UNION {Records(o, overlays[o]) : o \in DOMAIN overlays}

(* Every symbol, line, variable and function is recorded in the overlay    *)
(* that is active where it stands, also when an overlay ID is declared     *)
(* again while its overlay is the current one.                             *)
DeclsInActiveOverlay == Stopped => \A r \in Recorded : ActiveAt(r[4]) = r[1]

(* The symbols outside of functions that make an entry, and its list.      *)
Declared == {j \in Outside({"Def", "Def2"}) : IsGlobal(syms[j])}
            \cup Outside(NameBodies \cup SLDBodies)

ListFor(s) == IF s.body \in NameBodies THEN "symbols"
              ELSE IF s.body \in SLDBodies THEN "lines"
              ELSE IF s.func THEN "funcs" ELSE "vars"

(* What was not made by the start of a function or by one of its blocks.   *)
Made == {r \in Recorded : syms[r[4]].body \notin {"FuncStart", "BlockStart", "BlockEnd"}}

(* Nothing outside of functions is lost or taken twice, wherever a line    *)
(* group or a function that is skipped ends: each global definition, each  *)
(* name and each entry of a line group is recorded once, as what it is.    *)
EachDeclarationOnce ==
  mode = "end" =>
    /\ {<<r[2], r[4]>> : r \in Made} = {<<ListFor(syms[j]), j>> : j \in Declared}
    /\ \A r, q \in Made : r[4] = q[4] => r = q

(* The blocks open at j in the function that starts at s, and the last.    *)
Depth(h, j) == Cardinality({x \in h .. j : IsBody(x, "BlockStart")})
               - Cardinality({x \in h .. j : IsBody(x, "BlockEnd")})
OpenBlocks(s, j) == {h \in s + 1 .. j - 1 : IsBody(h, "BlockStart")
                                            /\ \A x \in h .. j - 1 : Depth(h, x) >= 1}
FuncStartBefore(j) == LastOf({s \in 1 .. j - 1 : IsBody(s, "FuncStart")})

(* A local is in the innermost block open where it is defined, and what is *)
(* defined outside of all blocks is a parameter, however blocks nest and   *)
(* follow each other.                                                      *)
LocalsInScope ==
  Stopped =>
    \A o \in DOMAIN overlays : \A x \in DOMAIN overlays[o].funcs :
      LET f == overlays[o].funcs[x] IN
      /\ \A v \in DOMAIN f.params :
           OpenBlocks(FuncStartBefore(f.params[v].at), f.params[v].at) = {}
      /\ \A b \in DOMAIN f.blocks : \A v \in DOMAIN f.blocks[b].locals :
           LET at == f.blocks[b].locals[v].at
               open == OpenBlocks(FuncStartBefore(at), at)
           IN open # {} /\ f.blocks[b].at = LastOf(open)

AllFuncs == UNION {{overlays[o].funcs[x] : x \in DOMAIN overlays[o].funcs} : o \in DOMAIN overlays}

HasBody(f) == f.lineStart # 0

(* The FuncStarts that blocks and parameters of f come from.               *)
BodiesOf(f) == {FuncStartBefore(f.blocks[b].at) : b \in DOMAIN f.blocks}
               \cup {FuncStartBefore(f.params[v].at) : v \in DOMAIN f.params}

BodyAddrs(o) == {<<ValidName[syms[j].name], syms[j].value>> :
                  j \in {h \in Outside({"FuncStart"}) : ActiveAt(h) = o}}

(* A function body may occur any number of times, and its declaration too: *)
(* per overlay, the bodies with one name and address make one function     *)
(* with a body, from the first of them, on the first declaration if there  *)
(* is one; none is made next to a declaration, unless that comes later.    *)
(* Functions with the same name at different addresses are kept apart:     *)
(* each of them that the stream gives a body has one of its own.           *)
OneBodyPerFunction ==
  (mode = "end" /\ \A j \in Pos : IsBody(j, "FuncStart") => syms[j].line # 0) =>
    /\ \A f \in AllFuncs : \A s, h \in BodiesOf(f) : s = h
    /\ \A o \in DOMAIN overlays :
         LET fs == overlays[o].funcs IN
         \A x, y \in DOMAIN fs :
           x < y /\ fs[x].key = fs[y].key /\ fs[x].addr = fs[y].addr
           => ~ HasBody(fs[y]) /\ ~ fs[y].void
    /\ \A o \in DOMAIN overlays :
         {<<overlays[o].funcs[x].key, overlays[o].funcs[x].addr>> :
            x \in {y \in DOMAIN overlays[o].funcs : HasBody(overlays[o].funcs[y])}}
         = BodyAddrs(o)

(* The sum of the increments of the line entries after h, up to j.         *)
IncOf(j) == IF IsBody(j, "IncSLD") THEN 1
            ELSE IF syms[j].body \in IncBodies THEN syms[j].inc ELSE 0
SumOfIncs(h, j) ==
  LET sum[x \in h .. Len(syms)] == IF x = h THEN 0 ELSE sum[x - 1] + IncOf(x) IN sum[j]

LineSetAt(j) == LastOf({h \in 1 .. j : IsBody(h, "SetSLD") \/ IsBody(h, "SetSLD2")})
LineAt(j) == (syms[LineSetAt(j)].line + SumOfIncs(LineSetAt(j), j)) % Uint32
PathAt(j) == syms[LastOf({h \in 1 .. j : IsBody(h, "SetSLD2")})].path

(* The line number of each entry is that of the last SetSLD or SetSLD2     *)
(* before it plus the increments since, modulo 2^32; its path is that of   *)
(* the last SetSLD2.  File.String computes the same of the whole stream.   *)
LinesFollowSLD ==
  Stopped =>
    \A o \in DOMAIN overlays : \A x \in DOMAIN overlays[o].lines :
      LET e == overlays[o].lines[x] IN
      syms[e.at].body \in SLDBodies => e.line = LineAt(e.at) /\ e.path = PathAt(e.at)

VarsOf(o) == Declarations(o)
  \cup UNION {{f.params[v] : v \in DOMAIN f.params}
              \cup UNION {{f.blocks[b].locals[v] : v \in DOMAIN f.blocks[b].locals} :
                            b \in DOMAIN f.blocks} :
                f \in {o.funcs[x] : x \in DOMAIN o.funcs}}

DeclUses ==
  {v \in UNION {VarsOf(overlays[o]) : o \in DOMAIN overlays} : v.ref.to = "tagged"}

(* The two passes agree: a declaration is bound to the object that members *)
(* and typedefs of the same tag are bound to, and where the stream defines *)
(* the tag that is a definition's object, not one made for the use.        *)
DeclsBindDefinitions ==
  Stopped =>
    \A v \in DeclUses :
      LET s == syms[v.at] IN
      /\ types[v.ref.id].kind = KindOfBase(s.base) /\ types[v.ref.id].tag = TagOf(s)
      /\ \A u \in Uses \cup DeclUses :
           syms[u.at].base = s.base /\ TagOf(syms[u.at]) = TagOf(s) => u.ref = v.ref
      /\ (\E j \in Scaffolds : /\ KindOf(syms[j].class) = KindOfBase(s.base)
                               /\ ValidName[syms[j].name] = TagOf(s))
         => v.ref.id \in Scaffolds

(* The streams parse_decls.go is written for.                              *)
FuncClosed(s) ==
  \E e \in Pos : /\ e > s /\ IsBody(e, "FuncEnd")
    /\ \A j \in s + 1 .. e - 1 :
         \/ IsDefn(syms[j]) /\ TypeParses(syms[j]) /\ syms[j].class \in LocalClasses
         \/ IsBody(j, "BlockStart")
         \/ IsBody(j, "BlockEnd") /\ OpenBlocks(s, j) # {}

OutsideOK(j) ==
  \/ syms[j].body \in NameBodies \cup {"SetSLD2", "EndSLD", "FuncStart", "Overlay"}
  \/ IsDefn(syms[j]) /\ syms[j].class \in IgnoredClasses(syms[j].body)
  \/ IsGlobal(syms[j]) /\ TypeParses(syms[j])
  \/ IsBody(j, "SetOverlay")
       /\ \E h \in 1 .. j - 1 : IsBody(h, "Overlay") /\ syms[h].id = syms[j].value
  \/ j > 1 /\ syms[j].body \in SLDBodies /\ syms[j - 1].body \in SLDBodies

WellFormedDecls ==
  /\ \A j \in Pos : InFunc(j) \/ OutsideOK(j)
  /\ \A j \in Pos : IsBody(j, "FuncStart") => FuncClosed(j)
  /\ syms # <<>> => syms[Len(syms)].body \notin SLDBodies

(* A stream whose functions are closed, whose blocks match, whose line     *)
(* groups are followed by something, and which uses supported classes,     *)
(* types and overlays is translated without a panic.                       *)
WellFormedDeclsAccepted == WellFormed /\ WellFormedDecls => mode \notin DeclPanics

(* parse_decls.go:139, panic("unreachable"), of parseLineNumbers.          *)
LinesEndUnreachable == ~ (mode = "unreachable" /\ IsBody(d, "SetSLD2"))

(* c/c.go:123, 125, the line numbers of a block are "relative to the       *)
(* function": line 1 of it is the line of its FuncStart.                   *)
BlockLinesRelative ==
  mode = "end" =>
    \A o \in DOMAIN overlays : \A x \in DOMAIN overlays[o].lines :
      LET e == overlays[o].lines[x] IN
      syms[e.at].body \in {"BlockStart", "BlockEnd"} =>
        e.line = (syms[FuncStartBefore(e.at)].line + syms[e.at].line - 1) % Uint32
=============================================================================
