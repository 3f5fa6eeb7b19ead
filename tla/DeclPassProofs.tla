--------------------------- MODULE DeclPassProofs ---------------------------
(***************************************************************************)
(* Proofs about DeclPass, for every set of streams.                        *)
(***************************************************************************)
EXTENDS DeclPass, TypePassProofs

-----------------------------------------------------------------------------
(* The types of the state of ParseDecls.                                   *)

(* parseType keeps the state of the first pass typed.                      *)
LEMMA MakeTypeTyped ==
  ASSUME Typed, NEW s, IsSymbol(s), IsDefn(s), MakeType(s), UnchangedPass1
  PROVE  Typed'
<1>1. /\ fresh' \in Nat /\ DOMAIN types' \subseteq 0 .. fresh' - 1
      /\ \A t \in DOMAIN types' : types'[t] \in Types
  BY ParseTypeProperty DEF MakeType
<1>2. DOMAIN types \subseteq DOMAIN types'
  BY ParseTypeProperty DEF MakeType
<1> QED
  BY <1>1, <1>2 DEF UnchangedPass1, cursor, Typed, TypeOK, Ids

(* ParseDecls keeps it too, and its indices are positions.                 *)
Begun == Typed /\ d \in Nat \ {0} /\ m \in Nat

LEMMA DeclsTyped == Begun /\ ParseDeclsStep => Begun'
<1> SUFFICES ASSUME Begun, ParseDeclsStep PROVE Begun'
  OBVIOUS
<1> USE DEF Begun
<1>s. Len(syms) \in Nat /\ \A j \in 1 .. Len(syms) : IsSymbol(syms[j])
  BY SymbolProperty DEF Typed
<1>u. UnchangedTypes /\ UnchangedPass1 => Typed'
  BY DEF UnchangedTypes, UnchangedPass1, cursor, Typed, TypeOK, Ids
<1>p. UnchangedPass1
  BY DEF ParseDeclsStep
<1>r. ASSUME NEW used \in Nat, Return(used) PROVE Begun'
  BY <1>r, <1>u, <1>p DEF Return
<1>1. CASE AddGlobal
  <2>1. MakeType(Sym) /\ d' = d + 1 /\ m' = m /\ IsDefn(Sym) /\ d <= Len(syms)
    BY <1>1 DEF AddGlobal, AtDecl, IsGlobal, Advance, inner
  <2>2. IsSymbol(Sym)
    BY <1>s, <2>1 DEF Sym
  <2> QED
    BY <1>p, <2>1, <2>2, MakeTypeTyped
<1>2. CASE AddLocal
  <2>1. /\ MakeType(syms[InnerPos]) /\ d' = d /\ m' = m + 1
        /\ IsDefn(syms[InnerPos]) /\ InnerPos <= Len(syms)
    BY <1>2 DEF AddLocal, AtLocal, AtInner
  <2>2. IsSymbol(syms[InnerPos])
    BY <1>s, <2>1 DEF InnerPos
  <2> QED
    BY <1>p, <2>1, <2>2, MakeTypeTyped
<1>3. CASE SkipFunc
  <2>1. FuncEnds # {} /\ d' = FirstOf(FuncEnds) + 1 /\ m' = m /\ UnchangedTypes
    BY <1>3 DEF SkipFunc, IsDuplicate, inner
  <2>2. FuncEnds \subseteq Nat
    BY <1>s DEF FuncEnds
  <2>3. FirstOf(FuncEnds) \in FuncEnds
    BY <2>1, <2>2, LeastExists DEF FirstOf
  <2>4. FirstOf(FuncEnds) \in Nat
    BY <2>2, <2>3
  <2>5. d' \in Nat \ {0} /\ m' \in Nat
    BY <2>1, <2>4
  <2> QED
    BY <1>p, <1>u, <2>1, <2>5
<1>4. CASE EndLines
  BY <1>4, <1>r DEF EndLines
<1>5. CASE EndFunc
  BY <1>5, <1>r DEF EndFunc
<1>6. CASE BeginLines \/ NextLine \/ BeginFunc \/ BlockStart \/ BlockEnd
  <2>1. UnchangedTypes /\ d' = d /\ m' \in {0, m + 1}
    BY <1>6 DEF BeginLines, NextLine, BeginFunc, BlockStart, BlockEnd
  <2> QED
    BY <1>p, <1>u, <2>1
<1>7. CASE AddSymbol \/ Ignore \/ AddOverlay \/ SetOverlay
  <2>1. UnchangedTypes /\ d' = d + 1 /\ m' = m
    BY <1>7 DEF AddSymbol, Ignore, AddOverlay, SetOverlay, Advance, inner
  <2> QED
    BY <1>p, <1>u, <2>1
<1>8. CASE \/ FinishDecls \/ BadGlobal \/ BadTopClass \/ UnknownOverlay \/ BadTopBody \/ SliceEnd
           \/ NilBlock \/ BadLocalType \/ BadLocalClass \/ BadFuncBody
  <2>1. UnchangedTypes /\ d' = d /\ m' = m
    BY <1>8 DEF FinishDecls, BadGlobal, BadTopClass, UnknownOverlay, BadTopBody, SliceEnd,
       NilBlock, BadLocalType, BadLocalClass, BadFuncBody, DeclPanic, inner
  <2> QED
    BY <1>p, <1>u, <2>1
<1> QED
  BY <1>1, <1>2, <1>3, <1>4, <1>5, <1>6, <1>7, <1>8
  DEF ParseDeclsStep, DeclStep, LinesStep, FuncStep

(* ParseDecls does nothing before ParseTypes has ended.                    *)
Waits == pc # "done" => DeclInit

DeclTyped == Begun /\ DeclTypeOK /\ Waits

(* What the assumptions say of a symbol.                                   *)
LEMMA DeclSymbolProperty ==
  ASSUME Typed
  PROVE  /\ Len(syms) \in Nat /\ DOMAIN syms = 1 .. Len(syms)
         /\ \A j \in 1 .. Len(syms) : IsSymbol(syms[j]) /\ IsDeclSymbol(syms[j])
<1>1. Len(syms) \in Nat /\ DOMAIN syms = 1 .. Len(syms)
      /\ \A j \in 1 .. Len(syms) : IsSymbol(syms[j])
  BY SymbolProperty DEF Typed
<1>2. \A j \in 1 .. Len(syms) : IsDeclSymbol(syms[j])
  BY <1>1, DeclAssumption DEF Typed
<1>3. QED
  BY <1>1, <1>2

(* The current overlay, and a step that writes it.                         *)
Cur == overlays[curOverlay]
Write(o) == overlays' = [overlays EXCEPT ![curOverlay] = o]

LEMMA WriteProperty ==
  ASSUME overlays \in Seq(OverlayRecs), curOverlay \in DOMAIN overlays, NEW o, Write(o)
  PROVE  /\ Len(overlays') = Len(overlays) /\ DOMAIN overlays' = DOMAIN overlays
         /\ overlays'[curOverlay] = o
         /\ \A x \in DOMAIN overlays : x # curOverlay => overlays'[x] = overlays[x]
         /\ o \in OverlayRecs => overlays' \in Seq(OverlayRecs)
<1> DEFINE Ovs == OverlayRecs
<1>1. overlays \in Seq(Ovs) /\ (o \in Ovs <=> o \in OverlayRecs)
  OBVIOUS
<1> HIDE DEF Ovs
<1>2. DOMAIN overlays = 1 .. Len(overlays) /\ Len(overlays) \in Nat
  BY <1>1
<1>3. /\ DOMAIN overlays' = DOMAIN overlays
      /\ overlays'[curOverlay] = o
      /\ \A x \in DOMAIN overlays : x # curOverlay => overlays'[x] = overlays[x]
  BY <1>1, <1>2 DEF Write
<1>4. Len(overlays') = Len(overlays)
  BY <1>1, <1>2, <1>3 DEF Write
<1>5. o \in Ovs => overlays' \in Seq(Ovs)
  BY <1>1 DEF Write
<1>6. QED
  BY <1>1, <1>3, <1>4, <1>5 DEF Ovs

(* A sequence with one more element, and with one element changed.         *)
LEMMA OneMore ==
  ASSUME NEW S, NEW s \in Seq(S), NEW e \in S
  PROVE  /\ Append(s, e) \in Seq(S) /\ Len(Append(s, e)) = Len(s) + 1 /\ Len(s) \in Nat
         /\ DOMAIN s = 1 .. Len(s) /\ DOMAIN Append(s, e) = 1 .. Len(s) + 1
         /\ Append(s, e)[Len(s) + 1] = e
         /\ \A x \in DOMAIN s : Append(s, e)[x] = s[x]
BY AppendProperties

LEMMA OneChanged ==
  ASSUME NEW S, NEW s \in Seq(S), NEW k \in DOMAIN s, NEW e \in S
  PROVE  /\ [s EXCEPT ![k] = e] \in Seq(S) /\ Len([s EXCEPT ![k] = e]) = Len(s)
         /\ DOMAIN [s EXCEPT ![k] = e] = DOMAIN s /\ [s EXCEPT ![k] = e][k] = e
         /\ \A x \in DOMAIN s : x # k => [s EXCEPT ![k] = e][x] = s[x]
<1>1. DOMAIN s = 1 .. Len(s) /\ Len(s) \in Nat
  OBVIOUS
<1>2. DOMAIN [s EXCEPT ![k] = e] = DOMAIN s
  OBVIOUS
<1>3. Len([s EXCEPT ![k] = e]) = Len(s)
  BY <1>1, <1>2
<1>4. QED
  BY <1>1, <1>2, <1>3

SymbolRecs == [at : Nat, addr : Nat, name : Names]

(* An overlay that gets a symbol, a line, a variable or functions.         *)
LEMMA OverlayTyped ==
  ASSUME NEW o \in OverlayRecs
  PROVE  /\ \A e \in SymbolRecs : [o EXCEPT !.symbols = Append(@, e)] \in OverlayRecs
         /\ \A e \in Lines : [o EXCEPT !.lines = Append(@, e)] \in OverlayRecs
         /\ \A e \in Vars : [o EXCEPT !.vars = Append(@, e)] \in OverlayRecs
         /\ \A f \in FuncRecs : [o EXCEPT !.funcs = Append(@, f)] \in OverlayRecs
         /\ \A fs \in Seq(FuncRecs) : [o EXCEPT !.funcs = fs] \in OverlayRecs
<1> DEFINE Ls == Lines
           Vs == Vars
           Fs == FuncRecs
           Ss == SymbolRecs
<1>0. Ss = SymbolRecs /\ Ls = Lines /\ Vs = Vars /\ Fs = FuncRecs
  OBVIOUS
<1>1. OverlayRecs = [id : Nat, symbols : Seq(Ss), lines : Seq(Ls), vars : Seq(Vs), funcs : Seq(Fs)]
  BY DEF OverlayRecs, SymbolRecs
<1> HIDE DEF Ls, Vs, Fs, Ss
<1>2. /\ \A e \in Ss : Append(o.symbols, e) \in Seq(Ss)
      /\ \A e \in Ls : Append(o.lines, e) \in Seq(Ls)
      /\ \A e \in Vs : Append(o.vars, e) \in Seq(Vs)
      /\ \A e \in Fs : Append(o.funcs, e) \in Seq(Fs)
  BY <1>1
<1>3. \A e \in SymbolRecs : [o EXCEPT !.symbols = Append(@, e)] \in OverlayRecs
  BY <1>0, <1>1, <1>2
<1>4. \A e \in Lines : [o EXCEPT !.lines = Append(@, e)] \in OverlayRecs
  BY <1>0, <1>1, <1>2
<1>5. \A e \in Vars : [o EXCEPT !.vars = Append(@, e)] \in OverlayRecs
  BY <1>0, <1>1, <1>2
<1>6. \A f \in FuncRecs : [o EXCEPT !.funcs = Append(@, f)] \in OverlayRecs
  BY <1>0, <1>1, <1>2
<1>7. \A fs \in Seq(FuncRecs) : [o EXCEPT !.funcs = fs] \in OverlayRecs
  BY <1>0, <1>1
<1>9. QED
  BY <1>3, <1>4, <1>5, <1>6, <1>7, Zenon

(* A function that gets what parseFunc gives it.                           *)
LEMMA FuncTyped ==
  ASSUME NEW f \in FuncRecs
  PROVE  /\ \A l \in 0 .. Uint32 - 1 : [f EXCEPT !.lineEnd = l] \in FuncRecs
         /\ \A p \in Nat, l \in 0 .. Uint32 - 1 :
              [f EXCEPT !.path = p, !.lineStart = l] \in FuncRecs
         /\ \A b \in BlockRecs : [f EXCEPT !.blocks = Append(@, b)] \in FuncRecs
         /\ \A vs \in Seq(Vars) : [f EXCEPT !.params = vs] \in FuncRecs
         /\ \A k \in DOMAIN f.blocks : \A vs \in Seq(Vars) :
              [f EXCEPT !.blocks[k].locals = vs] \in FuncRecs
<1> DEFINE Vs == Vars
           Bs == BlockRecs
           Ns == Seq(Nat)
<1>0. Vs = Vars /\ Bs = BlockRecs
  OBVIOUS
<1>1. FuncRecs = [at : Nat, addr : Nat, key : Names, name : Ns, ref : Refs, void : BOOLEAN,
             path : Nat, lineStart : 0 .. Uint32 - 1, lineEnd : 0 .. Uint32 - 1,
             params : Seq(Vs), blocks : Seq(Bs)]
  BY DEF FuncRecs
<1>2. Bs = [at : Nat, locals : Seq(Vs)]
  BY DEF BlockRecs
<1> HIDE DEF Vs, Bs, Ns
<1>3. \A l \in 0 .. Uint32 - 1 : [f EXCEPT !.lineEnd = l] \in FuncRecs
  BY <1>1
<1>6. ASSUME NEW p \in Nat, NEW l \in 0 .. Uint32 - 1
      PROVE  [f EXCEPT !.path = p, !.lineStart = l] \in FuncRecs
  <2>1. [f EXCEPT !.path = p] \in FuncRecs
    BY <1>1
  <2>2. \A g \in FuncRecs : [g EXCEPT !.lineStart = l] \in FuncRecs
    BY <1>1
  <2>3. QED
    BY <2>1, <2>2
<1>7. \A vs \in Seq(Vars) : [f EXCEPT !.params = vs] \in FuncRecs
  BY <1>0, <1>1
<1>4. \A b \in BlockRecs : [f EXCEPT !.blocks = Append(@, b)] \in FuncRecs
  <2>1. \A b \in Bs : Append(f.blocks, b) \in Seq(Bs)
    BY <1>1
  <2>2. QED
    BY <1>0, <1>1, <2>1
<1>5. ASSUME NEW k \in DOMAIN f.blocks, NEW vs \in Seq(Vars)
      PROVE  [f EXCEPT !.blocks[k].locals = vs] \in FuncRecs
  <2> DEFINE b == [f.blocks[k] EXCEPT !.locals = vs]
             bs == [f.blocks EXCEPT ![k] = b]
  <2>1. f.blocks \in Seq(Bs) /\ f.blocks[k] \in Bs
    BY <1>1
  <2>2. b \in Bs
    BY <1>0, <1>2, <2>1
  <2>3. [f EXCEPT !.blocks[k].locals = vs] = [f EXCEPT !.blocks = bs]
    OBVIOUS
  <2> HIDE DEF b
  <2>4. bs \in Seq(Bs)
    BY <2>1, <2>2
  <2> HIDE DEF bs
  <2>5. QED
    BY <1>1, <2>3, <2>4
<1>8. QED
  BY <1>3, <1>4, <1>5, <1>6, <1>7, Zenon

(* The parts of a typed state that the steps use.                          *)
LEMMA CurTyped ==
  ASSUME DeclTyped
  PROVE  /\ Cur \in OverlayRecs /\ Funcs = Cur.funcs /\ Funcs \in Seq(FuncRecs)
         /\ Len(Funcs) \in Nat /\ DOMAIN Funcs = 1 .. Len(Funcs)
         /\ Len(overlays) \in Nat /\ DOMAIN overlays = 1 .. Len(overlays)
         /\ curOverlay \in 1 .. Len(overlays)
         /\ \A x \in DOMAIN Funcs : Funcs[x] \in FuncRecs
         /\ mode = "func" => CurFunc \in FuncRecs
<1> DEFINE Ovs == OverlayRecs
           Fs == FuncRecs
<1>1. overlays \in Seq(Ovs) /\ curOverlay \in DOMAIN overlays /\ (mode = "func" => fn \in DOMAIN Funcs)
  BY DEF DeclTyped, DeclTypeOK
<1>2. \A o \in Ovs : o.funcs \in Seq(Fs)
  BY DEF OverlayRecs
<1>0. Ovs = OverlayRecs /\ Fs = FuncRecs
  OBVIOUS
<1> HIDE DEF Ovs, Fs
<1>3. Cur \in Ovs /\ Len(overlays) \in Nat /\ DOMAIN overlays = 1 .. Len(overlays)
  BY <1>1 DEF Cur
<1>4. Funcs = Cur.funcs /\ Funcs \in Seq(Fs)
  BY <1>2, <1>3 DEF Cur, Funcs
<1>5. \A x \in DOMAIN Funcs : Funcs[x] \in Fs
  BY <1>4
<1>6. Len(Funcs) \in Nat /\ DOMAIN Funcs = 1 .. Len(Funcs)
  BY <1>4
<1>7. mode = "func" => CurFunc \in Fs
  BY <1>1, <1>5 DEF CurFunc
<1>8. QED
  BY <1>0, <1>1, <1>3, <1>4, <1>5, <1>6, <1>7

LineRecs == [path : Nat, line : 0 .. Uint32 - 1]

LEMMA LineTyped ==
  ASSUME DeclTyped, NEW j \in 1 .. Len(syms), NEW line \in LineRecs
  PROVE  /\ LineEntry(j, line) \in Lines
         /\ \A o \in OverlayRecs : WithLine(o, j, line) \in OverlayRecs
<1>1. syms[j].value \in Nat
  BY DeclSymbolProperty DEF DeclTyped, Begun, IsDeclSymbol
<1>2. j \in Nat
  BY DeclSymbolProperty DEF DeclTyped, Begun
<1>3. LineEntry(j, line) \in Lines
  BY <1>1, <1>2 DEF LineEntry, Lines, LineRecs
<1>4. QED
  BY <1>3, OverlayTyped, Zenon DEF WithLine

(* The declaration made of the definition at j.                            *)
LEMMA VarTyped ==
  ASSUME DeclTyped, NEW j \in 1 .. Len(syms), IsDefn(syms[j])
  PROVE  /\ Var(j) \in Vars /\ TypeRef(syms[j]) \in Refs
         /\ ValidName[syms[j].name] \in Names
<1>1. IsSymbol(syms[j]) /\ j \in Nat
  BY DeclSymbolProperty DEF DeclTyped, Begun
<1>2. TypeRef(syms[j]) \in Refs
  BY <1>1, ParseTypeProperty DEF DeclTyped, Begun
<1>3. ValidName[syms[j].name] \in Names
  BY <1>1, ValidNameProperty DEF IsSymbol
<1>4. QED
  BY <1>1, <1>2, <1>3 DEF Var, Vars

LEMMA NewFuncTyped ==
  ASSUME DeclTyped, NEW j \in 1 .. Len(syms), NEW key \in Names, NEW name \in Seq(Nat),
         NEW ref \in Refs, NEW void \in BOOLEAN
  PROVE  Func(j, key, name, ref, void) \in FuncRecs
<1>1. j \in Nat /\ syms[j].value \in Nat /\ 0 \in 0 .. Uint32 - 1
  BY DeclSymbolProperty, DeclAssumption DEF DeclTyped, Begun, IsDeclSymbol
<1>2. <<>> \in Seq(Vars) /\ <<>> \in Seq(BlockRecs)
  OBVIOUS
<1>3. QED
  BY <1>1, <1>2 DEF Func, FuncRecs

(* What AddGlobal and AddSymbol make.                                      *)
NewSymbol == [at |-> d, addr |-> Sym.value, name |-> Sym.name]
NewFunc == Func(d, ValidName[Sym.name], ValidName[Sym.name], TypeRef(Sym), FALSE)

LEMMA AddSymbolWrites ==
  ASSUME DeclTyped, AddSymbol
  PROVE  /\ Write([Cur EXCEPT !.symbols = Append(@, NewSymbol)])
         /\ NewSymbol \in SymbolRecs
         /\ [Cur EXCEPT !.symbols = Append(@, NewSymbol)] \in OverlayRecs
<1>1. d \in 1 .. Len(syms) /\ Sym.body \in NameBodies
  BY DeclSymbolProperty DEF AddSymbol, AtDecl, DeclTyped, Begun
<1>2. IsDeclSymbol(Sym)
  BY <1>1, DeclSymbolProperty DEF DeclTyped, Begun, Sym
<1>3. NewSymbol \in SymbolRecs
  BY <1>1, <1>2 DEF NewSymbol, SymbolRecs, IsDeclSymbol
<1>4. Write([Cur EXCEPT !.symbols = Append(@, NewSymbol)])
  BY DEF AddSymbol, Write, Cur, NewSymbol
<1>5. Cur \in OverlayRecs
  BY CurTyped
<1>6. QED
  BY <1>3, <1>4, <1>5, OverlayTyped, Zenon

LEMMA AddGlobalWrites ==
  ASSUME DeclTyped, AddGlobal
  PROVE  /\ d \in 1 .. Len(syms) /\ IsDefn(Sym)
         /\ Sym.func => /\ NewFunc \in FuncRecs
                        /\ Write([Cur EXCEPT !.funcs = Append(@, NewFunc)])
                        /\ [Cur EXCEPT !.funcs = Append(@, NewFunc)] \in OverlayRecs
         /\ ~ Sym.func => /\ Var(d) \in Vars
                          /\ Write([Cur EXCEPT !.vars = Append(@, Var(d))])
                          /\ [Cur EXCEPT !.vars = Append(@, Var(d))] \in OverlayRecs
<1>1. d \in 1 .. Len(syms) /\ IsDefn(Sym)
  BY DeclSymbolProperty DEF AddGlobal, IsGlobal, AtDecl, DeclTyped, Begun
<1>2. Var(d) \in Vars /\ TypeRef(Sym) \in Refs /\ ValidName[Sym.name] \in Names
  BY <1>1, VarTyped DEF Sym
<1>3. NewFunc \in FuncRecs
  <2>1. ValidName[Sym.name] \in Seq(Nat)
    BY <1>2, NamesAssumption
  <2>2. QED
    BY <1>1, <1>2, <2>1, NewFuncTyped DEF NewFunc
<1>4. Sym.func => Write([Cur EXCEPT !.funcs = Append(@, NewFunc)])
  BY DEF AddGlobal, Write, Cur, NewFunc
<1>5. ~ Sym.func => Write([Cur EXCEPT !.vars = Append(@, Var(d))])
  BY DEF AddGlobal, Write, Cur
<1>6. Cur \in OverlayRecs
  BY CurTyped
<1>7. /\ [Cur EXCEPT !.funcs = Append(@, NewFunc)] \in OverlayRecs
      /\ [Cur EXCEPT !.vars = Append(@, Var(d))] \in OverlayRecs
  BY <1>2, <1>3, <1>6, OverlayTyped, Zenon
<1>8. QED
  BY <1>1, <1>2, <1>3, <1>4, <1>5, <1>7, Zenon

(* findFunc returns the first function with the name and the address, or a *)
(* new one after all the others.                                           *)
LEMMA FindFuncProperty ==
  ASSUME DeclTyped, d \in 1 .. Len(syms), Sym.body = "FuncStart"
  PROVE  /\ FuncsAfterFind \in Seq(FuncRecs) /\ Len(FuncsAfterFind) \in Nat
         /\ DOMAIN FuncsAfterFind = 1 .. Len(FuncsAfterFind)
         /\ Len(Funcs) <= Len(FuncsAfterFind)
         /\ FindFunc \in DOMAIN FuncsAfterFind
         /\ FuncsAfterFind[FindFunc] \in FuncRecs
         /\ \A x \in DOMAIN Funcs : FuncsAfterFind[x] = Funcs[x]
         /\ \/ /\ FuncsAfterFind = Funcs /\ Found(Sym) # {}
               /\ FindFunc \in Found(Sym) /\ \A y \in Found(Sym) : FindFunc <= y
            \/ /\ Found(Sym) = {} /\ Len(FuncsAfterFind) = Len(Funcs) + 1
               /\ FindFunc = Len(Funcs) + 1 /\ FuncsAfterFind[FindFunc] = EmptyFunc
<1>1. Sym = syms[d] /\ Sym.name \in Names /\ Sym.value \in Nat
  BY DeclSymbolProperty DEF DeclTyped, Begun, Sym, IsDeclSymbol, NameBodies
<1>2. Found(Sym) \subseteq DOMAIN Funcs /\ DOMAIN Funcs = 1 .. Len(Funcs) /\ Len(Funcs) \in Nat
  BY CurTyped DEF Found, Namesakes
<1>3. CASE Found(Sym) # {}
  <2>1. FuncsAfterFind = Funcs /\ FindFunc = FirstOf(Found(Sym))
    BY <1>1, <1>3 DEF FuncsAfterFind, FindFunc
  <2>2. Found(Sym) \subseteq Nat
    BY <1>2
  <2>3. FirstOf(Found(Sym)) \in Found(Sym) /\ \A y \in Found(Sym) : FirstOf(Found(Sym)) <= y
    BY <1>3, <2>2, LeastExists DEF FirstOf
  <2>4. Funcs \in Seq(FuncRecs) /\ \A x \in DOMAIN Funcs : Funcs[x] \in FuncRecs
    BY CurTyped
  <2>5. FindFunc \in DOMAIN Funcs /\ Funcs[FindFunc] \in FuncRecs
    BY <1>2, <2>1, <2>3, <2>4
  <2>6. Len(Funcs) <= Len(FuncsAfterFind)
    BY <1>2, <2>1
  <2>7. QED
    BY <1>2, <1>3, <2>1, <2>3, <2>4, <2>5, <2>6, Zenon
<1>4. CASE Found(Sym) = {}
  <2>1. FuncsAfterFind = Append(Funcs, EmptyFunc) /\ FindFunc = Len(Funcs) + 1
    BY <1>1, <1>4 DEF FuncsAfterFind, FindFunc
  <2>2. EmptyFunc \in FuncRecs
    <3> DEFINE name == IF Namesakes(ValidName[Sym.name]) = {} THEN ValidName[Sym.name]
                       ELSE UniqueFuncName(ValidName[Sym.name], Sym.value)
               basic == [to |-> "basic", id |-> 0]
    <3>1. ValidName[Sym.name] \in Names /\ ValidName[Sym.name] \in Seq(Nat)
      BY <1>1, ValidNameProperty
    <3>2. name \in Seq(Nat)
      BY <1>1, <3>1 DEF UniqueFuncName
    <3>3. basic \in Refs
      BY DEF Refs
    <3>4. EmptyFunc = Func(d, ValidName[Sym.name], name, basic, TRUE)
      BY <1>1 DEF EmptyFunc
    <3> HIDE DEF name, basic
    <3>5. QED
      BY <3>1, <3>2, <3>3, <3>4, NewFuncTyped
  <2>3. Funcs \in Seq(FuncRecs)
    BY CurTyped
  <2> HIDE DEF FuncRecs
  <2>4. /\ FuncsAfterFind \in Seq(FuncRecs) /\ Len(FuncsAfterFind) = Len(Funcs) + 1
        /\ DOMAIN FuncsAfterFind = 1 .. Len(Funcs) + 1
        /\ FuncsAfterFind[Len(Funcs) + 1] = EmptyFunc
        /\ \A x \in DOMAIN Funcs : FuncsAfterFind[x] = Funcs[x]
    BY <2>1, <2>2, <2>3, OneMore
  <2>5. QED
    BY <1>2, <1>4, <2>1, <2>2, <2>4
<1>5. QED
  BY <1>3, <1>4

StartLine == [path |-> Sym.path, line |-> Sym.line]
BegunFunc == [[FuncsAfterFind[FindFunc] EXCEPT !.path = Sym.path] EXCEPT !.lineStart = Sym.line]
BegunFuncs == [FuncsAfterFind EXCEPT ![FindFunc] = BegunFunc]
BegunOverlay == WithLine([Cur EXCEPT !.funcs = BegunFuncs], d, StartLine)

LEMMA BeginFuncWrites ==
  ASSUME DeclTyped, BeginFunc
  PROVE  /\ d \in 1 .. Len(syms) /\ Sym.body = "FuncStart" /\ StartLine \in LineRecs
         /\ Write(BegunOverlay) /\ BegunOverlay \in OverlayRecs
         /\ BegunFuncs \in Seq(FuncRecs) /\ BegunFunc \in FuncRecs
         /\ DOMAIN BegunFuncs = DOMAIN FuncsAfterFind
         /\ BegunFuncs[FindFunc] = BegunFunc
         /\ \A x \in DOMAIN FuncsAfterFind : x # FindFunc => BegunFuncs[x] = FuncsAfterFind[x]
<1>1. d \in 1 .. Len(syms) /\ Sym.body = "FuncStart"
  BY DeclSymbolProperty DEF BeginFunc, AtFuncStart, AtDecl, DeclTyped, Begun
<1>2. Sym.path \in Nat /\ Sym.line \in 0 .. Uint32 - 1
  BY <1>1, DeclSymbolProperty DEF DeclTyped, Begun, Sym, IsDeclSymbol, LineBodies
<1>3. StartLine \in LineRecs
  BY <1>2 DEF StartLine, LineRecs
<1>4. /\ FuncsAfterFind \in Seq(FuncRecs) /\ FindFunc \in DOMAIN FuncsAfterFind
      /\ FuncsAfterFind[FindFunc] \in FuncRecs
  BY <1>1, FindFuncProperty, Zenon
<1>5. BegunFunc \in FuncRecs
  BY <1>2, <1>4, FuncTyped, Zenon DEF BegunFunc
<1>6. /\ BegunFuncs \in Seq(FuncRecs) /\ DOMAIN BegunFuncs = DOMAIN FuncsAfterFind
      /\ BegunFuncs[FindFunc] = BegunFunc
      /\ \A x \in DOMAIN FuncsAfterFind : x # FindFunc => BegunFuncs[x] = FuncsAfterFind[x]
  BY <1>4, <1>5, OneChanged DEF BegunFuncs
<1>7. [FuncsAfterFind EXCEPT ![FindFunc].path = Sym.path, ![FindFunc].lineStart = Sym.line]
      = BegunFuncs
  BY <1>4 DEF BegunFuncs, BegunFunc
<1>8. Write(BegunOverlay)
  BY <1>7, Zenon DEF BeginFunc, Write, Cur, StartLine, BegunOverlay
<1>9. StartLine \in LineRecs /\ Cur \in OverlayRecs /\ [Cur EXCEPT !.funcs = BegunFuncs] \in OverlayRecs
  BY <1>3, <1>6, CurTyped, OverlayTyped, Zenon
<1>10. BegunOverlay \in OverlayRecs
  BY <1>1, <1>9, LineTyped, Zenon DEF BegunOverlay
<1>11. QED
  BY <1>1, <1>3, <1>5, <1>6, <1>8, <1>10, Zenon

(* The current overlay with f for the current function.                    *)
FuncSet(f) == [Cur EXCEPT !.funcs = [Funcs EXCEPT ![fn] = f]]

LEMMA SetFuncWrites ==
  ASSUME DeclTyped, mode = "func", NEW f \in FuncRecs
  PROVE  /\ FuncSet(f) \in OverlayRecs /\ FuncSet(f).funcs = [Funcs EXCEPT ![fn] = f]
         /\ FuncSet(f).lines = Cur.lines /\ FuncSet(f).vars = Cur.vars
         /\ FuncSet(f).symbols = Cur.symbols
         /\ SetFunc(f) => Write(FuncSet(f))
         /\ \A line : SetFuncAndLine(f, line) => Write(WithLine(FuncSet(f), InnerPos, line))
         /\ DOMAIN [Funcs EXCEPT ![fn] = f] = DOMAIN Funcs
         /\ [Funcs EXCEPT ![fn] = f][fn] = f
         /\ \A x \in DOMAIN Funcs : x # fn => [Funcs EXCEPT ![fn] = f][x] = Funcs[x]
<1>1. Cur \in OverlayRecs /\ Funcs \in Seq(FuncRecs) /\ fn \in DOMAIN Funcs
  BY CurTyped, Zenon DEF DeclTyped, DeclTypeOK
<1>2. /\ [Funcs EXCEPT ![fn] = f] \in Seq(FuncRecs)
      /\ DOMAIN [Funcs EXCEPT ![fn] = f] = DOMAIN Funcs
      /\ [Funcs EXCEPT ![fn] = f][fn] = f
      /\ \A x \in DOMAIN Funcs : x # fn => [Funcs EXCEPT ![fn] = f][x] = Funcs[x]
  BY <1>1, OneChanged
<1>3. FuncSet(f) \in OverlayRecs
  BY <1>1, <1>2, OverlayTyped, Zenon DEF FuncSet
<1>4. SetFunc(f) => Write(FuncSet(f))
  BY Zenon DEF SetFunc, Write, FuncSet, Cur, Funcs
<1>5. \A line : SetFuncAndLine(f, line) => Write(WithLine(FuncSet(f), InnerPos, line))
  BY Zenon DEF SetFuncAndLine, Write, FuncSet, Cur, Funcs
<1>6. /\ FuncSet(f).funcs = [Funcs EXCEPT ![fn] = f]
      /\ FuncSet(f).lines = Cur.lines /\ FuncSet(f).vars = Cur.vars
      /\ FuncSet(f).symbols = Cur.symbols
  BY <1>1 DEF FuncSet, OverlayRecs
<1>7. QED
  BY <1>2, <1>3, <1>4, <1>5, <1>6, Zenon

(* An overlay with one line more.                                          *)
LEMMA WithLineProperty ==
  ASSUME NEW o \in OverlayRecs, NEW j, NEW line, LineEntry(j, line) \in Lines
  PROVE  /\ WithLine(o, j, line).symbols = o.symbols
         /\ WithLine(o, j, line).vars = o.vars /\ WithLine(o, j, line).funcs = o.funcs
         /\ Len(o.lines) \in Nat /\ DOMAIN o.lines = 1 .. Len(o.lines)
         /\ DOMAIN WithLine(o, j, line).lines = 1 .. Len(o.lines) + 1
         /\ WithLine(o, j, line).lines[Len(o.lines) + 1] = LineEntry(j, line)
         /\ \A x \in DOMAIN o.lines : WithLine(o, j, line).lines[x] = o.lines[x]
<1>1. o.lines \in Seq(Lines)
  BY DEF OverlayRecs
<1>2. /\ WithLine(o, j, line).lines = Append(o.lines, LineEntry(j, line))
      /\ WithLine(o, j, line).symbols = o.symbols
      /\ WithLine(o, j, line).vars = o.vars /\ WithLine(o, j, line).funcs = o.funcs
  BY DEF OverlayRecs, WithLine
<1> DEFINE e == LineEntry(j, line)
<1>3. e \in Lines
  OBVIOUS
<1> HIDE DEF e
<1>4. /\ Len(o.lines) \in Nat /\ DOMAIN o.lines = 1 .. Len(o.lines)
      /\ DOMAIN Append(o.lines, e) = 1 .. Len(o.lines) + 1
      /\ Append(o.lines, e)[Len(o.lines) + 1] = e
      /\ \A x \in DOMAIN o.lines : Append(o.lines, e)[x] = o.lines[x]
  BY <1>1, <1>3, OneMore
<1>5. QED
  BY <1>2, <1>4, Zenon DEF e

(* What EndFunc, BlockStart and AddLocal make of the current function.     *)
EndedFunc == [CurFunc EXCEPT !.lineEnd = syms[InnerPos].line]
BlockFunc == [CurFunc EXCEPT !.blocks = Append(@, Block(InnerPos))]
LocalFunc == IF curBlock # None
             THEN [CurFunc EXCEPT !.blocks[curBlock].locals = AddedTo(@, Var(InnerPos))]
             ELSE [CurFunc EXCEPT !.params = AddedTo(@, Var(InnerPos))]

LEMMA AddedToProperty ==
  ASSUME NEW list \in Seq(Vars), NEW v \in Vars
  PROVE  /\ AddedTo(list, v) \in Seq(Vars)
         /\ \A x \in DOMAIN AddedTo(list, v) :
              \/ x \in DOMAIN list /\ AddedTo(list, v)[x] = list[x]
              \/ AddedTo(list, v)[x] = v
<1> DEFINE Vs == Vars
<1>1. list \in Seq(Vs) /\ v \in Vs
  OBVIOUS
<1> HIDE DEF Vs
<1>2. /\ Append(list, v) \in Seq(Vs)
      /\ DOMAIN Append(list, v) = 1 .. Len(list) + 1 /\ DOMAIN list = 1 .. Len(list)
      /\ Len(list) \in Nat /\ Append(list, v)[Len(list) + 1] = v
      /\ \A x \in DOMAIN list : Append(list, v)[x] = list[x]
  BY <1>1, OneMore
<1>3. AddedTo(list, v) \in Seq(Vs)
  BY <1>1, <1>2 DEF AddedTo
<1>4. \A x \in DOMAIN AddedTo(list, v) :
        \/ x \in DOMAIN list /\ AddedTo(list, v)[x] = list[x]
        \/ AddedTo(list, v)[x] = v
  BY <1>1, <1>2 DEF AddedTo
<1>5. QED
  BY <1>3, <1>4 DEF Vs

(* The blocks of a function, and a typed one's parts.                      *)
LEMMA FuncParts ==
  ASSUME NEW f \in FuncRecs
  PROVE  /\ f.blocks \in Seq(BlockRecs) /\ f.params \in Seq(Vars)
         /\ Len(f.blocks) \in Nat /\ DOMAIN f.blocks = 1 .. Len(f.blocks)
         /\ \A b \in DOMAIN f.blocks : f.blocks[b] \in BlockRecs /\ f.blocks[b].locals \in Seq(Vars)
<1>1. f.blocks \in Seq(BlockRecs) /\ f.params \in Seq(Vars)
  BY DEF FuncRecs
<1>2. \A b \in BlockRecs : b.locals \in Seq(Vars)
  BY DEF BlockRecs
<1> HIDE DEF BlockRecs, Vars
<1>3. \A b \in DOMAIN f.blocks : f.blocks[b] \in BlockRecs
  BY <1>1
<1>4. Len(f.blocks) \in Nat /\ DOMAIN f.blocks = 1 .. Len(f.blocks)
  BY <1>1
<1>5. QED
  BY <1>1, <1>2, <1>3, <1>4, Zenon

LEMMA FuncAfterTyped ==
  ASSUME DeclTyped, mode = "func", InnerPos \in 1 .. Len(syms)
  PROVE  /\ syms[InnerPos].body = "FuncEnd" => EndedFunc \in FuncRecs
         /\ BlockFunc \in FuncRecs
         /\ IsDefn(syms[InnerPos]) => LocalFunc \in FuncRecs
<1>1. CurFunc \in FuncRecs
  BY CurTyped
<1>2. syms[InnerPos].body = "FuncEnd" => syms[InnerPos].line \in 0 .. Uint32 - 1
  BY DeclSymbolProperty DEF DeclTyped, Begun, IsDeclSymbol, LineBodies
<1>3. syms[InnerPos].body = "FuncEnd" => EndedFunc \in FuncRecs
  BY <1>1, <1>2, FuncTyped, Zenon DEF EndedFunc
<1>4. BlockFunc \in FuncRecs
  <2>1. InnerPos \in Nat /\ <<>> \in Seq(Vars)
    BY DeclSymbolProperty DEF DeclTyped, Begun
  <2>2. Block(InnerPos) \in BlockRecs
    BY <2>1 DEF Block, BlockRecs
  <2>3. QED
    BY <1>1, <2>2, FuncTyped, Zenon DEF BlockFunc
<1>5. ASSUME IsDefn(syms[InnerPos]) PROVE LocalFunc \in FuncRecs
  <2> DEFINE v == Var(InnerPos)
  <2>1. v \in Vars
    BY <1>5, VarTyped
  <2> HIDE DEF v
  <2>2. curBlock \in DOMAIN CurFunc.blocks \cup {None}
    BY DEF DeclTyped, DeclTypeOK
  <2>3. CASE curBlock = None
    <3>1. AddedTo(CurFunc.params, v) \in Seq(Vars)
      BY <1>1, <2>1, FuncParts, AddedToProperty, Zenon
    <3>2. LocalFunc = [CurFunc EXCEPT !.params = AddedTo(CurFunc.params, v)]
      BY <2>3, Zenon DEF LocalFunc, v
    <3>3. QED
      BY <1>1, <3>1, <3>2, FuncTyped, Zenon
  <2>4. CASE curBlock # None
    <3>1. AddedTo(CurFunc.blocks[curBlock].locals, v) \in Seq(Vars)
      BY <1>1, <2>1, <2>2, <2>4, FuncParts, AddedToProperty, Zenon
    <3>2. LocalFunc = [CurFunc EXCEPT !.blocks[curBlock].locals =
                         AddedTo(CurFunc.blocks[curBlock].locals, v)]
      BY <2>4, Zenon DEF LocalFunc, v
    <3>3. QED
      BY <1>1, <2>2, <2>4, <3>1, <3>2, FuncTyped, Zenon
  <2>5. QED
    BY <2>3, <2>4
<1>6. QED
  BY <1>3, <1>4, <1>5, Zenon

LEMMA ModProperty == \A x \in Int : x % Uint32 \in 0 .. Uint32 - 1
BY DeclAssumption

LEMMA LineAfterTyped ==
  ASSUME DeclTyped, NEW j \in 1 .. Len(syms), syms[j].body \in SLDBodies
  PROVE  LineAfter(syms[j]) \in LineRecs
<1>1. IsDeclSymbol(syms[j])
  BY DeclSymbolProperty DEF DeclTyped, Begun
<1>2. curLine \in LineRecs
  BY DEF DeclTyped, DeclTypeOK, LineRecs
<1>3. CASE syms[j].body = "IncSLD"
  <2>1. curLine.line + 1 \in Int
    BY <1>2 DEF LineRecs
  <2>2. (curLine.line + 1) % Uint32 \in 0 .. Uint32 - 1
    BY <2>1, ModProperty
  <2>3. QED
    BY <1>2, <1>3, <2>2 DEF LineAfter, LineRecs
<1>4. CASE syms[j].body \in {"IncSLDByte", "IncSLDWord"}
  <2>1. syms[j].inc \in Nat /\ curLine.line \in Nat
    BY <1>1, <1>2, <1>4 DEF IsDeclSymbol, LineRecs
  <2>2. curLine.line + syms[j].inc \in Int
    BY <2>1
  <2>3. (curLine.line + syms[j].inc) % Uint32 \in 0 .. Uint32 - 1
    BY <2>2, ModProperty
  <2>4. QED
    BY <1>2, <1>4, <2>3 DEF LineAfter, LineRecs
<1>5. CASE syms[j].body = "SetSLD"
  <2>1. syms[j].line \in 0 .. Uint32 - 1
    BY <1>1, <1>5 DEF IsDeclSymbol, LineBodies
  <2>2. QED
    BY <1>2, <1>5, <2>1 DEF LineAfter, LineRecs
<1>6. CASE syms[j].body = "SetSLD2"
  <2>1. syms[j].line \in 0 .. Uint32 - 1 /\ syms[j].path \in Nat
    BY <1>1, <1>6 DEF IsDeclSymbol, LineBodies
  <2>2. QED
    BY <1>6, <2>1 DEF LineAfter, LineRecs
<1>7. QED
  BY <1>3, <1>4, <1>5, <1>6 DEF SLDBodies, IncBodies

LEMMA BlockLineTyped ==
  ASSUME DeclTyped, InnerPos \in 1 .. Len(syms), syms[InnerPos].body \in LineBodies
  PROVE  BlockLine \in LineRecs
<1>1. syms[InnerPos].line \in 0 .. Uint32 - 1
  BY DeclSymbolProperty DEF DeclTyped, Begun, IsDeclSymbol
<1>2. curLine \in LineRecs
  BY DEF DeclTyped, DeclTypeOK, LineRecs
<1>3. curLine.line + syms[InnerPos].line - 1 \in Int
  BY <1>1, <1>2 DEF LineRecs
<1>4. (curLine.line + syms[InnerPos].line - 1) % Uint32 \in 0 .. Uint32 - 1
  BY <1>3, ModProperty
<1>5. QED
  BY <1>2, <1>4 DEF BlockLine, LineRecs

(* Where the steps leave the indices of parseFunc: the conjuncts of        *)
(* DeclTypeOK about overlays, and those about blocks.                      *)
OverlaysTyped ==
  /\ overlays \in Seq(OverlayRecs)
  /\ curOverlay \in DOMAIN overlays
  /\ \A id \in DOMAIN overlayIDs : overlayIDs[id] \in 2 .. Len(overlays)

BlocksTyped ==
  /\ mode = "func" =>
       /\ fn \in DOMAIN Funcs
       /\ curBlock \in DOMAIN CurFunc.blocks \cup {None}
       /\ blocks \in Seq(DOMAIN CurFunc.blocks)
       /\ curBlock = None => blocks = <<>>
       /\ \A x, y \in DOMAIN Stack : x < y => Stack[x] < Stack[y]
  /\ mode # "func" => mode \in DeclPanics \/ (curBlock = None /\ blocks = <<>>)
  /\ mode \in {"top", "lines", "func", "end"} \cup DeclPanics

LEMMA DeclTypeParts ==
  DeclTypeOK <=> /\ OverlaysTyped /\ BlocksTyped /\ d \in Nat \ {0} /\ m \in Nat
                 /\ curLine \in LineRecs
BY Zenon DEF DeclTypeOK, OverlaysTyped, BlocksTyped, LineRecs

LEMMA OverlaysTypedWrite ==
  ASSUME DeclTyped, UNCHANGED <<overlayIDs, curOverlay>>,
         NEW o \in OverlayRecs, Write(o)
  PROVE  OverlaysTyped'
<1>1. OverlaysTyped
  BY DeclTypeParts DEF DeclTyped
<1> HIDE DEF OverlayRecs
<1>2. /\ Len(overlays') = Len(overlays) /\ DOMAIN overlays' = DOMAIN overlays
      /\ overlays' \in Seq(OverlayRecs)
  BY <1>1, WriteProperty DEF OverlaysTyped
<1>3. QED
  BY <1>1, <1>2 DEF OverlaysTyped

(* The steps of ParseDecls, by what they do to its indices.                *)
PanicStep == \/ BadGlobal \/ BadTopClass \/ UnknownOverlay \/ BadTopBody \/ SliceEnd
             \/ NilBlock \/ BadLocalType \/ BadLocalClass \/ BadFuncBody

LEMMA StepCases ==
  ASSUME ParseDeclsStep
  PROVE  \/ PanicStep \/ AddSymbol \/ Ignore \/ AddGlobal \/ AddOverlay \/ SetOverlay
         \/ FinishDecls \/ BeginLines \/ NextLine \/ EndLines \/ SkipFunc \/ BeginFunc
         \/ EndFunc \/ BlockStart \/ BlockEnd \/ AddLocal
BY DEF ParseDeclsStep, DeclStep, LinesStep, FuncStep, PanicStep

LEMMA PanicDoes ==
  ASSUME PanicStep
  PROVE  /\ UNCHANGED <<overlays, overlayIDs, curOverlay, d, m, curLine, fn, curBlock, blocks>>
         /\ UnchangedTypes /\ mode' \in DeclPanics
<1>1. \E why \in DeclPanics : DeclPanic(why)
  BY DEF PanicStep, BadGlobal, BadTopClass, UnknownOverlay, BadTopBody, SliceEnd, NilBlock,
     BadLocalType, BadLocalClass, BadFuncBody, DeclPanics
<1>2. QED
  BY <1>1 DEF DeclPanic, recorded, inner

LEMMA TypedAfterPanic ==
  ASSUME DeclTyped, PanicStep
  PROVE  OverlaysTyped' /\ BlocksTyped' /\ curLine' \in LineRecs
<1>1. OverlaysTyped /\ curLine \in LineRecs
  BY DeclTypeParts DEF DeclTyped
<1>2. OverlaysTyped'
  BY <1>1, PanicDoes DEF OverlaysTyped
<1>3. mode' \in DeclPanics /\ mode' # "func"
  BY PanicDoes DEF DeclPanics
<1>4. QED
  BY <1>1, <1>2, <1>3, PanicDoes DEF BlocksTyped

(* Steps at the top.                                                       *)
LEMMA TopKeepsBlocks ==
  ASSUME DeclTyped, mode \in {"top", "lines"}, UNCHANGED <<curBlock, blocks>>,
         mode' \in {"top", "lines", "end"}
  PROVE  BlocksTyped'
<1>1. curBlock = None /\ blocks = <<>>
  BY DEF DeclTyped, DeclTypeOK, DeclPanics
<1>2. QED
  BY <1>1 DEF BlocksTyped, DeclPanics

LEMMA TypedAfterTop ==
  ASSUME DeclTyped,
         \/ AddSymbol \/ Ignore \/ AddGlobal \/ AddOverlay \/ SetOverlay \/ FinishDecls \/ SkipFunc
  PROVE  OverlaysTyped' /\ BlocksTyped' /\ curLine' \in LineRecs
<1>1. OverlaysTyped /\ curLine \in LineRecs
  BY DeclTypeParts DEF DeclTyped
<1>2. mode = "top" /\ mode' \in {"top", "end"} /\ UNCHANGED <<curBlock, blocks, curLine>>
  BY DEF AddSymbol, Ignore, AddGlobal, AddOverlay, SetOverlay, FinishDecls, SkipFunc, AtFuncStart,
     AtDecl, inner
<1>3. BlocksTyped' /\ curLine' \in LineRecs
  BY <1>1, <1>2, TopKeepsBlocks
<1>4. CASE AddSymbol
  <2>1. UNCHANGED <<overlayIDs, curOverlay>>
    BY <1>4 DEF AddSymbol
  <2>2. QED
    BY <1>3, <1>4, <2>1, AddSymbolWrites, OverlaysTypedWrite, Zenon
<1>5. CASE AddGlobal
  <2>1. UNCHANGED <<overlayIDs, curOverlay>>
    BY <1>5 DEF AddGlobal
  <2>2. QED
    BY <1>3, <1>5, <2>1, AddGlobalWrites, OverlaysTypedWrite, Zenon
<1>6. CASE Ignore \/ FinishDecls \/ SkipFunc
  <2>1. UNCHANGED <<overlays, overlayIDs, curOverlay>>
    BY <1>6 DEF Ignore, FinishDecls, SkipFunc, recorded
  <2>2. QED
    BY <1>1, <1>3, <2>1 DEF OverlaysTyped
<1>7. CASE SetOverlay
  <2>1. /\ Sym.value \in DOMAIN overlayIDs /\ curOverlay' = overlayIDs[Sym.value]
        /\ UNCHANGED <<overlays, overlayIDs>>
    BY <1>7 DEF SetOverlay
  <2>2. curOverlay' \in DOMAIN overlays
    BY <1>1, <2>1 DEF OverlaysTyped
  <2>3. QED
    BY <1>1, <1>3, <2>1, <2>2 DEF OverlaysTyped
<1>8. CASE AddOverlay
  <2>1. /\ overlays' = Append(overlays, EmptyOverlay(Sym.id))
        /\ overlayIDs' = OverlayIDsAfter /\ curOverlay' = curOverlay
        /\ Sym.body = "Overlay" /\ d \in 1 .. Len(syms)
    BY <1>8, DeclSymbolProperty DEF AddOverlay, AtDecl, DeclTyped, Begun
  <2>2. Sym.id \in Nat
    BY <2>1, DeclSymbolProperty DEF DeclTyped, Begun, Sym, IsDeclSymbol
  <2>3. EmptyOverlay(Sym.id) \in OverlayRecs
    BY <2>2 DEF EmptyOverlay, OverlayRecs
  <2>4. /\ overlays' \in Seq(OverlayRecs) /\ Len(overlays') = Len(overlays) + 1
        /\ DOMAIN overlays' = 1 .. Len(overlays) + 1
    <3> HIDE DEF OverlayRecs
    <3>1. QED
      BY <1>1, <2>1, <2>3, OneMore DEF OverlaysTyped
  <2>5. curOverlay \in 1 .. Len(overlays) /\ Len(overlays) \in Nat
    BY CurTyped
  <2>6. \A id \in DOMAIN overlayIDs' : overlayIDs'[id] \in 2 .. Len(overlays')
    BY <1>1, <2>1, <2>4, <2>5 DEF OverlaysTyped, OverlayIDsAfter
  <2>7. QED
    BY <1>3, <2>1, <2>4, <2>5, <2>6 DEF OverlaysTyped
<1>9. QED
  BY <1>4, <1>5, <1>6, <1>7, <1>8

(* Steps of parseLineNumbers.                                              *)
LEMMA TypedAfterLines ==
  ASSUME DeclTyped, BeginLines \/ NextLine \/ EndLines
  PROVE  OverlaysTyped' /\ BlocksTyped' /\ curLine' \in LineRecs
<1>1. OverlaysTyped /\ curLine \in LineRecs
  BY DeclTypeParts DEF DeclTyped
<1>2. /\ mode \in {"top", "lines"} /\ mode' \in {"top", "lines"}
      /\ UNCHANGED <<curBlock, blocks, overlayIDs, curOverlay>>
  BY DEF BeginLines, NextLine, EndLines, AtDecl, AtInner, Return
<1>3. BlocksTyped'
  BY <1>2, TopKeepsBlocks
<1>4. CASE EndLines
  <2>1. UNCHANGED <<overlays, overlayIDs, curOverlay, curLine>>
    BY <1>4 DEF EndLines, Return
  <2>2. QED
    BY <1>1, <1>3, <2>1 DEF OverlaysTyped
<1>5. ASSUME NEW j \in 1 .. Len(syms), NEW line \in LineRecs, AddLine(j, line)
      PROVE  OverlaysTyped'
  <2>1. Cur \in OverlayRecs
    BY CurTyped
  <2>2. WithLine(Cur, j, line) \in OverlayRecs
    BY <2>1, LineTyped, Zenon
  <2>3. Write(WithLine(Cur, j, line))
    BY <1>5, Zenon DEF AddLine, Write, Cur
  <2>4. QED
    BY <1>2, <2>2, <2>3, OverlaysTypedWrite, Zenon
<1>6. CASE BeginLines
  <2>1. /\ d \in 1 .. Len(syms) /\ Sym.body = "SetSLD2" /\ Sym = syms[d]
        /\ AddLine(d, StartLine) /\ curLine' = StartLine
    BY <1>6, DeclSymbolProperty DEF BeginLines, AtDecl, DeclTyped, Begun, Sym, StartLine
  <2>2. StartLine \in LineRecs
    BY <2>1, DeclSymbolProperty DEF DeclTyped, Begun, IsDeclSymbol, LineBodies, StartLine, LineRecs
  <2>3. QED
    BY <1>3, <1>5, <2>1, <2>2
<1>7. CASE NextLine
  <2>1. /\ InnerPos \in 1 .. Len(syms) /\ syms[InnerPos].body \in SLDBodies
        /\ AddLine(InnerPos, LineAfter(syms[InnerPos])) /\ curLine' = LineAfter(syms[InnerPos])
    BY <1>7, DeclSymbolProperty DEF NextLine, AtInner, InnerPos, DeclTyped, Begun
  <2>2. LineAfter(syms[InnerPos]) \in LineRecs
    BY <2>1, LineAfterTyped
  <2>3. QED
    BY <1>3, <1>5, <2>1, <2>2
<1>8. QED
  BY <1>4, <1>6, <1>7

(* Steps of parseFunc.                                                     *)
LEMMA TypedAfterBegin ==
  ASSUME DeclTyped, BeginFunc
  PROVE  OverlaysTyped' /\ BlocksTyped' /\ curLine' \in LineRecs
<1>1. /\ UNCHANGED <<overlayIDs, curOverlay>> /\ curLine' = StartLine /\ fn' = FindFunc
      /\ curBlock' = None /\ blocks' = <<>> /\ mode' = "func"
  BY DEF BeginFunc, StartLine
<1>2. /\ StartLine \in LineRecs /\ Write(BegunOverlay) /\ BegunOverlay \in OverlayRecs
      /\ d \in 1 .. Len(syms) /\ Sym.body = "FuncStart"
      /\ DOMAIN BegunFuncs = DOMAIN FuncsAfterFind /\ BegunFuncs \in Seq(FuncRecs)
  BY BeginFuncWrites, Zenon
<1>3. OverlaysTyped'
  BY <1>1, <1>2, OverlaysTypedWrite
<1>4. FindFunc \in DOMAIN BegunFuncs
  BY <1>2, FindFuncProperty, Zenon
<1>5. Funcs' = BegunFuncs
  <2>1. overlays'[curOverlay] = BegunOverlay
    BY <1>2, WriteProperty, Zenon DEF DeclTyped, DeclTypeOK
  <2>2. Cur \in OverlayRecs
    BY CurTyped
  <2>3. BegunOverlay.funcs = BegunFuncs
    BY <2>2 DEF BegunOverlay, WithLine, OverlayRecs
  <2>4. QED
    BY <1>1, <2>1, <2>3 DEF Funcs
<1>6. Stack' = <<>>
  BY <1>1 DEF Stack
<1>7. BlocksTyped'
  BY <1>1, <1>4, <1>5, <1>6 DEF BlocksTyped
<1>8. QED
  BY <1>1, <1>2, <1>3, <1>7

(* The stack of blocks: it grows by a block that starts and shrinks by one *)
(* that ends.                                                              *)
LEMMA StackAfter ==
  ASSUME DeclTyped, mode = "func"
  PROVE  /\ Stack \in Seq(DOMAIN CurFunc.blocks)
         /\ BlockStart => Stack' = Append(Stack, Len(CurFunc.blocks) + 1)
         /\ BlockEnd => /\ Stack' = blocks /\ Stack = Append(blocks, curBlock)
                        /\ curBlock' = None => blocks' = <<>>
                        /\ curBlock' \in DOMAIN CurFunc.blocks \cup {None}
<1>1. /\ curBlock = None => blocks = <<>>
      /\ blocks \in Seq(DOMAIN CurFunc.blocks)
      /\ curBlock \in DOMAIN CurFunc.blocks \cup {None}
  BY DEF DeclTyped, DeclTypeOK
<1>2. Len(CurFunc.blocks) \in Nat /\ DOMAIN CurFunc.blocks = 1 .. Len(CurFunc.blocks)
  BY CurTyped, FuncParts, Zenon
<1>3. ASSUME BlockStart PROVE Stack' = Append(Stack, Len(CurFunc.blocks) + 1)
  <2>1. blocks' = Stack /\ curBlock' = Len(CurFunc.blocks) + 1
    BY <1>3 DEF BlockStart, Pushed, Stack
  <2>2. curBlock' # None
    BY <1>2, <2>1 DEF None
  <2>3. QED
    BY <2>1, <2>2 DEF Stack
<1>4. ASSUME BlockEnd
      PROVE  /\ Stack' = blocks /\ Stack = Append(blocks, curBlock)
             /\ curBlock' = None => blocks' = <<>>
             /\ curBlock' \in DOMAIN CurFunc.blocks \cup {None}
  <2>1. curBlock # None /\ Stack = Append(blocks, curBlock)
    BY <1>4 DEF BlockEnd, Stack
  <2>2. blocks \in Seq(DOMAIN CurFunc.blocks)
    BY DEF DeclTyped, DeclTypeOK
  <2>3. CASE blocks = <<>>
    <3>1. curBlock' = None /\ blocks' = <<>>
      BY <1>4, <2>3 DEF BlockEnd, BlockAfterEnd
    <3>2. QED
      BY <2>1, <2>3, <3>1 DEF Stack
  <2>4. CASE blocks # <<>>
    <3>1. curBlock' = blocks[Len(blocks)] /\ blocks' = SubSeq(blocks, 1, Len(blocks) - 1)
      BY <1>4, <2>4 DEF BlockEnd, BlockAfterEnd
    <3>2. Len(blocks) \in Nat /\ Len(blocks) > 0
      BY <2>2, <2>4, EmptySeq
    <3>3. blocks[Len(blocks)] \in DOMAIN CurFunc.blocks
      BY <2>2, <3>2
    <3>4. curBlock' # None
      BY <1>2, <3>1, <3>3 DEF None
    <3>5. Append(SubSeq(blocks, 1, Len(blocks) - 1), blocks[Len(blocks)]) = blocks
      BY <2>2, <3>2
    <3>6. QED
      BY <2>1, <3>1, <3>3, <3>4, <3>5 DEF Stack
  <2>5. QED
    BY <2>3, <2>4
<1>5. Stack \in Seq(DOMAIN CurFunc.blocks)
  <2> DEFINE S == DOMAIN CurFunc.blocks
  <2>1. blocks \in Seq(S) /\ (curBlock # None => curBlock \in S)
    BY <1>1
  <2> HIDE DEF S
  <2>2. Stack \in Seq(S)
    BY <2>1 DEF Stack
  <2>3. QED
    BY <2>2 DEF S
<1>6. QED
  BY <1>3, <1>4, <1>5

(* A step inside a function keeps its indices if they still fit.           *)
LEMMA FuncKeepsBlocks ==
  ASSUME DeclTyped, mode = "func", mode' = "func", fn' = fn,
         NEW f, Funcs' = [Funcs EXCEPT ![fn] = f],
         DOMAIN CurFunc.blocks \subseteq DOMAIN f.blocks,
         UNCHANGED <<curBlock, blocks>>
  PROVE  BlocksTyped'
<1>1. fn \in DOMAIN Funcs /\ DOMAIN Funcs' = DOMAIN Funcs
  BY DEF DeclTyped, DeclTypeOK
<1>2. CurFunc' = f
  BY <1>1 DEF CurFunc
<1>3. blocks \in Seq(DOMAIN f.blocks)
  <2> DEFINE S == DOMAIN CurFunc.blocks
             T == DOMAIN f.blocks
  <2>1. blocks \in Seq(S) /\ S \subseteq T
    BY DEF DeclTyped, DeclTypeOK
  <2> HIDE DEF S, T
  <2>2. blocks \in Seq(T)
    BY <2>1
  <2>3. QED
    BY <2>2 DEF T
<1>4. Stack' = Stack
  BY DEF Stack
<1>5. /\ curBlock \in DOMAIN CurFunc.blocks \cup {None}
      /\ curBlock = None => blocks = <<>>
      /\ \A x, y \in DOMAIN Stack : x < y => Stack[x] < Stack[y]
  BY DEF DeclTyped, DeclTypeOK
<1> HIDE DEF Stack
<1>6. QED
  BY <1>1, <1>2, <1>3, <1>4, <1>5 DEF BlocksTyped

LEMMA FuncWritten ==
  ASSUME DeclTyped, mode = "func", NEW f \in FuncRecs, curOverlay' = curOverlay,
         \/ SetFunc(f)
         \/ InnerPos \in 1 .. Len(syms) /\ \E line \in LineRecs : SetFuncAndLine(f, line)
  PROVE  /\ \/ Write(FuncSet(f))
            \/ \E line \in LineRecs : Write(WithLine(FuncSet(f), InnerPos, line))
         /\ Funcs' = [Funcs EXCEPT ![fn] = f]
         /\ \E o \in OverlayRecs : Write(o)
<1>1. FuncSet(f) \in OverlayRecs /\ FuncSet(f).funcs = [Funcs EXCEPT ![fn] = f]
  BY SetFuncWrites, Zenon
<1>2. overlays \in Seq(OverlayRecs) /\ curOverlay \in DOMAIN overlays
  BY DEF DeclTyped, DeclTypeOK
<1>3. CASE SetFunc(f)
  <2>1. Write(FuncSet(f))
    BY <1>3, SetFuncWrites, Zenon
  <2>2. overlays'[curOverlay] = FuncSet(f)
    BY <1>2, <2>1, WriteProperty, Zenon
  <2>3. QED
    BY <1>1, <2>1, <2>2, Zenon DEF Funcs
<1>4. ASSUME NEW line \in LineRecs, InnerPos \in 1 .. Len(syms), SetFuncAndLine(f, line)
      PROVE  /\ Write(WithLine(FuncSet(f), InnerPos, line))
             /\ Funcs' = [Funcs EXCEPT ![fn] = f]
             /\ WithLine(FuncSet(f), InnerPos, line) \in OverlayRecs
  <2>1. Write(WithLine(FuncSet(f), InnerPos, line))
    BY <1>4, SetFuncWrites, Zenon
  <2>2. overlays'[curOverlay] = WithLine(FuncSet(f), InnerPos, line)
    BY <1>2, <2>1, WriteProperty, Zenon
  <2>3. LineEntry(InnerPos, line) \in Lines /\ WithLine(FuncSet(f), InnerPos, line) \in OverlayRecs
    BY <1>1, <1>4, LineTyped, Zenon
  <2>4. WithLine(FuncSet(f), InnerPos, line).funcs = [Funcs EXCEPT ![fn] = f]
    <3>1. \A o \in OverlayRecs : WithLine(o, InnerPos, line).funcs = o.funcs
      BY DEF WithLine, OverlayRecs
    <3>2. QED
      BY <1>1, <3>1, Zenon
  <2>5. QED
    BY <2>1, <2>2, <2>3, <2>4, Zenon DEF Funcs
<1>5. QED
  BY <1>3, <1>4, Zenon

LEMMA EndFuncDoes ==
  ASSUME DeclTyped, EndFunc
  PROVE  /\ mode = "func" /\ mode' = "top" /\ InnerPos \in 1 .. Len(syms)
         /\ syms[InnerPos].body = "FuncEnd"
         /\ EndedFunc \in FuncRecs /\ SetFunc(EndedFunc)
         /\ curBlock' = None /\ blocks' = <<>> /\ d' = InnerPos + 1 /\ m' = 0
         /\ UNCHANGED <<overlayIDs, curOverlay, curLine, fn, types, fresh>>
<1>1. /\ mode = "func" /\ mode' = "top" /\ InnerPos \in 1 .. Len(syms)
      /\ syms[InnerPos].body = "FuncEnd"
      /\ curBlock' = None /\ blocks' = <<>> /\ m' = 0 /\ d' = d + (m + 1) + 1
      /\ UNCHANGED <<overlayIDs, curOverlay, curLine, fn, types, fresh>>
  BY DeclSymbolProperty DEF EndFunc, AtFunc, AtInner, InnerPos, Return, UnchangedTypes, DeclTyped,
     Begun
<1>2. SetFunc(EndedFunc) /\ EndedFunc \in FuncRecs
  BY <1>1, FuncAfterTyped, Zenon DEF EndFunc, EndedFunc
<1>3. d' = InnerPos + 1
  BY <1>1 DEF InnerPos, DeclTyped, Begun
<1>4. QED
  BY <1>1, <1>2, <1>3

LEMMA BlockStartDoes ==
  ASSUME DeclTyped, BlockStart
  PROVE  /\ mode = "func" /\ mode' = "func" /\ InnerPos \in 1 .. Len(syms)
         /\ syms[InnerPos].body = "BlockStart"
         /\ BlockFunc \in FuncRecs /\ BlockLine \in LineRecs
         /\ SetFuncAndLine(BlockFunc, BlockLine)
         /\ blocks' = Stack /\ curBlock' = Len(CurFunc.blocks) + 1
         /\ curLine' = BlockLine /\ m' = m + 1
         /\ UNCHANGED <<overlayIDs, curOverlay, d, fn, types, fresh>>
<1>1. /\ mode = "func" /\ mode' = "func" /\ InnerPos \in 1 .. Len(syms)
      /\ syms[InnerPos].body = "BlockStart"
      /\ blocks' = Stack /\ curBlock' = Len(CurFunc.blocks) + 1
      /\ curLine' = BlockLine /\ m' = m + 1
      /\ UNCHANGED <<overlayIDs, curOverlay, d, fn, types, fresh>>
  BY DeclSymbolProperty DEF BlockStart, AtFunc, AtInner, InnerPos, UnchangedTypes, DeclTyped,
     Begun, Pushed, Stack
<1>2. SetFuncAndLine(BlockFunc, BlockLine) /\ BlockFunc \in FuncRecs
  BY <1>1, FuncAfterTyped, Zenon DEF BlockStart, BlockFunc
<1>3. BlockLine \in LineRecs
  BY <1>1, BlockLineTyped DEF LineBodies
<1>4. QED
  BY <1>1, <1>2, <1>3, Zenon

LEMMA BlockEndDoes ==
  ASSUME DeclTyped, BlockEnd
  PROVE  /\ mode = "func" /\ mode' = "func" /\ InnerPos \in 1 .. Len(syms)
         /\ syms[InnerPos].body = "BlockEnd" /\ BlockLine \in LineRecs
         /\ AddLine(InnerPos, BlockLine) /\ curLine' = BlockLine /\ m' = m + 1
         /\ UNCHANGED <<overlayIDs, curOverlay, d, fn, types, fresh>>
<1>1. /\ mode = "func" /\ mode' = "func" /\ InnerPos \in 1 .. Len(syms)
      /\ syms[InnerPos].body = "BlockEnd" /\ curLine' = BlockLine /\ m' = m + 1
      /\ UNCHANGED <<overlayIDs, curOverlay, d, fn, types, fresh>>
  BY DeclSymbolProperty DEF BlockEnd, AtFunc, AtInner, InnerPos, UnchangedTypes, DeclTyped, Begun
<1>2. AddLine(InnerPos, BlockLine)
  BY Zenon DEF BlockEnd
<1>3. BlockLine \in LineRecs
  BY <1>1, BlockLineTyped DEF LineBodies
<1>4. QED
  BY <1>1, <1>2, <1>3, Zenon

LEMMA AddLocalDoes ==
  ASSUME DeclTyped, AddLocal
  PROVE  /\ mode = "func" /\ mode' = "func" /\ InnerPos \in 1 .. Len(syms)
         /\ IsDefn(syms[InnerPos]) /\ IsSymbol(syms[InnerPos])
         /\ LocalFunc \in FuncRecs /\ SetFunc(LocalFunc)
         /\ MakeType(syms[InnerPos]) /\ m' = m + 1
         /\ UNCHANGED <<overlayIDs, curOverlay, d, curLine, fn, curBlock, blocks>>
<1>1. /\ mode = "func" /\ mode' = "func" /\ InnerPos \in 1 .. Len(syms)
      /\ IsDefn(syms[InnerPos]) /\ IsSymbol(syms[InnerPos])
      /\ MakeType(syms[InnerPos]) /\ m' = m + 1
      /\ UNCHANGED <<overlayIDs, curOverlay, d, curLine, fn, curBlock, blocks>>
  BY DeclSymbolProperty DEF AddLocal, AtLocal, AtInner, InnerPos, DeclTyped, Begun
<1>2. SetFunc(LocalFunc) /\ LocalFunc \in FuncRecs
  BY <1>1, FuncAfterTyped, Zenon DEF AddLocal, LocalFunc
<1>3. QED
  BY <1>1, <1>2, Zenon

LEMMA TypedAfterFunc ==
  ASSUME DeclTyped, EndFunc \/ BlockStart \/ BlockEnd \/ AddLocal
  PROVE  OverlaysTyped' /\ BlocksTyped' /\ curLine' \in LineRecs
<1>1. OverlaysTyped /\ curLine \in LineRecs
  BY DeclTypeParts DEF DeclTyped
<1>2. mode = "func" =>
        Len(CurFunc.blocks) \in Nat /\ DOMAIN CurFunc.blocks = 1 .. Len(CurFunc.blocks)
  BY CurTyped, FuncParts, Zenon
<1>f. mode = "func" => fn \in DOMAIN Funcs
  BY DEF DeclTyped, DeclTypeOK
<1>3. CASE EndFunc
  <2>1. /\ mode = "func" /\ mode' = "top" /\ curBlock' = None /\ blocks' = <<>>
        /\ EndedFunc \in FuncRecs /\ SetFunc(EndedFunc)
        /\ UNCHANGED <<overlayIDs, curOverlay, curLine>>
    BY <1>3, EndFuncDoes, Zenon
  <2>2. OverlaysTyped'
    BY <2>1, FuncWritten, OverlaysTypedWrite, Zenon
  <2>3. BlocksTyped'
    BY <2>1 DEF BlocksTyped
  <2>4. QED
    BY <1>1, <2>1, <2>2, <2>3
<1>4. CASE BlockStart
  <2>1. /\ mode = "func" /\ mode' = "func" /\ InnerPos \in 1 .. Len(syms)
        /\ BlockFunc \in FuncRecs /\ BlockLine \in LineRecs
        /\ SetFuncAndLine(BlockFunc, BlockLine)
        /\ blocks' = Stack /\ curBlock' = Len(CurFunc.blocks) + 1 /\ curLine' = BlockLine
        /\ fn' = fn /\ UNCHANGED <<overlayIDs, curOverlay>>
    BY <1>4, BlockStartDoes, Zenon
  <2>2. OverlaysTyped' /\ Funcs' = [Funcs EXCEPT ![fn] = BlockFunc]
    BY <2>1, FuncWritten, OverlaysTypedWrite, Zenon
  <2>3. CurFunc' = BlockFunc /\ fn' \in DOMAIN Funcs'
    BY <1>f, <2>1, <2>2 DEF CurFunc
  <2>4. CurFunc \in FuncRecs
    BY <2>1, CurTyped, Zenon
  <2>5. DOMAIN BlockFunc.blocks = 1 .. Len(CurFunc.blocks) + 1
    <3>1. BlockFunc.blocks = Append(CurFunc.blocks, Block(InnerPos))
      BY <2>4 DEF BlockFunc, FuncRecs
    <3>2. CurFunc.blocks \in Seq(BlockRecs)
      BY <2>4 DEF FuncRecs
    <3>3. QED
      BY <1>2, <2>1, <3>1, <3>2
  <2> DEFINE L == Len(CurFunc.blocks)
  <2>6. L \in Nat /\ DOMAIN CurFunc.blocks = 1 .. L
    BY <1>2, <2>1
  <2>7. /\ Stack \in Seq(1 .. L) /\ Stack' = Append(Stack, L + 1)
        /\ \A x, y \in DOMAIN Stack : x < y => Stack[x] < Stack[y]
    BY <1>4, <2>1, <2>6, StackAfter DEF DeclTyped, DeclTypeOK
  <2> HIDE DEF L
  <2>8. /\ blocks' \in Seq(1 .. L + 1) /\ curBlock' \in 1 .. L + 1 /\ curBlock' # None
    <3>1. curBlock' = L + 1 /\ blocks' = Stack
      BY <2>1 DEF L
    <3>2. Stack \in Seq(1 .. L + 1)
      <4> HIDE DEF Stack
      <4>1. QED
        BY <2>6, <2>7
    <3>3. QED
      BY <2>6, <3>1, <3>2 DEF None
  <2>9. \A x, y \in DOMAIN Stack' : x < y => Stack'[x] < Stack'[y]
    <3>1. /\ Len(Stack) \in Nat /\ DOMAIN Stack = 1 .. Len(Stack)
          /\ DOMAIN Stack' = 1 .. Len(Stack) + 1 /\ Stack'[Len(Stack) + 1] = L + 1
          /\ \A x \in DOMAIN Stack : Stack'[x] = Stack[x] /\ Stack[x] \in 1 .. L
      BY <2>6, <2>7
    <3> HIDE DEF Stack
    <3>2. QED
      BY <2>6, <2>7, <3>1
  <2> HIDE DEF Stack
  <2>10. BlocksTyped'
    BY <2>1, <2>3, <2>5, <2>8, <2>9 DEF BlocksTyped, L
  <2>11. QED
    BY <2>1, <2>2, <2>10
<1>5. CASE BlockEnd
  <2>1. /\ mode = "func" /\ mode' = "func" /\ InnerPos \in 1 .. Len(syms)
        /\ BlockLine \in LineRecs /\ AddLine(InnerPos, BlockLine) /\ curLine' = BlockLine
        /\ fn' = fn /\ UNCHANGED <<overlayIDs, curOverlay>>
    BY <1>5, BlockEndDoes, Zenon
  <2>2. Write(WithLine(Cur, InnerPos, BlockLine)) /\ Cur \in OverlayRecs
    BY <2>1, CurTyped, Zenon DEF AddLine, Write, Cur
  <2>3. /\ WithLine(Cur, InnerPos, BlockLine) \in OverlayRecs
        /\ LineEntry(InnerPos, BlockLine) \in Lines
    BY <2>1, <2>2, LineTyped, Zenon
  <2>4. OverlaysTyped'
    BY <2>1, <2>2, <2>3, OverlaysTypedWrite, Zenon
  <2>5. Funcs' = Funcs
    <3>1. overlays'[curOverlay] = WithLine(Cur, InnerPos, BlockLine)
      BY <1>1, <2>2, WriteProperty, Zenon DEF OverlaysTyped
    <3>2. WithLine(Cur, InnerPos, BlockLine).funcs = Cur.funcs
      BY <2>2 DEF WithLine, OverlayRecs
    <3>3. QED
      BY <2>1, <3>1, <3>2 DEF Funcs, Cur
  <2>6. CurFunc' = CurFunc
    BY <2>1, <2>5 DEF CurFunc
  <2>7. /\ Stack' = blocks /\ Stack = Append(blocks, curBlock)
        /\ curBlock' = None => blocks' = <<>>
        /\ curBlock' \in DOMAIN CurFunc.blocks \cup {None}
        /\ blocks \in Seq(DOMAIN CurFunc.blocks)
        /\ \A x, y \in DOMAIN Stack : x < y => Stack[x] < Stack[y]
    BY <1>5, <2>1, StackAfter DEF DeclTyped, DeclTypeOK
  <2>8. \A x, y \in DOMAIN Stack' : x < y => Stack'[x] < Stack'[y]
    <3> DEFINE S == DOMAIN CurFunc.blocks
    <3>1. blocks \in Seq(S) /\ curBlock \in S \cup {None}
      BY <2>1, <2>7 DEF DeclTyped, DeclTypeOK
    <3> HIDE DEF S
    <3>2. /\ DOMAIN blocks \subseteq DOMAIN Append(blocks, curBlock)
          /\ \A x \in DOMAIN blocks : Append(blocks, curBlock)[x] = blocks[x]
      BY <3>1
    <3> HIDE DEF Stack
    <3>3. QED
      BY <2>7, <3>2
  <2>9. blocks' \in Seq(DOMAIN CurFunc.blocks)
    <3> DEFINE S == DOMAIN CurFunc.blocks
    <3>1. blocks \in Seq(S)
      BY <2>7
    <3> HIDE DEF S
    <3>2. CASE blocks = <<>>
      BY <1>5, <3>1, <3>2 DEF BlockEnd, S
    <3>3. CASE blocks # <<>>
      <4>1. Len(blocks) \in Nat /\ Len(blocks) > 0
        BY <3>1, <3>3, EmptySeq
      <4>2. SubSeq(blocks, 1, Len(blocks) - 1) \in Seq(S)
        BY <3>1, <4>1
      <4>3. blocks' = SubSeq(blocks, 1, Len(blocks) - 1)
        BY <1>5, <3>3 DEF BlockEnd
      <4>4. QED
        BY <4>2, <4>3 DEF S
    <3>4. QED
      BY <3>2, <3>3
  <2> HIDE DEF Stack
  <2>10. BlocksTyped'
    BY <1>f, <2>1, <2>5, <2>6, <2>7, <2>8, <2>9 DEF BlocksTyped
  <2>11. QED
    BY <2>1, <2>4, <2>10
<1>6. CASE AddLocal
  <2>1. /\ mode = "func" /\ mode' = "func" /\ fn' = fn
        /\ LocalFunc \in FuncRecs /\ SetFunc(LocalFunc)
        /\ UNCHANGED <<overlayIDs, curOverlay, curLine>> /\ UNCHANGED <<curBlock, blocks>>
    BY <1>6, AddLocalDoes, Zenon
  <2>2. OverlaysTyped' /\ Funcs' = [Funcs EXCEPT ![fn] = LocalFunc]
    BY <2>1, FuncWritten, OverlaysTypedWrite, Zenon
  <2>3. CurFunc \in FuncRecs
    BY <2>1, CurTyped, Zenon
  <2>4. DOMAIN LocalFunc.blocks = DOMAIN CurFunc.blocks
    BY <2>3 DEF LocalFunc, FuncRecs
  <2>5. BlocksTyped'
    BY <2>1, <2>2, <2>4, FuncKeepsBlocks
  <2>6. QED
    BY <1>1, <2>1, <2>2, <2>5
<1>7. QED
  BY <1>3, <1>4, <1>5, <1>6

LEMMA DeclTypedInit == BothInit => DeclTyped
<1> SUFFICES ASSUME BothInit PROVE DeclTyped
  OBVIOUS
<1>1. Typed /\ Init /\ DeclInit
  BY TypedInit DEF BothInit
<1>2. EmptyOverlay(0) \in OverlayRecs
  BY DEF EmptyOverlay, OverlayRecs
<1>3. overlays \in Seq(OverlayRecs) /\ curOverlay \in DOMAIN overlays
  BY <1>1, <1>2 DEF DeclInit
<1>4. OverlaysTyped
  BY <1>1, <1>3 DEF DeclInit, OverlaysTyped
<1>5. BlocksTyped
  BY <1>1 DEF DeclInit, BlocksTyped
<1>6. curLine \in LineRecs
  <2>1. 0 \in 0 .. Uint32 - 1
    BY DeclAssumption
  <2>2. QED
    BY <1>1, <2>1 DEF DeclInit, LineRecs
<1>7. d \in Nat \ {0} /\ m \in Nat
  BY <1>1 DEF DeclInit
<1>8. QED
  BY <1>1, <1>4, <1>5, <1>6, <1>7, DeclTypeParts DEF DeclTyped, Begun, Waits

(* ParseDecls starts when ParseTypes has ended.                            *)
LEMMA DeclsAfterTypes ==
  ASSUME Waits, ParseDeclsStep
  PROVE  pc = "done" /\ pc' = "done" /\ syms' = syms
<1>1. pc = "done"
  BY DEF Waits, DeclInit, ParseDeclsStep, DeclStep, LinesStep, FuncStep, AddSymbol, Ignore,
     AddGlobal, BadGlobal, BadTopClass, AddOverlay, SetOverlay, UnknownOverlay, BadTopBody,
     FinishDecls, BeginLines, NextLine, EndLines, SliceEnd, SkipFunc, BeginFunc, EndFunc,
     BlockStart, BlockEnd, NilBlock, AddLocal, BadLocalType, BadLocalClass, BadFuncBody,
     AtFuncStart, AtFunc, AtLocal, AtDecl, AtInner
<1>2. QED
  BY <1>1 DEF ParseDeclsStep, UnchangedPass1

LEMMA DeclTypedStep == DeclTyped /\ [BothNext]_allVars => DeclTyped'
<1> SUFFICES ASSUME DeclTyped, [BothNext]_allVars PROVE DeclTyped'
  OBVIOUS
<1>1. CASE ParseDeclsStep
  <2>1. Begun'
    BY <1>1, DeclsTyped DEF DeclTyped
  <2>2. Waits'
    BY <1>1, DeclsAfterTypes DEF DeclTyped, Waits
  <2>3. OverlaysTyped' /\ BlocksTyped' /\ curLine' \in LineRecs
    BY <1>1, StepCases, TypedAfterPanic, TypedAfterTop, TypedAfterLines, TypedAfterBegin,
       TypedAfterFunc
  <2>4. DeclTypeOK'
    BY <2>1, <2>3, Zenon DEF Begun, DeclTypeOK, OverlaysTyped, BlocksTyped, LineRecs
  <2>5. QED
    BY <2>1, <2>2, <2>4 DEF DeclTyped
<1>2. CASE [Next]_vars /\ UNCHANGED declVars
  <2>1. Typed'
    BY <1>2, TypedStep DEF DeclTyped, Begun
  <2>2. /\ UNCHANGED <<overlays, overlayIDs, curOverlay, d, m, curLine, fn, curBlock, blocks>>
        /\ mode' = mode
    BY <1>2 DEF declVars, recorded, inner
  <2>3. OverlaysTyped /\ BlocksTyped /\ curLine \in LineRecs /\ Begun /\ Waits
    BY DeclTypeParts DEF DeclTyped
  <2>4. OverlaysTyped' /\ curLine' \in LineRecs /\ Begun'
    BY <2>1, <2>2, <2>3 DEF OverlaysTyped, Begun
  <2>5. BlocksTyped'
    BY <2>2, <2>3 DEF BlocksTyped, Stack, CurFunc, Funcs
  <2>6. pc = "done" => pc' = "done"
    <3>1. CASE Next
      BY <3>1 DEF Next, InitTaggedTypes, TopStep, TagStep, BadBase, BeginTag, ParseTypedef,
         BadTypedef, SkipSymbol, Finish, AddField, AddMethod, BadType, AddEnumMember, BadClass,
         PassOver, EndTag, Unreachable, AtTagDef, AtTypedef, AtTop, InTag
    <3>2. CASE UNCHANGED vars
      BY <3>2 DEF vars
    <3>3. QED
      BY <1>2, <3>1, <3>2
  <2>7. Waits'
    BY <2>2, <2>3, <2>6 DEF Waits, DeclInit
  <2>8. DeclTypeOK'
    BY <2>4, <2>5, Zenon DEF Begun, DeclTypeOK, OverlaysTyped, BlocksTyped, LineRecs
  <2>9. QED
    BY <2>4, <2>7, <2>8 DEF DeclTyped
<1>3. QED
  BY <1>1, <1>2 DEF BothNext, allVars

(* The state of ParseDecls keeps its shape, whatever the stream: the       *)
(* indices that stand for pointers are those of an overlay, a function and *)
(* a block that exist, and the stack holds blocks in the order they began. *)
THEOREM DeclTypeCorrect == BothSpec => []DeclTypeOK
<1>1. BothInit => DeclTyped
  BY DeclTypedInit
<1>2. DeclTyped /\ [BothNext]_allVars => DeclTyped'
  BY DeclTypedStep
<1>3. DeclTyped => DeclTypeOK
  BY DEF DeclTyped
<1>4. QED
  BY <1>1, <1>2, <1>3, PTL DEF BothSpec

-----------------------------------------------------------------------------
(* Where ParseDecls stands.                                                *)

(* The position of the symbol that is read next.                           *)
NextPos == IF mode \in {"lines", "func"} THEN InnerPos ELSE d

Place ==
  /\ mode = "top" => ~ InFunc(d) /\ d <= Len(syms) + 1
  /\ mode = "end" => d = Len(syms) + 1
  /\ mode \in {"lines", "func"} =>
       d <= Len(syms) /\ ~ InFunc(d) /\ InnerPos <= Len(syms) + 1
  /\ mode = "lines" => /\ IsBody(d, "SetSLD2")
                       /\ \A j \in d + 1 .. InnerPos - 1 : syms[j].body \in SLDBodies
  /\ mode = "func" => /\ IsBody(d, "FuncStart")
                      /\ \A j \in d + 1 .. InnerPos - 1 :
                           syms[j].body \in {"BlockStart", "BlockEnd", "Def", "Def2"}

(* The symbols inside of functions.                                        *)
LEMMA InFuncProperty ==
  ASSUME NEW a \in Nat
  PROVE  /\ \A j \in Nat :
              /\ j > a /\ ~ InFunc(a) /\ (\A h \in a .. j - 1 : ~ IsBody(h, "FuncStart"))
                 => ~ InFunc(j)
              /\ a >= 1 /\ j > a /\ IsBody(a, "FuncStart")
                 /\ (\A h \in a + 1 .. j - 1 : ~ IsBody(h, "FuncEnd")) => InFunc(j)
         /\ IsBody(a, "FuncEnd") => ~ InFunc(a + 1)
<1>1. ASSUME NEW j \in Nat, j > a, ~ InFunc(a), \A h \in a .. j - 1 : ~ IsBody(h, "FuncStart"),
             InFunc(j)
      PROVE  FALSE
  <2>1. PICK s \in 1 .. j - 1 :
          IsBody(s, "FuncStart") /\ \A h \in s + 1 .. j - 1 : ~ IsBody(h, "FuncEnd")
    BY <1>1 DEF InFunc
  <2>2. s \in 1 .. a - 1
    BY <1>1, <2>1
  <2>3. \A h \in s + 1 .. a - 1 : ~ IsBody(h, "FuncEnd")
    BY <1>1, <2>1
  <2>4. QED
    BY <1>1, <2>1, <2>2, <2>3 DEF InFunc
<1>2. ASSUME NEW j \in Nat, a >= 1, j > a, IsBody(a, "FuncStart"),
             \A h \in a + 1 .. j - 1 : ~ IsBody(h, "FuncEnd")
      PROVE  InFunc(j)
  BY <1>2 DEF InFunc
<1>3. ASSUME IsBody(a, "FuncEnd"), InFunc(a + 1) PROVE FALSE
  <2>1. PICK s \in 1 .. a :
          IsBody(s, "FuncStart") /\ \A h \in s + 1 .. a : ~ IsBody(h, "FuncEnd")
    BY <1>3 DEF InFunc
  <2>2. s # a
    BY <1>3, <2>1 DEF IsBody
  <2>3. QED
    BY <1>3, <2>1, <2>2
<1>4. QED
  BY <1>1, <1>2, <1>3

(* The first of the FuncEnds, which ends the function that is skipped.     *)
LEMMA SkipProperty ==
  ASSUME Typed, d \in Nat, FuncEnds # {}
  PROVE  /\ FirstOf(FuncEnds) \in d + 1 .. Len(syms) /\ IsBody(FirstOf(FuncEnds), "FuncEnd")
         /\ \A j \in d + 1 .. FirstOf(FuncEnds) - 1 : ~ IsBody(j, "FuncEnd")
<1>1. Len(syms) \in Nat
  BY SymbolProperty DEF Typed
<1>2. FuncEnds \subseteq Nat
  BY <1>1 DEF FuncEnds
<1>3. FirstOf(FuncEnds) \in FuncEnds /\ \A y \in FuncEnds : FirstOf(FuncEnds) <= y
  BY <1>2, LeastExists DEF FirstOf
<1>4. FirstOf(FuncEnds) \in d + 1 .. Len(syms) /\ IsBody(FirstOf(FuncEnds), "FuncEnd")
  BY <1>3 DEF FuncEnds, IsBody
<1>5. ASSUME NEW j \in d + 1 .. FirstOf(FuncEnds) - 1, IsBody(j, "FuncEnd") PROVE FALSE
  <2>1. j \in FuncEnds
    BY <1>1, <1>4, <1>5 DEF FuncEnds, IsBody
  <2>2. QED
    BY <1>1, <1>3, <1>4, <1>5, <2>1
<1>6. QED
  BY <1>4, <1>5

(* The bodies that stand outside of functions do not depend on the state.  *)
LEMMA BodiesKept ==
  ASSUME syms' = syms
  PROVE  /\ \A j : InFunc(j)' = InFunc(j)
         /\ \A bodies : Outside(bodies)' = Outside(bodies)
         /\ \A j, b : IsBody(j, b)' = IsBody(j, b)
BY DEF InFunc, Outside, IsBody, Pos

LEMMA PlaceInit == BothInit => Place
<1> SUFFICES ASSUME BothInit PROVE Place
  OBVIOUS
<1>1. mode = "top" /\ d = 1 /\ Len(syms) \in Nat
  BY SymbolProperty DEF BothInit, Init, DeclInit
<1>2. ~ InFunc(d)
  BY <1>1 DEF InFunc
<1>3. QED
  BY <1>1, <1>2 DEF Place

LEMMA PlaceStep == DeclTyped /\ Place /\ ParseDeclsStep => Place'
<1> SUFFICES ASSUME DeclTyped, Place, ParseDeclsStep PROVE Place'
  OBVIOUS
<1>1. /\ syms' = syms /\ d \in Nat \ {0} /\ m \in Nat /\ InnerPos = d + 1 + m
      /\ Len(syms) \in Nat /\ DOMAIN syms = 1 .. Len(syms) /\ Typed
  BY DeclsAfterTypes, DeclSymbolProperty DEF DeclTyped, Begun, InnerPos
<1>2. /\ Place' <=> /\ mode' = "top" => ~ InFunc(d') /\ d' <= Len(syms) + 1
                    /\ mode' = "end" => d' = Len(syms) + 1
                    /\ mode' \in {"lines", "func"} =>
                         d' <= Len(syms) /\ ~ InFunc(d') /\ InnerPos' <= Len(syms) + 1
                    /\ mode' = "lines" =>
                         /\ IsBody(d', "SetSLD2")
                         /\ \A j \in d' + 1 .. InnerPos' - 1 : syms[j].body \in SLDBodies
                    /\ mode' = "func" =>
                         /\ IsBody(d', "FuncStart")
                         /\ \A j \in d' + 1 .. InnerPos' - 1 :
                              syms[j].body \in {"BlockStart", "BlockEnd", "Def", "Def2"}
  BY <1>1 DEF Place, InFunc, IsBody
<1>3. CASE PanicStep
  <2>1. mode' \in DeclPanics
    BY <1>3, PanicDoes
  <2>2. QED
    BY <1>2, <2>1 DEF DeclPanics
<1>4. CASE FinishDecls
  <2>1. mode' = "end" /\ d' = d /\ d = Len(syms) + 1
    BY <1>1, <1>4 DEF FinishDecls, Place
  <2>2. QED
    BY <1>2, <2>1
<1>5. CASE AddSymbol \/ Ignore \/ AddGlobal \/ AddOverlay \/ SetOverlay
  <2>1. /\ mode = "top" /\ mode' = "top" /\ d' = d + 1 /\ d <= Len(syms)
        /\ Sym.body # "FuncStart" /\ Sym = syms[d]
    BY <1>5 DEF AddSymbol, Ignore, AddGlobal, AddOverlay, SetOverlay, Advance, AtDecl, inner,
       NameBodies, IsDefn, IsGlobal, Sym
  <2>2. ~ InFunc(d)
    BY <2>1 DEF Place
  <2>3. ~ InFunc(d + 1)
    BY <1>1, <2>1, <2>2, InFuncProperty DEF IsBody
  <2>4. QED
    BY <1>1, <1>2, <2>1, <2>3
<1>6. CASE SkipFunc
  <2>1. mode' = "top" /\ d' = FirstOf(FuncEnds) + 1 /\ FuncEnds # {}
    BY <1>6 DEF SkipFunc, IsDuplicate, AtFuncStart, AtDecl, inner
  <2>2. FirstOf(FuncEnds) \in d + 1 .. Len(syms) /\ IsBody(FirstOf(FuncEnds), "FuncEnd")
    BY <1>1, <2>1, SkipProperty
  <2>3. ~ InFunc(d')
    BY <1>1, <2>1, <2>2, InFuncProperty
  <2>4. QED
    BY <1>1, <1>2, <2>1, <2>2, <2>3
<1>7. CASE BeginLines \/ BeginFunc
  <2>1. /\ mode = "top" /\ d' = d /\ m' = 0 /\ d <= Len(syms) /\ Sym = syms[d]
        /\ \/ mode' = "lines" /\ Sym.body = "SetSLD2"
           \/ mode' = "func" /\ Sym.body = "FuncStart"
    BY <1>7 DEF BeginLines, BeginFunc, AtFuncStart, AtDecl, Sym
  <2>2. InnerPos' = d + 1 /\ ~ InFunc(d)
    BY <1>1, <2>1 DEF InnerPos, Place
  <2>3. QED
    BY <1>1, <1>2, <2>1, <2>2 DEF IsBody
<1>8. CASE NextLine
  <2>1. /\ mode = "lines" /\ mode' = "lines" /\ d' = d /\ m' = m + 1
        /\ InnerPos <= Len(syms) /\ syms[InnerPos].body \in SLDBodies
    BY <1>8 DEF NextLine, AtInner
  <2>2. InnerPos' = InnerPos + 1
    BY <1>1, <2>1 DEF InnerPos
  <2>3. /\ \A j \in d + 1 .. InnerPos - 1 : syms[j].body \in SLDBodies
        /\ d <= Len(syms) /\ ~ InFunc(d) /\ IsBody(d, "SetSLD2")
    BY <2>1 DEF Place
  <2>4. \A j \in d + 1 .. InnerPos : j \in d + 1 .. InnerPos - 1 \/ j = InnerPos
    BY <1>1
  <2>5. QED
    BY <1>1, <1>2, <2>1, <2>2, <2>3, <2>4
<1>9. CASE BlockStart \/ BlockEnd \/ AddLocal
  <2>1. /\ mode = "func" /\ mode' = "func" /\ d' = d /\ m' = m + 1
        /\ InnerPos <= Len(syms)
        /\ syms[InnerPos].body \in {"BlockStart", "BlockEnd", "Def", "Def2"}
    BY <1>9 DEF BlockStart, BlockEnd, AddLocal, AtFunc, AtLocal, AtInner, IsDefn
  <2>2. InnerPos' = InnerPos + 1
    BY <1>1, <2>1 DEF InnerPos
  <2>3. QED
    BY <1>1, <1>2, <2>1, <2>2 DEF Place
<1>10. CASE EndFunc
  <2>1. /\ mode' = "top" /\ d' = InnerPos + 1 /\ InnerPos \in 1 .. Len(syms)
        /\ IsBody(InnerPos, "FuncEnd")
    BY <1>10, EndFuncDoes, Zenon DEF IsBody
  <2>2. ~ InFunc(InnerPos + 1)
    BY <1>1, <2>1, InFuncProperty
  <2>3. QED
    BY <1>1, <1>2, <2>1, <2>2
<1>11. CASE EndLines
  <2>1. /\ mode = "lines" /\ mode' = "top" /\ InnerPos <= Len(syms)
        /\ d' = InnerPos \/ (d' = InnerPos + 1 /\ syms[InnerPos].body = "EndSLD")
    BY <1>1, <1>11 DEF EndLines, AtInner, Return
  <2>2. /\ ~ InFunc(d) /\ IsBody(d, "SetSLD2")
        /\ \A j \in d + 1 .. InnerPos - 1 : syms[j].body \in SLDBodies
    BY <2>1 DEF Place
  <2>3. \A h \in d .. InnerPos - 1 : ~ IsBody(h, "FuncStart")
    BY <1>1, <2>2 DEF IsBody, SLDBodies, IncBodies
  <2>4. ~ InFunc(InnerPos)
    BY <1>1, <2>2, <2>3, InFuncProperty
  <2>5. syms[InnerPos].body = "EndSLD" => ~ InFunc(InnerPos + 1)
    <3>1. syms[InnerPos].body = "EndSLD" => \A h \in InnerPos .. InnerPos : ~ IsBody(h, "FuncStart")
      BY <1>1 DEF IsBody
    <3>2. InnerPos \in Nat /\ InnerPos + 1 \in Nat /\ InnerPos + 1 - 1 = InnerPos
      BY <1>1
    <3>3. QED
      BY <2>4, <3>1, <3>2, InFuncProperty
  <2>6. QED
    BY <1>1, <1>2, <2>1, <2>4, <2>5
<1>12. QED
  BY <1>3, <1>4, <1>5, <1>6, <1>7, <1>8, <1>9, <1>10, <1>11, StepCases

Reads == mode \in {"top", "lines", "func", "end"}

(* What a step reads: the symbol that is next, if it is taken at all, and  *)
(* what a function that is skipped contains.                               *)
LEMMA ReadByStep ==
  ASSUME DeclTyped, Place, ParseDeclsStep, Reads'
  PROVE  /\ mode \in {"top", "lines", "func"} /\ NextPos \in Nat /\ NextPos' \in Nat
         /\ NextPos >= 1 /\ NextPos <= NextPos'
         /\ \A j \in NextPos .. NextPos' - 1 : j = NextPos \/ InFunc(j)
         /\ mode = "func" => InFunc(NextPos)
         /\ mode # "func" => ~ InFunc(NextPos)
         /\ AddOverlay \/ SetOverlay => mode' = "top" /\ NextPos = d /\ NextPos' = d + 1
         /\ ~ AddOverlay /\ ~ SetOverlay /\ NextPos' > NextPos =>
              InFunc(NextPos) \/ syms[NextPos].body \notin {"Overlay", "SetOverlay"}
<1>1. /\ syms' = syms /\ d \in Nat \ {0} /\ m \in Nat /\ InnerPos = d + 1 + m
      /\ Len(syms) \in Nat /\ DOMAIN syms = 1 .. Len(syms) /\ Typed
  BY DeclsAfterTypes, DeclSymbolProperty DEF DeclTyped, Begun, InnerPos
<1>2. ~ PanicStep
  <2>1. PanicStep => mode' \in DeclPanics
    BY PanicDoes
  <2>2. QED
    BY <2>1 DEF Reads, DeclPanics
<1>3. CASE FinishDecls
  <2>1. mode = "top" /\ mode' = "end" /\ d' = d /\ ~ InFunc(d)
    BY <1>3 DEF FinishDecls, Place
  <2>2. NextPos = d /\ NextPos' = d
    BY <2>1 DEF NextPos
  <2>3. ~ AddOverlay /\ ~ SetOverlay
    BY <1>3 DEF FinishDecls, AddOverlay, SetOverlay, Advance
  <2>4. QED
    BY <1>1, <2>1, <2>2, <2>3
<1>4. CASE AddSymbol \/ Ignore \/ AddGlobal \/ AddOverlay \/ SetOverlay
  <2>1. /\ mode = "top" /\ mode' = "top" /\ d' = d + 1 /\ Sym = syms[d]
        /\ ~ AddOverlay /\ ~ SetOverlay => Sym.body \notin {"Overlay", "SetOverlay"}
    BY <1>4 DEF AddSymbol, Ignore, AddGlobal, AddOverlay, SetOverlay, Advance, AtDecl, inner,
       NameBodies, IsDefn, IsGlobal, Sym
  <2>2. NextPos = d /\ NextPos' = d + 1 /\ ~ InFunc(d)
    BY <2>1 DEF NextPos, Place
  <2>3. \A j \in d .. d + 1 - 1 : j = d
    BY <1>1
  <2>4. QED
    BY <1>1, <2>1, <2>2, <2>3, SMTT(30)
<1>5. CASE BeginLines \/ BeginFunc
  <2>1. /\ mode = "top" /\ d' = d /\ m' = 0 /\ Sym = syms[d]
        /\ mode' \in {"lines", "func"} /\ Sym.body \notin {"Overlay", "SetOverlay"}
    BY <1>5 DEF BeginLines, BeginFunc, AtFuncStart, AtDecl, Sym
  <2>2. NextPos = d /\ NextPos' = d + 1 /\ ~ InFunc(d)
    BY <1>1, <2>1 DEF NextPos, Place, InnerPos
  <2>3. ~ AddOverlay /\ ~ SetOverlay
    BY <2>1 DEF AddOverlay, SetOverlay
  <2>4. \A j \in d .. d + 1 - 1 : j = d
    BY <1>1
  <2>5. QED
    BY <1>1, <2>1, <2>2, <2>3, <2>4
<1>6. CASE SkipFunc
  <2>1. /\ mode = "top" /\ mode' = "top" /\ d' = FirstOf(FuncEnds) + 1 /\ FuncEnds # {}
        /\ IsBody(d, "FuncStart") /\ Sym.body = "FuncStart" /\ Sym = syms[d]
    BY <1>6 DEF SkipFunc, IsDuplicate, AtFuncStart, AtDecl, inner, Sym, IsBody
  <2>2. /\ FirstOf(FuncEnds) \in d + 1 .. Len(syms)
        /\ \A j \in d + 1 .. FirstOf(FuncEnds) - 1 : ~ IsBody(j, "FuncEnd")
    BY <1>1, <2>1, SkipProperty
  <2>3. NextPos = d /\ NextPos' = FirstOf(FuncEnds) + 1 /\ ~ InFunc(d)
    BY <2>1 DEF NextPos, Place
  <2>4. \A j \in d + 1 .. FirstOf(FuncEnds) : InFunc(j)
    <3> TAKE j \in d + 1 .. FirstOf(FuncEnds)
    <3>1. \A h \in d + 1 .. j - 1 : ~ IsBody(h, "FuncEnd")
      BY <1>1, <2>2
    <3>2. j \in Nat /\ j > d /\ d >= 1
      BY <1>1, <2>2
    <3>3. QED
      BY <1>1, <2>1, <3>1, <3>2, InFuncProperty
  <2>5. \A j \in d .. FirstOf(FuncEnds) + 1 - 1 : j = d \/ j \in d + 1 .. FirstOf(FuncEnds)
    BY <1>1, <2>2
  <2>6. ~ AddOverlay /\ ~ SetOverlay
    BY <2>1 DEF AddOverlay, SetOverlay
  <2>7. QED
    BY <1>1, <2>1, <2>2, <2>3, <2>4, <2>5, <2>6
<1>7. CASE NextLine \/ EndLines
  <2>1. /\ mode = "lines" /\ InnerPos <= Len(syms) /\ ~ AddOverlay /\ ~ SetOverlay
        /\ \/ /\ mode' = "lines" /\ InnerPos' = InnerPos + 1
              /\ syms[InnerPos].body \in SLDBodies
           \/ mode' = "top" /\ d' = InnerPos
           \/ mode' = "top" /\ d' = InnerPos + 1 /\ syms[InnerPos].body = "EndSLD"
    <3>1. mode = "lines" /\ InnerPos <= Len(syms)
      BY <1>7 DEF NextLine, EndLines, AtInner
    <3>2. ~ AddOverlay /\ ~ SetOverlay
      BY <3>1 DEF AddOverlay, SetOverlay, AtDecl
    <3>3. NextLine => /\ mode' = "lines" /\ InnerPos' = InnerPos + 1
                      /\ syms[InnerPos].body \in SLDBodies
      BY <1>1 DEF NextLine, AtInner, InnerPos
    <3>4. EndLines => /\ mode' = "top"
                      /\ d' = IF syms[InnerPos].body = "EndSLD" THEN InnerPos + 1 ELSE InnerPos
      BY <1>1 DEF EndLines, AtInner, Return
    <3>5. QED
      BY <1>7, <3>1, <3>2, <3>3, <3>4
  <2>2. /\ NextPos = InnerPos /\ NextPos' \in {InnerPos, InnerPos + 1}
        /\ NextPos' > NextPos => syms[InnerPos].body \notin {"Overlay", "SetOverlay"}
    BY <1>1, <2>1 DEF NextPos, SLDBodies, IncBodies
  <2>3. /\ ~ InFunc(d) /\ IsBody(d, "SetSLD2")
        /\ \A j \in d + 1 .. InnerPos - 1 : syms[j].body \in SLDBodies
    BY <2>1 DEF Place
  <2>4. \A h \in d .. InnerPos - 1 : ~ IsBody(h, "FuncStart")
    BY <1>1, <2>3 DEF IsBody, SLDBodies, IncBodies
  <2>5. ~ InFunc(InnerPos)
    BY <1>1, <2>3, <2>4, InFuncProperty
  <2>6. \A j \in NextPos .. NextPos' - 1 : j = NextPos
    BY <1>1, <2>2
  <2>7. InnerPos \in Nat /\ InnerPos >= 1
    BY <1>1
  <2>8. QED
    BY <2>1, <2>2, <2>5, <2>6, <2>7
<1>8. CASE BlockStart \/ BlockEnd \/ AddLocal \/ EndFunc
  <2>1. /\ mode = "func" /\ ~ AddOverlay /\ ~ SetOverlay
        /\ \/ mode' = "func" /\ InnerPos' = InnerPos + 1
           \/ mode' = "top" /\ d' = InnerPos + 1
    <3>1. mode = "func"
      BY <1>8 DEF BlockStart, BlockEnd, AddLocal, EndFunc, AtFunc, AtLocal, AtInner
    <3>2. ~ AddOverlay /\ ~ SetOverlay
      BY <3>1 DEF AddOverlay, SetOverlay, AtDecl
    <3>3. BlockStart \/ BlockEnd \/ AddLocal => mode' = "func" /\ InnerPos' = InnerPos + 1
      BY <1>1 DEF BlockStart, BlockEnd, AddLocal, AtFunc, AtLocal, AtInner, InnerPos
    <3>4. EndFunc => mode' = "top" /\ d' = InnerPos + 1
      BY EndFuncDoes, Zenon
    <3>5. QED
      BY <1>8, <3>1, <3>2, <3>3, <3>4
  <2>2. NextPos = InnerPos /\ NextPos' = InnerPos + 1
    BY <2>1 DEF NextPos
  <2>3. /\ IsBody(d, "FuncStart")
        /\ \A j \in d + 1 .. InnerPos - 1 : ~ IsBody(j, "FuncEnd")
    BY <1>1, <2>1 DEF Place, IsBody
  <2>4. InFunc(InnerPos)
    BY <1>1, <2>3, InFuncProperty
  <2>5. \A j \in InnerPos .. InnerPos + 1 - 1 : j = InnerPos
    BY <1>1
  <2>6. InnerPos \in Nat /\ InnerPos >= 1 /\ InnerPos + 1 \in Nat /\ InnerPos <= InnerPos + 1
    BY <1>1
  <2>7. QED
    BY <2>1, <2>2, <2>4, <2>5, <2>6
<1>9. QED
  BY <1>2, <1>3, <1>4, <1>5, <1>6, <1>7, <1>8, StepCases

-----------------------------------------------------------------------------
(* DeclsInActiveOverlay.                                                   *)

OverlaysBefore(j) == {h \in Outside({"Overlay"}) : h < j}

(* The overlays are numbered as they are declared, the IDs name the last   *)
(* of them, and the current one is that which is active at the next symbol.*)
Numbered ==
  mode \in {"top", "lines", "func"} =>
    /\ curOverlay = ActiveAt(NextPos)
    /\ Len(overlays) = 1 + Cardinality(OverlaysBefore(NextPos))
    /\ DOMAIN overlayIDs = {syms[h].id : h \in OverlaysBefore(NextPos)}
    /\ \A id \in DOMAIN overlayIDs :
         overlayIDs[id] = OverlayMadeAt(LastOf({h \in OverlaysBefore(NextPos) : syms[h].id = id}))

LEMMA LastIs ==
  ASSUME NEW S, S \subseteq Int, NEW p \in S, \A y \in S : y <= p
  PROVE  LastOf(S) = p
<1>1. LastOf(S) \in S /\ \A y \in S : y <= LastOf(S)
  BY DEF LastOf
<1>2. p <= LastOf(S) /\ LastOf(S) <= p /\ p \in Int /\ LastOf(S) \in Int
  BY <1>1
<1>3. QED
  BY <1>2

LEMMA OutsideProperty ==
  ASSUME Typed, NEW bodies
  PROVE  /\ Outside(bodies) \subseteq 1 .. Len(syms) /\ IsFiniteSet(Outside(bodies))
         /\ \A j : j \in Outside(bodies) <=> /\ j \in 1 .. Len(syms) /\ syms[j].body \in bodies
                                             /\ ~ InFunc(j)
<1>1. Len(syms) \in Nat /\ Pos = 1 .. Len(syms)
  BY SymbolProperty DEF Typed, Pos
<1>2. /\ Outside(bodies) \subseteq 1 .. Len(syms)
      /\ \A j : j \in Outside(bodies) <=> /\ j \in 1 .. Len(syms) /\ syms[j].body \in bodies
                                          /\ ~ InFunc(j)
  BY <1>1 DEF Outside
<1>3. IsFiniteSet(1 .. Len(syms))
  BY <1>1, FS_Interval
<1>4. IsFiniteSet(Outside(bodies))
  BY <1>2, <1>3, FS_Subset
<1>5. QED
  BY <1>2, <1>4

(* Symbols that declare and choose no overlay change nothing.              *)
LEMMA ActiveKept ==
  ASSUME Typed, NEW a \in Nat, NEW b \in Nat, a <= b,
         \A j \in a .. b - 1 : InFunc(j) \/ syms[j].body \notin {"Overlay", "SetOverlay"}
  PROVE  ActiveAt(a) = ActiveAt(b) /\ OverlaysBefore(a) = OverlaysBefore(b)
<1>1. /\ \A h \in Outside({"SetOverlay"}) : h \in Nat /\ ~ InFunc(h) /\ syms[h].body = "SetOverlay"
      /\ \A h \in Outside({"Overlay"}) : h \in Nat /\ ~ InFunc(h) /\ syms[h].body = "Overlay"
  BY OutsideProperty
<1>2. {h \in Outside({"SetOverlay"}) : h < a} = {h \in Outside({"SetOverlay"}) : h < b}
  BY <1>1
<1>3. OverlaysBefore(a) = OverlaysBefore(b)
  BY <1>1 DEF OverlaysBefore
<1>4. QED
  BY <1>2, <1>3 DEF ActiveAt

LEMMA NumberedInit == BothInit => Numbered
<1> SUFFICES ASSUME BothInit PROVE Numbered
  OBVIOUS
<1>1. /\ Typed /\ mode = "top" /\ d = 1 /\ overlays = <<EmptyOverlay(0)>>
      /\ overlayIDs = [x \in {} |-> 0] /\ curOverlay = 1
  BY TypedInit DEF BothInit, DeclInit
<1>2. NextPos = 1
  BY <1>1 DEF NextPos
<1>3. {h \in Outside({"SetOverlay"}) : h < 1} = {} /\ OverlaysBefore(1) = {}
  BY <1>1, OutsideProperty DEF OverlaysBefore
<1>4. ActiveAt(1) = 1
  BY <1>3 DEF ActiveAt
<1>5. Cardinality(OverlaysBefore(1)) = 0
  BY <1>3, FS_EmptySet
<1>6. Len(overlays) = 1 /\ DOMAIN overlayIDs = {}
  BY <1>1
<1>7. DOMAIN overlayIDs = {syms[h].id : h \in OverlaysBefore(1)}
  BY <1>3, <1>6
<1>8. Len(overlays) = 1 + Cardinality(OverlaysBefore(1))
  BY <1>5, <1>6
<1>9. QED
  BY <1>1, <1>2, <1>4, <1>6, <1>7, <1>8 DEF Numbered

LEMMA NumberedStep ==
  ASSUME DeclTyped, Place, Numbered, ParseDeclsStep
  PROVE  Numbered'
<1>1. syms' = syms /\ Typed /\ Len(syms) \in Nat /\ d \in Nat \ {0}
  BY DeclsAfterTypes, DeclSymbolProperty DEF DeclTyped, Begun
<1>2. Numbered' <=>
        (mode' \in {"top", "lines", "func"} =>
          /\ curOverlay' = ActiveAt(NextPos')
          /\ Len(overlays') = 1 + Cardinality(OverlaysBefore(NextPos'))
          /\ DOMAIN overlayIDs' = {syms[h].id : h \in OverlaysBefore(NextPos')}
          /\ \A id \in DOMAIN overlayIDs' : overlayIDs'[id] =
               OverlayMadeAt(LastOf({h \in OverlaysBefore(NextPos') : syms[h].id = id})))
  BY <1>1 DEF Numbered, ActiveAt, OverlaysBefore, OverlayMadeAt, Outside, InFunc, IsBody, Pos
<1> SUFFICES ASSUME mode' \in {"top", "lines", "func"}
             PROVE  /\ curOverlay' = ActiveAt(NextPos')
                    /\ Len(overlays') = 1 + Cardinality(OverlaysBefore(NextPos'))
                    /\ DOMAIN overlayIDs' = {syms[h].id : h \in OverlaysBefore(NextPos')}
                    /\ \A id \in DOMAIN overlayIDs' : overlayIDs'[id] =
                         OverlayMadeAt(LastOf({h \in OverlaysBefore(NextPos') : syms[h].id = id}))
  BY <1>2
<1>3. Reads'
  BY DEF Reads
<1>4. /\ mode \in {"top", "lines", "func"} /\ NextPos \in Nat /\ NextPos' \in Nat
      /\ NextPos >= 1 /\ NextPos <= NextPos'
      /\ \A j \in NextPos .. NextPos' - 1 : j = NextPos \/ InFunc(j)
      /\ mode # "func" => ~ InFunc(NextPos)
      /\ AddOverlay \/ SetOverlay => mode' = "top" /\ NextPos = d /\ NextPos' = d + 1
      /\ ~ AddOverlay /\ ~ SetOverlay /\ NextPos' > NextPos =>
           InFunc(NextPos) \/ syms[NextPos].body \notin {"Overlay", "SetOverlay"}
  BY <1>3, ReadByStep
<1>5. /\ curOverlay = ActiveAt(NextPos)
      /\ Len(overlays) = 1 + Cardinality(OverlaysBefore(NextPos))
      /\ DOMAIN overlayIDs = {syms[h].id : h \in OverlaysBefore(NextPos)}
      /\ \A id \in DOMAIN overlayIDs :
           overlayIDs[id] = OverlayMadeAt(LastOf({h \in OverlaysBefore(NextPos) : syms[h].id = id}))
  BY <1>4 DEF Numbered
<1>6. CASE ~ AddOverlay /\ ~ SetOverlay
  <2>1. \A j \in NextPos .. NextPos' - 1 :
          InFunc(j) \/ syms[j].body \notin {"Overlay", "SetOverlay"}
    BY <1>4, <1>6
  <2>2. ActiveAt(NextPos) = ActiveAt(NextPos') /\ OverlaysBefore(NextPos) = OverlaysBefore(NextPos')
    BY <1>1, <1>4, <2>1, ActiveKept
  <2>3. curOverlay' = curOverlay /\ overlayIDs' = overlayIDs /\ Len(overlays') = Len(overlays)
    <3>1. UNCHANGED <<overlayIDs, curOverlay>>
      BY <1>6, StepCases, PanicDoes DEF AddSymbol, Ignore, AddGlobal, FinishDecls, BeginLines,
         NextLine, EndLines, SkipFunc, BeginFunc, EndFunc, BlockStart, BlockEnd, AddLocal, Return,
         recorded
    <3>2. overlays' = overlays \/ \E o : overlays' = [overlays EXCEPT ![curOverlay] = o]
      BY <1>6, StepCases, PanicDoes DEF AddSymbol, Ignore, AddGlobal, FinishDecls, BeginLines,
         NextLine, EndLines, SkipFunc, BeginFunc, EndFunc, BlockStart, BlockEnd, AddLocal,
         recorded, AddLine, SetFunc, SetFuncAndLine
    <3>3. \A o : Len([overlays EXCEPT ![curOverlay] = o]) = Len(overlays)
      BY CurTyped
    <3>4. QED
      BY <3>1, <3>2, <3>3
  <2>4. QED
    BY <1>5, <2>2, <2>3
<1>7. CASE SetOverlay
  <2>1. /\ Sym.body = "SetOverlay" /\ Sym.value \in DOMAIN overlayIDs /\ Sym = syms[d]
        /\ curOverlay' = overlayIDs[Sym.value] /\ UNCHANGED <<overlays, overlayIDs>>
        /\ d <= Len(syms)
    BY <1>7 DEF SetOverlay, AtDecl, Sym
  <2>2. NextPos = d /\ NextPos' = d + 1 /\ ~ InFunc(d)
    BY <1>4, <1>7 DEF SetOverlay, AtDecl
  <2>3. OverlaysBefore(d + 1) = OverlaysBefore(d)
    <3>1. \A h \in Outside({"Overlay"}) : h \in Nat /\ syms[h].body = "Overlay"
      BY <1>1, OutsideProperty
    <3>2. d \notin Outside({"Overlay"})
      BY <2>1, <3>1
    <3>3. QED
      BY <1>1, <3>1, <3>2 DEF OverlaysBefore
  <2> DEFINE sets == {h \in Outside({"SetOverlay"}) : h < d + 1}
  <2>4. d \in sets /\ sets \subseteq Int /\ \A y \in sets : y <= d
    BY <1>1, <2>1, <2>2, OutsideProperty
  <2>5. LastOf(sets) = d
    <3> HIDE DEF sets
    <3>1. QED
      BY <2>4, LastIs
  <2>6. ActiveAt(d + 1) = OverlayMadeAt(LastOf({h \in Outside({"Overlay"}) :
                                                  h < d /\ syms[h].id = syms[d].value}))
    BY <2>4, <2>5 DEF ActiveAt
  <2>7. {h \in Outside({"Overlay"}) : h < d /\ syms[h].id = syms[d].value}
        = {h \in OverlaysBefore(d) : syms[h].id = syms[d].value}
    BY DEF OverlaysBefore
  <2>8. ActiveAt(d + 1) = overlayIDs[Sym.value]
    BY <1>5, <2>1, <2>2, <2>6, <2>7
  <2> HIDE DEF sets
  <2>9. QED
    BY <1>5, <2>1, <2>2, <2>3, <2>8
<1>8. CASE AddOverlay
  <2>1. /\ Sym.body = "Overlay" /\ Sym = syms[d] /\ overlays' = Append(overlays, EmptyOverlay(Sym.id))
        /\ overlayIDs' = OverlayIDsAfter /\ curOverlay' = curOverlay /\ d <= Len(syms)
    BY <1>8 DEF AddOverlay, AtDecl, Sym
  <2>2. NextPos = d /\ NextPos' = d + 1 /\ ~ InFunc(d)
    BY <1>4, <1>8 DEF AddOverlay, AtDecl
  <2>3. d \in Outside({"Overlay"}) /\ d \notin Outside({"SetOverlay"})
    BY <1>1, <2>1, <2>2, OutsideProperty
  <2>4. OverlaysBefore(d + 1) = OverlaysBefore(d) \cup {d} /\ d \notin OverlaysBefore(d)
    BY <1>1, <2>3, OutsideProperty DEF OverlaysBefore
  <2>5. ActiveAt(d + 1) = ActiveAt(d)
    <3>1. \A h \in Outside({"SetOverlay"}) : h \in Nat
      BY <1>1, OutsideProperty
    <3>2. \A h \in Outside({"SetOverlay"}) : h # d
      BY <2>3
    <3>3. \A h \in Outside({"SetOverlay"}) : h < d + 1 <=> h < d
      BY <1>1, <3>1, <3>2
    <3>4. {h \in Outside({"SetOverlay"}) : h < d + 1} = {h \in Outside({"SetOverlay"}) : h < d}
      BY <3>3
    <3>5. QED
      BY <3>4 DEF ActiveAt
  <2>6. /\ IsFiniteSet(OverlaysBefore(d)) /\ OverlaysBefore(d) \subseteq Int
        /\ OverlaysBefore(d + 1) \subseteq Int /\ \A h \in OverlaysBefore(d + 1) : h <= d
    <3>1. Outside({"Overlay"}) \subseteq Nat /\ IsFiniteSet(Outside({"Overlay"}))
      BY <1>1, OutsideProperty
    <3>2. OverlaysBefore(d) \subseteq Outside({"Overlay"})
      BY DEF OverlaysBefore
    <3>3. IsFiniteSet(OverlaysBefore(d))
      BY <3>1, <3>2, FS_Subset
    <3>4. QED
      BY <1>1, <3>1, <3>3 DEF OverlaysBefore
  <2>7. Cardinality(OverlaysBefore(d + 1)) = Cardinality(OverlaysBefore(d)) + 1
    BY <2>4, <2>6, FS_AddElement
  <2>8. Len(overlays') = Len(overlays) + 1 /\ Len(overlays) \in Nat
    <3>1. overlays \in Seq(OverlayRecs)
      BY DEF DeclTyped, DeclTypeOK
    <3> HIDE DEF OverlayRecs
    <3>2. QED
      BY <2>1, <3>1
  <2>9. Len(overlays') = 1 + Cardinality(OverlaysBefore(d + 1))
    <3>1. Cardinality(OverlaysBefore(d)) \in Nat
      BY <2>6, FS_CardinalityType
    <3>2. Len(overlays) = 1 + Cardinality(OverlaysBefore(d))
      BY <1>5, <2>2
    <3>3. QED
      BY <2>7, <2>8, <3>1, <3>2
  <2>10. OverlayMadeAt(d) = Len(overlays) + 1
    <3>1. {h \in Outside({"Overlay"}) : h <= d} = OverlaysBefore(d + 1)
      <4>1. \A h \in Outside({"Overlay"}) : h \in Nat
        BY <1>1, OutsideProperty
      <4>2. QED
        BY <1>1, <4>1 DEF OverlaysBefore
    <3>2. QED
      BY <2>8, <2>9, <3>1 DEF OverlayMadeAt
  <2>11. DOMAIN overlayIDs' = {syms[h].id : h \in OverlaysBefore(d + 1)}
    BY <1>5, <2>1, <2>2, <2>4 DEF OverlayIDsAfter
  <2>12. ASSUME NEW id \in DOMAIN overlayIDs'
         PROVE  overlayIDs'[id] = OverlayMadeAt(LastOf({h \in OverlaysBefore(d + 1) : syms[h].id = id}))
    <3> DEFINE S == {h \in OverlaysBefore(d + 1) : syms[h].id = id}
    <3>1. CASE id = Sym.id
      <4>1. d \in S /\ S \subseteq Int /\ \A y \in S : y <= d
        BY <2>1, <2>4, <2>6, <3>1
      <4> HIDE DEF S
      <4>2. LastOf(S) = d
        BY <4>1, LastIs
      <4>3. overlayIDs'[id] = Len(overlays) + 1
        BY <2>1, <3>1 DEF OverlayIDsAfter
      <4>4. QED
        BY <2>10, <4>2, <4>3 DEF S
    <3>2. CASE id # Sym.id
      <4>1. id \in DOMAIN overlayIDs /\ overlayIDs'[id] = overlayIDs[id]
        BY <2>1, <3>2 DEF OverlayIDsAfter
      <4>2. S = {h \in OverlaysBefore(d) : syms[h].id = id}
        BY <2>1, <2>4, <3>2
      <4>3. QED
        BY <1>5, <2>2, <4>1, <4>2
    <3>3. QED
      BY <3>1, <3>2
  <2>13. QED
    BY <1>5, <2>1, <2>2, <2>5, <2>9, <2>11, <2>12
<1>9. QED
  BY <1>6, <1>7, <1>8

(* What one more entry of a list adds to what is recorded.                 *)
LEMMA OneMoreEntry ==
  ASSUME NEW S, NEW s \in Seq(S), NEW e \in S, NEW o, NEW list
  PROVE  {<<o, list, x, Append(s, e)[x].at>> : x \in DOMAIN Append(s, e)}
         = {<<o, list, x, s[x].at>> : x \in DOMAIN s} \cup {<<o, list, Len(s) + 1, e.at>>}
<1>1. /\ Len(s) \in Nat /\ DOMAIN s = 1 .. Len(s) /\ DOMAIN Append(s, e) = 1 .. Len(s) + 1
      /\ Append(s, e)[Len(s) + 1] = e /\ \A x \in DOMAIN s : Append(s, e)[x] = s[x]
  BY OneMore
<1>2. DOMAIN Append(s, e) = DOMAIN s \cup {Len(s) + 1}
  BY <1>1
<1>3. ASSUME NEW r PROVE r \in {<<o, list, x, Append(s, e)[x].at>> : x \in DOMAIN Append(s, e)}
        <=> r \in {<<o, list, x, s[x].at>> : x \in DOMAIN s} \cup {<<o, list, Len(s) + 1, e.at>>}
  BY <1>1, <1>2, Zenon
<1>4. QED
  BY <1>3, Zenon

(* An overlay with one list replaced.                                      *)
LEMMA ListReplaced ==
  ASSUME NEW v \in OverlayRecs, NEW s, NEW o
  PROVE  /\ v.symbols \in Seq(SymbolRecs) /\ v.lines \in Seq(Lines) /\ v.vars \in Seq(Vars)
         /\ v.funcs \in Seq(FuncRecs)
         /\ [v EXCEPT !.symbols = s].symbols = s
         /\ [v EXCEPT !.symbols = s].lines = v.lines
         /\ [v EXCEPT !.symbols = s].vars = v.vars
         /\ [v EXCEPT !.symbols = s].funcs = v.funcs
         /\ [v EXCEPT !.lines = s].lines = s
         /\ [v EXCEPT !.lines = s].symbols = v.symbols
         /\ [v EXCEPT !.lines = s].vars = v.vars
         /\ [v EXCEPT !.lines = s].funcs = v.funcs
         /\ [v EXCEPT !.vars = s].vars = s
         /\ [v EXCEPT !.vars = s].symbols = v.symbols
         /\ [v EXCEPT !.vars = s].lines = v.lines
         /\ [v EXCEPT !.vars = s].funcs = v.funcs
         /\ [v EXCEPT !.funcs = s].funcs = s
         /\ [v EXCEPT !.funcs = s].symbols = v.symbols
         /\ [v EXCEPT !.funcs = s].lines = v.lines
         /\ [v EXCEPT !.funcs = s].vars = v.vars
BY DEF OverlayRecs, SymbolRecs

LEMMA OneMoreSymbol ==
  ASSUME NEW v \in OverlayRecs, NEW o, NEW e \in SymbolRecs
  PROVE  Records(o, [v EXCEPT !.symbols = Append(@, e)])
         = Records(o, v) \cup {<<o, "symbols", Len(v.symbols) + 1, e.at>>}
<1> DEFINE w == Append(v.symbols, e)
<1>1. {<<o, "symbols", x, w[x].at>> : x \in DOMAIN w}
      = {<<o, "symbols", x, v.symbols[x].at>> : x \in DOMAIN v.symbols}
        \cup {<<o, "symbols", Len(v.symbols) + 1, e.at>>}
  BY ListReplaced, OneMoreEntry
<1> HIDE DEF w
<1>2. Records(o, [v EXCEPT !.symbols = w])
      = Records(o, v) \cup {<<o, "symbols", Len(v.symbols) + 1, e.at>>}
  BY <1>1, ListReplaced DEF Records
<1>3. QED
  BY <1>2 DEF w

LEMMA OneMoreLine ==
  ASSUME NEW v \in OverlayRecs, NEW o, NEW e \in Lines
  PROVE  Records(o, [v EXCEPT !.lines = Append(@, e)])
         = Records(o, v) \cup {<<o, "lines", Len(v.lines) + 1, e.at>>}
<1> DEFINE w == Append(v.lines, e)
<1>1. {<<o, "lines", x, w[x].at>> : x \in DOMAIN w}
      = {<<o, "lines", x, v.lines[x].at>> : x \in DOMAIN v.lines}
        \cup {<<o, "lines", Len(v.lines) + 1, e.at>>}
  BY ListReplaced, OneMoreEntry
<1> HIDE DEF w
<1>2. Records(o, [v EXCEPT !.lines = w])
      = Records(o, v) \cup {<<o, "lines", Len(v.lines) + 1, e.at>>}
  BY <1>1, ListReplaced DEF Records
<1>3. QED
  BY <1>2 DEF w

LEMMA OneMoreVar ==
  ASSUME NEW v \in OverlayRecs, NEW o, NEW e \in Vars
  PROVE  Records(o, [v EXCEPT !.vars = Append(@, e)])
         = Records(o, v) \cup {<<o, "vars", Len(v.vars) + 1, e.at>>}
<1> DEFINE w == Append(v.vars, e)
<1>1. {<<o, "vars", x, w[x].at>> : x \in DOMAIN w}
      = {<<o, "vars", x, v.vars[x].at>> : x \in DOMAIN v.vars}
        \cup {<<o, "vars", Len(v.vars) + 1, e.at>>}
  BY ListReplaced, OneMoreEntry
<1> HIDE DEF w
<1>2. Records(o, [v EXCEPT !.vars = w])
      = Records(o, v) \cup {<<o, "vars", Len(v.vars) + 1, e.at>>}
  BY <1>1, ListReplaced DEF Records
<1>3. QED
  BY <1>2 DEF w

LEMMA OneMoreFunc ==
  ASSUME NEW v \in OverlayRecs, NEW o, NEW e \in FuncRecs
  PROVE  Records(o, [v EXCEPT !.funcs = Append(@, e)])
         = Records(o, v) \cup {<<o, "funcs", Len(v.funcs) + 1, e.at>>}
<1> DEFINE w == Append(v.funcs, e)
<1>1. {<<o, "funcs", x, w[x].at>> : x \in DOMAIN w}
      = {<<o, "funcs", x, v.funcs[x].at>> : x \in DOMAIN v.funcs}
        \cup {<<o, "funcs", Len(v.funcs) + 1, e.at>>}
  BY ListReplaced, OneMoreEntry
<1> HIDE DEF w
<1>2. Records(o, [v EXCEPT !.funcs = w])
      = Records(o, v) \cup {<<o, "funcs", Len(v.funcs) + 1, e.at>>}
  BY <1>1, ListReplaced DEF Records
<1>3. QED
  BY <1>2 DEF w

LEMMA SameRecords ==
  ASSUME NEW v \in OverlayRecs, NEW o, NEW fs, DOMAIN fs = DOMAIN v.funcs,
         \A x \in DOMAIN fs : fs[x].at = v.funcs[x].at
  PROVE  Records(o, [v EXCEPT !.funcs = fs]) = Records(o, v)
<1>1. {<<o, "funcs", x, fs[x].at>> : x \in DOMAIN fs}
      = {<<o, "funcs", x, v.funcs[x].at>> : x \in DOMAIN v.funcs}
  <2>1. ASSUME NEW r PROVE r \in {<<o, "funcs", x, fs[x].at>> : x \in DOMAIN fs}
                           <=> r \in {<<o, "funcs", x, v.funcs[x].at>> : x \in DOMAIN v.funcs}
    BY Zenon
  <2>2. QED
    BY <2>1, Zenon
<1>2. QED
  BY <1>1, ListReplaced DEF Records

LEMMA RecordedWrite ==
  ASSUME DeclTyped, NEW o \in OverlayRecs, Write(o), NEW new,
         Records(curOverlay, o) = Records(curOverlay, Cur) \cup new
  PROVE  Recorded' = Recorded \cup new
<1>1. /\ DOMAIN overlays' = DOMAIN overlays /\ overlays'[curOverlay] = o
      /\ \A x \in DOMAIN overlays : x # curOverlay => overlays'[x] = overlays[x]
      /\ curOverlay \in DOMAIN overlays
  BY WriteProperty, Zenon DEF DeclTyped, DeclTypeOK
<1>2. Recorded' = UNION {Records(x, overlays'[x]) : x \in DOMAIN overlays'}
  BY DEF Recorded, Records
<1>3. ASSUME NEW r PROVE r \in Recorded' <=> r \in Recorded \/ r \in new
  <2>1. r \in Recorded' <=> \E x \in DOMAIN overlays : r \in Records(x, overlays'[x])
    BY <1>1, <1>2, Zenon
  <2>2. r \in Recorded <=> \E x \in DOMAIN overlays : r \in Records(x, overlays[x])
    BY Zenon DEF Recorded
  <2>3. r \in Records(curOverlay, overlays'[curOverlay])
        <=> r \in Records(curOverlay, overlays[curOverlay]) \/ r \in new
    BY <1>1 DEF Cur
  <2>4. QED
    BY <1>1, <2>1, <2>2, <2>3, Zenon
<1>4. QED
  BY <1>3

(* The records a step makes.                                               *)
Makes(new) ==
  /\ Recorded' = Recorded \cup new
  /\ \A r \in new : r[1] = curOverlay /\ r[4] = NextPos
  /\ new # {} => NextPos' = NextPos + 1
  /\ NextPos' > NextPos /\ NextPos \in Declared =>
       \E k : new = {<<curOverlay, ListFor(syms[NextPos]), k, NextPos>>}
  /\ new # {} /\ NextPos \notin Declared =>
       syms[NextPos].body \in {"FuncStart", "BlockStart", "BlockEnd"}

LEMMA MakesOne ==
  ASSUME DeclTyped, NEW o \in OverlayRecs, Write(o), NEW k,
         NextPos' = NextPos + 1, NextPos \in Declared,
         Records(curOverlay, o) = Records(curOverlay, Cur)
                                  \cup {<<curOverlay, ListFor(syms[NextPos]), k, NextPos>>}
  PROVE  \E new : Makes(new)
<1> DEFINE new == {<<curOverlay, ListFor(syms[NextPos]), k, NextPos>>}
<1>1. Recorded' = Recorded \cup new
  BY RecordedWrite
<1>2. \A r \in new : r[1] = curOverlay /\ r[4] = NextPos
  OBVIOUS
<1>3. \E x : new = {<<curOverlay, ListFor(syms[NextPos]), x, NextPos>>}
  BY Zenon
<1> HIDE DEF new
<1>4. Makes(new)
  BY <1>1, <1>2, <1>3, Zenon DEF Makes
<1>5. QED
  BY <1>4

LEMMA MakesNone ==
  ASSUME Recorded' = Recorded, NextPos' > NextPos => NextPos \notin Declared
  PROVE  \E new : Makes(new)
<1>1. Recorded' = Recorded \cup {}
  OBVIOUS
<1>2. NextPos' > NextPos /\ NextPos \in Declared =>
        \E k : {} = {<<curOverlay, ListFor(syms[NextPos]), k, NextPos>>}
  BY Zenon
<1>3. Makes({})
  BY <1>1, <1>2, Zenon DEF Makes
<1>4. QED
  BY <1>3

LEMMA DeclaredProperty ==
  ASSUME Typed
  PROVE  /\ Declared \subseteq 1 .. Len(syms)
         /\ \A j \in 1 .. Len(syms) :
              j \in Declared <=> /\ ~ InFunc(j)
                                 /\ \/ IsGlobal(syms[j])
                                    \/ syms[j].body \in NameBodies \cup SLDBodies
<1>1. \A j : j \in Declared => j \in 1 .. Len(syms)
  BY OutsideProperty DEF Declared
<1>2. ASSUME NEW j \in 1 .. Len(syms)
      PROVE  j \in Declared <=> /\ ~ InFunc(j)
                                /\ \/ IsGlobal(syms[j])
                                   \/ syms[j].body \in NameBodies \cup SLDBodies
  <2>1. j \in Outside({"Def", "Def2"}) <=> syms[j].body \in {"Def", "Def2"} /\ ~ InFunc(j)
    BY OutsideProperty
  <2>2. j \in Outside(NameBodies \cup SLDBodies)
        <=> syms[j].body \in NameBodies \cup SLDBodies /\ ~ InFunc(j)
    BY OutsideProperty
  <2>3. IsGlobal(syms[j]) => syms[j].body \in {"Def", "Def2"}
    BY DEF IsGlobal, IsDefn
  <2>4. QED
    BY <2>1, <2>2, <2>3 DEF Declared
<1>3. QED
  BY <1>1, <1>2

(* The steps at the top that make a record.                                *)
LEMMA TopMakes ==
  ASSUME DeclTyped, Place, AddSymbol \/ AddGlobal
  PROVE  \E new : Makes(new)
<1>1. /\ mode = "top" /\ mode' = "top" /\ d' = d + 1 /\ d \in 1 .. Len(syms) /\ Sym = syms[d]
      /\ \/ Sym.body \in NameBodies
         \/ IsGlobal(Sym)
  <2>1. /\ mode = "top" /\ mode' = "top" /\ d' = d + 1 /\ d <= Len(syms)
        /\ Sym.body \in NameBodies \/ IsGlobal(Sym)
    BY DEF AddSymbol, AddGlobal, Advance, AtDecl
  <2>2. d \in 1 .. Len(syms)
    BY <2>1, DeclSymbolProperty DEF DeclTyped, Begun
  <2>3. QED
    BY <2>1, <2>2 DEF Sym
<1>2. NextPos = d /\ NextPos' = NextPos + 1 /\ ~ InFunc(d)
  BY <1>1 DEF NextPos, Place
<1>3. NextPos \in Declared
  BY <1>1, <1>2, DeclaredProperty DEF DeclTyped, Begun
<1>4. Cur \in OverlayRecs
  BY CurTyped
<1>5. CASE AddSymbol
  <2>1. /\ Write([Cur EXCEPT !.symbols = Append(@, NewSymbol)])
        /\ NewSymbol \in SymbolRecs
        /\ [Cur EXCEPT !.symbols = Append(@, NewSymbol)] \in OverlayRecs
    BY <1>5, AddSymbolWrites, Zenon
  <2>2. ListFor(syms[NextPos]) = "symbols" /\ NewSymbol.at = NextPos
    BY <1>1, <1>2, <1>5 DEF AddSymbol, ListFor, NewSymbol
  <2>3. Records(curOverlay, [Cur EXCEPT !.symbols = Append(@, NewSymbol)])
        = Records(curOverlay, Cur)
          \cup {<<curOverlay, "symbols", Len(Cur.symbols) + 1, NewSymbol.at>>}
    BY <1>4, <2>1, OneMoreSymbol, Zenon
  <2>4. QED
    BY <1>2, <1>3, <2>1, <2>2, <2>3, MakesOne, Zenon
<1>6. CASE AddGlobal
  <2>0. IsDefn(Sym) /\ Sym.body \notin NameBodies \cup SLDBodies
    BY <1>6 DEF AddGlobal, IsGlobal, IsDefn, NameBodies, SLDBodies, IncBodies
  <2>1. CASE Sym.func
    <3>1. /\ NewFunc \in FuncRecs
          /\ Write([Cur EXCEPT !.funcs = Append(@, NewFunc)])
          /\ [Cur EXCEPT !.funcs = Append(@, NewFunc)] \in OverlayRecs
      BY <1>6, <2>1, AddGlobalWrites, Zenon
    <3>2. ListFor(syms[NextPos]) = "funcs" /\ NewFunc.at = NextPos
      BY <1>1, <1>2, <2>0, <2>1 DEF ListFor, NewFunc, Func
    <3>3. Records(curOverlay, [Cur EXCEPT !.funcs = Append(@, NewFunc)])
          = Records(curOverlay, Cur)
            \cup {<<curOverlay, "funcs", Len(Cur.funcs) + 1, NewFunc.at>>}
      BY <1>4, <3>1, OneMoreFunc, Zenon
    <3>4. QED
      BY <1>2, <1>3, <3>1, <3>2, <3>3, MakesOne, Zenon
  <2>2. CASE ~ Sym.func
    <3>1. /\ Var(d) \in Vars
          /\ Write([Cur EXCEPT !.vars = Append(@, Var(d))])
          /\ [Cur EXCEPT !.vars = Append(@, Var(d))] \in OverlayRecs
      BY <1>6, <2>2, AddGlobalWrites, Zenon
    <3>2. ListFor(syms[NextPos]) = "vars" /\ Var(d).at = NextPos
      BY <1>1, <1>2, <2>0, <2>2 DEF ListFor, Var
    <3>3. Records(curOverlay, [Cur EXCEPT !.vars = Append(@, Var(d))])
          = Records(curOverlay, Cur)
            \cup {<<curOverlay, "vars", Len(Cur.vars) + 1, Var(d).at>>}
      BY <1>4, <3>1, OneMoreVar, Zenon
    <3>4. QED
      BY <1>2, <1>3, <3>1, <3>2, <3>3, MakesOne, Zenon
  <2>3. QED
    BY <2>1, <2>2
<1>7. QED
  BY <1>5, <1>6

(* A line number entry.                                                    *)
LEMMA LineRecord ==
  ASSUME DeclTyped, NEW v \in OverlayRecs, NEW j \in 1 .. Len(syms), NEW line \in LineRecs, NEW o
  PROVE  Records(o, WithLine(v, j, line))
         = Records(o, v) \cup {<<o, "lines", Len(v.lines) + 1, j>>}
<1>1. LineEntry(j, line) \in Lines /\ LineEntry(j, line).at = j
  BY LineTyped DEF LineEntry
<1>2. QED
  BY <1>1, OneMoreLine, ZenonT(40) DEF WithLine

LEMMA LinesMake ==
  ASSUME DeclTyped, Place, ParseDeclsStep, BeginLines \/ NextLine
  PROVE  \E new : Makes(new)
<1>1. Cur \in OverlayRecs
  BY CurTyped
<1>2. \E line \in LineRecs : AddLine(NextPos, line)
  <2>1. CASE BeginLines
    <3>1. d \in 1 .. Len(syms) /\ Sym.body = "SetSLD2" /\ Sym = syms[d] /\ mode = "top"
      BY <2>1, DeclSymbolProperty DEF BeginLines, AtDecl, DeclTyped, Begun, Sym
    <3>2. StartLine \in LineRecs
      BY <3>1, DeclSymbolProperty DEF DeclTyped, Begun, IsDeclSymbol, LineBodies, StartLine, LineRecs
    <3>3. AddLine(d, StartLine) /\ NextPos = d
      BY <2>1, <3>1 DEF BeginLines, StartLine, NextPos
    <3>4. QED
      BY <3>2, <3>3
  <2>2. CASE NextLine
    <3>1. /\ InnerPos \in 1 .. Len(syms) /\ syms[InnerPos].body \in SLDBodies /\ NextPos = InnerPos
          /\ AddLine(InnerPos, LineAfter(syms[InnerPos]))
      BY <2>2, DeclSymbolProperty DEF NextLine, AtInner, InnerPos, DeclTyped, Begun, NextPos
    <3>2. LineAfter(syms[InnerPos]) \in LineRecs
      BY <3>1, LineAfterTyped
    <3>3. QED
      BY <3>1, <3>2
  <2>3. QED
    BY <2>1, <2>2
<1>3. /\ NextPos \in 1 .. Len(syms) /\ syms[NextPos].body \in SLDBodies /\ NextPos' = NextPos + 1
      /\ ~ InFunc(NextPos)
  <2>1. CASE BeginLines
    <3>1. /\ mode = "top" /\ mode' = "lines" /\ d' = d /\ m' = 0 /\ d \in 1 .. Len(syms)
          /\ syms[d].body = "SetSLD2"
      BY <2>1, DeclSymbolProperty DEF BeginLines, AtDecl, DeclTyped, Begun, Sym
    <3>2. NextPos = d /\ NextPos' = d + 1 /\ ~ InFunc(d)
      BY <3>1 DEF NextPos, InnerPos, Place
    <3>3. QED
      BY <3>1, <3>2 DEF SLDBodies
  <2>2. CASE NextLine
    <3>1. /\ mode = "lines" /\ mode' = "lines" /\ d' = d /\ m' = m + 1 /\ d \in Nat /\ m \in Nat
          /\ syms[InnerPos].body \in SLDBodies /\ InnerPos \in 1 .. Len(syms)
      BY <2>2, DeclSymbolProperty DEF NextLine, AtInner, DeclTyped, Begun, InnerPos
    <3>2. NextPos = InnerPos /\ NextPos' = InnerPos + 1
      BY <3>1 DEF NextPos, InnerPos
    <3>3. Reads'
      BY <3>1 DEF Reads
    <3>4. ~ InFunc(NextPos)
      BY <3>1, <3>3, ReadByStep
    <3>5. QED
      BY <3>1, <3>2, <3>4
  <2>3. QED
    BY <2>1, <2>2
<1>4. NextPos \in Declared /\ ListFor(syms[NextPos]) = "lines"
  BY <1>3, DeclaredProperty DEF DeclTyped, Begun, ListFor, NameBodies, SLDBodies, IncBodies
<1>5. PICK line \in LineRecs : AddLine(NextPos, line)
  BY <1>2
<1>6. Write(WithLine(Cur, NextPos, line))
  BY <1>5, Zenon DEF AddLine, Write, Cur
<1>7. WithLine(Cur, NextPos, line) \in OverlayRecs
  BY <1>1, <1>3, LineTyped, Zenon
<1>8. Records(curOverlay, WithLine(Cur, NextPos, line))
      = Records(curOverlay, Cur) \cup {<<curOverlay, "lines", Len(Cur.lines) + 1, NextPos>>}
  BY <1>1, <1>3, LineRecord, Zenon
<1>9. QED
  BY <1>3, <1>4, <1>6, <1>7, <1>8, MakesOne, Zenon

(* The steps of parseFunc make no declaration.                             *)
LEMMA MakesOther ==
  ASSUME DeclTyped, NEW o \in OverlayRecs, Write(o), NEW new,
         \A r \in new : r[1] = curOverlay /\ r[4] = NextPos,
         new # {} => /\ NextPos' = NextPos + 1
                     /\ syms[NextPos].body \in {"FuncStart", "BlockStart", "BlockEnd"},
         NextPos \notin Declared,
         Records(curOverlay, o) = Records(curOverlay, Cur) \cup new
  PROVE  \E w : Makes(w)
<1>1. Recorded' = Recorded \cup new
  BY RecordedWrite
<1>2. Makes(new)
  BY <1>1, Zenon DEF Makes
<1>3. QED
  BY <1>2

LEMMA BeginFuncMakes ==
  ASSUME DeclTyped, Place, BeginFunc
  PROVE  \E new : Makes(new)
<1>1. /\ d \in 1 .. Len(syms) /\ Sym.body = "FuncStart" /\ StartLine \in LineRecs
      /\ Write(BegunOverlay) /\ BegunOverlay \in OverlayRecs
      /\ BegunFuncs \in Seq(FuncRecs) /\ BegunFunc \in FuncRecs
      /\ DOMAIN BegunFuncs = DOMAIN FuncsAfterFind
      /\ BegunFuncs[FindFunc] = BegunFunc
      /\ \A x \in DOMAIN FuncsAfterFind : x # FindFunc => BegunFuncs[x] = FuncsAfterFind[x]
  BY BeginFuncWrites, Zenon
<1>2. Cur \in OverlayRecs /\ Funcs = Cur.funcs
  BY CurTyped
<1>3. /\ FuncsAfterFind \in Seq(FuncRecs) /\ FindFunc \in DOMAIN FuncsAfterFind
      /\ FuncsAfterFind[FindFunc] \in FuncRecs
      /\ \/ FuncsAfterFind = Funcs
         \/ FuncsAfterFind = Append(Funcs, EmptyFunc) /\ EmptyFunc \in FuncRecs
  <2>1. /\ FuncsAfterFind \in Seq(FuncRecs) /\ FindFunc \in DOMAIN FuncsAfterFind
        /\ FuncsAfterFind[FindFunc] \in FuncRecs
        /\ FuncsAfterFind = Funcs \/ FuncsAfterFind[FindFunc] = EmptyFunc
    BY <1>1, FindFuncProperty, Zenon
  <2>2. FuncsAfterFind = Funcs \/ FuncsAfterFind = Append(Funcs, EmptyFunc)
    BY DEF FuncsAfterFind
  <2>3. QED
    BY <2>1, <2>2, Zenon
<1>4. \A x \in DOMAIN BegunFuncs : BegunFuncs[x].at = FuncsAfterFind[x].at
  <2>1. BegunFunc.at = FuncsAfterFind[FindFunc].at
    BY <1>3 DEF BegunFunc, FuncRecs
  <2>2. QED
    BY <1>1, <2>1, Zenon
<1>5. /\ mode = "top" /\ mode' = "func" /\ d' = d /\ m' = 0 /\ d \in Nat /\ Sym = syms[d]
  BY <1>1 DEF BeginFunc, AtFuncStart, AtDecl, Sym, DeclTyped, Begun
<1>6. /\ NextPos = d /\ NextPos' = NextPos + 1 /\ syms[NextPos].body = "FuncStart"
      /\ NextPos \notin Declared
  <2>1. NextPos = d /\ NextPos' = NextPos + 1
    BY <1>5 DEF NextPos, InnerPos
  <2>2. d \notin Declared
    BY <1>1, <1>5, DeclaredProperty
    DEF DeclTyped, Begun, IsGlobal, IsDefn, NameBodies, SLDBodies, IncBodies
  <2>3. QED
    BY <1>1, <1>5, <2>1, <2>2
<1> DEFINE w == [Cur EXCEPT !.funcs = BegunFuncs]
           line == <<curOverlay, "lines", Len(w.lines) + 1, d>>
<1>7. w \in OverlayRecs
  BY <1>1, <1>2, OverlayTyped, Zenon
<1>8. Records(curOverlay, BegunOverlay) = Records(curOverlay, w) \cup {line}
  <2> HIDE DEF w
  <2>1. Records(curOverlay, WithLine(w, d, StartLine)) = Records(curOverlay, w) \cup {line}
    BY <1>1, <1>7, LineRecord, Zenon
  <2>2. BegunOverlay = WithLine(w, d, StartLine)
    BY DEF BegunOverlay, w
  <2>3. QED
    BY <2>1, <2>2
<1>9. CASE FuncsAfterFind = Funcs
  <2>1. Records(curOverlay, w) = Records(curOverlay, Cur)
    BY <1>1, <1>2, <1>4, <1>9, SameRecords, Zenon
  <2> HIDE DEF w
  <2> DEFINE new == {line}
  <2>2. Records(curOverlay, BegunOverlay) = Records(curOverlay, Cur) \cup new
    BY <1>8, <2>1
  <2>3. \A r \in new : r[1] = curOverlay /\ r[4] = NextPos
    BY <1>6
  <2>4. syms[NextPos].body \in {"FuncStart", "BlockStart", "BlockEnd"}
    BY <1>6
  <2> HIDE DEF new
  <2>5. QED
    BY <1>1, <1>6, <2>2, <2>3, <2>4, MakesOther, Zenon
<1>10. CASE FuncsAfterFind = Append(Funcs, EmptyFunc) /\ EmptyFunc \in FuncRecs
  <2> DEFINE u == [Cur EXCEPT !.funcs = Append(@, EmptyFunc)]
             func == <<curOverlay, "funcs", Len(Cur.funcs) + 1, EmptyFunc.at>>
  <2>1. Records(curOverlay, u) = Records(curOverlay, Cur) \cup {func}
    BY <1>2, <1>10, OneMoreFunc, Zenon
  <2>2. u \in OverlayRecs
    BY <1>2, <1>10, OverlayTyped, Zenon
  <2>3. u.funcs = FuncsAfterFind /\ w = [u EXCEPT !.funcs = BegunFuncs]
    BY <1>2, <1>10 DEF OverlayRecs
  <2>4. EmptyFunc.at = d
    BY DEF EmptyFunc, Func
  <2> HIDE DEF u, w
  <2>5. Records(curOverlay, [u EXCEPT !.funcs = BegunFuncs]) = Records(curOverlay, u)
    BY <1>1, <1>4, <2>2, <2>3, SameRecords, Zenon
  <2> DEFINE new == {func, line}
  <2>6. Records(curOverlay, BegunOverlay) = Records(curOverlay, Cur) \cup new
    BY <1>8, <2>1, <2>3, <2>5
  <2>7. \A r \in new : r[1] = curOverlay /\ r[4] = NextPos
    BY <1>6, <2>4
  <2>8. syms[NextPos].body \in {"FuncStart", "BlockStart", "BlockEnd"}
    BY <1>6
  <2> HIDE DEF new
  <2>9. QED
    BY <1>1, <1>6, <2>6, <2>7, <2>8, MakesOther, Zenon
<1>11. QED
  BY <1>3, <1>9, <1>10

LEMMA FuncMakes ==
  ASSUME DeclTyped, Place, ParseDeclsStep, EndFunc \/ BlockStart \/ BlockEnd \/ AddLocal
  PROVE  \E new : Makes(new)
<1>1. /\ mode = "func" /\ mode' \in {"top", "func"} /\ InnerPos \in 1 .. Len(syms)
      /\ UNCHANGED curOverlay
  BY EndFuncDoes, BlockStartDoes, BlockEndDoes, AddLocalDoes, Zenon
<1>2. NextPos = InnerPos /\ NextPos' = NextPos + 1
  <2>1. NextPos = InnerPos /\ InnerPos = d + 1 + m /\ d \in Nat /\ m \in Nat
    BY <1>1 DEF NextPos, InnerPos, DeclTyped, Begun
  <2>2. EndFunc => mode' = "top" /\ d' = InnerPos + 1
    BY EndFuncDoes, Zenon
  <2>3. BlockStart \/ BlockEnd \/ AddLocal => mode' = "func" /\ d' = d /\ m' = m + 1
    BY BlockStartDoes, BlockEndDoes, AddLocalDoes, Zenon
  <2>4. mode' = "top" /\ d' = InnerPos + 1 => NextPos' = InnerPos + 1
    BY DEF NextPos
  <2>5. mode' = "func" /\ d' = d /\ m' = m + 1 => NextPos' = InnerPos + 1
    BY <2>1 DEF NextPos, InnerPos
  <2>6. QED
    BY <2>1, <2>2, <2>3, <2>4, <2>5
<1>3. NextPos \notin Declared
  <2>1. Reads'
    BY <1>1 DEF Reads
  <2>2. InFunc(NextPos)
    BY <1>1, <2>1, ReadByStep
  <2>3. QED
    BY <1>1, <1>2, <2>2, DeclaredProperty DEF DeclTyped, Begun
<1>4. Cur \in OverlayRecs /\ Funcs = Cur.funcs /\ fn \in DOMAIN Funcs /\ CurFunc \in FuncRecs
      /\ CurFunc = Funcs[fn]
  BY <1>1, CurTyped DEF DeclTyped, DeclTypeOK, CurFunc
<1>5. ASSUME NEW f \in FuncRecs, f.at = CurFunc.at
      PROVE  Records(curOverlay, FuncSet(f)) = Records(curOverlay, Cur) /\ FuncSet(f) \in OverlayRecs
  <2> DEFINE fs == [Funcs EXCEPT ![fn] = f]
  <2>1. DOMAIN fs = DOMAIN Cur.funcs /\ \A x \in DOMAIN fs : fs[x].at = Cur.funcs[x].at
    BY <1>4, <1>5
  <2> HIDE DEF fs
  <2>2. Records(curOverlay, [Cur EXCEPT !.funcs = fs]) = Records(curOverlay, Cur)
    BY <1>4, <2>1, SameRecords, Zenon
  <2>3. FuncSet(f) \in OverlayRecs
    BY <1>1, SetFuncWrites, Zenon
  <2>4. QED
    BY <2>2, <2>3 DEF FuncSet, fs
<1>6. CASE EndFunc \/ AddLocal
  <2>1. \E f \in FuncRecs : f.at = CurFunc.at /\ SetFunc(f)
    <3>1. EndedFunc.at = CurFunc.at /\ LocalFunc.at = CurFunc.at
      BY <1>4 DEF EndedFunc, LocalFunc, FuncRecs
    <3>2. QED
      BY <1>6, <3>1, EndFuncDoes, AddLocalDoes, Zenon
  <2>2. PICK f \in FuncRecs : f.at = CurFunc.at /\ SetFunc(f)
    BY <2>1, Zenon
  <2>3. Write(FuncSet(f))
    BY <1>1, <2>2, SetFuncWrites, Zenon
  <2> DEFINE new == {}
  <2>4. Records(curOverlay, FuncSet(f)) = Records(curOverlay, Cur) \cup new /\ ~ new # {}
        /\ \A r \in new : r[1] = curOverlay /\ r[4] = NextPos
    BY <1>5, <2>2
  <2> HIDE DEF new
  <2>5. FuncSet(f) \in OverlayRecs
    BY <1>5, <2>2
  <2>6. QED
    BY <1>3, <2>3, <2>4, <2>5, MakesOther, Zenon
<1>7. ASSUME NEW v \in OverlayRecs, NEW line \in LineRecs, Write(WithLine(v, InnerPos, line)),
             Records(curOverlay, v) = Records(curOverlay, Cur),
             syms[InnerPos].body \in {"BlockStart", "BlockEnd"}
      PROVE  \E new : Makes(new)
  <2> DEFINE r == <<curOverlay, "lines", Len(v.lines) + 1, InnerPos>>
  <2>1. WithLine(v, InnerPos, line) \in OverlayRecs
    BY <1>1, <1>7, LineTyped, Zenon
  <2>2. Records(curOverlay, WithLine(v, InnerPos, line)) = Records(curOverlay, v) \cup {r}
    BY <1>1, <1>7, LineRecord
  <2>3. \A q \in {r} : q[1] = curOverlay /\ q[4] = NextPos
    BY <1>2
  <2>4. syms[NextPos].body \in {"FuncStart", "BlockStart", "BlockEnd"}
    BY <1>2, <1>7
  <2> HIDE DEF r
  <2>5. QED
    BY <1>2, <1>3, <1>7, <2>1, <2>2, <2>3, <2>4, MakesOther, Zenon
<1>8. CASE BlockStart
  <2>1. /\ BlockFunc \in FuncRecs /\ BlockLine \in LineRecs /\ SetFuncAndLine(BlockFunc, BlockLine)
        /\ syms[InnerPos].body = "BlockStart"
    BY <1>8, BlockStartDoes, Zenon
  <2>2. BlockFunc.at = CurFunc.at
    BY <1>4 DEF BlockFunc, FuncRecs
  <2>3. Write(WithLine(FuncSet(BlockFunc), InnerPos, BlockLine))
    BY <1>1, <2>1, SetFuncWrites, Zenon
  <2>4. syms[InnerPos].body \in {"BlockStart", "BlockEnd"}
    BY <2>1
  <2>5. QED
    BY <1>5, <1>7, <2>1, <2>2, <2>3, <2>4, Zenon
<1>9. CASE BlockEnd
  <2>1. /\ BlockLine \in LineRecs /\ AddLine(InnerPos, BlockLine)
        /\ syms[InnerPos].body = "BlockEnd"
    BY <1>9, BlockEndDoes, Zenon
  <2>2. Write(WithLine(Cur, InnerPos, BlockLine))
    BY <2>1, Zenon DEF AddLine, Write, Cur
  <2>3. syms[InnerPos].body \in {"BlockStart", "BlockEnd"}
    BY <2>1
  <2>4. QED
    BY <1>4, <1>7, <2>1, <2>2, <2>3, Zenon
<1>10. QED
  BY <1>6, <1>8, <1>9

(* The steps that record nothing.                                          *)
LEMMA QuietMakes ==
  ASSUME DeclTyped, Place, ParseDeclsStep,
         \/ Ignore \/ SetOverlay \/ FinishDecls \/ EndLines \/ SkipFunc \/ AddOverlay \/ PanicStep
  PROVE  \E new : Makes(new)
<1>1. /\ d \in Nat \ {0} /\ m \in Nat /\ Len(syms) \in Nat /\ Typed /\ InnerPos = d + 1 + m
  BY DeclSymbolProperty DEF DeclTyped, Begun, InnerPos
<1>2. Recorded' = Recorded
  <2>1. CASE Ignore \/ SetOverlay \/ FinishDecls \/ EndLines \/ SkipFunc \/ PanicStep
    <3>1. overlays' = overlays
      BY <2>1, PanicDoes DEF Ignore, SetOverlay, FinishDecls, EndLines, SkipFunc, recorded
    <3>2. QED
      BY <3>1 DEF Recorded
  <2>2. CASE AddOverlay
    <3>1. overlays' = Append(overlays, EmptyOverlay(Sym.id))
      BY <2>2 DEF AddOverlay
    <3>2. /\ Len(overlays) \in Nat /\ DOMAIN overlays = 1 .. Len(overlays)
          /\ DOMAIN overlays' = 1 .. Len(overlays) + 1
          /\ overlays'[Len(overlays) + 1] = EmptyOverlay(Sym.id)
          /\ \A x \in DOMAIN overlays : overlays'[x] = overlays[x]
      <4>1. overlays \in Seq(OverlayRecs)
        BY DEF DeclTyped, DeclTypeOK
      <4> HIDE DEF OverlayRecs
      <4> DEFINE e == EmptyOverlay(Sym.id)
      <4> HIDE DEF e
      <4>2. overlays' = Append(overlays, e)
        BY <3>1 DEF e
      <4>3. QED
        BY <4>1, <4>2 DEF e
    <3>3. Records(Len(overlays) + 1, EmptyOverlay(Sym.id)) = {}
      BY DEF Records, EmptyOverlay
    <3>4. Recorded' = UNION {Records(x, overlays'[x]) : x \in DOMAIN overlays'}
      BY DEF Recorded, Records
    <3>5. \A x : x \in DOMAIN overlays' <=> x \in DOMAIN overlays \/ x = Len(overlays) + 1
      BY <3>2
    <3>6. ASSUME NEW r PROVE r \in Recorded' <=> r \in Recorded
      <4>1. r \in Recorded' <=> \E x \in DOMAIN overlays' : r \in Records(x, overlays'[x])
        BY <3>4, Zenon
      <4>2. r \in Recorded <=> \E x \in DOMAIN overlays : r \in Records(x, overlays[x])
        BY Zenon DEF Recorded
      <4>3. r \notin Records(Len(overlays) + 1, overlays'[Len(overlays) + 1])
        BY <3>2, <3>3
      <4>4. QED
        BY <3>2, <3>5, <4>1, <4>2, <4>3, Zenon
    <3>7. QED
      BY <3>6
  <2>3. QED
    BY <2>1, <2>2
<1>3. NextPos' > NextPos => NextPos \notin Declared
  <2>1. CASE FinishDecls \/ PanicStep
    <3>1. UNCHANGED <<d, m>> /\ mode' \in {"end"} \cup DeclPanics
      BY <2>1, PanicDoes DEF FinishDecls, inner
    <3>2. NextPos' = d
      BY <3>1 DEF NextPos, DeclPanics
    <3>3. NextPos >= d
      BY <1>1 DEF NextPos
    <3>4. NextPos \in Nat
      BY <1>1 DEF NextPos
    <3>5. QED
      BY <1>1, <3>2, <3>3, <3>4
  <2>2. CASE Ignore \/ SetOverlay \/ AddOverlay \/ SkipFunc
    <3>1. /\ mode = "top" /\ d <= Len(syms) /\ Sym = syms[d]
          /\ \/ Sym.body \in {"EndSLD", "Overlay", "SetOverlay", "FuncStart"}
             \/ IsDefn(Sym) /\ Sym.class \in IgnoredClasses(Sym.body)
      BY <2>2 DEF Ignore, SetOverlay, AddOverlay, SkipFunc, AtFuncStart, AtDecl, Sym
    <3>2. NextPos = d /\ d \in 1 .. Len(syms)
      BY <1>1, <3>1 DEF NextPos
    <3>3. ~ IsGlobal(Sym) /\ Sym.body \notin NameBodies \cup SLDBodies
      BY <3>1 DEF IsGlobal, IgnoredClasses, GlobalClasses, IsDefn, NameBodies, SLDBodies, IncBodies
    <3>4. QED
      BY <1>1, <3>1, <3>2, <3>3, DeclaredProperty
  <2>3. CASE EndLines
    <3>1. /\ mode = "lines" /\ mode' = "top" /\ InnerPos \in 1 .. Len(syms)
          /\ d' = InnerPos \/ (d' = InnerPos + 1 /\ syms[InnerPos].body = "EndSLD")
      BY <1>1, <2>3 DEF EndLines, AtInner, Return
    <3>2. NextPos = InnerPos /\ NextPos' = d'
      BY <3>1 DEF NextPos
    <3>3. NextPos' > NextPos => syms[InnerPos].body = "EndSLD"
      BY <1>1, <3>1, <3>2
    <3>4. syms[InnerPos].body = "EndSLD" =>
            ~ IsGlobal(syms[InnerPos]) /\ syms[InnerPos].body \notin NameBodies \cup SLDBodies
      BY DEF IsGlobal, IsDefn, NameBodies, SLDBodies, IncBodies
    <3>5. QED
      BY <1>1, <3>1, <3>2, <3>3, <3>4, DeclaredProperty
  <2>4. QED
    BY <2>1, <2>2, <2>3
<1>4. QED
  BY <1>2, <1>3, MakesNone

LEMMA StepMakes ==
  ASSUME DeclTyped, Place, ParseDeclsStep
  PROVE  \E new : Makes(new)
BY StepCases, TopMakes, LinesMake, BeginFuncMakes, FuncMakes, QuietMakes, Zenon

(* The steps of ParseTypes change nothing of the second pass.              *)
LEMMA TypesKeepDecls ==
  ASSUME [Next]_vars, UNCHANGED declVars
  PROVE  /\ syms' = syms /\ NextPos' = NextPos
         /\ UNCHANGED <<overlays, overlayIDs, curOverlay, d, m, curLine, fn, curBlock, blocks, mode>>
<1>1. syms' = syms
  <2>1. CASE Next
    BY <2>1 DEF Next, InitTaggedTypes, TopStep, TagStep, BadBase, BeginTag, ParseTypedef,
         BadTypedef, SkipSymbol, Finish, AddField, AddMethod, BadType, AddEnumMember, BadClass,
         PassOver, EndTag, Unreachable, Panic
  <2>2. CASE UNCHANGED vars
    BY <2>2 DEF vars
  <2>3. QED
    BY <2>1, <2>2
<1>2. UNCHANGED <<overlays, overlayIDs, curOverlay, d, m, curLine, fn, curBlock, blocks, mode>>
  BY DEF declVars, recorded, inner
<1>3. NextPos' = NextPos
  BY <1>2 DEF NextPos, InnerPos
<1>4. QED
  BY <1>1, <1>2, <1>3

(* The positions of ParseDecls, and the overlays it numbers.               *)
Standing == DeclTyped /\ Place /\ Numbered

LEMMA StandingInit == BothInit => Standing
BY DeclTypedInit, PlaceInit, NumberedInit DEF Standing

LEMMA StandingStep == Standing /\ [BothNext]_allVars => Standing'
<1> SUFFICES ASSUME Standing, [BothNext]_allVars PROVE Standing'
  OBVIOUS
<1>1. DeclTyped'
  BY DeclTypedStep DEF Standing
<1>2. CASE ParseDeclsStep
  BY <1>1, <1>2, PlaceStep, NumberedStep DEF Standing
<1>3. CASE [Next]_vars /\ UNCHANGED declVars
  <2>1. /\ syms' = syms /\ NextPos' = NextPos
        /\ UNCHANGED <<overlays, overlayIDs, curOverlay, d, m, curLine, fn, curBlock, blocks, mode>>
    BY <1>3, TypesKeepDecls
  <2>2. Place'
    BY <2>1 DEF Standing, Place, InFunc, IsBody, InnerPos
  <2>3. Numbered'
    <3>1. Numbered' <=>
            (mode' \in {"top", "lines", "func"} =>
              /\ curOverlay' = ActiveAt(NextPos')
              /\ Len(overlays') = 1 + Cardinality(OverlaysBefore(NextPos'))
              /\ DOMAIN overlayIDs' = {syms[h].id : h \in OverlaysBefore(NextPos')}
              /\ \A id \in DOMAIN overlayIDs' : overlayIDs'[id] =
                   OverlayMadeAt(LastOf({h \in OverlaysBefore(NextPos') : syms[h].id = id})))
      BY <2>1 DEF Numbered, ActiveAt, OverlaysBefore, OverlayMadeAt, Outside, InFunc, IsBody, Pos
    <3>2. QED
      BY <2>1, <3>1, Zenon DEF Standing, Numbered
  <2>4. QED
    BY <1>1, <2>2, <2>3 DEF Standing
<1>4. QED
  BY <1>2, <1>3 DEF BothNext, allVars

ActiveRecords == \A r \in Recorded : ActiveAt(r[4]) = r[1]

LEMMA ActiveRecordsStep == Standing /\ ActiveRecords /\ [BothNext]_allVars => ActiveRecords'
<1> SUFFICES ASSUME Standing, ActiveRecords, [BothNext]_allVars PROVE ActiveRecords'
  OBVIOUS
<1>1. syms' = syms => (ActiveRecords' <=> \A r \in Recorded' : ActiveAt(r[4]) = r[1])
  BY DEF ActiveRecords, ActiveAt, OverlayMadeAt, Outside, InFunc, IsBody, Pos
<1>2. CASE ParseDeclsStep
  <2>1. syms' = syms
    BY <1>2, DeclsAfterTypes DEF Standing, DeclTyped
  <2>2. PICK new : Makes(new)
    BY <1>2, StepMakes DEF Standing
  <2>3. CASE new = {}
    BY <1>1, <2>1, <2>2, <2>3 DEF Makes, ActiveRecords
  <2>4. CASE new # {}
    <3>1. mode \in {"top", "lines", "func"}
      BY <1>2, StepCases DEF AddSymbol, Ignore, AddGlobal, AddOverlay, SetOverlay, FinishDecls,
         BeginLines, NextLine, EndLines, SkipFunc, BeginFunc, EndFunc, BlockStart, BlockEnd, AddLocal,
         AtDecl, AtFuncStart, AtInner, AtFunc, AtLocal, PanicStep, BadGlobal, BadTopClass,
         UnknownOverlay, BadTopBody, SliceEnd, NilBlock, BadLocalType, BadLocalClass, BadFuncBody
    <3>2. curOverlay = ActiveAt(NextPos)
      BY <3>1 DEF Standing, Numbered
    <3>3. \A r \in new : ActiveAt(r[4]) = r[1]
      BY <2>2, <3>2 DEF Makes
    <3>4. QED
      BY <1>1, <2>1, <2>2, <3>3 DEF Makes, ActiveRecords
  <2>5. QED
    BY <2>3, <2>4
<1>3. CASE [Next]_vars /\ UNCHANGED declVars
  <2>1. syms' = syms /\ overlays' = overlays
    BY <1>3, TypesKeepDecls
  <2>2. Recorded' = Recorded
    BY <2>1 DEF Recorded, Records
  <2>3. QED
    BY <1>1, <2>1, <2>2 DEF ActiveRecords
<1>4. QED
  BY <1>2, <1>3 DEF BothNext, allVars

(* Whatever ParseDecls records, it records in the overlay that a reader of *)
(* the stream would say is active there: parseOverlay numbers the overlays *)
(* as they come, and p.overlayIDs names the last one with the ID that      *)
(* parseSetOverlay looks up.                                               *)
THEOREM OverlaysAreFollowed == BothSpec => []DeclsInActiveOverlay
<1>1. BothInit => Standing /\ ActiveRecords
  <2> SUFFICES ASSUME BothInit PROVE Standing /\ ActiveRecords
    OBVIOUS
  <2>1. overlays = <<EmptyOverlay(0)>>
    BY DEF BothInit, DeclInit
  <2>2. DOMAIN overlays = {1} /\ overlays[1] = EmptyOverlay(0)
    BY <2>1
  <2>3. Records(1, EmptyOverlay(0)) = {}
    BY DEF Records, EmptyOverlay
  <2>4. Recorded = {}
    BY <2>2, <2>3 DEF Recorded
  <2>5. QED
    BY <2>4, StandingInit DEF ActiveRecords
<1>2. Standing /\ ActiveRecords /\ [BothNext]_allVars => Standing' /\ ActiveRecords'
  BY StandingStep, ActiveRecordsStep
<1>3. Standing /\ ActiveRecords => DeclsInActiveOverlay
  BY DEF ActiveRecords, DeclsInActiveOverlay
<1>4. QED
  BY <1>1, <1>2, <1>3, PTL DEF BothSpec

-----------------------------------------------------------------------------
(* EachDeclarationOnce.                                                    *)

(* What stands before the next symbol is recorded, once, and nothing else. *)
OnceSoFar ==
  Reads =>
    /\ \A r \in Made : r[4] \in Declared /\ r[4] < NextPos /\ r[2] = ListFor(syms[r[4]])
    /\ \A j \in Declared : j < NextPos => \E r \in Made : r[4] = j
    /\ \A r, q \in Made : r[4] = q[4] => r = q

LEMMA OnceSoFarStep == Standing /\ OnceSoFar /\ [BothNext]_allVars => OnceSoFar'
<1> SUFFICES ASSUME Standing, OnceSoFar, [BothNext]_allVars, Reads' PROVE OnceSoFar'
  BY DEF OnceSoFar
<1>1. syms' = syms =>
        /\ OnceSoFar' <=>
             (Reads' =>
               /\ \A r \in Made' : r[4] \in Declared /\ r[4] < NextPos' /\ r[2] = ListFor(syms[r[4]])
               /\ \A j \in Declared : j < NextPos' => \E r \in Made' : r[4] = j
               /\ \A r, q \in Made' : r[4] = q[4] => r = q)
        /\ Made' = {r \in Recorded' :
                      syms[r[4]].body \notin {"FuncStart", "BlockStart", "BlockEnd"}}
  <2>1. syms' = syms => Declared' = Declared /\ \A j : ListFor(syms[j])' = ListFor(syms[j])
    BY DEF Declared, IsGlobal, IsDefn, Outside, InFunc, IsBody, Pos, ListFor
  <2>2. syms' = syms => Made' = {r \in Recorded' :
                      syms[r[4]].body \notin {"FuncStart", "BlockStart", "BlockEnd"}}
    BY DEF Made
  <2>3. QED
    BY <2>1, <2>2 DEF OnceSoFar, ListFor
<1>2. CASE ParseDeclsStep
  <2>1. syms' = syms /\ Typed
    BY <1>2, DeclsAfterTypes DEF Standing, DeclTyped, Begun
  <2>2. PICK new : Makes(new)
    BY <1>2, StepMakes DEF Standing
  <2>3. /\ NextPos \in Nat /\ NextPos' \in Nat /\ NextPos <= NextPos' /\ Reads
        /\ \A j \in NextPos .. NextPos' - 1 : j = NextPos \/ InFunc(j)
    BY <1>2, ReadByStep DEF Standing, Reads
  <2>4. \A j \in Declared : j \in Nat /\ ~ InFunc(j)
                            /\ syms[j].body \notin {"FuncStart", "BlockStart", "BlockEnd"}
    <3>1. \A j \in Declared : j \in 1 .. Len(syms) /\ ~ InFunc(j)
            /\ (IsGlobal(syms[j]) \/ syms[j].body \in NameBodies \cup SLDBodies)
      BY <2>1, DeclaredProperty
    <3>2. \A s : IsGlobal(s) \/ s.body \in NameBodies \cup SLDBodies
                 => s.body \notin {"FuncStart", "BlockStart", "BlockEnd"}
      BY DEF IsGlobal, IsDefn, NameBodies, SLDBodies, IncBodies
    <3>3. QED
      BY <3>1, <3>2
  <2>5. ASSUME NEW j \in Declared, j < NextPos', j >= NextPos
        PROVE  j = NextPos /\ NextPos' > NextPos
    <3>1. j \in Nat /\ ~ InFunc(j)
      BY <2>4
    <3>2. NextPos \in Nat /\ NextPos' \in Nat
      BY <2>3
    <3>a. j \in NextPos .. NextPos' - 1
      <4> DEFINE p == NextPos
                 q == NextPos'
      <4>1. j \in Nat /\ p \in Nat /\ q \in Nat /\ j >= p /\ j < q
        BY <2>5, <3>1, <3>2
      <4> HIDE DEF p, q
      <4>2. j \in p .. q - 1
        BY <4>1
      <4>3. QED
        BY <4>2 DEF p, q
    <3>3. j = NextPos
      BY <2>3, <3>1, <3>a
    <3>4. QED
      BY <2>3, <2>5, <3>3
  <2>6. /\ \A r \in Made : r[4] \in Declared /\ r[4] < NextPos /\ r[2] = ListFor(syms[r[4]])
        /\ \A j \in Declared : j < NextPos => \E r \in Made : r[4] = j
        /\ \A r, q \in Made : r[4] = q[4] => r = q
    BY <2>3 DEF OnceSoFar
  <2>7. Recorded' = Recorded \cup new /\ \A r \in new : r[4] = NextPos
    BY <2>2 DEF Makes
  <2>8. Made' = Made \cup {r \in new : syms[r[4]].body \notin {"FuncStart", "BlockStart", "BlockEnd"}}
    BY <1>1, <2>1, <2>7 DEF Made
  <2>b. \A j \in Declared : j < NextPos' => j < NextPos \/ (j = NextPos /\ NextPos' > NextPos)
    <3>1. \A j \in Declared : j < NextPos \/ j >= NextPos
      BY <2>3, <2>4
    <3>2. QED
      BY <2>5, <3>1, Zenon
  <2>9. CASE NextPos' > NextPos /\ NextPos \in Declared
    <3>1. PICK k : new = {<<curOverlay, ListFor(syms[NextPos]), k, NextPos>>}
      BY <2>2, <2>9 DEF Makes
    <3> DEFINE r0 == <<curOverlay, ListFor(syms[NextPos]), k, NextPos>>
    <3>2. r0[4] = NextPos /\ r0[2] = ListFor(syms[NextPos])
      OBVIOUS
    <3>3. Made' = Made \cup {r0}
      BY <2>4, <2>8, <2>9, <3>1, <3>2
    <3> HIDE DEF r0
    <3>4. \A r \in Made' : r \in Made \/ r = r0
      BY <3>3
    <3>5. \A r \in Made' : r[4] \in Declared /\ r[4] < NextPos' /\ r[2] = ListFor(syms[r[4]])
      <4>1. \A j \in Declared : j < NextPos => j < NextPos'
        BY <2>3, <2>4
      <4>2. QED
        BY <2>6, <2>9, <3>2, <3>4, <4>1, Zenon
    <3>6. \A j \in Declared : j < NextPos' => \E r \in Made' : r[4] = j
      BY <2>6, <2>b, <3>2, <3>3, Zenon
    <3>7. \A r, q \in Made' : r[4] = q[4] => r = q
      <4>1. \A r \in Made : r[4] # r0[4]
        BY <2>3, <2>4, <2>6, <3>2
      <4>2. QED
        BY <2>6, <3>4, <4>1
    <3>8. QED
      BY <1>1, <2>1, <3>5, <3>6, <3>7
  <2>10. CASE ~ (NextPos' > NextPos /\ NextPos \in Declared)
    <3>1. new # {} => syms[NextPos].body \in {"FuncStart", "BlockStart", "BlockEnd"}
      BY <2>2, <2>3, <2>10 DEF Makes
    <3>2. Made' = Made
      BY <2>7, <2>8, <3>1
    <3>3. \A r \in Made : r[4] < NextPos'
      BY <2>3, <2>4, <2>6
    <3>4. \A j \in Declared : j < NextPos' => j < NextPos
      BY <2>b, <2>10, Zenon
    <3>5. QED
      BY <1>1, <2>1, <2>6, <3>2, <3>3, <3>4
  <2>11. QED
    BY <2>9, <2>10
<1>3. CASE [Next]_vars /\ UNCHANGED declVars
  <2>1. syms' = syms /\ overlays' = overlays /\ mode' = mode /\ NextPos' = NextPos
    BY <1>3, TypesKeepDecls
  <2>2. Recorded' = Recorded
    BY <2>1 DEF Recorded, Records
  <2>3. Made' = Made
    BY <1>1, <2>1, <2>2 DEF Made
  <2>4. Reads
    BY <2>1 DEF Reads
  <2>5. QED
    BY <1>1, <2>1, <2>3, <2>4 DEF OnceSoFar
<1>4. QED
  BY <1>2, <1>3 DEF BothNext, allVars

(* Each global definition, name and entry of a line group is recorded, in  *)
(* the list it belongs to and once, however many symbols parseLineNumbers, *)
(* parseFunc and the duplicate check consume between them.                 *)
THEOREM NothingIsLostOrTwice == BothSpec => []EachDeclarationOnce
<1>1. BothInit => Standing /\ OnceSoFar
  <2> SUFFICES ASSUME BothInit PROVE Standing /\ OnceSoFar
    OBVIOUS
  <2>1. overlays = <<EmptyOverlay(0)>> /\ mode = "top" /\ d = 1 /\ Typed
    BY TypedInit DEF BothInit, DeclInit
  <2>2. DOMAIN overlays = {1} /\ overlays[1] = EmptyOverlay(0)
    BY <2>1
  <2>3. Records(1, EmptyOverlay(0)) = {}
    BY DEF Records, EmptyOverlay
  <2>4. Recorded = {}
    BY <2>2, <2>3 DEF Recorded
  <2>5. Made = {}
    BY <2>4 DEF Made
  <2>6. \A j \in Declared : ~ j < NextPos
    <3>1. NextPos = 1
      BY <2>1 DEF NextPos
    <3>2. Declared \subseteq 1 .. Len(syms) /\ Len(syms) \in Nat
      BY <2>1, DeclaredProperty, SymbolProperty DEF Typed
    <3>3. QED
      BY <3>1, <3>2
  <2>7. QED
    BY <2>5, <2>6, StandingInit DEF OnceSoFar
<1>2. Standing /\ OnceSoFar /\ [BothNext]_allVars => Standing' /\ OnceSoFar'
  BY StandingStep, OnceSoFarStep
<1>3. Standing /\ OnceSoFar => EachDeclarationOnce
  <2> SUFFICES ASSUME Standing, OnceSoFar, mode = "end"
               PROVE  /\ {<<r[2], r[4]>> : r \in Made} = {<<ListFor(syms[j]), j>> : j \in Declared}
                      /\ \A r, q \in Made : r[4] = q[4] => r = q
    BY DEF EachDeclarationOnce
  <2>1. NextPos = Len(syms) + 1 /\ Len(syms) \in Nat /\ Declared \subseteq 1 .. Len(syms)
    BY DeclaredProperty, DeclSymbolProperty DEF Standing, Place, NextPos, DeclTyped, Begun
  <2>2. /\ \A r \in Made : r[4] \in Declared /\ r[2] = ListFor(syms[r[4]])
        /\ \A j \in Declared : \E r \in Made : r[4] = j
        /\ \A r, q \in Made : r[4] = q[4] => r = q
    BY <2>1 DEF OnceSoFar, Reads
  <2>3. ASSUME NEW e
        PROVE  e \in {<<r[2], r[4]>> : r \in Made} <=> e \in {<<ListFor(syms[j]), j>> : j \in Declared}
    <3>1. ASSUME NEW r \in Made, e = <<r[2], r[4]>>
          PROVE  \E j \in Declared : e = <<ListFor(syms[j]), j>>
      BY <2>2, <3>1
    <3>2. ASSUME NEW j \in Declared, e = <<ListFor(syms[j]), j>>
          PROVE  \E r \in Made : e = <<r[2], r[4]>>
      <4>1. PICK r \in Made : r[4] = j
        BY <2>2
      <4>2. r[2] = ListFor(syms[j])
        BY <2>2, <4>1
      <4>3. QED
        BY <3>2, <4>1, <4>2
    <3>3. QED
      BY <3>1, <3>2, Zenon
  <2>4. QED
    BY <2>2, <2>3, Zenon
<1>4. QED
  BY <1>1, <1>2, <1>3, PTL DEF BothSpec
=============================================================================
