-------------------------- MODULE DeclScopeProofs --------------------------
(***************************************************************************)
(* Proofs about what DeclPass makes of line groups, functions and blocks.  *)
(***************************************************************************)
EXTENDS DeclPassProofs

-----------------------------------------------------------------------------
(* LinesFollowSLD.                                                         *)

(* Remainders.                                                             *)
LEMMA Division ==
  ASSUME NEW a \in Int, NEW U \in Int, U > 0
  PROVE  a = U * (a \div U) + (a % U) /\ a % U \in 0 .. U - 1 /\ a \div U \in Int
<1>1. a \div U \in Int
  OBVIOUS
<1>2. a % U \in 0 .. U - 1
  OBVIOUS
<1>3. a = U * (a \div U) + (a % U)
  OBVIOUS
<1>4. QED
  BY <1>1, <1>2, <1>3

LEMMA RemainderOfSmall ==
  ASSUME NEW U \in Int, U > 0, NEW a \in Int, a >= 0, a < U
  PROVE  a % U = a
OBVIOUS

LEMMA UniqueRemainder ==
  ASSUME NEW U \in Int, U > 0, NEW p \in Int, NEW r \in 0 .. U - 1,
         NEW q \in Int, NEW s \in 0 .. U - 1, U * p + r = U * q + s
  PROVE  r = s
<1>1. U * (p - q) = s - r
  OBVIOUS
<1>2. CASE p - q >= 1
  <2>1. U * (p - q) >= U
    BY <1>2
  <2>2. QED
    BY <1>1, <2>1
<1>3. CASE p - q <= -1
  <2>1. U * (p - q) <= -U
    BY <1>3
  <2>2. QED
    BY <1>1, <2>1
<1>4. CASE p - q = 0
  BY <1>1, <1>4
<1>5. QED
  BY <1>2, <1>3, <1>4

LEMMA RemainderOfSum ==
  ASSUME NEW U \in Int, U > 0, NEW a \in Int, NEW b \in Int
  PROVE  ((a % U) + b) % U = (a + b) % U
<1>1. PICK qa \in Int, r \in Int : a = U * qa + r /\ r = a % U
  <2>1. a = U * (a \div U) + (a % U) /\ a % U \in Int /\ a \div U \in Int
    BY Division
  <2>2. QED
    BY <2>1, Zenon
<1>2. PICK q1 \in Int, r1 \in 0 .. U - 1 : r + b = U * q1 + r1 /\ r1 = (r + b) % U
  <2>1. r + b \in Int
    OBVIOUS
  <2>2. /\ r + b = U * ((r + b) \div U) + ((r + b) % U)
        /\ (r + b) % U \in 0 .. U - 1 /\ (r + b) \div U \in Int
    BY <2>1, Division
  <2>3. QED
    BY <2>2, Zenon
<1>3. PICK q2 \in Int, r2 \in 0 .. U - 1 : a + b = U * q2 + r2 /\ r2 = (a + b) % U
  <2>1. a + b \in Int
    OBVIOUS
  <2>2. /\ a + b = U * ((a + b) \div U) + ((a + b) % U)
        /\ (a + b) % U \in 0 .. U - 1 /\ (a + b) \div U \in Int
    BY <2>1, Division
  <2>3. QED
    BY <2>2, Zenon
<1>4. r1 = r2
  <2>1. U * qa + r + b = U * q2 + r2
    BY <1>1, <1>3
  <2>2. U * (qa + q1) = U * qa + U * q1
    OBVIOUS
  <2>3. U * (qa + q1) + r1 = U * q2 + r2
    BY <1>2, <2>1, <2>2
  <2> DEFINE q == qa + q1
  <2>4. q \in Int /\ U * q + r1 = U * q2 + r2
    BY <2>3
  <2> HIDE DEF q
  <2>5. QED
    BY <2>4, UniqueRemainder
<1>5. QED
  BY <1>1, <1>2, <1>3, <1>4, Zenon

(* SumOfIncs is what its definition says: the function it is the value of  *)
(* exists, as otherwise there were a least bound for which it does not.    *)
IsSum(s, h, k) ==
  /\ s \in [h .. k -> Nat] /\ s[h] = 0
  /\ \A x \in h + 1 .. k : s[x] = s[x - 1] + IncOf(x)

LEMMA SumExists ==
  ASSUME NEW h \in Nat, NEW L \in Nat, h <= L, \A x \in h .. L : IncOf(x) \in Nat
  PROVE  \E s : IsSum(s, h, L)
<1> DEFINE bad == {k \in h .. L : ~ \E s : IsSum(s, h, k)}
<1>1. SUFFICES ASSUME bad # {} PROVE FALSE
  OBVIOUS
<1>2. bad \subseteq Nat
  OBVIOUS
<1>3. PICK k \in bad : \A y \in bad : k <= y
  BY <1>1, <1>2, LeastExists
<1>4. k \in h .. L /\ ~ \E s : IsSum(s, h, k)
  BY <1>3
<1>5. CASE k = h
  <2>1. IsSum([x \in h .. k |-> 0], h, k)
    BY <1>4, <1>5 DEF IsSum
  <2>2. QED
    BY <1>4, <2>1
<1>6. CASE k # h
  <2>1. k - 1 \in h .. L /\ k - 1 \notin bad
    BY <1>2, <1>3, <1>4, <1>6
  <2>2. PICK s : IsSum(s, h, k - 1)
    BY <2>1
  <2> DEFINE t == [x \in h .. k |-> IF x = k THEN s[k - 1] + IncOf(k) ELSE s[x]]
  <2>3. k - 1 \in h .. k - 1 /\ s[k - 1] \in Nat /\ IncOf(k) \in Nat
    BY <1>4, <2>1, <2>2 DEF IsSum
  <2>4. t \in [h .. k -> Nat]
    BY <1>4, <2>2, <2>3 DEF IsSum
  <2>5. t[h] = 0
    BY <1>4, <1>6, <2>2 DEF IsSum
  <2>6. ASSUME NEW x \in h + 1 .. k PROVE t[x] = t[x - 1] + IncOf(x)
    <3>1. x - 1 \in h .. k /\ x - 1 # k /\ t[x - 1] = s[x - 1]
      BY <1>4
    <3>2. CASE x = k
      BY <1>4, <3>1, <3>2
    <3>3. CASE x # k
      <4>1. x \in h + 1 .. k - 1 /\ x \in h .. k
        BY <1>4, <3>3
      <4>2. QED
        BY <2>2, <3>1, <3>3, <4>1 DEF IsSum
    <3>4. QED
      BY <3>2, <3>3
  <2> HIDE DEF t
  <2>7. IsSum(t, h, k)
    BY <2>4, <2>5, <2>6 DEF IsSum
  <2>8. QED
    BY <1>4, <2>7
<1>7. QED
  BY <1>5, <1>6

LEMMA SumProperty ==
  ASSUME NEW h \in 1 .. Len(syms), Len(syms) \in Nat, \A x \in 1 .. Len(syms) : IncOf(x) \in Nat
  PROVE  /\ SumOfIncs(h, h) = 0
         /\ \A j \in h .. Len(syms) : SumOfIncs(h, j) \in Nat
         /\ \A j \in h + 1 .. Len(syms) : SumOfIncs(h, j) = SumOfIncs(h, j - 1) + IncOf(j)
<1> DEFINE L == Len(syms)
           S(s) == [x \in h .. L |-> IF x = h THEN 0 ELSE s[x - 1] + IncOf(x)]
           sum == CHOOSE s : s = S(s)
<1>1. \A j : SumOfIncs(h, j) = sum[j]
  BY DEF SumOfIncs
<1>2. PICK t : IsSum(t, h, L)
  BY SumExists
<1>3. t = S(t)
  <2>1. DOMAIN t = h .. L /\ \A x \in h .. L : t[x] = IF x = h THEN 0 ELSE t[x - 1] + IncOf(x)
    BY <1>2 DEF IsSum
  <2>2. t = [x \in h .. L |-> t[x]]
    BY <1>2 DEF IsSum
  <2>3. QED
    BY <2>1, <2>2
<1>4. sum = S(sum)
  BY <1>3, Zenon
<1>5. \A x \in h .. L : sum[x] = IF x = h THEN 0 ELSE sum[x - 1] + IncOf(x)
  BY <1>4
<1> HIDE DEF sum
<1>6. \A j \in h .. L : sum[j] \in Nat
  <2> DEFINE bad == {k \in h .. L : sum[k] \notin Nat}
  <2>1. SUFFICES ASSUME bad # {} PROVE FALSE
    OBVIOUS
  <2>2. bad \subseteq Nat
    OBVIOUS
  <2>3. PICK k \in bad : \A y \in bad : k <= y
    BY <2>1, <2>2, LeastExists
  <2>4. k \in h .. L /\ sum[k] \notin Nat
    BY <2>3
  <2>5. k # h
    BY <1>5, <2>4
  <2>6. k - 1 \in h .. L /\ k - 1 \notin bad
    BY <2>2, <2>3, <2>4, <2>5
  <2>7. QED
    BY <1>5, <2>4, <2>5, <2>6
<1>7. sum[h] = 0
  BY <1>5
<1>8. ASSUME NEW j \in h + 1 .. L PROVE sum[j] = sum[j - 1] + IncOf(j)
  BY <1>5
<1>9. QED
  BY <1>1, <1>6, <1>7, <1>8

LEMMA LastInRange ==
  ASSUME NEW j \in Nat, NEW S, S \subseteq 1 .. j, S # {}
  PROVE  LastOf(S) \in S /\ LastOf(S) \in 1 .. j /\ \A y \in S : y <= LastOf(S)
<1>1. IsFiniteSet(1 .. j)
  BY FS_Interval
<1>2. IsFiniteSet(S)
  BY <1>1, FS_Subset
<1>3. S \subseteq Int
  OBVIOUS
<1>4. LastOf(S) \in S /\ \A y \in S : y <= LastOf(S)
  BY <1>2, <1>3, LastOfProperty
<1>5. QED
  BY <1>4

IsLineSet(h) == IsBody(h, "SetSLD") \/ IsBody(h, "SetSLD2")

LEMMA LineAtProperty ==
  ASSUME Typed, NEW j \in 1 .. Len(syms)
  PROVE  /\ IsLineSet(j) => LineAt(j) = syms[j].line
         /\ IsBody(j, "SetSLD2") => PathAt(j) = syms[j].path
         /\ syms[j].body \in IncBodies /\ (\E h \in 1 .. j - 1 : IsLineSet(h)) =>
              LineAt(j) = (LineAt(j - 1) + IncOf(j)) % Uint32
         /\ j > 1 /\ ~ IsBody(j, "SetSLD2") => PathAt(j) = PathAt(j - 1)
<1>1. /\ Len(syms) \in Nat /\ DOMAIN syms = 1 .. Len(syms)
      /\ \A x \in 1 .. Len(syms) : IsDeclSymbol(syms[x])
  BY DeclSymbolProperty
<1>2. \A x \in 1 .. Len(syms) : IncOf(x) \in Nat
  BY <1>1 DEF IncOf, IsBody, IncBodies, IsDeclSymbol
<1>3. /\ Uint32 \in Int /\ Uint32 > 0 /\ j \in Nat
      /\ \A x \in 1 .. Len(syms) : IsLineSet(x) => syms[x].line \in 0 .. Uint32 - 1
  BY <1>1, DeclAssumption DEF IsLineSet, IsBody, LineBodies, IsDeclSymbol
<1> DEFINE S(x) == {h \in 1 .. x : IsLineSet(h)}
           P(x) == {h \in 1 .. x : IsBody(h, "SetSLD2")}
<1>4. \A x : LineSetAt(x) = LastOf(S(x)) /\ PathAt(x) = syms[LastOf(P(x))].path
  BY DEF LineSetAt, PathAt, IsLineSet
<1>5. ASSUME IsLineSet(j) PROVE LineAt(j) = syms[j].line
  <2>1. j \in S(j) /\ S(j) \subseteq Int /\ \A y \in S(j) : y <= j
    BY <1>3, <1>5
  <2>2. LineSetAt(j) = j
    <3> HIDE DEF S
    <3>1. QED
      BY <1>4, <2>1, LastIs
  <2>3. SumOfIncs(j, j) = 0
    BY <1>1, <1>2, SumProperty
  <2>4. LineAt(j) = (syms[j].line + 0) % Uint32
    BY <2>2, <2>3 DEF LineAt
  <2> DEFINE l == syms[j].line
  <2>5. l \in Int /\ l >= 0 /\ l < Uint32 /\ l + 0 = l
    BY <1>3, <1>5
  <2> HIDE DEF l
  <2>6. l % Uint32 = l
    BY <1>3, <2>5, RemainderOfSmall
  <2>7. QED
    BY <2>4, <2>5, <2>6 DEF l
<1>6. ASSUME IsBody(j, "SetSLD2") PROVE PathAt(j) = syms[j].path
  <2>1. j \in P(j) /\ P(j) \subseteq Int /\ \A y \in P(j) : y <= j
    BY <1>3, <1>6
  <2> HIDE DEF P
  <2>2. LastOf(P(j)) = j
    BY <2>1, LastIs
  <2>3. QED
    BY <1>4, <2>2
<1>7. ASSUME syms[j].body \in IncBodies, NEW h \in 1 .. j - 1, IsLineSet(h)
      PROVE  LineAt(j) = (LineAt(j - 1) + IncOf(j)) % Uint32
  <2>1. ~ IsLineSet(j)
    BY <1>7 DEF IsLineSet, IsBody, IncBodies
  <2>2. S(j) = S(j - 1)
    BY <1>3, <2>1
  <2>3. LineSetAt(j) = LineSetAt(j - 1)
    BY <1>4, <2>2
  <2>4. S(j - 1) # {} /\ S(j - 1) \subseteq 1 .. j - 1 /\ j - 1 \in Nat
    BY <1>7
  <2>5. LineSetAt(j - 1) \in 1 .. j - 1 /\ IsLineSet(LineSetAt(j - 1))
    <3>1. LastOf(S(j - 1)) \in S(j - 1)
      BY <2>4, LastInRange
    <3>2. QED
      BY <1>4, <3>1
  <2> DEFINE k == LineSetAt(j - 1)
             l == syms[k].line
             s == SumOfIncs(k, j - 1)
  <2>6. /\ k \in 1 .. Len(syms) /\ j - 1 \in k .. Len(syms) /\ j \in k + 1 .. Len(syms)
        /\ l \in Int
    BY <1>1, <1>3, <2>5
  <2>7. SumOfIncs(k, j) = s + IncOf(j) /\ s \in Nat
    BY <1>1, <1>2, <2>6, SumProperty
  <2>8. LineAt(j) = (l + (s + IncOf(j))) % Uint32 /\ LineAt(j - 1) = (l + s) % Uint32
    BY <2>3, <2>7 DEF LineAt
  <2>9. l + s \in Int /\ IncOf(j) \in Int /\ l + (s + IncOf(j)) = (l + s) + IncOf(j)
    <3> HIDE DEF l, s
    <3>1. QED
      BY <1>2, <2>6, <2>7
  <2> HIDE DEF l, s
  <2>10. (((l + s) % Uint32) + IncOf(j)) % Uint32 = ((l + s) + IncOf(j)) % Uint32
    BY <1>3, <2>9, RemainderOfSum
  <2>11. QED
    BY <2>8, <2>9, <2>10
<1>8. ASSUME j > 1, ~ IsBody(j, "SetSLD2") PROVE PathAt(j) = PathAt(j - 1)
  <2>1. P(j) = P(j - 1)
    BY <1>3, <1>8
  <2>2. QED
    BY <1>4, <2>1
<1>9. QED
  BY <1>5, <1>6, <1>7, <1>8

(* The lines a step adds.                                                  *)
NewLine(e) ==
  \/ BeginLines /\ e = LineEntry(d, StartLine) /\ d \in 1 .. Len(syms)
  \/ NextLine /\ e = LineEntry(InnerPos, LineAfter(syms[InnerPos])) /\ InnerPos \in 1 .. Len(syms)
  \/ syms[e.at].body \in {"FuncStart", "BlockStart", "BlockEnd"}

OldLine(p, e) == p \in DOMAIN overlays /\ \E x \in DOMAIN overlays[p].lines : overlays[p].lines[x] = e

LEMMA LinesWritten ==
  ASSUME DeclTyped, NEW o \in OverlayRecs, Write(o),
         \A x \in DOMAIN o.lines : OldLine(curOverlay, o.lines[x]) \/ NewLine(o.lines[x])
  PROVE  \A p \in DOMAIN overlays' : \A x \in DOMAIN overlays'[p].lines :
           OldLine(p, overlays'[p].lines[x]) \/ NewLine(overlays'[p].lines[x])
<1>1. /\ DOMAIN overlays' = DOMAIN overlays /\ overlays'[curOverlay] = o
      /\ \A x \in DOMAIN overlays : x # curOverlay => overlays'[x] = overlays[x]
  BY WriteProperty, Zenon DEF DeclTyped, DeclTypeOK
<1>2. ASSUME NEW p \in DOMAIN overlays', NEW x \in DOMAIN overlays'[p].lines
      PROVE  OldLine(p, overlays'[p].lines[x]) \/ NewLine(overlays'[p].lines[x])
  <2>1. CASE p = curOverlay
    BY <1>1, <1>2, <2>1
  <2>2. CASE p # curOverlay
    BY <1>1, <1>2, <2>2, Zenon DEF OldLine
  <2>3. QED
    BY <2>1, <2>2
<1>3. QED
  BY <1>2

LEMMA LineAdded ==
  ASSUME DeclTyped, NEW v \in OverlayRecs, v.lines = Cur.lines, NEW j, NEW line,
         LineEntry(j, line) \in Lines, Write(WithLine(v, j, line)),
         WithLine(v, j, line) \in OverlayRecs, NewLine(LineEntry(j, line))
  PROVE  \A p \in DOMAIN overlays' : \A x \in DOMAIN overlays'[p].lines :
           OldLine(p, overlays'[p].lines[x]) \/ NewLine(overlays'[p].lines[x])
<1> DEFINE o == WithLine(v, j, line)
           e == LineEntry(j, line)
<1>1. /\ Len(v.lines) \in Nat /\ DOMAIN v.lines = 1 .. Len(v.lines)
      /\ DOMAIN o.lines = 1 .. Len(v.lines) + 1
      /\ o.lines[Len(v.lines) + 1] = e
      /\ \A x \in DOMAIN v.lines : o.lines[x] = v.lines[x]
  BY WithLineProperty
<1>2. o \in OverlayRecs /\ Write(o) /\ NewLine(e)
  OBVIOUS
<1>3. curOverlay \in DOMAIN overlays /\ Cur = overlays[curOverlay]
  BY DEF DeclTyped, DeclTypeOK, Cur
<1> HIDE DEF o, e
<1>4. \A x \in DOMAIN o.lines : x \in DOMAIN v.lines \/ o.lines[x] = e
  BY <1>1
<1>5. \A x \in DOMAIN o.lines : OldLine(curOverlay, o.lines[x]) \/ NewLine(o.lines[x])
  BY <1>1, <1>2, <1>3, <1>4, Zenon DEF OldLine
<1>6. QED
  BY <1>2, <1>5, LinesWritten, Zenon

LEMMA LinesKeptByWrite ==
  ASSUME DeclTyped, NEW o \in OverlayRecs, o.lines = Cur.lines, Write(o)
  PROVE  \A p \in DOMAIN overlays' : \A x \in DOMAIN overlays'[p].lines :
           OldLine(p, overlays'[p].lines[x]) \/ NewLine(overlays'[p].lines[x])
<1>1. curOverlay \in DOMAIN overlays /\ Cur = overlays[curOverlay]
  BY DEF DeclTyped, DeclTypeOK, Cur
<1>2. \A x \in DOMAIN o.lines : OldLine(curOverlay, o.lines[x])
  BY <1>1, Zenon DEF OldLine
<1>3. QED
  BY <1>2, LinesWritten, Zenon

LEMMA LinesAfterStep ==
  ASSUME DeclTyped, Place, ParseDeclsStep
  PROVE  \A p \in DOMAIN overlays' : \A x \in DOMAIN overlays'[p].lines :
           OldLine(p, overlays'[p].lines[x]) \/ NewLine(overlays'[p].lines[x])
<1> DEFINE Goal == \A p \in DOMAIN overlays' : \A x \in DOMAIN overlays'[p].lines :
                     OldLine(p, overlays'[p].lines[x]) \/ NewLine(overlays'[p].lines[x])
<1>1. Cur \in OverlayRecs /\ Funcs = Cur.funcs /\ overlays \in Seq(OverlayRecs)
  BY CurTyped DEF DeclTyped, DeclTypeOK
<1>2. ASSUME NEW j \in 1 .. Len(syms), NEW line \in LineRecs, NEW v \in OverlayRecs,
             v.lines = Cur.lines, Write(WithLine(v, j, line)), NewLine(LineEntry(j, line))
      PROVE  Goal
  <2>1. LineEntry(j, line) \in Lines /\ WithLine(v, j, line) \in OverlayRecs
    BY <1>2, LineTyped, Zenon
  <2>2. QED
    BY <1>2, <2>1, LineAdded, Zenon
<1>3. ASSUME overlays' = overlays PROVE Goal
  BY <1>3, Zenon DEF OldLine
<1>4. CASE Ignore \/ SetOverlay \/ FinishDecls \/ EndLines \/ SkipFunc \/ PanicStep
  <2>1. overlays' = overlays
    BY <1>4, PanicDoes DEF Ignore, SetOverlay, FinishDecls, EndLines, SkipFunc, recorded
  <2>2. QED
    BY <1>3, <2>1
<1>5. CASE AddOverlay
  <2>1. overlays' = Append(overlays, EmptyOverlay(Sym.id))
    BY <1>5 DEF AddOverlay
  <2>2. /\ DOMAIN overlays = 1 .. Len(overlays) /\ DOMAIN overlays' = 1 .. Len(overlays) + 1
        /\ overlays'[Len(overlays) + 1] = EmptyOverlay(Sym.id)
        /\ \A x \in DOMAIN overlays : overlays'[x] = overlays[x]
    <3> HIDE DEF OverlayRecs
    <3> DEFINE e == EmptyOverlay(Sym.id)
    <3> HIDE DEF e
    <3>1. overlays' = Append(overlays, e)
      BY <2>1 DEF e
    <3>2. QED
      BY <1>1, <3>1 DEF e
  <2>3. DOMAIN EmptyOverlay(Sym.id).lines = {}
    BY DEF EmptyOverlay
  <2>4. \A p \in DOMAIN overlays' : p \in DOMAIN overlays \/ p = Len(overlays) + 1
    BY <1>1, <2>2
  <2>5. QED
    BY <2>2, <2>3, <2>4, Zenon DEF OldLine
<1>6. CASE AddSymbol
  <2>1. /\ Write([Cur EXCEPT !.symbols = Append(@, NewSymbol)])
        /\ [Cur EXCEPT !.symbols = Append(@, NewSymbol)] \in OverlayRecs
    BY <1>6, AddSymbolWrites, Zenon
  <2>2. [Cur EXCEPT !.symbols = Append(@, NewSymbol)].lines = Cur.lines
    BY <1>1, ListReplaced, Zenon
  <2>3. QED
    BY <2>1, <2>2, LinesKeptByWrite, Zenon
<1>7. CASE AddGlobal
  <2>1. CASE Sym.func
    <3>1. /\ Write([Cur EXCEPT !.funcs = Append(@, NewFunc)])
          /\ [Cur EXCEPT !.funcs = Append(@, NewFunc)] \in OverlayRecs
      BY <1>7, <2>1, AddGlobalWrites, Zenon
    <3>2. [Cur EXCEPT !.funcs = Append(@, NewFunc)].lines = Cur.lines
      BY <1>1, ListReplaced, Zenon
    <3>3. QED
      BY <3>1, <3>2, LinesKeptByWrite, Zenon
  <2>2. CASE ~ Sym.func
    <3>1. /\ Write([Cur EXCEPT !.vars = Append(@, Var(d))])
          /\ [Cur EXCEPT !.vars = Append(@, Var(d))] \in OverlayRecs
      BY <1>7, <2>2, AddGlobalWrites, Zenon
    <3>2. [Cur EXCEPT !.vars = Append(@, Var(d))].lines = Cur.lines
      BY <1>1, ListReplaced, Zenon
    <3>3. QED
      BY <3>1, <3>2, LinesKeptByWrite, Zenon
  <2>3. QED
    BY <2>1, <2>2
<1>8. CASE BeginLines
  <2>1. d \in 1 .. Len(syms) /\ Sym.body = "SetSLD2" /\ Sym = syms[d]
    BY <1>8, DeclSymbolProperty DEF BeginLines, AtDecl, DeclTyped, Begun, Sym
  <2>2. StartLine \in LineRecs
    BY <2>1, DeclSymbolProperty DEF DeclTyped, Begun, IsDeclSymbol, LineBodies, StartLine, LineRecs
  <2>3. AddLine(d, StartLine)
    BY <1>8, Zenon DEF BeginLines, StartLine
  <2>4. Write(WithLine(Cur, d, StartLine))
    BY <2>3, Zenon DEF AddLine, Write, Cur
  <2>5. NewLine(LineEntry(d, StartLine))
    BY <1>8, <2>1, Zenon DEF NewLine
  <2>6. QED
    BY <1>1, <1>2, <2>1, <2>2, <2>4, <2>5, Zenon
<1>9. CASE NextLine
  <2>1. InnerPos \in 1 .. Len(syms) /\ syms[InnerPos].body \in SLDBodies
    BY <1>9, DeclSymbolProperty DEF NextLine, AtInner, InnerPos, DeclTyped, Begun
  <2>2. LineAfter(syms[InnerPos]) \in LineRecs
    BY <2>1, LineAfterTyped
  <2>3. AddLine(InnerPos, LineAfter(syms[InnerPos]))
    BY <1>9, Zenon DEF NextLine
  <2>4. Write(WithLine(Cur, InnerPos, LineAfter(syms[InnerPos])))
    BY <2>3, Zenon DEF AddLine, Write, Cur
  <2>5. NewLine(LineEntry(InnerPos, LineAfter(syms[InnerPos])))
    BY <1>9, <2>1, Zenon DEF NewLine
  <2>6. QED
    BY <1>1, <1>2, <2>1, <2>2, <2>4, <2>5, Zenon
<1>10. ASSUME NEW j, NEW line, syms[j].body \in {"FuncStart", "BlockStart", "BlockEnd"}
       PROVE  NewLine(LineEntry(j, line))
  <2>1. LineEntry(j, line).at = j
    BY DEF LineEntry
  <2>2. QED
    BY <1>10, <2>1, Zenon DEF NewLine
<1>11. CASE BeginFunc
  <2>1. /\ d \in 1 .. Len(syms) /\ Sym.body = "FuncStart" /\ StartLine \in LineRecs
        /\ Write(BegunOverlay) /\ BegunFuncs \in Seq(FuncRecs)
    BY <1>11, BeginFuncWrites, Zenon
  <2> DEFINE v == [Cur EXCEPT !.funcs = BegunFuncs]
  <2>2. v \in OverlayRecs /\ v.lines = Cur.lines
    BY <1>1, <2>1, OverlayTyped, ListReplaced, Zenon
  <2>3. Write(WithLine(v, d, StartLine))
    BY <2>1, Zenon DEF BegunOverlay
  <2>4. NewLine(LineEntry(d, StartLine))
    BY <1>10, <2>1 DEF Sym
  <2> HIDE DEF v
  <2>5. QED
    BY <1>2, <2>1, <2>2, <2>3, <2>4, Zenon
<1>12. CASE EndFunc \/ AddLocal
  <2>1. mode = "func" /\ \E f \in FuncRecs : SetFunc(f)
    BY <1>12, EndFuncDoes, AddLocalDoes, Zenon
  <2>2. PICK f \in FuncRecs : SetFunc(f)
    BY <2>1, Zenon
  <2>3. Write(FuncSet(f)) /\ FuncSet(f) \in OverlayRecs /\ FuncSet(f).lines = Cur.lines
    BY <2>1, <2>2, SetFuncWrites, Zenon
  <2>4. QED
    BY <2>3, LinesKeptByWrite, Zenon
<1>13. CASE BlockStart
  <2>1. /\ BlockFunc \in FuncRecs /\ BlockLine \in LineRecs /\ SetFuncAndLine(BlockFunc, BlockLine)
        /\ syms[InnerPos].body = "BlockStart" /\ InnerPos \in 1 .. Len(syms) /\ mode = "func"
    BY <1>13, BlockStartDoes, Zenon
  <2>2. /\ Write(WithLine(FuncSet(BlockFunc), InnerPos, BlockLine))
        /\ FuncSet(BlockFunc) \in OverlayRecs /\ FuncSet(BlockFunc).lines = Cur.lines
    BY <2>1, SetFuncWrites, Zenon
  <2>3. NewLine(LineEntry(InnerPos, BlockLine))
    BY <1>10, <2>1
  <2>4. QED
    BY <1>2, <2>1, <2>2, <2>3, Zenon
<1>14. CASE BlockEnd
  <2>1. /\ BlockLine \in LineRecs /\ AddLine(InnerPos, BlockLine)
        /\ syms[InnerPos].body = "BlockEnd" /\ InnerPos \in 1 .. Len(syms)
    BY <1>14, BlockEndDoes, Zenon
  <2>2. Write(WithLine(Cur, InnerPos, BlockLine))
    BY <2>1, Zenon DEF AddLine, Write, Cur
  <2>3. NewLine(LineEntry(InnerPos, BlockLine))
    BY <1>10, <2>1
  <2>4. QED
    BY <1>1, <1>2, <2>1, <2>2, <2>3, Zenon
<1>15. QED
  BY StepCases, <1>4, <1>5, <1>6, <1>7, <1>8, <1>9, <1>11, <1>12, <1>13, <1>14, Zenon

(* What the entries say so far, and curLine of the group that is read.     *)
RightLine(e) == syms[e.at].body \in SLDBodies => e.line = LineAt(e.at) /\ e.path = PathAt(e.at)

LinesSoFar ==
  /\ \A o \in DOMAIN overlays : \A x \in DOMAIN overlays[o].lines : RightLine(overlays[o].lines[x])
  /\ mode = "lines" => /\ curLine.line = LineAt(InnerPos - 1)
                       /\ curLine.path = PathAt(InnerPos - 1)

LEMMA LinesKept ==
  ASSUME syms' = syms
  PROVE  /\ \A j : LineAt(j)' = LineAt(j) /\ PathAt(j)' = PathAt(j)
         /\ LinesSoFar' <=>
              /\ \A o \in DOMAIN overlays' : \A x \in DOMAIN overlays'[o].lines :
                   RightLine(overlays'[o].lines[x])
              /\ mode' = "lines" => /\ curLine'.line = LineAt(InnerPos' - 1)
                                    /\ curLine'.path = PathAt(InnerPos' - 1)
<1>1. \A j : LineAt(j)' = LineAt(j) /\ PathAt(j)' = PathAt(j)
  BY DEF LineAt, PathAt, LineSetAt, SumOfIncs, IncOf, IsBody
<1>2. LinesSoFar' <=>
        /\ \A o \in DOMAIN overlays' : \A x \in DOMAIN overlays'[o].lines :
             RightLine(overlays'[o].lines[x])
        /\ mode' = "lines" => /\ curLine'.line = LineAt(InnerPos' - 1)
                              /\ curLine'.path = PathAt(InnerPos' - 1)
  BY DEF LinesSoFar, RightLine, LineAt, PathAt, LineSetAt, SumOfIncs, IncOf, IsBody
<1>3. QED
  BY <1>1, <1>2

(* The line that parseLineNumbers computes for the symbol it reads.        *)
LEMMA NextLineRight ==
  ASSUME DeclTyped, Place, LinesSoFar, NextLine
  PROVE  /\ LineAfter(syms[InnerPos]).line = LineAt(InnerPos)
         /\ LineAfter(syms[InnerPos]).path = PathAt(InnerPos)
<1> DEFINE j == InnerPos
           s == syms[j]
<1>1. /\ Typed /\ mode = "lines" /\ j \in 1 .. Len(syms) /\ s.body \in SLDBodies
      /\ d \in 1 .. j - 1 /\ IsBody(d, "SetSLD2")
  BY DeclSymbolProperty DEF NextLine, AtInner, InnerPos, DeclTyped, Begun, Place
<1>2. curLine.line = LineAt(j - 1) /\ curLine.path = PathAt(j - 1) /\ curLine \in LineRecs
  BY <1>1 DEF LinesSoFar, DeclTyped, DeclTypeOK, LineRecs
<1>3. IsLineSet(d) /\ j > 1
  BY <1>1 DEF IsLineSet
<1>4. /\ IsLineSet(j) => LineAt(j) = s.line
      /\ IsBody(j, "SetSLD2") => PathAt(j) = s.path
      /\ s.body \in IncBodies => LineAt(j) = (LineAt(j - 1) + IncOf(j)) % Uint32
      /\ ~ IsBody(j, "SetSLD2") => PathAt(j) = PathAt(j - 1)
  BY <1>1, <1>3, LineAtProperty
<1> HIDE DEF j
<1>5. CASE s.body = "SetSLD2"
  <2>1. LineAfter(s) = [path |-> s.path, line |-> s.line]
    BY <1>5 DEF LineAfter
  <2>2. LineAt(j) = s.line /\ PathAt(j) = s.path
    BY <1>4, <1>5 DEF IsLineSet, IsBody
  <2>3. QED
    BY <2>1, <2>2 DEF j
<1>6. CASE s.body = "SetSLD"
  <2>1. LineAfter(s) = [curLine EXCEPT !.line = s.line]
    BY <1>6 DEF LineAfter
  <2>2. LineAt(j) = s.line /\ PathAt(j) = curLine.path
    BY <1>2, <1>4, <1>6 DEF IsLineSet, IsBody
  <2>3. LineAfter(s).line = s.line /\ LineAfter(s).path = curLine.path
    BY <1>2, <2>1 DEF LineRecs
  <2>4. QED
    BY <2>2, <2>3 DEF j
<1>7. CASE s.body \in IncBodies
  <2> DEFINE inc == IncOf(j)
  <2>1. LineAt(j) = (curLine.line + inc) % Uint32 /\ PathAt(j) = curLine.path
    BY <1>2, <1>4, <1>7 DEF IsBody, IncBodies
  <2>2. LineAfter(s) = [curLine EXCEPT !.line = (curLine.line + inc) % Uint32]
    <3>1. CASE s.body = "IncSLD"
      <4>1. inc = 1
        BY <3>1 DEF IncOf, IsBody
      <4>2. QED
        BY <3>1, <4>1 DEF LineAfter
    <3>2. CASE s.body \in {"IncSLDByte", "IncSLDWord"}
      <4>1. inc = s.inc
        BY <3>2 DEF IncOf, IsBody, IncBodies
      <4>2. QED
        BY <3>2, <4>1 DEF LineAfter
    <3>3. QED
      BY <1>7, <3>1, <3>2 DEF IncBodies
  <2>3. LineAfter(s).line = (curLine.line + inc) % Uint32 /\ LineAfter(s).path = curLine.path
    BY <1>2, <2>2 DEF LineRecs
  <2>4. QED
    BY <2>1, <2>3 DEF j
<1>8. QED
  BY <1>1, <1>5, <1>6, <1>7 DEF SLDBodies

LEMMA LinesSoFarStep == DeclTyped /\ Place /\ LinesSoFar /\ [BothNext]_allVars => LinesSoFar'
<1> SUFFICES ASSUME DeclTyped, Place, LinesSoFar, [BothNext]_allVars PROVE LinesSoFar'
  OBVIOUS
<1>1. CASE [Next]_vars /\ UNCHANGED declVars
  <2>1. /\ syms' = syms
        /\ UNCHANGED <<overlays, overlayIDs, curOverlay, d, m, curLine, fn, curBlock, blocks, mode>>
    BY <1>1, TypesKeepDecls
  <2>2. InnerPos' = InnerPos
    BY <2>1 DEF InnerPos
  <2>3. QED
    BY <2>1, <2>2, LinesKept DEF LinesSoFar
<1>2. CASE ParseDeclsStep
  <2>1. syms' = syms
    BY <1>2, DeclsAfterTypes DEF DeclTyped
  <2>2. /\ d \in Nat \ {0} /\ m \in Nat /\ Typed
    BY DEF DeclTyped, Begun
  <2>3. BeginLines => /\ Sym = syms[d] /\ Sym.body = "SetSLD2"
                      /\ curLine' = StartLine /\ mode' = "lines" /\ d' = d /\ m' = 0
    BY DEF BeginLines, AtDecl, StartLine, Sym
  <2>4. NextLine => /\ curLine' = LineAfter(syms[InnerPos]) /\ mode = "lines" /\ d' = d
                    /\ m' = m + 1 /\ InnerPos \in 1 .. Len(syms)
    BY <2>2, DeclSymbolProperty DEF NextLine, AtInner, InnerPos
  <2>5. \A o \in DOMAIN overlays' : \A x \in DOMAIN overlays'[o].lines :
           RightLine(overlays'[o].lines[x])
    <3>1. ASSUME NEW e, NewLine(e) PROVE RightLine(e)
      <4>1. CASE BeginLines /\ e = LineEntry(d, StartLine) /\ d \in 1 .. Len(syms)
        <5>1. syms[d].body = "SetSLD2"
          BY <2>3, <4>1
        <5>2. LineAt(d) = syms[d].line /\ PathAt(d) = syms[d].path
          BY <2>2, <4>1, <5>1, LineAtProperty DEF IsLineSet, IsBody
        <5>3. e.at = d /\ e.line = syms[d].line /\ e.path = syms[d].path
          BY <4>1 DEF LineEntry, StartLine, Sym
        <5>4. QED
          BY <5>2, <5>3 DEF RightLine
      <4>2. CASE NextLine /\ e = LineEntry(InnerPos, LineAfter(syms[InnerPos]))
        <5>1. e.at = InnerPos /\ e.line = LineAfter(syms[InnerPos]).line
              /\ e.path = LineAfter(syms[InnerPos]).path
          BY <4>2 DEF LineEntry
        <5>2. QED
          BY <4>2, <5>1, NextLineRight DEF RightLine
      <4>3. CASE syms[e.at].body \in {"FuncStart", "BlockStart", "BlockEnd"}
        BY <4>3 DEF RightLine, SLDBodies, IncBodies
      <4>4. QED
        BY <3>1, <4>1, <4>2, <4>3 DEF NewLine
    <3>2. \A p, e : OldLine(p, e) => RightLine(e)
      BY DEF OldLine, LinesSoFar
    <3>3. QED
      BY <1>2, <3>1, <3>2, LinesAfterStep, Zenon
  <2>6. ASSUME mode' = "lines"
        PROVE  curLine'.line = LineAt(InnerPos' - 1) /\ curLine'.path = PathAt(InnerPos' - 1)
    <3>1. BeginLines \/ NextLine
      <4>1. ~ PanicStep
        BY <2>6, PanicDoes DEF DeclPanics
      <4>2. QED
        BY <1>2, <2>6, <4>1, StepCases DEF AddSymbol, Ignore, AddGlobal, AddOverlay, SetOverlay,
           FinishDecls, EndLines, SkipFunc, BeginFunc, EndFunc, BlockStart, BlockEnd, AddLocal,
           AtDecl, AtFuncStart, AtInner, AtFunc, AtLocal, inner, Return
    <3>2. CASE BeginLines
      <4>1. InnerPos' - 1 = d /\ d \in 1 .. Len(syms)
        <5>1. d <= Len(syms)
          BY <3>2 DEF BeginLines, AtDecl
        <5>2. QED
          BY <2>2, <2>3, <3>2, <5>1, DeclSymbolProperty DEF InnerPos
      <4>2. LineAt(d) = syms[d].line /\ PathAt(d) = syms[d].path
        BY <2>2, <2>3, <3>2, <4>1, LineAtProperty DEF IsLineSet, IsBody
      <4>3. curLine'.line = syms[d].line /\ curLine'.path = syms[d].path
        BY <2>3, <3>2 DEF StartLine, Sym
      <4>4. QED
        BY <4>1, <4>2, <4>3
    <3>3. CASE NextLine
      <4>1. InnerPos' - 1 = InnerPos
        BY <2>2, <2>4, <3>3 DEF InnerPos
      <4>2. QED
        BY <2>4, <3>3, <4>1, NextLineRight
    <3>4. QED
      BY <3>1, <3>2, <3>3
  <2>7. QED
    BY <2>1, <2>5, <2>6, LinesKept, Zenon
<1>3. QED
  BY <1>1, <1>2 DEF BothNext, allVars

(* The entries of a line group count from the last SetSLD or SetSLD2, and  *)
(* a SetSLD keeps the path, however many increments wrap around.           *)
THEOREM LinesAreCounted == BothSpec => []LinesFollowSLD
<1>1. BothInit => Standing /\ LinesSoFar
  <2> SUFFICES ASSUME BothInit PROVE Standing /\ LinesSoFar
    OBVIOUS
  <2>1. overlays = <<EmptyOverlay(0)>> /\ mode = "top"
    BY DEF BothInit, DeclInit
  <2>2. DOMAIN overlays = {1} /\ overlays[1] = EmptyOverlay(0)
    BY <2>1
  <2>3. DOMAIN EmptyOverlay(0).lines = {}
    BY DEF EmptyOverlay
  <2>4. QED
    BY <2>1, <2>2, <2>3, StandingInit DEF LinesSoFar
<1>2. Standing /\ LinesSoFar /\ [BothNext]_allVars => Standing' /\ LinesSoFar'
  BY StandingStep, LinesSoFarStep DEF Standing
<1>3. Standing /\ LinesSoFar => LinesFollowSLD
  BY Zenon DEF LinesSoFar, LinesFollowSLD, RightLine
<1>4. QED
  BY <1>1, <1>2, <1>3, PTL DEF BothSpec

-----------------------------------------------------------------------------
(* LocalsInScope.                                                          *)

(* How deep the symbols from h to j leave the blocks they open.            *)
StartsIn(h, j) == {x \in h .. j : IsBody(x, "BlockStart")}
EndsIn(h, j) == {x \in h .. j : IsBody(x, "BlockEnd")}

LEMMA OneMoreBlock ==
  ASSUME NEW h \in Nat, NEW j \in Nat, h <= j, NEW b
  PROVE  LET S(k) == {x \in h .. k : IsBody(x, b)} IN
         /\ Cardinality(S(j)) \in Nat /\ Cardinality(S(j - 1)) \in Nat
         /\ Cardinality(S(j)) = Cardinality(S(j - 1)) + IF IsBody(j, b) THEN 1 ELSE 0
<1> DEFINE S(k) == {x \in h .. k : IsBody(x, b)}
<1>1. IsFiniteSet(S(j - 1)) /\ j \notin S(j - 1)
  <2>1. IsFiniteSet(h .. j - 1)
    BY FS_Interval
  <2>2. S(j - 1) \subseteq h .. j - 1
    OBVIOUS
  <2>3. QED
    BY <2>1, <2>2, FS_Subset
<1>2. S(j) = IF IsBody(j, b) THEN S(j - 1) \cup {j} ELSE S(j - 1)
  <2>1. ASSUME NEW x PROVE x \in S(j) <=> x \in S(j - 1) \/ (x = j /\ IsBody(j, b))
    OBVIOUS
  <2> HIDE DEF S
  <2>2. QED
    BY <2>1
<1> HIDE DEF S
<1>3. Cardinality(S(j - 1)) \in Nat /\ Cardinality(S(j - 1) \cup {j}) = Cardinality(S(j - 1)) + 1
  BY <1>1, FS_AddElement, FS_CardinalityType
<1>4. QED
  BY <1>2, <1>3 DEF S

LEMMA DepthProperty ==
  ASSUME NEW h \in Nat, NEW j \in Nat, h <= j
  PROVE  /\ Depth(h, j) \in Int /\ Depth(h, j - 1) \in Int
         /\ IsBody(j, "BlockStart") => Depth(h, j) = Depth(h, j - 1) + 1
         /\ IsBody(j, "BlockEnd") => Depth(h, j) = Depth(h, j - 1) - 1
         /\ ~ IsBody(j, "BlockStart") /\ ~ IsBody(j, "BlockEnd") => Depth(h, j) = Depth(h, j - 1)
<1>1. /\ Cardinality(StartsIn(h, j)) \in Nat /\ Cardinality(StartsIn(h, j - 1)) \in Nat
      /\ Cardinality(StartsIn(h, j)) = Cardinality(StartsIn(h, j - 1))
                                       + IF IsBody(j, "BlockStart") THEN 1 ELSE 0
  BY OneMoreBlock, SMTT(30) DEF StartsIn
<1>2. /\ Cardinality(EndsIn(h, j)) \in Nat /\ Cardinality(EndsIn(h, j - 1)) \in Nat
      /\ Cardinality(EndsIn(h, j)) = Cardinality(EndsIn(h, j - 1))
                                     + IF IsBody(j, "BlockEnd") THEN 1 ELSE 0
  BY OneMoreBlock, SMTT(30) DEF EndsIn
<1>3. \A k : Depth(h, k) = Cardinality(StartsIn(h, k)) - Cardinality(EndsIn(h, k))
  BY DEF Depth, StartsIn, EndsIn
<1>4. ~ (IsBody(j, "BlockStart") /\ IsBody(j, "BlockEnd"))
  BY DEF IsBody
<1>5. QED
  BY <1>1, <1>2, <1>3, <1>4

LEMMA DepthOfStart ==
  ASSUME NEW h \in Nat, IsBody(h, "BlockStart")
  PROVE  Depth(h, h) = 1
<1>1. StartsIn(h, h - 1) = {} /\ EndsIn(h, h - 1) = {}
  BY DEF StartsIn, EndsIn
<1>2. Depth(h, h - 1) = 0
  <2>1. Depth(h, h - 1) = Cardinality(StartsIn(h, h - 1)) - Cardinality(EndsIn(h, h - 1))
    BY DEF Depth, StartsIn, EndsIn
  <2>2. QED
    BY <1>1, <2>1, FS_EmptySet
<1>3. QED
  BY <1>2, DepthProperty

(* The blocks open after the symbol at j.                                  *)
LEMMA OpenAfter ==
  ASSUME NEW s \in Nat, NEW j \in Nat, s < j
  PROVE  OpenBlocks(s, j + 1) = {h \in OpenBlocks(s, j) : Depth(h, j) >= 1}
                                \cup IF IsBody(j, "BlockStart") THEN {j} ELSE {}
<1>1. ASSUME NEW h \in s + 1 .. j - 1
      PROVE  (\A x \in h .. j : Depth(h, x) >= 1)
             <=> (\A x \in h .. j - 1 : Depth(h, x) >= 1) /\ Depth(h, j) >= 1
  <2>1. \A x : x \in h .. j <=> x \in h .. j - 1 \/ x = j
    OBVIOUS
  <2>2. QED
    BY <2>1, Zenon
<1>2. IsBody(j, "BlockStart") => \A x \in j .. j : Depth(j, x) >= 1
  BY DepthOfStart
<1>3. \A h : h \in OpenBlocks(s, j + 1) <=>
               /\ h \in s + 1 .. j /\ IsBody(h, "BlockStart")
               /\ \A x \in h .. j : Depth(h, x) >= 1
  BY DEF OpenBlocks
<1>4. \A h : h \in OpenBlocks(s, j) <=>
               /\ h \in s + 1 .. j - 1 /\ IsBody(h, "BlockStart")
               /\ \A x \in h .. j - 1 : Depth(h, x) >= 1
  BY DEF OpenBlocks
<1>5. \A h : h \in s + 1 .. j <=> h \in s + 1 .. j - 1 \/ h = j
  OBVIOUS
<1>6. j \notin OpenBlocks(s, j)
  BY <1>4
<1>7. ASSUME NEW h
      PROVE  h \in OpenBlocks(s, j + 1) <=> \/ h \in OpenBlocks(s, j) /\ Depth(h, j) >= 1
                                            \/ h = j /\ IsBody(j, "BlockStart")
  <2>1. CASE h = j
    BY <1>2, <1>3, <1>5, <1>6, <2>1, Zenon
  <2>2. CASE h # j
    BY <1>1, <1>3, <1>4, <1>5, <2>2, Zenon
  <2>3. QED
    BY <2>1, <2>2
<1>8. QED
  BY <1>7

(* a lists the blocks open at j in the function that starts at s, the      *)
(* outermost first.                                                        *)
Scope(a, s, j) ==
  /\ OpenBlocks(s, j) = {a[x] : x \in DOMAIN a}
  /\ \A x \in DOMAIN a : Depth(a[x], j - 1) = Len(a) - x + 1
  /\ \A x, y \in DOMAIN a : x < y => a[x] < a[y]

LEMMA ScopeStart ==
  ASSUME NEW s \in Nat, NEW j \in Nat, s < j, NEW a \in Seq(Nat), Scope(a, s, j),
         IsBody(j, "BlockStart")
  PROVE  Scope(Append(a, j), s, j + 1)
<1> DEFINE b == Append(a, j)
<1>1. /\ Len(a) \in Nat /\ DOMAIN a = 1 .. Len(a) /\ Len(b) = Len(a) + 1
      /\ DOMAIN b = 1 .. Len(a) + 1 /\ b[Len(a) + 1] = j /\ \A x \in DOMAIN a : b[x] = a[x]
  BY OneMore
<1>2. \A h \in OpenBlocks(s, j) : h \in s + 1 .. j - 1
  BY DEF OpenBlocks
<1>3. \A x \in DOMAIN a : a[x] \in Nat /\ a[x] < j /\ a[x] \in OpenBlocks(s, j)
  <2>1. \A x \in DOMAIN a : a[x] \in OpenBlocks(s, j)
    BY DEF Scope
  <2>2. QED
    BY <1>2, <2>1
<1> HIDE DEF b
<1>4. \A x \in DOMAIN a : Depth(a[x], j) = Len(a) - x + 2
  <2>1. \A x \in DOMAIN a : Depth(a[x], j - 1) = Len(a) - x + 1
    BY DEF Scope
  <2>2. \A h \in OpenBlocks(s, j) : h \in Nat /\ h <= j
    BY <1>2
  <2>3. \A h \in OpenBlocks(s, j) : Depth(h, j) = Depth(h, j - 1) + 1
    BY <2>2, DepthProperty
  <2>4. \A x \in DOMAIN a : Depth(a[x], j) = Depth(a[x], j - 1) + 1
    BY <1>3, <2>3
  <2>5. QED
    BY <1>1, <2>1, <2>4
<1>5. OpenBlocks(s, j + 1) = {b[x] : x \in DOMAIN b}
  <2>1. {h \in OpenBlocks(s, j) : Depth(h, j) >= 1} = OpenBlocks(s, j)
    <3>1. \A h \in OpenBlocks(s, j) : \E x \in DOMAIN a : h = a[x]
      BY DEF Scope
    <3>2. \A h \in OpenBlocks(s, j) : Depth(h, j) >= 1
      BY <1>1, <1>4, <3>1
    <3>3. QED
      BY <3>2
  <2>2. OpenBlocks(s, j + 1) = OpenBlocks(s, j) \cup {j}
    BY <2>1, OpenAfter
  <2>3. OpenBlocks(s, j) = {a[x] : x \in DOMAIN a}
    BY DEF Scope
  <2>4. DOMAIN b = DOMAIN a \cup {Len(a) + 1}
    BY <1>1
  <2>5. ASSUME NEW h PROVE h \in OpenBlocks(s, j + 1) <=> h \in {b[x] : x \in DOMAIN b}
    BY <1>1, <2>2, <2>3, <2>4, ZenonT(40)
  <2>6. QED
    BY <2>5
<1>6. ASSUME NEW x \in DOMAIN b PROVE Depth(b[x], j) = Len(b) - x + 1
  <2>1. CASE x \in DOMAIN a
    <3>1. b[x] = a[x] /\ Depth(a[x], j) = Len(a) - x + 2 /\ x \in Int
      BY <1>1, <1>4, <2>1
    <3>2. QED
      BY <1>1, <3>1
  <2>2. CASE x = Len(a) + 1
    <3>1. Depth(j, j) = 1
      BY DepthOfStart
    <3>2. QED
      BY <1>1, <2>2, <3>1
  <2>3. QED
    BY <1>1, <2>1, <2>2
<1>7. ASSUME NEW x \in DOMAIN b, NEW y \in DOMAIN b, x < y PROVE b[x] < b[y]
  <2>1. x \in DOMAIN a
    BY <1>1, <1>7
  <2>2. CASE y \in DOMAIN a
    <3>1. a[x] < a[y]
      BY <1>7, <2>1, <2>2 DEF Scope
    <3>2. QED
      BY <1>1, <2>1, <2>2, <3>1
  <2>3. CASE y = Len(a) + 1
    BY <1>1, <1>3, <2>1, <2>3
  <2>4. QED
    BY <1>1, <2>2, <2>3
<1>8. j + 1 - 1 = j
  OBVIOUS
<1>9. Scope(b, s, j + 1)
  BY <1>5, <1>6, <1>7, <1>8 DEF Scope
<1>10. QED
  BY <1>9 DEF b

LEMMA ScopeEnd ==
  ASSUME NEW s \in Nat, NEW j \in Nat, s < j, NEW a \in Seq(Nat), NEW e \in Nat,
         Scope(Append(a, e), s, j), IsBody(j, "BlockEnd")
  PROVE  Scope(a, s, j + 1)
<1> DEFINE b == Append(a, e)
<1>1. /\ Len(a) \in Nat /\ DOMAIN a = 1 .. Len(a) /\ Len(b) = Len(a) + 1
      /\ DOMAIN b = 1 .. Len(a) + 1 /\ b[Len(a) + 1] = e /\ \A x \in DOMAIN a : b[x] = a[x]
  BY OneMore
<1>2. Scope(b, s, j)
  OBVIOUS
<1> HIDE DEF b
<1>3. \A x \in DOMAIN b : b[x] \in OpenBlocks(s, j)
  BY <1>2 DEF Scope
<1>4. \A h \in OpenBlocks(s, j) : h \in Nat /\ h <= j
  BY DEF OpenBlocks
<1>5. \A x \in DOMAIN b : Depth(b[x], j) = Len(a) - x + 1
  <2>1. \A x \in DOMAIN b : Depth(b[x], j - 1) = Len(b) - x + 1
    BY <1>2 DEF Scope
  <2>2. \A x \in DOMAIN b : Depth(b[x], j) = Depth(b[x], j - 1) - 1
    BY <1>3, <1>4, DepthProperty
  <2>3. QED
    BY <1>1, <2>1, <2>2
<1>6. ~ IsBody(j, "BlockStart")
  BY DEF IsBody
<1>7. OpenBlocks(s, j + 1) = {h \in OpenBlocks(s, j) : Depth(h, j) >= 1}
  BY <1>6, OpenAfter
<1>8. ASSUME NEW h PROVE h \in OpenBlocks(s, j + 1) <=> \E x \in DOMAIN a : h = a[x]
  <2>1. h \in OpenBlocks(s, j) <=> \E x \in DOMAIN b : h = b[x]
    BY <1>2 DEF Scope
  <2>2. \A x \in DOMAIN b : Depth(b[x], j) >= 1 <=> x \in DOMAIN a
    BY <1>1, <1>5
  <2>3. \A x \in DOMAIN a : x \in DOMAIN b
    BY <1>1
  <2>4. h \in OpenBlocks(s, j + 1) <=> \E x \in DOMAIN b : h = b[x] /\ Depth(b[x], j) >= 1
    BY <1>7, <2>1
  <2>5. QED
    BY <1>1, <2>2, <2>3, <2>4, Zenon
<1>9. OpenBlocks(s, j + 1) = {a[x] : x \in DOMAIN a}
  BY <1>8
<1>10. j + 1 - 1 = j /\ \A x \in DOMAIN a : x \in DOMAIN b
  BY <1>1
<1>11. \A x \in DOMAIN a : Depth(a[x], j + 1 - 1) = Len(a) - x + 1
  BY <1>1, <1>5, <1>10
<1>12. \A x, y \in DOMAIN a : x < y => a[x] < a[y]
  <2>1. \A x, y \in DOMAIN b : x < y => b[x] < b[y]
    BY <1>2 DEF Scope
  <2>2. QED
    BY <1>1, <1>10, <2>1
<1>13. QED
  BY <1>9, <1>11, <1>12 DEF Scope

LEMMA ScopeSame ==
  ASSUME NEW s \in Nat, NEW j \in Nat, s < j, NEW a, Scope(a, s, j),
         ~ IsBody(j, "BlockStart"), ~ IsBody(j, "BlockEnd")
  PROVE  Scope(a, s, j + 1)
<1>1. \A h \in OpenBlocks(s, j) : h \in Nat /\ h <= j - 1 /\ Depth(h, j - 1) >= 1
  BY DEF OpenBlocks
<1>2. \A h \in OpenBlocks(s, j) : Depth(h, j) = Depth(h, j - 1)
  BY <1>1, DepthProperty
<1>3. OpenBlocks(s, j + 1) = OpenBlocks(s, j)
  <2>1. OpenBlocks(s, j + 1) = {h \in OpenBlocks(s, j) : Depth(h, j) >= 1}
    BY OpenAfter
  <2>2. QED
    BY <1>1, <1>2, <2>1
<1>4. j + 1 - 1 = j
  OBVIOUS
<1>5. \A x \in DOMAIN a : a[x] \in OpenBlocks(s, j)
  BY DEF Scope
<1>6. \A x \in DOMAIN a : Depth(a[x], j) = Len(a) - x + 1
  BY <1>2, <1>5 DEF Scope
<1>7. QED
  BY <1>3, <1>4, <1>6 DEF Scope

LEMMA ScopeEmpty ==
  ASSUME NEW s \in Nat
  PROVE  Scope(<<>>, s, s + 1)
<1>1. s + 1 .. s + 1 - 1 = {}
  OBVIOUS
<1>2. OpenBlocks(s, s + 1) = {}
  BY <1>1 DEF OpenBlocks
<1>3. QED
  BY <1>2 DEF Scope

(* The functions of the current overlay after a step.                      *)
FuncsAfter(fs) ==
  \/ AddGlobal /\ Sym.func /\ fs = Append(Funcs, NewFunc)
  \/ BeginFunc /\ fs = BegunFuncs
  \/ EndFunc /\ fs = [Funcs EXCEPT ![fn] = EndedFunc]
  \/ BlockStart /\ fs = [Funcs EXCEPT ![fn] = BlockFunc]
  \/ AddLocal /\ fs = [Funcs EXCEPT ![fn] = LocalFunc]
  \/ /\ \/ AddSymbol \/ Ignore \/ (AddGlobal /\ ~ Sym.func) \/ AddOverlay \/ SetOverlay
        \/ FinishDecls \/ BeginLines \/ NextLine \/ EndLines \/ SkipFunc \/ BlockEnd \/ PanicStep
     /\ fs = Funcs

LEMMA FuncsWritten ==
  ASSUME DeclTyped, NEW o \in OverlayRecs, Write(o), FuncsAfter(o.funcs)
  PROVE  /\ DOMAIN overlays' = DOMAIN overlays /\ FuncsAfter(overlays'[curOverlay].funcs)
         /\ \A p \in DOMAIN overlays : p # curOverlay => overlays'[p].funcs = overlays[p].funcs
<1>1. overlays \in Seq(OverlayRecs) /\ curOverlay \in DOMAIN overlays
  BY DEF DeclTyped, DeclTypeOK
<1>2. /\ DOMAIN overlays' = DOMAIN overlays
      /\ overlays'[curOverlay] = o
      /\ \A x \in DOMAIN overlays : x # curOverlay => overlays'[x] = overlays[x]
  BY <1>1, WriteProperty, Zenon
<1>3. QED
  BY <1>2, Zenon

LEMMA FuncsAfterStep ==
  ASSUME DeclTyped, Place, ParseDeclsStep
  PROVE  /\ \A p \in DOMAIN overlays' : p \in DOMAIN overlays \/ DOMAIN overlays'[p].funcs = {}
         /\ DOMAIN overlays \subseteq DOMAIN overlays'
         /\ \A p \in DOMAIN overlays : p # curOverlay => overlays'[p].funcs = overlays[p].funcs
         /\ FuncsAfter(overlays'[curOverlay].funcs)
<1> DEFINE Goal == /\ DOMAIN overlays' = DOMAIN overlays /\ FuncsAfter(overlays'[curOverlay].funcs)
                   /\ \A p \in DOMAIN overlays :
                        p # curOverlay => overlays'[p].funcs = overlays[p].funcs
<1>1. Cur \in OverlayRecs /\ Funcs = Cur.funcs /\ overlays \in Seq(OverlayRecs)
      /\ curOverlay \in DOMAIN overlays /\ Funcs = overlays[curOverlay].funcs
  BY CurTyped DEF DeclTyped, DeclTypeOK, Funcs
<1>2. ASSUME Goal
      PROVE  /\ \A p \in DOMAIN overlays' : p \in DOMAIN overlays \/ DOMAIN overlays'[p].funcs = {}
             /\ DOMAIN overlays \subseteq DOMAIN overlays'
             /\ \A p \in DOMAIN overlays : p # curOverlay => overlays'[p].funcs = overlays[p].funcs
             /\ FuncsAfter(overlays'[curOverlay].funcs)
  BY <1>2
<1>3. CASE Ignore \/ SetOverlay \/ FinishDecls \/ EndLines \/ SkipFunc \/ PanicStep
  <2>1. overlays' = overlays
    BY <1>3, PanicDoes DEF Ignore, SetOverlay, FinishDecls, EndLines, SkipFunc, recorded
  <2>2. FuncsAfter(overlays[curOverlay].funcs)
    BY <1>1, <1>3 DEF FuncsAfter
  <2>3. QED
    BY <1>2, <2>1, <2>2
<1>4. CASE AddOverlay
  <2>1. overlays' = Append(overlays, EmptyOverlay(Sym.id))
    BY <1>4 DEF AddOverlay
  <2>2. /\ DOMAIN overlays = 1 .. Len(overlays) /\ DOMAIN overlays' = 1 .. Len(overlays) + 1
        /\ overlays'[Len(overlays) + 1] = EmptyOverlay(Sym.id)
        /\ \A x \in DOMAIN overlays : overlays'[x] = overlays[x]
    <3> HIDE DEF OverlayRecs
    <3> DEFINE e == EmptyOverlay(Sym.id)
    <3> HIDE DEF e
    <3>1. overlays' = Append(overlays, e)
      BY <2>1 DEF e
    <3>2. QED
      BY <1>1, <3>1 DEF e
  <2>3. DOMAIN EmptyOverlay(Sym.id).funcs = {}
    BY DEF EmptyOverlay
  <2>4. \A p \in DOMAIN overlays' : p \in DOMAIN overlays \/ p = Len(overlays) + 1
    BY <1>1, <2>2
  <2>5. DOMAIN overlays \subseteq DOMAIN overlays'
    BY <1>1, <2>2
  <2>6. FuncsAfter(overlays'[curOverlay].funcs)
    BY <1>1, <1>4, <2>2, Zenon DEF FuncsAfter
  <2>7. QED
    BY <2>2, <2>3, <2>4, <2>5, <2>6, Zenon
<1>5. CASE AddSymbol
  <2>1. /\ Write([Cur EXCEPT !.symbols = Append(@, NewSymbol)])
        /\ [Cur EXCEPT !.symbols = Append(@, NewSymbol)] \in OverlayRecs
    BY <1>5, AddSymbolWrites, Zenon
  <2>2. [Cur EXCEPT !.symbols = Append(@, NewSymbol)].funcs = Funcs
    BY <1>1, ListReplaced, Zenon
  <2>3. FuncsAfter([Cur EXCEPT !.symbols = Append(@, NewSymbol)].funcs)
    BY <1>5, <2>2, Zenon DEF FuncsAfter
  <2>4. QED
    BY <1>2, <2>1, <2>3, FuncsWritten, Zenon
<1>6. CASE AddGlobal
  <2>1. CASE Sym.func
    <3>1. /\ Write([Cur EXCEPT !.funcs = Append(@, NewFunc)])
          /\ [Cur EXCEPT !.funcs = Append(@, NewFunc)] \in OverlayRecs
      BY <1>6, <2>1, AddGlobalWrites, Zenon
    <3>2. [Cur EXCEPT !.funcs = Append(@, NewFunc)].funcs = Append(Funcs, NewFunc)
      <4> DEFINE w == Append(Cur.funcs, NewFunc)
      <4>1. [Cur EXCEPT !.funcs = w].funcs = w
        BY <1>1, ListReplaced, ZenonT(40)
      <4>2. QED
        BY <1>1, <4>1, Zenon
    <3>3. FuncsAfter([Cur EXCEPT !.funcs = Append(@, NewFunc)].funcs)
      BY <1>6, <2>1, <3>2, Zenon DEF FuncsAfter
    <3>4. QED
      BY <1>2, <3>1, <3>3, FuncsWritten, Zenon
  <2>2. CASE ~ Sym.func
    <3>1. /\ Write([Cur EXCEPT !.vars = Append(@, Var(d))])
          /\ [Cur EXCEPT !.vars = Append(@, Var(d))] \in OverlayRecs
      BY <1>6, <2>2, AddGlobalWrites, Zenon
    <3>2. [Cur EXCEPT !.vars = Append(@, Var(d))].funcs = Funcs
      BY <1>1, ListReplaced, Zenon
    <3>3. FuncsAfter([Cur EXCEPT !.vars = Append(@, Var(d))].funcs)
      BY <1>6, <2>2, <3>2, Zenon DEF FuncsAfter
    <3>4. QED
      BY <1>2, <3>1, <3>3, FuncsWritten, Zenon
  <2>3. QED
    BY <2>1, <2>2
<1>7. ASSUME NEW j \in 1 .. Len(syms), NEW line \in LineRecs, NEW v \in OverlayRecs,
             Write(WithLine(v, j, line)), FuncsAfter(v.funcs)
      PROVE  Goal
  <2>1. LineEntry(j, line) \in Lines /\ WithLine(v, j, line) \in OverlayRecs
    BY <1>7, LineTyped, Zenon
  <2>2. WithLine(v, j, line).funcs = v.funcs
    <3>1. \A o \in OverlayRecs : WithLine(o, j, line).funcs = o.funcs
      BY DEF WithLine, OverlayRecs
    <3>2. QED
      BY <1>7, <3>1, Zenon
  <2>3. QED
    BY <1>7, <2>1, <2>2, FuncsWritten, Zenon
<1>8. CASE BeginLines \/ NextLine
  <2>1. \E j \in 1 .. Len(syms) : \E line \in LineRecs : Write(WithLine(Cur, j, line))
    <3>1. CASE BeginLines
      <4>1. d \in 1 .. Len(syms) /\ Sym.body = "SetSLD2" /\ Sym = syms[d]
        BY <3>1, DeclSymbolProperty DEF BeginLines, AtDecl, DeclTyped, Begun, Sym
      <4>2. StartLine \in LineRecs
        BY <4>1, DeclSymbolProperty DEF DeclTyped, Begun, IsDeclSymbol, LineBodies, StartLine,
           LineRecs
      <4>3. AddLine(d, StartLine)
        BY <3>1, Zenon DEF BeginLines, StartLine
      <4>4. QED
        BY <4>1, <4>2, <4>3, Zenon DEF AddLine, Write, Cur
    <3>2. CASE NextLine
      <4>1. InnerPos \in 1 .. Len(syms) /\ syms[InnerPos].body \in SLDBodies
        BY <3>2, DeclSymbolProperty DEF NextLine, AtInner, InnerPos, DeclTyped, Begun
      <4>2. LineAfter(syms[InnerPos]) \in LineRecs
        BY <4>1, LineAfterTyped
      <4>3. AddLine(InnerPos, LineAfter(syms[InnerPos]))
        BY <3>2, Zenon DEF NextLine
      <4>4. QED
        BY <4>1, <4>2, <4>3, Zenon DEF AddLine, Write, Cur
    <3>3. QED
      BY <1>8, <3>1, <3>2
  <2>2. FuncsAfter(Cur.funcs)
    BY <1>1, <1>8, Zenon DEF FuncsAfter
  <2>3. QED
    BY <1>1, <1>2, <1>7, <2>1, <2>2, Zenon
<1>9. CASE BeginFunc
  <2>1. /\ d \in 1 .. Len(syms) /\ StartLine \in LineRecs
        /\ Write(BegunOverlay) /\ BegunFuncs \in Seq(FuncRecs)
    BY <1>9, BeginFuncWrites, Zenon
  <2> DEFINE v == [Cur EXCEPT !.funcs = BegunFuncs]
  <2>2. v \in OverlayRecs /\ v.funcs = BegunFuncs
    BY <1>1, <2>1, OverlayTyped, ListReplaced, ZenonT(40)
  <2>3. Write(WithLine(v, d, StartLine))
    BY <2>1, Zenon DEF BegunOverlay
  <2> HIDE DEF v
  <2>4. FuncsAfter(v.funcs)
    BY <1>9, <2>2, Zenon DEF FuncsAfter
  <2>5. QED
    BY <1>2, <1>7, <2>1, <2>2, <2>3, <2>4, Zenon
<1>10. CASE EndFunc
  <2>1. mode = "func" /\ EndedFunc \in FuncRecs /\ SetFunc(EndedFunc)
    BY <1>10, EndFuncDoes, Zenon
  <2>2. /\ Write(FuncSet(EndedFunc)) /\ FuncSet(EndedFunc) \in OverlayRecs
        /\ FuncSet(EndedFunc).funcs = [Funcs EXCEPT ![fn] = EndedFunc]
    BY <2>1, SetFuncWrites, Zenon
  <2>3. FuncsAfter(FuncSet(EndedFunc).funcs)
    BY <1>10, <2>2, Zenon DEF FuncsAfter
  <2>4. QED
    BY <1>2, <2>2, <2>3, FuncsWritten, Zenon
<1>11. CASE AddLocal
  <2>1. mode = "func" /\ LocalFunc \in FuncRecs /\ SetFunc(LocalFunc)
    BY <1>11, AddLocalDoes, Zenon
  <2>2. /\ Write(FuncSet(LocalFunc)) /\ FuncSet(LocalFunc) \in OverlayRecs
        /\ FuncSet(LocalFunc).funcs = [Funcs EXCEPT ![fn] = LocalFunc]
    BY <2>1, SetFuncWrites, Zenon
  <2>3. FuncsAfter(FuncSet(LocalFunc).funcs)
    BY <1>11, <2>2, Zenon DEF FuncsAfter
  <2>4. QED
    BY <1>2, <2>2, <2>3, FuncsWritten, Zenon
<1>12. CASE BlockStart
  <2>1. /\ BlockFunc \in FuncRecs /\ BlockLine \in LineRecs /\ SetFuncAndLine(BlockFunc, BlockLine)
        /\ InnerPos \in 1 .. Len(syms) /\ mode = "func"
    BY <1>12, BlockStartDoes, Zenon
  <2>2. /\ Write(WithLine(FuncSet(BlockFunc), InnerPos, BlockLine))
        /\ FuncSet(BlockFunc) \in OverlayRecs
        /\ FuncSet(BlockFunc).funcs = [Funcs EXCEPT ![fn] = BlockFunc]
    BY <2>1, SetFuncWrites, Zenon
  <2>3. FuncsAfter(FuncSet(BlockFunc).funcs)
    BY <1>12, <2>2, Zenon DEF FuncsAfter
  <2>4. QED
    BY <1>2, <1>7, <2>1, <2>2, <2>3, Zenon
<1>13. CASE BlockEnd
  <2>1. BlockLine \in LineRecs /\ AddLine(InnerPos, BlockLine) /\ InnerPos \in 1 .. Len(syms)
    BY <1>13, BlockEndDoes, Zenon
  <2>2. Write(WithLine(Cur, InnerPos, BlockLine))
    BY <2>1, Zenon DEF AddLine, Write, Cur
  <2>3. FuncsAfter(Cur.funcs)
    BY <1>1, <1>13, Zenon DEF FuncsAfter
  <2>4. QED
    BY <1>1, <1>2, <1>7, <2>1, <2>2, <2>3, Zenon
<1>14. QED
  BY StepCases, <1>3, <1>4, <1>5, <1>6, <1>8, <1>9, <1>10, <1>11, <1>12, <1>13, Zenon

(* The parts of the current function that a step changes.                  *)
Same(f, g) == /\ f.at = g.at /\ f.addr = g.addr /\ f.key = g.key /\ f.void = g.void
              /\ f.lineStart = g.lineStart /\ f.ref = g.ref /\ f.name = g.name

LEMMA FuncChanges ==
  ASSUME DeclTyped, mode = "func"
  PROVE  /\ fn \in DOMAIN Funcs /\ CurFunc \in FuncRecs /\ CurFunc = Funcs[fn]
         /\ Funcs = overlays[curOverlay].funcs /\ Funcs \in Seq(FuncRecs)
         /\ Same(EndedFunc, CurFunc) /\ EndedFunc.params = CurFunc.params
         /\ EndedFunc.blocks = CurFunc.blocks
         /\ Same(BlockFunc, CurFunc) /\ BlockFunc.params = CurFunc.params
         /\ BlockFunc.blocks = Append(CurFunc.blocks, Block(InnerPos))
         /\ Same(LocalFunc, CurFunc)
         /\ curBlock = None => /\ LocalFunc.params = AddedTo(CurFunc.params, Var(InnerPos))
                               /\ LocalFunc.blocks = CurFunc.blocks
         /\ curBlock # None =>
              /\ LocalFunc.params = CurFunc.params /\ curBlock \in DOMAIN CurFunc.blocks
              /\ LocalFunc.blocks =
                   [CurFunc.blocks EXCEPT ![curBlock] =
                      [CurFunc.blocks[curBlock] EXCEPT
                         !.locals = AddedTo(CurFunc.blocks[curBlock].locals, Var(InnerPos))]]
<1>1. /\ fn \in DOMAIN Funcs /\ CurFunc \in FuncRecs /\ CurFunc = Funcs[fn]
      /\ Funcs = overlays[curOverlay].funcs /\ Funcs \in Seq(FuncRecs)
      /\ curBlock \in DOMAIN CurFunc.blocks \cup {None}
  BY CurTyped, Zenon DEF DeclTyped, DeclTypeOK, CurFunc, Funcs
<1>2. Same(EndedFunc, CurFunc) /\ EndedFunc.params = CurFunc.params
      /\ EndedFunc.blocks = CurFunc.blocks
  BY <1>1 DEF EndedFunc, Same, FuncRecs
<1>3. Same(BlockFunc, CurFunc) /\ BlockFunc.params = CurFunc.params
      /\ BlockFunc.blocks = Append(CurFunc.blocks, Block(InnerPos))
  <2> DEFINE v == Append(CurFunc.blocks, Block(InnerPos))
             g == [CurFunc EXCEPT !.blocks = v]
  <2>1. BlockFunc = g
    BY Zenon DEF BlockFunc
  <2>2. Same(g, CurFunc) /\ g.params = CurFunc.params /\ g.blocks = v
    <3> HIDE DEF v
    <3>1. QED
      BY <1>1 DEF Same, FuncRecs
  <2> HIDE DEF g
  <2>3. QED
    BY <2>1, <2>2
<1>4. CASE curBlock = None
  <2> DEFINE v == AddedTo(CurFunc.params, Var(InnerPos))
             g == [CurFunc EXCEPT !.params = v]
  <2>1. LocalFunc = g
    BY <1>4, Zenon DEF LocalFunc
  <2> HIDE DEF v
  <2>2. Same(g, CurFunc) /\ g.params = v /\ g.blocks = CurFunc.blocks
    BY <1>1 DEF Same, FuncRecs
  <2>3. QED
    BY <1>1, <1>2, <1>3, <1>4, <2>1, <2>2, Zenon DEF v
<1>5. CASE curBlock # None
  <2> DEFINE b == AddedTo(CurFunc.blocks[curBlock].locals, Var(InnerPos))
             w == [CurFunc.blocks EXCEPT ![curBlock] = [CurFunc.blocks[curBlock] EXCEPT !.locals = b]]
  <2>1. LocalFunc = [CurFunc EXCEPT !.blocks[curBlock].locals = b]
    BY <1>5, Zenon DEF LocalFunc
  <2> HIDE DEF b
  <2> DEFINE g == [CurFunc EXCEPT !.blocks = w]
  <2>2. LocalFunc = g
    BY <2>1
  <2> HIDE DEF w
  <2>3. Same(g, CurFunc) /\ g.params = CurFunc.params /\ g.blocks = w
    BY <1>1 DEF Same, FuncRecs
  <2> HIDE DEF g
  <2>4. QED
    BY <1>1, <1>2, <1>3, <1>5, <2>2, <2>3, Zenon DEF w, b
<1>6. QED
  BY <1>4, <1>5

(* The current function after a step of parseFunc.                         *)
LEMMA CurFuncAfter ==
  ASSUME DeclTyped, BlockStart \/ BlockEnd \/ AddLocal
  PROVE  /\ mode = "func" /\ fn' = fn /\ d' = d /\ m' = m + 1 /\ mode' = "func"
         /\ InnerPos \in 1 .. Len(syms) /\ InnerPos' = InnerPos + 1
         /\ BlockStart => CurFunc' = BlockFunc
         /\ BlockEnd => CurFunc' = CurFunc
         /\ AddLocal => CurFunc' = LocalFunc
<1>1. /\ mode = "func" /\ fn' = fn /\ d' = d /\ m' = m + 1 /\ mode' = "func"
      /\ InnerPos \in 1 .. Len(syms) /\ curOverlay' = curOverlay
  BY BlockStartDoes, BlockEndDoes, AddLocalDoes, Zenon
<1>2. fn \in DOMAIN Funcs
  BY <1>1, FuncChanges
<1>3. InnerPos' = InnerPos + 1
  BY <1>1 DEF InnerPos, DeclTyped, Begun
<1>4. ASSUME NEW f, Funcs' = [Funcs EXCEPT ![fn] = f] PROVE CurFunc' = f
  BY <1>1, <1>2, <1>4 DEF CurFunc
<1>5. ASSUME BlockStart PROVE CurFunc' = BlockFunc
  <2>1. BlockFunc \in FuncRecs /\ BlockLine \in LineRecs /\ SetFuncAndLine(BlockFunc, BlockLine)
    BY <1>5, BlockStartDoes, Zenon
  <2>2. Funcs' = [Funcs EXCEPT ![fn] = BlockFunc]
    BY <1>1, <2>1, FuncWritten, Zenon
  <2>3. QED
    BY <1>4, <2>2
<1>6. ASSUME AddLocal PROVE CurFunc' = LocalFunc
  <2>1. LocalFunc \in FuncRecs /\ SetFunc(LocalFunc)
    BY <1>6, AddLocalDoes, Zenon
  <2>2. Funcs' = [Funcs EXCEPT ![fn] = LocalFunc]
    BY <1>1, <2>1, FuncWritten, Zenon
  <2>3. QED
    BY <1>4, <2>2
<1>7. ASSUME BlockEnd PROVE CurFunc' = CurFunc
  <2>1. BlockLine \in LineRecs /\ AddLine(InnerPos, BlockLine)
    BY <1>7, BlockEndDoes, Zenon
  <2>2. Write(WithLine(Cur, InnerPos, BlockLine)) /\ Cur \in OverlayRecs /\ Funcs = Cur.funcs
    BY <2>1, CurTyped, Zenon DEF AddLine, Write, Cur
  <2>3. overlays \in Seq(OverlayRecs) /\ curOverlay \in DOMAIN overlays
    BY DEF DeclTyped, DeclTypeOK
  <2>4. overlays'[curOverlay] = WithLine(Cur, InnerPos, BlockLine)
    BY <2>2, <2>3, WriteProperty, Zenon
  <2>5. WithLine(Cur, InnerPos, BlockLine).funcs = Cur.funcs
    BY <2>2 DEF WithLine, OverlayRecs
  <2>6. Funcs' = Funcs
    BY <1>1, <2>2, <2>4, <2>5, Zenon DEF Funcs
  <2>7. QED
    BY <1>1, <2>6, Zenon DEF CurFunc
<1>8. QED
  BY <1>1, <1>3, <1>5, <1>6, <1>7, Zenon

(* Where the blocks around the next symbol start.                          *)
Ats == [x \in DOMAIN Stack |-> CurFunc.blocks[Stack[x]].at]

Scoped == mode = "func" => Scope(Ats, d, InnerPos)

LEMMA BlocksOfCur ==
  ASSUME DeclTyped, mode = "func"
  PROVE  /\ CurFunc.blocks \in Seq(BlockRecs) /\ Len(CurFunc.blocks) \in Nat
         /\ DOMAIN CurFunc.blocks = 1 .. Len(CurFunc.blocks)
         /\ \A b \in DOMAIN CurFunc.blocks : CurFunc.blocks[b].at \in Nat
         /\ Stack \in Seq(DOMAIN CurFunc.blocks) /\ Len(Stack) \in Nat
         /\ DOMAIN Stack = 1 .. Len(Stack)
         /\ \A x \in DOMAIN Stack : Stack[x] \in DOMAIN CurFunc.blocks
         /\ Ats \in Seq(Nat) /\ Len(Ats) = Len(Stack) /\ DOMAIN Ats = DOMAIN Stack
<1>1. /\ CurFunc.blocks \in Seq(BlockRecs) /\ Len(CurFunc.blocks) \in Nat
      /\ DOMAIN CurFunc.blocks = 1 .. Len(CurFunc.blocks)
      /\ \A b \in DOMAIN CurFunc.blocks : CurFunc.blocks[b] \in BlockRecs
  BY CurTyped, FuncParts, Zenon
<1>2. \A b \in BlockRecs : b.at \in Nat
  BY DEF BlockRecs
<1>3. Stack \in Seq(DOMAIN CurFunc.blocks)
  BY StackAfter
<1>4. /\ Len(Stack) \in Nat /\ DOMAIN Stack = 1 .. Len(Stack)
      /\ \A x \in DOMAIN Stack : Stack[x] \in DOMAIN CurFunc.blocks
  <2> DEFINE S == DOMAIN CurFunc.blocks
  <2>1. Stack \in Seq(S)
    BY <1>3
  <2> HIDE DEF S, Stack
  <2>2. /\ Len(Stack) \in Nat /\ DOMAIN Stack = 1 .. Len(Stack)
        /\ \A x \in DOMAIN Stack : Stack[x] \in S
    BY <2>1
  <2>3. QED
    BY <2>2 DEF S
<1>5. \A b \in DOMAIN CurFunc.blocks : CurFunc.blocks[b].at \in Nat
  BY <1>1, <1>2, Zenon
<1> HIDE DEF Stack
<1>6. DOMAIN Ats = 1 .. Len(Stack) /\ \A x \in DOMAIN Ats : Ats[x] \in Nat
  BY <1>4, <1>5 DEF Ats
<1>7. Ats \in [1 .. Len(Stack) -> Nat]
  BY <1>4, <1>5 DEF Ats
<1>8. Ats \in Seq(Nat) /\ Len(Ats) = Len(Stack)
  BY <1>4, <1>7
<1>9. QED
  BY <1>1, <1>3, <1>4, <1>5, <1>6, <1>8

AtsAreTyped ==
  DeclTyped /\ mode = "func" =>
    Ats \in Seq(Nat) /\ Len(Ats) = Len(Stack) /\ DOMAIN Ats = DOMAIN Stack

LEMMA AtsTyped == AtsAreTyped
BY BlocksOfCur, Zenon DEF AtsAreTyped

LEMMA AtsAfter ==
  ASSUME DeclTyped, DeclTyped', BlockStart \/ BlockEnd \/ AddLocal
  PROVE  /\ BlockStart => Ats' = Append(Ats, InnerPos)
         /\ BlockEnd => \E e \in Nat : Ats = Append(Ats', e)
         /\ AddLocal => Ats' = Ats
<1> DEFINE bs == CurFunc.blocks
<1>1. mode = "func" /\ mode' = "func"
  BY CurFuncAfter, Zenon
<1>2. /\ bs \in Seq(BlockRecs) /\ Len(bs) \in Nat /\ DOMAIN bs = 1 .. Len(bs)
      /\ \A b \in DOMAIN bs : bs[b].at \in Nat
      /\ Len(Stack) \in Nat /\ DOMAIN Stack = 1 .. Len(Stack)
      /\ \A x \in DOMAIN Stack : Stack[x] \in DOMAIN bs
      /\ Ats \in Seq(Nat) /\ Len(Ats) = Len(Stack) /\ DOMAIN Ats = DOMAIN Stack
      /\ Stack \in Seq(DOMAIN bs)
  BY <1>1, BlocksOfCur
<1>3. Ats' \in Seq(Nat) /\ Len(Ats') = Len(Stack') /\ DOMAIN Ats' = DOMAIN Stack'
  <2>1. AtsAreTyped'
    BY AtsTyped, PTL
  <2>2. QED
    BY <1>1, <2>1 DEF AtsAreTyped
<1>4. /\ \A x \in DOMAIN Stack : Ats[x] = bs[Stack[x]].at
      /\ \A x \in DOMAIN Stack' : Ats'[x] = CurFunc'.blocks[Stack'[x]].at
  BY DEF Ats
<1>5. ASSUME BlockStart PROVE Ats' = Append(Ats, InnerPos)
  <2> DEFINE k == Len(bs) + 1
             b == Block(InnerPos)
  <2>1. CurFunc'.blocks = Append(bs, b) /\ Stack' = Append(Stack, k) /\ InnerPos \in Nat
    <3>1. CurFunc' = BlockFunc /\ InnerPos \in 1 .. Len(syms)
      BY <1>5, CurFuncAfter, Zenon
    <3>2. BlockFunc.blocks = Append(bs, b)
      BY <1>1, FuncChanges, Zenon
    <3>3. Stack' = Append(Stack, k)
      BY <1>1, <1>5, StackAfter, Zenon
    <3>4. InnerPos \in Nat
      BY <3>1
    <3>5. QED
      BY <3>1, <3>2, <3>3, <3>4, Zenon
  <2>2. b \in BlockRecs /\ b.at = InnerPos
    <3>1. InnerPos \in Nat /\ <<>> \in Seq(Vars)
      BY <2>1
    <3>2. QED
      BY <3>1 DEF Block, BlockRecs
  <2> HIDE DEF b, Stack, Ats
  <2>3. /\ CurFunc'.blocks[k] = b /\ \A x \in DOMAIN bs : CurFunc'.blocks[x] = bs[x]
    <3> DEFINE cs == Append(bs, b)
    <3> HIDE DEF BlockRecs
    <3>1. cs[Len(bs) + 1] = b /\ \A x \in DOMAIN bs : cs[x] = bs[x]
      <4> HIDE DEF bs
      <4>1. QED
        BY <1>2, <2>2, OneMore
    <3>2. QED
      BY <2>1, <3>1
  <2>4. /\ DOMAIN Stack' = 1 .. Len(Stack) + 1 /\ Stack'[Len(Stack) + 1] = k
        /\ \A x \in DOMAIN Stack : Stack'[x] = Stack[x]
    <3>1. k \in Nat /\ Stack \in Seq(Nat)
      BY <1>2
    <3> HIDE DEF k
    <3>2. QED
      BY <2>1, <3>1, OneMore
  <2>5. Ats'[Len(Stack) + 1] = InnerPos
    <3>1. Len(Stack) + 1 \in DOMAIN Stack'
      BY <1>2, <2>4
    <3>2. Ats'[Len(Stack) + 1] = CurFunc'.blocks[Stack'[Len(Stack) + 1]].at
      BY <1>4, <3>1, Zenon
    <3>3. QED
      BY <2>2, <2>3, <2>4, <3>2, Zenon
  <2>6. ASSUME NEW x \in DOMAIN Ats PROVE Ats'[x] = Ats[x]
    <3>1. x \in DOMAIN Stack /\ x \in DOMAIN Stack'
      BY <1>2, <2>4
    <3>2. Ats'[x] = CurFunc'.blocks[Stack[x]].at /\ Stack[x] \in DOMAIN bs
      BY <1>2, <1>4, <2>4, <3>1
    <3>3. QED
      BY <1>4, <2>3, <3>1, <3>2
  <2> HIDE DEF k
  <2>7. Len(Ats') = Len(Ats) + 1 /\ DOMAIN Ats' = 1 .. Len(Ats) + 1
    BY <1>2, <1>3, <2>4
  <2>8. /\ Append(Ats, InnerPos) \in Seq(Nat) /\ Len(Append(Ats, InnerPos)) = Len(Ats) + 1
        /\ Append(Ats, InnerPos)[Len(Ats) + 1] = InnerPos
        /\ \A x \in DOMAIN Ats : Append(Ats, InnerPos)[x] = Ats[x]
    BY <1>2, <2>1, OneMore
  <2>9. ASSUME NEW x \in 1 .. Len(Ats') PROVE Ats'[x] = Append(Ats, InnerPos)[x]
    <3>1. DOMAIN Ats = 1 .. Len(Ats) /\ Len(Ats) = Len(Stack) /\ Len(Stack) \in Nat
      BY <1>2
    <3>2. CASE x \in DOMAIN Ats
      BY <2>6, <2>8, <3>2, Zenon
    <3>3. CASE x \notin DOMAIN Ats
      <4>1. x = Len(Ats) + 1
        BY <2>7, <3>1, <3>3
      <4>2. QED
        BY <2>5, <2>8, <3>1, <4>1, Zenon
    <3>4. QED
      BY <3>2, <3>3
  <2>10. QED
    BY <1>3, <2>7, <2>8, <2>9, SeqEqual
<1>6. ASSUME BlockEnd PROVE \E e \in Nat : Ats = Append(Ats', e)
  <2>1. CurFunc' = CurFunc /\ Stack' = blocks /\ Stack = Append(blocks, curBlock)
    BY <1>1, <1>6, CurFuncAfter, StackAfter, Zenon
  <2>2. blocks \in Seq(DOMAIN bs) /\ curBlock \in DOMAIN bs
    <3>1. blocks \in Seq(DOMAIN bs) /\ curBlock \in DOMAIN bs \cup {None} /\ curBlock # None
      BY <1>1, <1>6 DEF DeclTyped, DeclTypeOK, BlockEnd
    <3>2. QED
      BY <3>1
  <2>3. /\ Len(blocks) \in Nat /\ DOMAIN blocks = 1 .. Len(blocks) /\ Len(Stack) = Len(blocks) + 1
        /\ \A x \in DOMAIN blocks : Stack[x] = blocks[x]
    <3> DEFINE S == DOMAIN bs
    <3>1. blocks \in Seq(S) /\ curBlock \in S
      BY <2>2
    <3> HIDE DEF S, Stack
    <3>2. QED
      BY <2>1, <3>1, OneMore
  <2> DEFINE e == Ats[Len(Stack)]
  <2> HIDE DEF Stack, Ats
  <2>4. e \in Nat
    BY <1>2, <2>3
  <2>5. ASSUME NEW x \in DOMAIN Ats' PROVE Ats[x] = Ats'[x]
    <3>1. x \in DOMAIN Stack' /\ x \in DOMAIN Stack /\ Stack[x] = Stack'[x]
      BY <1>2, <1>3, <2>1, <2>3
    <3>2. QED
      BY <1>4, <2>1, <3>1, Zenon
  <2>6. Len(Ats) = Len(Ats') + 1 /\ Len(Ats') \in Nat /\ DOMAIN Ats' = 1 .. Len(Ats')
    BY <1>2, <1>3, <2>1, <2>3
  <2>7. Ats = Append(Ats', e)
    <3>1. e = Ats[Len(Ats') + 1]
      BY <1>2, <1>3, <2>6
    <3> HIDE DEF e
    <3>2. /\ Append(Ats', e) \in Seq(Nat) /\ Len(Append(Ats', e)) = Len(Ats') + 1
          /\ Append(Ats', e)[Len(Ats') + 1] = e
          /\ \A x \in DOMAIN Ats' : Append(Ats', e)[x] = Ats'[x]
      BY <1>3, <2>4, OneMore
    <3>3. \A x \in 1 .. Len(Ats) : Ats[x] = Append(Ats', e)[x]
      BY <2>5, <2>6, <3>1, <3>2
    <3>4. QED
      BY <1>2, <2>6, <3>2, <3>3, SeqEqual
  <2>8. QED
    BY <2>4, <2>7
<1>7. ASSUME AddLocal PROVE Ats' = Ats
  <2>1. CurFunc' = LocalFunc /\ Stack' = Stack
    BY <1>1, <1>7, CurFuncAfter, AddLocalDoes DEF Stack
  <2>2. \A b \in DOMAIN bs : CurFunc'.blocks[b].at = bs[b].at
    <3>1. CASE curBlock = None
      BY <1>1, <2>1, <3>1, FuncChanges
    <3>2. CASE curBlock # None
      <4> DEFINE l == AddedTo(bs[curBlock].locals, Var(InnerPos))
                 c == [bs[curBlock] EXCEPT !.locals = l]
      <4>1. CurFunc'.blocks = [bs EXCEPT ![curBlock] = c] /\ curBlock \in DOMAIN bs
        BY <1>1, <2>1, <3>2, FuncChanges
      <4>2. bs[curBlock] \in BlockRecs
        BY <1>1, <4>1, CurTyped, FuncParts, Zenon
      <4> HIDE DEF l
      <4>3. c.at = bs[curBlock].at
        BY <4>2 DEF BlockRecs
      <4> HIDE DEF c
      <4>4. QED
        BY <4>1, <4>3
    <3>3. QED
      BY <3>1, <3>2
  <2> HIDE DEF Stack, Ats
  <2>3. \A x \in DOMAIN Ats : Ats'[x] = Ats[x]
    BY <1>2, <1>4, <2>1, <2>2
  <2>4. Len(Ats') = Len(Ats) /\ \A x \in 1 .. Len(Ats) : Ats'[x] = Ats[x]
    BY <1>2, <1>3, <2>1, <2>3
  <2>5. QED
    BY <1>2, <1>3, <2>4, SeqEqual
<1>8. QED
  BY <1>5, <1>6, <1>7

LEMMA ScopeKept ==
  ASSUME syms' = syms
  PROVE  Scoped' <=> (mode' = "func" => Scope(Ats', d', InnerPos'))
BY DEF Scoped, Scope, OpenBlocks, Depth, IsBody

LEMMA ScopedStep ==
  DeclTyped /\ DeclTyped' /\ Place /\ Scoped /\ [BothNext]_allVars => Scoped'
<1> SUFFICES ASSUME DeclTyped, DeclTyped', Place, Scoped, [BothNext]_allVars PROVE Scoped'
  OBVIOUS
<1>1. CASE [Next]_vars /\ UNCHANGED declVars
  <2>1. /\ syms' = syms
        /\ UNCHANGED <<overlays, overlayIDs, curOverlay, d, m, curLine, fn, curBlock, blocks, mode>>
    BY <1>1, TypesKeepDecls
  <2>2. InnerPos' = InnerPos /\ Ats' = Ats
    BY <2>1 DEF InnerPos, Ats, Stack, CurFunc, Funcs
  <2>3. QED
    BY <2>1, <2>2, ScopeKept DEF Scoped
<1>2. CASE ParseDeclsStep
  <2>1. syms' = syms /\ d \in Nat /\ m \in Nat
    BY <1>2, DeclsAfterTypes DEF DeclTyped, Begun
  <2>2. ASSUME mode' = "func" PROVE BeginFunc \/ BlockStart \/ BlockEnd \/ AddLocal
    <3>1. ~ PanicStep
      BY <2>2, PanicDoes DEF DeclPanics
    <3>2. QED
      BY <1>2, <2>2, <3>1, StepCases DEF AddSymbol, Ignore, AddGlobal, AddOverlay, SetOverlay,
         FinishDecls, BeginLines, NextLine, EndLines, SkipFunc, EndFunc,
         AtDecl, AtFuncStart, AtInner, AtFunc, AtLocal, inner, Return
  <2>3. CASE BeginFunc
    <3>1. curBlock' = None /\ blocks' = <<>> /\ d' = d /\ m' = 0
      BY <2>3 DEF BeginFunc
    <3>2. Stack' = <<>> /\ InnerPos' = d + 1
      BY <2>1, <3>1 DEF Stack, InnerPos
    <3>3. Ats' = <<>>
      <4>1. DOMAIN Ats' = {}
        BY <3>2 DEF Ats
      <4>2. Ats' = [x \in DOMAIN Stack' |-> CurFunc'.blocks[Stack'[x]].at]
        BY DEF Ats
      <4>3. QED
        BY <3>2, <4>1, <4>2
    <3>4. QED
      BY <2>1, <3>1, <3>2, <3>3, ScopeEmpty, ScopeKept
  <2>4. CASE BlockStart \/ BlockEnd \/ AddLocal
    <3>1. /\ mode = "func" /\ d' = d /\ InnerPos \in 1 .. Len(syms) /\ InnerPos' = InnerPos + 1
          /\ d < InnerPos
      <4>1. mode = "func" /\ d' = d /\ InnerPos \in 1 .. Len(syms) /\ InnerPos' = InnerPos + 1
        BY <2>4, CurFuncAfter, Zenon
      <4>2. QED
        BY <2>1, <4>1 DEF InnerPos
    <3> DEFINE j == InnerPos
    <3>2. j \in Nat
      BY <3>1
    <3>3. Scope(Ats, d, j)
      BY <3>1 DEF Scoped
    <3>4. Ats \in Seq(Nat)
      BY <3>1, BlocksOfCur
    <3>5. CASE BlockStart
      <4>1. Ats' = Append(Ats, j) /\ IsBody(j, "BlockStart")
        BY <3>5, AtsAfter, BlockStartDoes, Zenon DEF IsBody
      <4> HIDE DEF j
      <4>2. Scope(Append(Ats, j), d, j + 1)
        BY <2>1, <3>1, <3>2, <3>3, <3>4, <4>1, ScopeStart DEF j
      <4>3. QED
        BY <2>1, <3>1, <4>1, <4>2, ScopeKept DEF j
    <3>6. CASE BlockEnd
      <4>1. PICK e \in Nat : Ats = Append(Ats', e)
        BY <3>6, AtsAfter, Zenon
      <4>2. IsBody(j, "BlockEnd")
        BY <3>6, BlockEndDoes, Zenon DEF IsBody
      <4>3. Ats' \in Seq(Nat)
        <5>1. AtsAreTyped'
          BY AtsTyped, PTL
        <5>2. mode' = "func"
          BY <2>4, CurFuncAfter, Zenon
        <5>3. QED
          BY <5>1, <5>2 DEF AtsAreTyped
      <4> DEFINE a == Ats'
      <4> HIDE DEF a
      <4>4. a \in Seq(Nat) /\ Scope(Append(a, e), d, j)
        BY <3>3, <4>1, <4>3 DEF a
      <4> HIDE DEF j
      <4>5. Scope(a, d, j + 1)
        BY <2>1, <3>1, <3>2, <4>2, <4>4, ScopeEnd DEF j
      <4>6. QED
        BY <2>1, <3>1, <4>5, ScopeKept DEF j, a
    <3>7. CASE AddLocal
      <4>1. Ats' = Ats
        BY <3>7, AtsAfter, Zenon
      <4>2. ~ IsBody(j, "BlockStart") /\ ~ IsBody(j, "BlockEnd")
        BY <3>7, AddLocalDoes DEF IsBody, IsDefn
      <4> HIDE DEF j
      <4>3. Scope(Ats, d, j + 1)
        BY <2>1, <3>1, <3>2, <3>3, <4>2, ScopeSame DEF j
      <4>4. QED
        BY <2>1, <3>1, <4>1, <4>3, ScopeKept DEF j
    <3>8. QED
      BY <2>4, <3>5, <3>6, <3>7
  <2>5. QED
    BY <2>1, <2>2, <2>3, <2>4, ScopeKept
<1>3. QED
  BY <1>1, <1>2 DEF BothNext, allVars

(* The parameters and locals of a function are in their scope.             *)
ParamInScope(v) == OpenBlocks(FuncStartBefore(v.at), v.at) = {}
LocalInScope(b, v) == LET open == OpenBlocks(FuncStartBefore(v.at), v.at)
                      IN open # {} /\ b.at = LastOf(open)
ScopedFunc(f) ==
  /\ \A x \in DOMAIN f.params : ParamInScope(f.params[x])
  /\ \A b \in DOMAIN f.blocks : \A x \in DOMAIN f.blocks[b].locals :
       LocalInScope(f.blocks[b], f.blocks[b].locals[x])

LocalsSoFar ==
  \A o \in DOMAIN overlays : \A x \in DOMAIN overlays[o].funcs : ScopedFunc(overlays[o].funcs[x])

(* What AddLocal adds, by where ParseDecls stands.                         *)
LEMMA ScopeHere ==
  ASSUME DeclTyped, Place, Scoped, mode = "func", InnerPos \in 1 .. Len(syms)
  PROVE  /\ FuncStartBefore(InnerPos) = d
         /\ curBlock = None => ParamInScope(Var(InnerPos))
         /\ curBlock # None => /\ curBlock \in DOMAIN CurFunc.blocks
                               /\ LocalInScope(CurFunc.blocks[curBlock], Var(InnerPos))
<1> DEFINE j == InnerPos
<1>1. /\ d \in 1 .. j - 1 /\ IsBody(d, "FuncStart")
      /\ \A h \in d + 1 .. j - 1 : ~ IsBody(h, "FuncStart")
  BY DEF Place, InnerPos, DeclTyped, Begun, IsBody
<1>2. FuncStartBefore(j) = d
  <2> DEFINE S == {s \in 1 .. j - 1 : IsBody(s, "FuncStart")}
  <2>1. d \in S /\ S \subseteq Int
    BY <1>1
  <2>2. \A y \in S : y <= d
    BY <1>1
  <2> HIDE DEF S
  <2>3. LastOf(S) = d
    BY <2>1, <2>2, LastIs
  <2>4. QED
    BY <2>3 DEF FuncStartBefore, S
<1>3. Var(j).at = j
  BY DEF Var
<1>4. /\ Scope(Ats, d, j) /\ DOMAIN Ats = 1 .. Len(Stack) /\ Len(Stack) \in Nat
      /\ Len(Ats) = Len(Stack) /\ Ats \in Seq(Nat) /\ DOMAIN Stack = 1 .. Len(Stack)
  BY BlocksOfCur DEF Scoped
<1>5. OpenBlocks(d, j) = {Ats[x] : x \in DOMAIN Ats}
  BY <1>4 DEF Scope
<1>6. ASSUME curBlock = None PROVE ParamInScope(Var(j))
  <2>1. Stack = <<>>
    BY <1>6 DEF Stack, DeclTyped, DeclTypeOK
  <2>2. DOMAIN Ats = {}
    BY <1>4, <2>1
  <2>3. OpenBlocks(d, j) = {}
    BY <1>5, <2>2
  <2>4. QED
    BY <1>2, <1>3, <2>3 DEF ParamInScope
<1>7. ASSUME curBlock # None
      PROVE  /\ curBlock \in DOMAIN CurFunc.blocks
             /\ LocalInScope(CurFunc.blocks[curBlock], Var(j))
  <2>1. curBlock \in DOMAIN CurFunc.blocks /\ blocks \in Seq(DOMAIN CurFunc.blocks)
    BY <1>7 DEF DeclTyped, DeclTypeOK
  <2> DEFINE k == Len(blocks) + 1
  <2>2. k = Len(Stack) /\ k \in DOMAIN Stack /\ Stack[k] = curBlock
    <3> DEFINE S == DOMAIN CurFunc.blocks
    <3>1. blocks \in Seq(S) /\ curBlock \in S
      BY <2>1
    <3> HIDE DEF S
    <3>2. Stack = Append(blocks, curBlock)
      BY <1>7 DEF Stack
    <3>3. QED
      BY <3>1, <3>2, OneMore
  <2>3. Ats[k] = CurFunc.blocks[curBlock].at
    BY <2>2 DEF Ats
  <2> HIDE DEF k, Ats, Stack
  <2>4. k \in DOMAIN Ats /\ \A x \in DOMAIN Ats : x \in Int /\ x <= k
    BY <1>4, <2>2
  <2>5. \A x \in DOMAIN Ats : Ats[x] \in Int /\ Ats[x] <= Ats[k]
    <3>1. \A x \in DOMAIN Ats : x < k => Ats[x] < Ats[k]
      BY <1>4, <2>4 DEF Scope
    <3>2. \A x \in DOMAIN Ats : Ats[x] \in Int
      BY <1>4
    <3>3. QED
      BY <2>4, <3>1, <3>2
  <2> DEFINE S == OpenBlocks(d, j)
  <2>6. Ats[k] \in S /\ S \subseteq Int /\ \A y \in S : y <= Ats[k]
    BY <1>5, <2>4, <2>5
  <2> HIDE DEF S
  <2>7. LastOf(S) = Ats[k]
    BY <2>6, LastIs
  <2>8. QED
    BY <1>2, <1>3, <2>1, <2>3, <2>6, <2>7 DEF LocalInScope, S
<1>8. QED
  BY <1>2, <1>6, <1>7

LEMMA ScopedFuncs ==
  ASSUME DeclTyped, Place, Scoped, LocalsSoFar, NEW fs, FuncsAfter(fs), NEW x \in DOMAIN fs
  PROVE  ScopedFunc(fs[x])
<1>1. Funcs \in Seq(FuncRecs) /\ \A y \in DOMAIN Funcs : ScopedFunc(Funcs[y])
  BY CurTyped DEF LocalsSoFar, Funcs, DeclTyped, DeclTypeOK
<1>2. ASSUME NEW f, f.params = <<>>, f.blocks = <<>> PROVE ScopedFunc(f)
  BY <1>2 DEF ScopedFunc
<1>3. ASSUME NEW f, NEW g, ScopedFunc(g), f.params = g.params, f.blocks = g.blocks
      PROVE  ScopedFunc(f)
  BY <1>3 DEF ScopedFunc
<1>4. ASSUME AddGlobal, Sym.func, fs = Append(Funcs, NewFunc) PROVE ScopedFunc(fs[x])
  <2>1. NewFunc \in FuncRecs /\ NewFunc.params = <<>> /\ NewFunc.blocks = <<>>
    BY <1>4, AddGlobalWrites DEF NewFunc, Func
  <2>2. x \in DOMAIN Funcs \/ fs[x] = NewFunc
    <3>1. DOMAIN fs = 1 .. Len(Funcs) + 1 /\ fs[Len(Funcs) + 1] = NewFunc
          /\ DOMAIN Funcs = 1 .. Len(Funcs) /\ Len(Funcs) \in Nat
      BY <1>1, <1>4, <2>1, OneMore
    <3>2. QED
      BY <3>1
  <2>3. x \in DOMAIN Funcs => fs[x] = Funcs[x]
    BY <1>1, <1>4, <2>1, OneMore
  <2>4. QED
    BY <1>1, <1>2, <2>1, <2>2, <2>3
<1>5. ASSUME BeginFunc, fs = BegunFuncs PROVE ScopedFunc(fs[x])
  <2>1. /\ d \in 1 .. Len(syms) /\ Sym.body = "FuncStart"
        /\ DOMAIN BegunFuncs = DOMAIN FuncsAfterFind
        /\ BegunFuncs[FindFunc] = BegunFunc
        /\ \A y \in DOMAIN FuncsAfterFind : y # FindFunc => BegunFuncs[y] = FuncsAfterFind[y]
    BY <1>5, BeginFuncWrites, Zenon
  <2>2. /\ DOMAIN FuncsAfterFind = 1 .. Len(FuncsAfterFind) /\ DOMAIN Funcs = 1 .. Len(Funcs)
        /\ FindFunc \in DOMAIN FuncsAfterFind /\ FuncsAfterFind[FindFunc] \in FuncRecs
        /\ \A y \in DOMAIN Funcs : FuncsAfterFind[y] = Funcs[y]
        /\ \/ FuncsAfterFind = Funcs
           \/ /\ Len(FuncsAfterFind) = Len(Funcs) + 1 /\ FindFunc = Len(Funcs) + 1
              /\ FuncsAfterFind[FindFunc] = EmptyFunc
    <3>1. DOMAIN Funcs = 1 .. Len(Funcs)
      BY <1>1
    <3>2. QED
      BY <2>1, <3>1, FindFuncProperty, Zenon
  <2>3. EmptyFunc.params = <<>> /\ EmptyFunc.blocks = <<>>
    BY DEF EmptyFunc, Func
  <2>4. \A y \in DOMAIN FuncsAfterFind : ScopedFunc(FuncsAfterFind[y])
    <3>1. CASE FuncsAfterFind = Funcs
      BY <1>1, <3>1
    <3>2. CASE /\ Len(FuncsAfterFind) = Len(Funcs) + 1 /\ FindFunc = Len(Funcs) + 1
               /\ FuncsAfterFind[FindFunc] = EmptyFunc
      <4>1. \A y \in DOMAIN FuncsAfterFind : y \in DOMAIN Funcs \/ y = FindFunc
        BY <1>1, <2>2, <3>2
      <4>2. ScopedFunc(EmptyFunc)
        BY <1>2, <2>3
      <4>3. QED
        BY <1>1, <2>2, <3>2, <4>1, <4>2, Zenon
    <3>3. QED
      BY <2>2, <3>1, <3>2, Zenon
  <2>5. BegunFunc.params = FuncsAfterFind[FindFunc].params
        /\ BegunFunc.blocks = FuncsAfterFind[FindFunc].blocks
    <3> DEFINE g == FuncsAfterFind[FindFunc]
               p == Sym.path
               l == Sym.line
    <3>1. g \in FuncRecs /\ BegunFunc = [[g EXCEPT !.path = p] EXCEPT !.lineStart = l]
      BY <2>2, Zenon DEF BegunFunc
    <3> HIDE DEF g, p, l
    <3>2. BegunFunc.params = g.params /\ BegunFunc.blocks = g.blocks
      BY <3>1 DEF FuncRecs
    <3>3. QED
      BY <3>2 DEF g
  <2>6. CASE x = FindFunc
    <3>1. ScopedFunc(BegunFunc)
      BY <1>3, <2>2, <2>4, <2>5, Zenon
    <3>2. QED
      BY <1>5, <2>1, <2>6, <3>1, Zenon
  <2>7. CASE x # FindFunc
    BY <1>5, <2>1, <2>4, <2>7
  <2>8. QED
    BY <2>6, <2>7
<1>6. ASSUME mode = "func", NEW f, ScopedFunc(f), fs = [Funcs EXCEPT ![fn] = f]
      PROVE  ScopedFunc(fs[x])
  BY <1>1, <1>6
<1>7. ASSUME mode = "func" PROVE ScopedFunc(CurFunc)
  BY <1>1, <1>7, FuncChanges
<1>8. ASSUME EndFunc, fs = [Funcs EXCEPT ![fn] = EndedFunc] PROVE ScopedFunc(fs[x])
  <2>1. mode = "func"
    BY <1>8, EndFuncDoes, Zenon
  <2>2. ScopedFunc(EndedFunc)
    BY <1>3, <1>7, <2>1, FuncChanges
  <2>3. QED
    BY <1>6, <1>8, <2>1, <2>2
<1>9. ASSUME BlockStart, fs = [Funcs EXCEPT ![fn] = BlockFunc] PROVE ScopedFunc(fs[x])
  <2>1. mode = "func" /\ InnerPos \in Nat
    BY <1>9, BlockStartDoes
  <2> DEFINE b == Block(InnerPos)
  <2>2. BlockFunc.params = CurFunc.params /\ BlockFunc.blocks = Append(CurFunc.blocks, b)
    BY <2>1, FuncChanges, Zenon
  <2>3. b.locals = <<>> /\ b \in BlockRecs
    BY <2>1 DEF Block, BlockRecs
  <2>4. CurFunc.blocks \in Seq(BlockRecs)
    BY <2>1, BlocksOfCur
  <2> HIDE DEF b
  <2>5. \A y \in DOMAIN BlockFunc.blocks :
          \/ BlockFunc.blocks[y] = b
          \/ y \in DOMAIN CurFunc.blocks /\ BlockFunc.blocks[y] = CurFunc.blocks[y]
    <3> DEFINE cs == CurFunc.blocks
    <3>1. cs \in Seq(BlockRecs) /\ BlockFunc.blocks = Append(cs, b)
      BY <2>2, <2>4
    <3> HIDE DEF cs
    <3>2. /\ DOMAIN cs = 1 .. Len(cs) /\ DOMAIN Append(cs, b) = 1 .. Len(cs) + 1 /\ Len(cs) \in Nat
          /\ Append(cs, b)[Len(cs) + 1] = b /\ \A y \in DOMAIN cs : Append(cs, b)[y] = cs[y]
      BY <2>3, <3>1, OneMore
    <3>3. \A y \in DOMAIN Append(cs, b) : y \in DOMAIN cs \/ y = Len(cs) + 1
      BY <3>2
    <3>4. QED
      BY <3>1, <3>2, <3>3, Zenon DEF cs
  <2>6. ScopedFunc(BlockFunc)
    <3>1. ScopedFunc(CurFunc)
      BY <1>7, <2>1
    <3>2. DOMAIN b.locals = {}
      BY <2>3
    <3>3. QED
      BY <2>2, <2>5, <3>1, <3>2, Zenon DEF ScopedFunc
  <2>7. QED
    BY <1>6, <1>9, <2>1, <2>6
<1>10. ASSUME AddLocal, fs = [Funcs EXCEPT ![fn] = LocalFunc] PROVE ScopedFunc(fs[x])
  <2> DEFINE v == Var(InnerPos)
  <2>1. mode = "func" /\ InnerPos \in 1 .. Len(syms) /\ IsDefn(syms[InnerPos])
    BY <1>10, AddLocalDoes, Zenon
  <2>2. v \in Vars /\ CurFunc \in FuncRecs /\ ScopedFunc(CurFunc)
    BY <1>7, <2>1, VarTyped, CurTyped
  <2>3. /\ curBlock = None => ParamInScope(v)
        /\ curBlock # None => curBlock \in DOMAIN CurFunc.blocks
                              /\ LocalInScope(CurFunc.blocks[curBlock], v)
    BY <2>1, ScopeHere
  <2> HIDE DEF v
  <2>4. CASE curBlock = None
    <3>1. LocalFunc.params = AddedTo(CurFunc.params, v) /\ LocalFunc.blocks = CurFunc.blocks
      BY <2>1, <2>4, FuncChanges, Zenon DEF v
    <3>2. CurFunc.params \in Seq(Vars)
      BY <2>2, FuncParts
    <3>3. \A y \in DOMAIN AddedTo(CurFunc.params, v) :
            \/ y \in DOMAIN CurFunc.params /\ AddedTo(CurFunc.params, v)[y] = CurFunc.params[y]
            \/ AddedTo(CurFunc.params, v)[y] = v
      BY <2>2, <3>2, AddedToProperty, Zenon
    <3>4. ScopedFunc(LocalFunc)
      BY <2>2, <2>3, <2>4, <3>1, <3>3, Zenon DEF ScopedFunc
    <3>5. QED
      BY <1>6, <1>10, <2>1, <3>4
  <2>5. CASE curBlock # None
    <3> DEFINE c == CurFunc.blocks[curBlock]
               l == AddedTo(c.locals, v)
               e == [c EXCEPT !.locals = l]
    <3>1. /\ LocalFunc.params = CurFunc.params /\ curBlock \in DOMAIN CurFunc.blocks
          /\ LocalFunc.blocks = [CurFunc.blocks EXCEPT ![curBlock] = e]
      BY <2>1, <2>5, FuncChanges, Zenon DEF v
    <3>2. c \in BlockRecs /\ c.locals \in Seq(Vars)
      BY <2>2, <3>1, FuncParts, Zenon
    <3>3. \A y \in DOMAIN l : (y \in DOMAIN c.locals /\ l[y] = c.locals[y]) \/ l[y] = v
      BY <2>2, <3>2, AddedToProperty, Zenon
    <3>4. e.at = c.at /\ e.locals = l
      <4> HIDE DEF c, l
      <4>1. QED
        BY <3>2 DEF BlockRecs
    <3>5. \A y \in DOMAIN c.locals : LocalInScope(c, c.locals[y])
      BY <2>2, <3>1, Zenon DEF ScopedFunc
    <3>6. \A y \in DOMAIN e.locals : LocalInScope(e, e.locals[y])
      <4>1. ASSUME NEW w, LocalInScope(c, w) PROVE LocalInScope(e, w)
        BY <3>4, <4>1 DEF LocalInScope
      <4> HIDE DEF e, l, c
      <4>2. QED
        BY <2>3, <2>5, <3>3, <3>4, <3>5, <4>1, Zenon DEF c
    <3>7. /\ DOMAIN LocalFunc.blocks = DOMAIN CurFunc.blocks /\ LocalFunc.blocks[curBlock] = e
          /\ \A y \in DOMAIN CurFunc.blocks :
               y # curBlock => LocalFunc.blocks[y] = CurFunc.blocks[y]
      <4> HIDE DEF e
      <4>1. QED
        BY <3>1
    <3> HIDE DEF e, l, c
    <3>8. ScopedFunc(LocalFunc)
      BY <2>2, <3>1, <3>6, <3>7, Zenon DEF ScopedFunc
    <3>9. QED
      BY <1>6, <1>10, <2>1, <3>8
  <2>6. QED
    BY <2>4, <2>5
<1>11. QED
  BY <1>1, <1>4, <1>5, <1>8, <1>9, <1>10, Zenon DEF FuncsAfter

(* The functions of every overlay after a step.                            *)
LEMMA FuncsBySteps ==
  ASSUME DeclTyped, Place, ParseDeclsStep, NEW o \in DOMAIN overlays', NEW x \in DOMAIN overlays'[o].funcs
  PROVE  \/ /\ o \in DOMAIN overlays /\ x \in DOMAIN overlays[o].funcs
            /\ overlays'[o].funcs[x] = overlays[o].funcs[x]
         \/ \E fs : FuncsAfter(fs) /\ x \in DOMAIN fs /\ overlays'[o].funcs[x] = fs[x]
<1>1. /\ \A p \in DOMAIN overlays' : p \in DOMAIN overlays \/ DOMAIN overlays'[p].funcs = {}
      /\ \A p \in DOMAIN overlays : p # curOverlay => overlays'[p].funcs = overlays[p].funcs
      /\ FuncsAfter(overlays'[curOverlay].funcs)
  BY FuncsAfterStep
<1>2. CASE o = curOverlay
  BY <1>1, <1>2, Zenon
<1>3. CASE o # curOverlay
  BY <1>1, <1>3
<1>4. QED
  BY <1>2, <1>3

LEMMA LocalsSoFarStep ==
  DeclTyped /\ Place /\ Scoped /\ LocalsSoFar /\ [BothNext]_allVars => LocalsSoFar'
<1> SUFFICES ASSUME DeclTyped, Place, Scoped, LocalsSoFar, [BothNext]_allVars PROVE LocalsSoFar'
  OBVIOUS
<1>1. syms' = syms => /\ \A v : ParamInScope(v)' <=> ParamInScope(v)
                      /\ \A b, v : LocalInScope(b, v)' <=> LocalInScope(b, v)
  BY DEF ParamInScope, LocalInScope, OpenBlocks, FuncStartBefore, Depth, IsBody
<1>2. ASSUME syms' = syms
      PROVE  LocalsSoFar' <=> \A o \in DOMAIN overlays' : \A x \in DOMAIN overlays'[o].funcs :
                                ScopedFunc(overlays'[o].funcs[x])
  BY <1>1, <1>2, Zenon DEF LocalsSoFar, ScopedFunc
<1>3. CASE [Next]_vars /\ UNCHANGED declVars
  <2>1. syms' = syms /\ overlays' = overlays
    BY <1>3, TypesKeepDecls
  <2>2. QED
    BY <1>2, <2>1 DEF LocalsSoFar
<1>4. CASE ParseDeclsStep
  <2>1. syms' = syms
    BY <1>4, DeclsAfterTypes DEF DeclTyped
  <2>2. ASSUME NEW o \in DOMAIN overlays', NEW x \in DOMAIN overlays'[o].funcs
        PROVE  ScopedFunc(overlays'[o].funcs[x])
    BY <1>4, FuncsBySteps, ScopedFuncs, Zenon DEF LocalsSoFar
  <2>3. QED
    BY <1>2, <2>1, <2>2
<1>5. QED
  BY <1>3, <1>4 DEF BothNext, allVars

(* parseFunc's curBlock and blockStack are the blocks that a reader of the *)
(* stream sees open: every local and parameter stands where it is declared.*)
THEOREM LocalsAreScoped == BothSpec => []LocalsInScope
<1>1. BothInit => Standing /\ Scoped /\ LocalsSoFar
  <2> SUFFICES ASSUME BothInit PROVE Standing /\ Scoped /\ LocalsSoFar
    OBVIOUS
  <2>1. overlays = <<EmptyOverlay(0)>> /\ mode = "top"
    BY DEF BothInit, DeclInit
  <2>2. DOMAIN overlays = {1} /\ overlays[1] = EmptyOverlay(0)
    BY <2>1
  <2>3. DOMAIN EmptyOverlay(0).funcs = {}
    BY DEF EmptyOverlay
  <2>4. QED
    BY <2>1, <2>2, <2>3, StandingInit DEF Scoped, LocalsSoFar
<1>2. Standing /\ Scoped /\ LocalsSoFar /\ [BothNext]_allVars
      => Standing' /\ Scoped' /\ LocalsSoFar'
  <2>1. Standing /\ [BothNext]_allVars => DeclTyped'
    BY DeclTypedStep DEF Standing
  <2>2. QED
    BY <2>1, StandingStep, ScopedStep, LocalsSoFarStep DEF Standing
<1>3. Standing /\ Scoped /\ LocalsSoFar => LocalsInScope
  BY Zenon DEF LocalsSoFar, LocalsInScope, ScopedFunc, ParamInScope, LocalInScope
<1>4. QED
  BY <1>1, <1>2, <1>3, PTL DEF BothSpec

-----------------------------------------------------------------------------
(* WellFormedDeclsAccepted.                                                *)

(* A line group has been read to its end when its loop has returned.       *)
GroupsEnd == mode = "top" /\ d > 1 /\ d <= Len(syms) =>
               syms[d - 1].body \notin SLDBodies \/ syms[d].body \notin SLDBodies

LEMMA GroupsEndStep == DeclTyped /\ Place /\ GroupsEnd /\ [BothNext]_allVars => GroupsEnd'
<1> SUFFICES ASSUME DeclTyped, Place, GroupsEnd, [BothNext]_allVars PROVE GroupsEnd'
  OBVIOUS
<1>1. CASE [Next]_vars /\ UNCHANGED declVars
  BY <1>1, TypesKeepDecls DEF GroupsEnd
<1>2. CASE ParseDeclsStep
  <2>1. syms' = syms /\ d \in Nat \ {0} /\ m \in Nat /\ Typed
    BY <1>2, DeclsAfterTypes DEF DeclTyped, Begun
  <2>2. SUFFICES ASSUME mode' = "top", d' > 1, d' <= Len(syms)
                 PROVE  syms[d' - 1].body \notin SLDBodies \/ syms[d'].body \notin SLDBodies
    BY <2>1 DEF GroupsEnd
  <2>3. ~ PanicStep /\ ~ BeginLines /\ ~ NextLine /\ ~ BeginFunc /\ ~ BlockStart /\ ~ BlockEnd
        /\ ~ AddLocal /\ ~ FinishDecls
    <3>1. ~ PanicStep
      BY <2>2, PanicDoes DEF DeclPanics
    <3>2. QED
      BY <2>2, <3>1, BlockStartDoes, BlockEndDoes, AddLocalDoes
         DEF BeginLines, NextLine, BeginFunc, FinishDecls, AtInner
  <2>4. CASE AddSymbol \/ Ignore \/ AddGlobal \/ AddOverlay \/ SetOverlay
    <3>1. d' = d + 1 /\ Sym.body \in NameBodies \cup {"EndSLD", "Def", "Def2", "Overlay", "SetOverlay"}
      BY <2>4 DEF AddSymbol, Ignore, AddGlobal, AddOverlay, SetOverlay, Advance, IsGlobal, IsDefn
    <3>2. syms[d' - 1] = Sym
      BY <2>1, <3>1 DEF Sym
    <3>3. QED
      BY <3>1, <3>2 DEF NameBodies, SLDBodies, IncBodies
  <2>5. CASE EndLines
    <3>1. InnerPos \in Nat /\ syms[InnerPos].body \notin SLDBodies
          /\ (d' = InnerPos \/ d' = InnerPos + 1)
      BY <2>1, <2>5 DEF EndLines, Return, InnerPos
    <3>2. CASE d' = InnerPos
      BY <3>1, <3>2
    <3>3. CASE d' = InnerPos + 1
      <4>1. d' - 1 = InnerPos
        BY <3>1, <3>3
      <4>2. QED
        BY <3>1, <4>1
    <3>4. QED
      BY <3>1, <3>2, <3>3
  <2>6. CASE SkipFunc
    <3>1. d' = FirstOf(FuncEnds) + 1 /\ FuncEnds # {}
      BY <2>6 DEF SkipFunc, IsDuplicate
    <3>2. FirstOf(FuncEnds) \in Int /\ syms[FirstOf(FuncEnds)].body = "FuncEnd"
      BY <2>1, <3>1, SkipProperty DEF IsBody
    <3>3. d' - 1 = FirstOf(FuncEnds)
      BY <3>1, <3>2
    <3>4. QED
      BY <3>2, <3>3 DEF SLDBodies, IncBodies
  <2>7. CASE EndFunc
    <3>1. d' = InnerPos + 1 /\ InnerPos \in 1 .. Len(syms) /\ syms[InnerPos].body = "FuncEnd"
      BY <2>7, EndFuncDoes, Zenon
    <3>2. d' - 1 = InnerPos
      BY <3>1
    <3>3. QED
      BY <3>1, <3>2 DEF SLDBodies, IncBodies
  <2>8. QED
    BY <1>2, <2>3, <2>4, <2>5, <2>6, <2>7, StepCases, Zenon
<1>3. QED
  BY <1>1, <1>2 DEF BothNext, allVars

(* Nothing but what a function may contain stands in a function.           *)
LEMMA ClosedProperty ==
  ASSUME Typed, \A j \in Pos : IsBody(j, "FuncStart") => FuncClosed(j)
  PROVE  \A j \in 1 .. Len(syms) : InFunc(j) =>
           syms[j].body \in {"FuncEnd", "BlockStart", "BlockEnd", "Def", "Def2"}
<1> SUFFICES ASSUME NEW j \in 1 .. Len(syms), InFunc(j)
             PROVE  syms[j].body \in {"FuncEnd", "BlockStart", "BlockEnd", "Def", "Def2"}
  OBVIOUS
<1>1. Len(syms) \in Nat /\ Pos = 1 .. Len(syms)
  BY SymbolProperty DEF Typed, Pos
<1>2. PICK s \in 1 .. j - 1 :
        IsBody(s, "FuncStart") /\ \A h \in s + 1 .. j - 1 : ~ IsBody(h, "FuncEnd")
  BY DEF InFunc
<1>3. FuncClosed(s)
  BY <1>1, <1>2
<1>4. PICK e \in Pos : /\ e > s /\ IsBody(e, "FuncEnd")
        /\ \A x \in s + 1 .. e - 1 :
             \/ IsDefn(syms[x]) /\ TypeParses(syms[x]) /\ syms[x].class \in LocalClasses
             \/ IsBody(x, "BlockStart")
             \/ IsBody(x, "BlockEnd") /\ OpenBlocks(s, x) # {}
  BY <1>3 DEF FuncClosed
<1>5. e \notin s + 1 .. j - 1
  BY <1>2, <1>4
<1>6. e = j \/ j \in s + 1 .. e - 1
  BY <1>1, <1>2, <1>4, <1>5
<1>7. QED
  BY <1>4, <1>6 DEF IsBody, IsDefn

(* What stands at the next symbol of a function.                           *)
LEMMA ClosedHere ==
  ASSUME DeclTyped, Place, mode = "func", \A j \in Pos : IsBody(j, "FuncStart") => FuncClosed(j)
  PROVE  /\ InnerPos \in 1 .. Len(syms)
         /\ \/ IsBody(InnerPos, "FuncEnd")
            \/ /\ IsDefn(syms[InnerPos]) /\ TypeParses(syms[InnerPos])
               /\ syms[InnerPos].class \in LocalClasses
            \/ IsBody(InnerPos, "BlockStart")
            \/ IsBody(InnerPos, "BlockEnd") /\ OpenBlocks(d, InnerPos) # {}
<1>1. /\ Len(syms) \in Nat /\ Pos = 1 .. Len(syms) /\ d \in 1 .. Len(syms)
      /\ InnerPos \in d + 1 .. Len(syms) + 1
  BY DeclSymbolProperty DEF DeclTyped, Begun, Place, InnerPos, Pos
<1>2. FuncClosed(d)
  BY <1>1 DEF Place
<1>3. PICK e \in Pos : /\ e > d /\ IsBody(e, "FuncEnd")
        /\ \A x \in d + 1 .. e - 1 :
             \/ IsDefn(syms[x]) /\ TypeParses(syms[x]) /\ syms[x].class \in LocalClasses
             \/ IsBody(x, "BlockStart")
             \/ IsBody(x, "BlockEnd") /\ OpenBlocks(d, x) # {}
  BY <1>2 DEF FuncClosed
<1>4. e \notin d + 1 .. InnerPos - 1
  <2>1. \A j \in d + 1 .. InnerPos - 1 : ~ IsBody(j, "FuncEnd")
    BY DEF Place, IsBody
  <2>2. QED
    BY <1>3, <2>1
<1>5. InnerPos \in 1 .. Len(syms) /\ (e = InnerPos \/ InnerPos \in d + 1 .. e - 1)
  BY <1>1, <1>3, <1>4
<1>6. QED
  BY <1>3, <1>5

Accepts == WellFormedDecls => mode \notin DeclPanics

LEMMA NoPanic ==
  ASSUME DeclTyped, Place, Numbered, Scoped, GroupsEnd, WellFormedDecls
  PROVE  ~ PanicStep
<1>1. /\ Typed /\ Len(syms) \in Nat /\ Pos = 1 .. Len(syms) /\ d \in Nat \ {0} /\ m \in Nat
      /\ Sym = syms[d] /\ InnerPos = d + 1 + m
  BY DeclSymbolProperty DEF DeclTyped, Begun, Pos, Sym, InnerPos
<1>2. /\ \A j \in Pos : InFunc(j) \/ OutsideOK(j)
      /\ \A j \in Pos : IsBody(j, "FuncStart") => FuncClosed(j)
      /\ syms # <<>> => syms[Len(syms)].body \notin SLDBodies
  BY DEF WellFormedDecls
<1>3. AtDecl => d \in 1 .. Len(syms) /\ OutsideOK(d) /\ ~ InFunc(d) /\ mode = "top"
  BY <1>1, <1>2 DEF AtDecl, Place
<1>4. ~ BadGlobal
  <2> SUFFICES ASSUME AtDecl, IsGlobal(Sym), ~ TypeParses(Sym) PROVE FALSE
    BY DEF BadGlobal
  <2>1. OutsideOK(d)
    BY <1>3
  <2>2. QED
    BY <1>1, <2>1 DEF OutsideOK, IsGlobal, IsDefn, IsBody, GlobalClasses, IgnoredClasses, NameBodies,
       SLDBodies, IncBodies
<1>5. ~ BadTopClass
  <2> SUFFICES ASSUME AtDecl, IsDefn(Sym), Sym.class \notin GlobalClasses \cup IgnoredClasses(Sym.body)
               PROVE  FALSE
    BY DEF BadTopClass
  <2>1. OutsideOK(d)
    BY <1>3
  <2>2. QED
    BY <1>1, <2>1 DEF OutsideOK, IsGlobal, IsDefn, IsBody, NameBodies, SLDBodies, IncBodies
<1>6. ~ UnknownOverlay
  <2> SUFFICES ASSUME AtDecl, Sym.body = "SetOverlay", Sym.value \notin DOMAIN overlayIDs PROVE FALSE
    BY DEF UnknownOverlay
  <2>1. OutsideOK(d) /\ NextPos = d /\ mode = "top" /\ d \in 1 .. Len(syms)
    BY <1>3 DEF NextPos
  <2>2. PICK h \in 1 .. d - 1 : IsBody(h, "Overlay") /\ syms[h].id = Sym.value
    BY <1>1, <2>1 DEF OutsideOK, IsGlobal, IsDefn, IsBody, NameBodies, SLDBodies, IncBodies
  <2>3. h \in 1 .. Len(syms) /\ h < d
    BY <1>1, <2>1
  <2>4. ~ InFunc(h)
    BY <1>1, <1>2, <2>2, <2>3, ClosedProperty DEF IsBody
  <2>5. h \in OverlaysBefore(d)
    BY <1>1, <2>2, <2>3, <2>4, OutsideProperty DEF OverlaysBefore, IsBody
  <2>6. DOMAIN overlayIDs = {syms[x].id : x \in OverlaysBefore(d)}
    BY <2>1 DEF Numbered
  <2>7. QED
    BY <2>2, <2>5, <2>6
<1>7. ~ BadTopBody
  <2> SUFFICES ASSUME AtDecl, Sym.body \notin TopBodies PROVE FALSE
    BY DEF BadTopBody
  <2>1. OutsideOK(d) /\ mode = "top" /\ d <= Len(syms)
    BY <1>3
  <2>2. d > 1 /\ syms[d].body \in SLDBodies /\ syms[d - 1].body \in SLDBodies
    BY <1>1, <2>1 DEF OutsideOK, TopBodies, IsGlobal, IsDefn, IsBody
  <2>3. QED
    BY <2>1, <2>2 DEF GroupsEnd
<1>8. mode = "func" =>
        /\ InnerPos \in 1 .. Len(syms)
        /\ \/ IsBody(InnerPos, "FuncEnd")
           \/ /\ IsDefn(syms[InnerPos]) /\ TypeParses(syms[InnerPos])
              /\ syms[InnerPos].class \in LocalClasses
           \/ IsBody(InnerPos, "BlockStart")
           \/ IsBody(InnerPos, "BlockEnd") /\ OpenBlocks(d, InnerPos) # {}
  BY <1>2, ClosedHere
<1>9. ~ SliceEnd
  <2> SUFFICES ASSUME mode \in {"lines", "func"}, InnerPos > Len(syms) PROVE FALSE
    BY DEF SliceEnd
  <2>1. mode = "lines"
    BY <1>1, <1>8
  <2>2. /\ d <= Len(syms) /\ InnerPos = Len(syms) + 1 /\ syms[d].body \in SLDBodies
        /\ \A j \in d + 1 .. InnerPos - 1 : syms[j].body \in SLDBodies
    BY <1>1, <2>1 DEF Place, IsBody, SLDBodies
  <2>3. syms[Len(syms)].body \in SLDBodies /\ syms # <<>>
    BY <1>1, <2>2
  <2>4. QED
    BY <1>2, <2>3
<1>10. ~ NilBlock
  <2> SUFFICES ASSUME AtFunc("BlockEnd"), curBlock = None PROVE FALSE
    BY DEF NilBlock
  <2>1. mode = "func" /\ syms[InnerPos].body = "BlockEnd"
    BY DEF AtFunc, AtInner
  <2>2. OpenBlocks(d, InnerPos) # {}
    BY <1>8, <2>1 DEF IsBody, IsDefn
  <2>3. Stack = <<>>
    BY <2>1 DEF DeclTyped, DeclTypeOK, Stack
  <2>4. OpenBlocks(d, InnerPos) = {Ats[x] : x \in DOMAIN Ats} /\ DOMAIN Ats = DOMAIN Stack
    BY <2>1 DEF Scoped, Scope, Ats
  <2>5. QED
    BY <2>2, <2>3, <2>4
<1>11. ~ BadLocalType /\ ~ BadLocalClass
  BY <1>8 DEF BadLocalType, BadLocalClass, AtLocal, AtInner, IsBody, IsDefn
<1>12. ~ BadFuncBody
  BY <1>8 DEF BadFuncBody, AtInner, IsBody, IsDefn, FuncBodies
<1>13. QED
  BY <1>4, <1>5, <1>6, <1>7, <1>9, <1>10, <1>11, <1>12 DEF PanicStep

LEMMA AcceptsStep ==
  Standing /\ Scoped /\ GroupsEnd /\ Accepts /\ [BothNext]_allVars => Accepts'
<1> SUFFICES ASSUME Standing, Scoped, GroupsEnd, Accepts, [BothNext]_allVars PROVE Accepts'
  OBVIOUS
<1>1. syms' = syms => (WellFormedDecls' <=> WellFormedDecls)
  BY DEF WellFormedDecls, OutsideOK, FuncClosed, OpenBlocks, Depth, InFunc, IsBody, Pos
<1>2. CASE [Next]_vars /\ UNCHANGED declVars
  BY <1>1, <1>2, TypesKeepDecls DEF Accepts
<1>3. CASE ParseDeclsStep
  <2>1. syms' = syms
    BY <1>3, DeclsAfterTypes DEF Standing, DeclTyped
  <2>2. SUFFICES ASSUME WellFormedDecls PROVE mode' \notin DeclPanics
    BY <1>1, <2>1 DEF Accepts
  <2>3. ~ PanicStep
    BY <2>2, NoPanic DEF Standing
  <2>4. QED
    BY <1>3, <2>2, <2>3, StepCases, CurFuncAfter DEF AddSymbol, Ignore, AddGlobal, AddOverlay,
       SetOverlay, FinishDecls, BeginLines, NextLine, EndLines, SkipFunc, BeginFunc, EndFunc,
       AtDecl, AtFuncStart, AtInner, Return, DeclPanics, Standing
<1>4. QED
  BY <1>2, <1>3 DEF BothNext, allVars

(* A stream of the form that parse_decls.go is written for is translated   *)
(* to its end: neither loop runs off the slice, no block ends that is not  *)
(* open, and every overlay that is chosen is known.                        *)
THEOREM WellFormedStreamsTranslated == BothSpec => []WellFormedDeclsAccepted
<1>1. BothInit => Standing /\ Scoped /\ GroupsEnd /\ Accepts
  <2> SUFFICES ASSUME BothInit PROVE Standing /\ Scoped /\ GroupsEnd /\ Accepts
    OBVIOUS
  <2>1. mode = "top" /\ d = 1
    BY DEF BothInit, DeclInit
  <2>2. QED
    BY <2>1, StandingInit DEF Scoped, GroupsEnd, Accepts, DeclPanics
<1>2. Standing /\ Scoped /\ GroupsEnd /\ Accepts /\ [BothNext]_allVars
      => Standing' /\ Scoped' /\ GroupsEnd' /\ Accepts'
  <2>1. Standing /\ [BothNext]_allVars => DeclTyped'
    BY DeclTypedStep DEF Standing
  <2>2. QED
    BY <2>1, StandingStep, ScopedStep, GroupsEndStep, AcceptsStep DEF Standing
<1>3. Accepts => WellFormedDeclsAccepted
  BY DEF Accepts, WellFormedDeclsAccepted
<1>4. QED
  BY <1>1, <1>2, <1>3, PTL DEF BothSpec

-----------------------------------------------------------------------------
(* OneBodyPerFunction.                                                     *)

(* No function starts in line 0, which also stands for "no body yet".      *)
Lined == \A j \in Pos : IsBody(j, "FuncStart") => syms[j].line # 0

OneBody(fs) ==
  \A x, y \in DOMAIN fs :
    x < y /\ fs[x].key = fs[y].key /\ fs[x].addr = fs[y].addr => ~ HasBody(fs[y]) /\ ~ fs[y].void

Bare(f) == ~ HasBody(f) => f.params = <<>> /\ f.blocks = <<>>

BodyKeys(fs) == {<<fs[x].key, fs[x].addr>> : x \in {y \in DOMAIN fs : HasBody(fs[y])}}

(* The FuncStarts that ParseDecls has read, and those of an overlay.       *)
Starts == {h \in Outside({"FuncStart"}) : h < NextPos}
StartKeys(o, hs) ==
  {<<ValidName[syms[j].name], syms[j].value>> : j \in {h \in hs : ActiveAt(h) = o}}

(* findFunc makes no second function with a name and an address, and what  *)
(* a function without a body has was given by none.                        *)
FuncsSoFar ==
  Lined /\ Reads =>
    /\ \A o \in DOMAIN overlays :
         /\ OneBody(overlays[o].funcs) /\ BodyKeys(overlays[o].funcs) = StartKeys(o, Starts)
         /\ \A x \in DOMAIN overlays[o].funcs : Bare(overlays[o].funcs[x])
    /\ \A j \in Starts : ActiveAt(j) \in DOMAIN overlays
    /\ mode = "func" => HasBody(CurFunc)

(* Lists of functions that differ in nothing that these look at.           *)
LEMMA SameKeys ==
  ASSUME NEW fs, NEW gs, DOMAIN fs = DOMAIN gs, \A x \in DOMAIN fs : Same(fs[x], gs[x])
  PROVE  (OneBody(fs) <=> OneBody(gs)) /\ BodyKeys(fs) = BodyKeys(gs)
<1>1. \A x \in DOMAIN fs : /\ fs[x].key = gs[x].key /\ fs[x].addr = gs[x].addr
                           /\ fs[x].void = gs[x].void /\ (HasBody(fs[x]) <=> HasBody(gs[x]))
  BY DEF Same, HasBody
<1>2. OneBody(fs) <=> OneBody(gs)
  BY <1>1 DEF OneBody
<1>3. {y \in DOMAIN fs : HasBody(fs[y])} = {y \in DOMAIN gs : HasBody(gs[y])}
  BY <1>1
<1>4. BodyKeys(fs) = BodyKeys(gs)
  BY <1>1, <1>3 DEF BodyKeys
<1>5. QED
  BY <1>2, <1>4

(* A declaration without a body after the others.                          *)
LEMMA OneMoreDeclared ==
  ASSUME NEW fs \in Seq(FuncRecs), NEW g \in FuncRecs, ~ HasBody(g), ~ g.void, OneBody(fs)
  PROVE  OneBody(Append(fs, g)) /\ BodyKeys(Append(fs, g)) = BodyKeys(fs)
<1> DEFINE last == Len(fs) + 1
           gs == Append(fs, g)
<1>1. /\ DOMAIN gs = DOMAIN fs \cup {last} /\ last \notin DOMAIN fs /\ gs[last] = g
      /\ \A x \in DOMAIN fs : gs[x] = fs[x] /\ x \in Nat /\ x < last
      /\ last \in Nat
  <2> HIDE DEF FuncRecs
  <2>1. QED
    BY OneMore
<1> HIDE DEF gs, last
<1>2. OneBody(gs)
  <2> SUFFICES ASSUME NEW x \in DOMAIN gs, NEW y \in DOMAIN gs, x < y,
                      gs[x].key = gs[y].key /\ gs[x].addr = gs[y].addr
               PROVE  ~ HasBody(gs[y]) /\ ~ gs[y].void
    BY DEF OneBody
  <2>1. CASE y = last
    BY <1>1, <2>1
  <2>2. CASE y \in DOMAIN fs
    <3>1. x \in DOMAIN fs
      BY <1>1, <2>2
    <3>2. QED
      BY <1>1, <2>2, <3>1 DEF OneBody
  <2>3. QED
    BY <1>1, <2>1, <2>2
<1>3. {y \in DOMAIN gs : HasBody(gs[y])} = {y \in DOMAIN fs : HasBody(fs[y])}
  BY <1>1
<1>4. BodyKeys(gs) = BodyKeys(fs)
  BY <1>1, <1>3 DEF BodyKeys
<1>5. QED
  BY <1>2, <1>4 DEF gs

(* The function that findFunc returns has the name and the address.        *)
LEMMA BegunProperty ==
  ASSUME DeclTyped, BeginFunc
  PROVE  /\ BegunFunc.key = ValidName[Sym.name] /\ BegunFunc.addr = Sym.value
         /\ BegunFunc.lineStart = Sym.line /\ BegunFunc.void = FuncsAfterFind[FindFunc].void
         /\ BegunFunc.params = FuncsAfterFind[FindFunc].params
         /\ BegunFunc.blocks = FuncsAfterFind[FindFunc].blocks
         /\ Found(Sym) = {} => /\ BegunFunc.params = <<>> /\ BegunFunc.blocks = <<>>
<1>1. d \in 1 .. Len(syms) /\ Sym.body = "FuncStart" /\ Sym = syms[d]
  BY BeginFuncWrites DEF Sym
<1>2. /\ FuncsAfterFind[FindFunc] \in FuncRecs
      /\ \A x \in DOMAIN Funcs : FuncsAfterFind[x] = Funcs[x]
      /\ \/ FindFunc \in Found(Sym)
         \/ Found(Sym) = {} /\ FuncsAfterFind[FindFunc] = EmptyFunc
  BY <1>1, FindFuncProperty, Zenon
<1> DEFINE f == FuncsAfterFind[FindFunc]
<1>3. f.key = ValidName[Sym.name] /\ f.addr = Sym.value
      /\ (Found(Sym) = {} => f.params = <<>> /\ f.blocks = <<>>)
  BY <1>1, <1>2 DEF Found, Namesakes, EmptyFunc, Func
<1>4. f \in FuncRecs /\ BegunFunc = [[f EXCEPT !.path = Sym.path] EXCEPT !.lineStart = Sym.line]
  BY <1>2 DEF BegunFunc
<1> HIDE DEF f
<1>5. /\ BegunFunc.key = f.key /\ BegunFunc.addr = f.addr /\ BegunFunc.lineStart = Sym.line
      /\ BegunFunc.void = f.void /\ BegunFunc.params = f.params /\ BegunFunc.blocks = f.blocks
  BY <1>4 DEF FuncRecs
<1>6. QED
  BY <1>3, <1>5 DEF f

(* What a step does to the functions of the current overlay.               *)
LEMMA KeysAfter ==
  ASSUME DeclTyped, Place, Lined, ParseDeclsStep, NEW fs, FuncsAfter(fs), OneBody(Funcs),
         \A x \in DOMAIN Funcs : Bare(Funcs[x]), mode = "func" => HasBody(CurFunc)
  PROVE  /\ OneBody(fs) /\ \A x \in DOMAIN fs : Bare(fs[x])
         /\ ~ BeginFunc => BodyKeys(fs) = BodyKeys(Funcs)
         /\ BeginFunc => BodyKeys(fs) = BodyKeys(Funcs) \cup {<<ValidName[Sym.name], Sym.value>>}
<1>1. /\ Funcs \in Seq(FuncRecs) /\ Len(Funcs) \in Nat /\ DOMAIN Funcs = 1 .. Len(Funcs)
      /\ \A x \in DOMAIN Funcs : Funcs[x] \in FuncRecs
  BY CurTyped
<1>2. CASE fs = Funcs /\ ~ BeginFunc
  BY <1>2
<1>3. CASE AddGlobal /\ Sym.func /\ fs = Append(Funcs, NewFunc)
  <2>1. NewFunc \in FuncRecs
    BY <1>3, AddGlobalWrites, Zenon
  <2>2. ~ HasBody(NewFunc) /\ ~ NewFunc.void /\ NewFunc.params = <<>> /\ NewFunc.blocks = <<>>
    BY DEF NewFunc, Func, HasBody
  <2>3. ~ BeginFunc
    BY <1>3 DEF AddGlobal, BeginFunc, AtFuncStart, IsGlobal, IsDefn
  <2>4. OneBody(fs) /\ BodyKeys(fs) = BodyKeys(Funcs)
    BY <1>1, <1>3, <2>1, <2>2, OneMoreDeclared
  <2>5. \A x \in DOMAIN fs : fs[x] = NewFunc \/ (x \in DOMAIN Funcs /\ fs[x] = Funcs[x])
    <3> HIDE DEF FuncRecs, NewFunc
    <3>1. /\ DOMAIN fs = 1 .. Len(Funcs) + 1 /\ fs[Len(Funcs) + 1] = NewFunc
          /\ \A x \in DOMAIN Funcs : fs[x] = Funcs[x]
      BY <1>1, <1>3, <2>1, OneMore
    <3>2. QED
      BY <1>1, <3>1
  <2>6. \A x \in DOMAIN fs : Bare(fs[x])
    BY <2>2, <2>5, Zenon DEF Bare
  <2>7. QED
    BY <2>3, <2>4, <2>6
<1>4. ASSUME mode = "func", ~ BeginFunc, NEW g \in FuncRecs, fs = [Funcs EXCEPT ![fn] = g],
             Same(g, CurFunc)
      PROVE  /\ OneBody(fs) /\ \A x \in DOMAIN fs : Bare(fs[x])
             /\ ~ BeginFunc /\ BodyKeys(fs) = BodyKeys(Funcs)
  <2>1. fn \in DOMAIN Funcs /\ CurFunc = Funcs[fn] /\ HasBody(CurFunc)
    BY <1>4, FuncChanges
  <2>2. /\ DOMAIN fs = DOMAIN Funcs /\ fs[fn] = g
        /\ \A x \in DOMAIN Funcs : x # fn => fs[x] = Funcs[x]
    BY <1>4, <2>1
  <2>3. \A x \in DOMAIN fs : Same(fs[x], Funcs[x])
    BY <1>4, <2>1, <2>2 DEF Same
  <2>4. OneBody(fs) /\ BodyKeys(fs) = BodyKeys(Funcs)
    BY <2>2, <2>3, SameKeys, Zenon
  <2>5. HasBody(g)
    BY <1>4, <2>1 DEF Same, HasBody
  <2>6. \A x \in DOMAIN fs : Bare(fs[x])
    BY <2>2, <2>5, Zenon DEF Bare
  <2>7. QED
    BY <1>4, <2>4, <2>6
<1>5. CASE EndFunc /\ fs = [Funcs EXCEPT ![fn] = EndedFunc]
  <2>1. mode = "func" /\ ~ BeginFunc /\ EndedFunc \in FuncRecs
    BY <1>5, EndFuncDoes DEF BeginFunc, AtFuncStart, AtDecl
  <2>2. Same(EndedFunc, CurFunc)
    BY <2>1, FuncChanges
  <2>3. QED
    BY <1>4, <1>5, <2>1, <2>2
<1>6. CASE BlockStart /\ fs = [Funcs EXCEPT ![fn] = BlockFunc]
  <2>1. mode = "func" /\ ~ BeginFunc /\ BlockFunc \in FuncRecs
    BY <1>6, BlockStartDoes DEF BeginFunc, AtFuncStart, AtDecl
  <2>2. Same(BlockFunc, CurFunc)
    BY <2>1, FuncChanges
  <2>3. QED
    BY <1>4, <1>6, <2>1, <2>2
<1>7. CASE AddLocal /\ fs = [Funcs EXCEPT ![fn] = LocalFunc]
  <2>1. mode = "func" /\ ~ BeginFunc /\ LocalFunc \in FuncRecs
    BY <1>7, AddLocalDoes DEF BeginFunc, AtFuncStart, AtDecl
  <2>2. Same(LocalFunc, CurFunc)
    BY <2>1, FuncChanges
  <2>3. QED
    BY <1>4, <1>7, <2>1, <2>2
<1>8. CASE BeginFunc /\ fs = BegunFuncs
  <2> DEFINE gs == FuncsAfterFind
             k  == FindFunc
             key == ValidName[Sym.name]
  <2>1. /\ d \in 1 .. Len(syms) /\ Sym.body = "FuncStart" /\ Sym = syms[d]
        /\ DOMAIN fs = DOMAIN gs /\ fs[k] = BegunFunc
        /\ \A x \in DOMAIN gs : x # k => fs[x] = gs[x]
    BY <1>8, BeginFuncWrites DEF Sym
  <2>2. /\ Len(gs) \in Nat /\ DOMAIN gs = 1 .. Len(gs)
        /\ Len(Funcs) <= Len(gs) /\ k \in DOMAIN gs
        /\ \A x \in DOMAIN Funcs : gs[x] = Funcs[x]
        /\ \/ /\ gs = Funcs /\ Found(Sym) # {}
              /\ k \in Found(Sym) /\ \A y \in Found(Sym) : k <= y
           \/ Found(Sym) = {} /\ Len(gs) = Len(Funcs) + 1 /\ k = Len(Funcs) + 1
    BY <2>1, FindFuncProperty, Zenon
  <2>3. /\ BegunFunc.key = key /\ BegunFunc.addr = Sym.value
        /\ BegunFunc.lineStart = Sym.line /\ BegunFunc.void = gs[k].void
        /\ Found(Sym) = {} => /\ BegunFunc.params = <<>> /\ BegunFunc.blocks = <<>>
    BY <1>8, BegunProperty
  <2>4. HasBody(BegunFunc)
    <3>1. d \in Pos /\ IsBody(d, "FuncStart")
      BY <2>1 DEF Pos, IsBody
    <3>2. QED
      BY <2>1, <2>3, <3>1 DEF Lined, HasBody
  <2>5. \A x \in DOMAIN Funcs : x \in Found(Sym) <=> Funcs[x].key = key /\ Funcs[x].addr = Sym.value
    BY <2>1 DEF Found, Namesakes
  <2> HIDE DEF gs, k, key
  <2>0. Len(Funcs) \in Nat /\ DOMAIN Funcs = 1 .. Len(Funcs)
    BY <1>1
  <2>13. /\ \A x \in DOMAIN Funcs : x \in DOMAIN gs
        /\ \A x \in DOMAIN gs : x \in DOMAIN Funcs \/ x = k
    <3>1. CASE gs = Funcs
      BY <3>1, Zenon
    <3>2. CASE Len(gs) = Len(Funcs) + 1 /\ k = Len(Funcs) + 1
      <4>1. DOMAIN gs = 1 .. Len(Funcs) + 1
        BY <2>2, <3>2, Zenon
      <4>2. QED
        BY <2>0, <3>2, <4>1
    <3>3. QED
      BY <2>2, <3>1, <3>2, Zenon
  <2>6. \A x \in DOMAIN fs : x = k \/ (x \in DOMAIN Funcs /\ x # k /\ fs[x] = Funcs[x])
    BY <2>1, <2>2, <2>13, Zenon
  <2>7. \A x \in DOMAIN Funcs : x \in DOMAIN fs /\ (x # k => fs[x] = Funcs[x])
    BY <2>1, <2>2, <2>13, Zenon
  <2>8. /\ k \in DOMAIN fs
        /\ \A x \in DOMAIN Funcs : Funcs[x].key = key /\ Funcs[x].addr = Sym.value => k <= x
        /\ k \in DOMAIN Funcs => Funcs[k].key = key /\ Funcs[k].addr = Sym.value
    <3>1. k \in DOMAIN fs
      BY <2>1, <2>2, Zenon
    <3>2. CASE Found(Sym) = {}
      <4>1. k = Len(Funcs) + 1 \/ gs = Funcs
        BY <2>2, Zenon
      <4>2. k \notin DOMAIN Funcs
        BY <2>0, <2>2, <3>2
      <4>3. QED
        BY <2>5, <3>1, <3>2, <4>2, Zenon
    <3>3. CASE Found(Sym) # {}
      BY <2>2, <2>5, <3>1, <3>3, Zenon
    <3>4. QED
      BY <3>2, <3>3, Zenon
  <2>9. OneBody(fs)
    <3> SUFFICES ASSUME NEW x \in DOMAIN fs, NEW y \in DOMAIN fs, x < y,
                        fs[x].key = fs[y].key, fs[x].addr = fs[y].addr
                 PROVE  ~ HasBody(fs[y]) /\ ~ fs[y].void
      BY DEF OneBody
    <3>1. y # k
      <4>1. x \in Int /\ y \in Int
        <5>1. DOMAIN fs = 1 .. Len(gs)
          BY <2>1, <2>2, Zenon
        <5>2. QED
          BY <5>1
      <4>2. ASSUME y = k PROVE FALSE
        <5>1. x # k /\ fs[k].key = key /\ fs[k].addr = Sym.value
          BY <2>1, <2>3, <4>1, <4>2
        <5>2. x \in DOMAIN Funcs /\ fs[x] = Funcs[x]
          BY <2>6, <5>1
        <5>3. k <= x
          BY <2>8, <4>2, <5>1, <5>2
        <5>4. QED
          BY <4>1, <4>2, <5>3
      <4>3. QED
        BY <4>2
    <3>2. y \in DOMAIN Funcs /\ fs[y] = Funcs[y]
      BY <2>6, <3>1
    <3>3. CASE x = k
      <4>1. k \in DOMAIN Funcs /\ Funcs[k].key = Funcs[y].key /\ Funcs[k].addr = Funcs[y].addr
        <5>1. fs[k].key = key /\ fs[k].addr = Sym.value
          BY <2>1, <2>3, Zenon
        <5>2. Funcs[y].key = key /\ Funcs[y].addr = Sym.value
          BY <3>2, <3>3, <5>1, Zenon
        <5>3. k \in DOMAIN Funcs
          <6>1. y \in Found(Sym)
            BY <2>5, <3>2, <5>2, Zenon
          <6>2. k \in Found(Sym) /\ gs = Funcs
            BY <2>2, <6>1, Zenon
          <6>3. QED
            BY <2>2, <6>2, Zenon
        <5>4. QED
          BY <2>8, <5>2, <5>3
      <4>2. QED
        BY <3>2, <3>3, <4>1 DEF OneBody
    <3>4. CASE x # k
      <4>1. x \in DOMAIN Funcs /\ fs[x] = Funcs[x]
        BY <2>6, <3>4
      <4>2. QED
        BY <3>2, <4>1 DEF OneBody
    <3>5. QED
      BY <3>3, <3>4
  <2>10. \A x \in DOMAIN fs : Bare(fs[x])
    BY <2>1, <2>4, <2>6, Zenon DEF Bare
  <2>11. BodyKeys(fs) = BodyKeys(Funcs) \cup {<<key, Sym.value>>}
    <3>1. \A x \in DOMAIN fs : HasBody(fs[x]) =>
            <<fs[x].key, fs[x].addr>> \in BodyKeys(Funcs) \cup {<<key, Sym.value>>}
      BY <2>1, <2>3, <2>6 DEF BodyKeys
    <3>2. <<key, Sym.value>> \in BodyKeys(fs)
      BY <2>1, <2>3, <2>4, <2>8 DEF BodyKeys
    <3>3. ASSUME NEW x \in DOMAIN Funcs, HasBody(Funcs[x])
          PROVE  <<Funcs[x].key, Funcs[x].addr>> \in BodyKeys(fs)
      <4>1. CASE x = k
        BY <2>8, <3>2, <4>1
      <4>2. CASE x # k
        BY <2>7, <3>3, <4>2 DEF BodyKeys
      <4>3. QED
        BY <4>1, <4>2
    <3>4. BodyKeys(fs) \subseteq BodyKeys(Funcs) \cup {<<key, Sym.value>>}
      BY <3>1 DEF BodyKeys
    <3>5. BodyKeys(Funcs) \subseteq BodyKeys(fs)
      BY <3>3 DEF BodyKeys
    <3>6. QED
      BY <3>2, <3>4, <3>5
  <2>12. QED
    BY <1>8, <2>9, <2>10, <2>11 DEF key
<1>9. CASE /\ \/ AddSymbol \/ Ignore \/ (AddGlobal /\ ~ Sym.func) \/ AddOverlay \/ SetOverlay
              \/ FinishDecls \/ BeginLines \/ NextLine \/ EndLines \/ SkipFunc \/ BlockEnd \/ PanicStep
           /\ fs = Funcs
  <2>1. CASE BeginFunc
    <3>1. mode = "top" /\ mode' = "func" /\ Sym.body = "FuncStart" /\ ~ IsDuplicate
          /\ d \in 1 .. Len(syms)
      BY <2>1, BeginFuncWrites DEF BeginFunc, AtFuncStart, AtDecl
    <3>2. FALSE
      BY <1>9, <3>1, PanicDoes DEF AddSymbol, Ignore, AddGlobal, AddOverlay, SetOverlay, FinishDecls,
         BeginLines, NextLine, EndLines, SkipFunc, BlockEnd, AtFunc, AtInner, AtDecl, NameBodies,
         IsGlobal, IsDefn, DeclPanics
    <3>3. QED
      BY <3>2
  <2>2. QED
    BY <1>2, <1>9, <2>1
<1>10. QED
  BY <1>3, <1>5, <1>6, <1>7, <1>8, <1>9 DEF FuncsAfter

(* The FuncStarts that a step reads.                                       *)
LEMMA StartsAfter ==
  ASSUME DeclTyped, Place, ParseDeclsStep, Reads'
  PROVE  /\ ~ BeginFunc /\ ~ SkipFunc => Starts' = Starts
         /\ BeginFunc \/ SkipFunc => Starts' = Starts \cup {d} /\ NextPos = d
<1>1. /\ syms' = syms /\ Typed /\ NextPos \in Nat /\ NextPos' \in Nat /\ NextPos <= NextPos'
      /\ \A j \in NextPos .. NextPos' - 1 : j = NextPos \/ InFunc(j)
      /\ mode = "func" => InFunc(NextPos)
      /\ mode # "func" => ~ InFunc(NextPos)
  BY ReadByStep, DeclsAfterTypes DEF DeclTyped, Begun
<1>2. Starts' = {h \in Outside({"FuncStart"}) : h < NextPos'}
  BY <1>1, BodiesKept DEF Starts
<1>3. \A h : h \in Outside({"FuncStart"}) =>
               h \in Nat /\ syms[h].body = "FuncStart" /\ ~ InFunc(h) /\ h \in 1 .. Len(syms)
  BY <1>1, OutsideProperty
<1>4. \A h \in Outside({"FuncStart"}) : h < NextPos' <=> h < NextPos \/ (h = NextPos /\ NextPos < NextPos')
  <2> TAKE h \in Outside({"FuncStart"})
  <2> DEFINE a == NextPos
             b == NextPos'
  <2>1. h \in Nat /\ ~ InFunc(h)
    BY <1>3
  <2>2. a \in Nat /\ b \in Nat /\ a <= b /\ (h \in a .. b - 1 => h = a)
    BY <1>1, <2>1
  <2> HIDE DEF a, b
  <2>3. h < b <=> h < a \/ (h = a /\ a < b)
    BY <2>1, <2>2
  <2>4. QED
    BY <2>3 DEF a, b
<1>5. CASE BeginFunc \/ SkipFunc
  <2>1. mode = "top" /\ d \in 1 .. Len(syms) /\ syms[d].body = "FuncStart" /\ Len(syms) \in Nat
    BY <1>5, DeclSymbolProperty DEF BeginFunc, SkipFunc, AtFuncStart, AtDecl, Sym, DeclTyped, Begun
  <2>2. NextPos = d /\ ~ InFunc(d)
    BY <1>1, <2>1 DEF NextPos
  <2>3. d \in Outside({"FuncStart"})
    BY <1>1, <2>1, <2>2, OutsideProperty
  <2>4. d < NextPos'
    <3>1. CASE BeginFunc
      <4>1. mode' = "func" /\ d' = d /\ m' = 0
        BY <3>1 DEF BeginFunc
      <4>2. NextPos' = d + 1
        BY <2>1, <4>1 DEF NextPos, InnerPos
      <4>3. QED
        BY <2>1, <4>2
    <3>2. CASE SkipFunc
      <4>1. mode' = "top" /\ d' = FirstOf(FuncEnds) + 1 /\ FuncEnds # {}
        BY <2>1, <3>2 DEF SkipFunc, IsDuplicate, inner
      <4>2. FirstOf(FuncEnds) \in d + 1 .. Len(syms)
        BY <1>1, <2>1, <4>1, SkipProperty
      <4>3. NextPos' = FirstOf(FuncEnds) + 1
        BY <4>1 DEF NextPos
      <4>4. QED
        BY <2>1, <4>2, <4>3
    <3>3. QED
      BY <1>5, <3>1, <3>2
  <2>5. QED
    BY <1>2, <1>4, <1>5, <2>2, <2>3, <2>4 DEF Starts
<1>6. CASE ~ BeginFunc /\ ~ SkipFunc
  <2>1. NextPos < NextPos' => InFunc(NextPos) \/ syms[NextPos].body # "FuncStart"
    <3>0. d \in Nat /\ m \in Nat
      BY DEF DeclTyped, Begun
    <3>1. CASE AddSymbol \/ Ignore \/ AddGlobal \/ AddOverlay \/ SetOverlay \/ BeginLines
      <4>1. mode = "top" /\ Sym.body # "FuncStart" /\ Sym = syms[d]
        BY <3>1 DEF AddSymbol, Ignore, AddGlobal, AddOverlay, SetOverlay, BeginLines, AtDecl, Sym,
           NameBodies, IsGlobal, IsDefn
      <4>2. QED
        BY <4>1 DEF NextPos
    <3>2. CASE FinishDecls
      <4>1. NextPos' = NextPos
        BY <3>2 DEF FinishDecls, NextPos
      <4>2. QED
        BY <1>1, <4>1
    <3>3. CASE NextLine
      <4>1. mode = "lines" /\ syms[InnerPos].body \in SLDBodies
        BY <3>3 DEF NextLine, AtInner
      <4>2. QED
        BY <4>1 DEF NextPos, SLDBodies, IncBodies
    <3>4. CASE EndLines
      <4>1. /\ mode = "lines" /\ mode' = "top"
            /\ d' = d + (IF syms[InnerPos].body = "EndSLD" THEN m + 1 ELSE m) + 1
        BY <3>4 DEF EndLines, AtInner, Return
      <4>2. NextPos = d + 1 + m /\ NextPos' = d'
        BY <4>1 DEF NextPos, InnerPos
      <4>3. CASE syms[InnerPos].body = "EndSLD"
        BY <4>1, <4>3 DEF NextPos
      <4>4. CASE syms[InnerPos].body # "EndSLD"
        <5>1. NextPos' = NextPos
          BY <3>0, <4>1, <4>2, <4>4
        <5>2. QED
          BY <1>1, <5>1
      <4>5. QED
        BY <4>3, <4>4
    <3>5. CASE EndFunc \/ BlockStart \/ BlockEnd \/ AddLocal
      <4>1. mode = "func"
        BY <3>5, EndFuncDoes, BlockStartDoes, BlockEndDoes, AddLocalDoes, Zenon
      <4>2. QED
        BY <1>1, <4>1
    <3>6. CASE PanicStep
      <4>1. mode' \in DeclPanics
        BY <3>6, PanicDoes
      <4>2. FALSE
        BY <4>1 DEF Reads, DeclPanics
      <4>3. QED
        BY <4>2
    <3>7. QED
      BY <1>6, <3>1, <3>2, <3>3, <3>4, <3>5, <3>6, StepCases
  <2>2. \A h \in Outside({"FuncStart"}) : h < NextPos' <=> h < NextPos
    BY <1>3, <1>4, <2>1
  <2>3. QED
    BY <1>2, <1>6, <2>2 DEF Starts
<1>7. QED
  BY <1>5, <1>6

(* The function whose body comes next.                                     *)
LEMMA CurFuncBegun ==
  ASSUME DeclTyped, BeginFunc
  PROVE  CurFunc' = BegunFunc
<1>1. fn' = FindFunc /\ curOverlay' = curOverlay
  BY DEF BeginFunc
<1>2. overlays \in Seq(OverlayRecs) /\ Cur \in OverlayRecs /\ curOverlay \in DOMAIN overlays
  BY CurTyped DEF DeclTyped, DeclTypeOK
<1>3. overlays'[curOverlay] = BegunOverlay
  BY <1>2, BeginFuncWrites, WriteProperty, Zenon
<1>4. StartLine \in LineRecs /\ BegunFuncs \in Seq(FuncRecs) /\ BegunFuncs[FindFunc] = BegunFunc
  BY BeginFuncWrites
<1>5. [Cur EXCEPT !.funcs = BegunFuncs] \in OverlayRecs
  BY <1>2, <1>4, OverlayTyped, Zenon
<1>6. BegunOverlay.funcs = [Cur EXCEPT !.funcs = BegunFuncs].funcs
  BY <1>5 DEF BegunOverlay, WithLine, OverlayRecs
<1>7. [Cur EXCEPT !.funcs = BegunFuncs].funcs = BegunFuncs
  BY <1>2 DEF OverlayRecs
<1>8. QED
  BY <1>1, <1>3, <1>4, <1>6, <1>7, Zenon DEF CurFunc, Funcs

LEMMA FuncsSoFarStep ==
  Standing /\ FuncsSoFar /\ [BothNext]_allVars => FuncsSoFar'
<1> SUFFICES ASSUME Standing, FuncsSoFar, [BothNext]_allVars PROVE FuncsSoFar'
  OBVIOUS
<1>1. /\ DeclTyped /\ Place /\ Numbered /\ curOverlay \in DOMAIN overlays
      /\ Funcs = overlays[curOverlay].funcs
  BY DEF Standing, DeclTyped, DeclTypeOK, Funcs
<1>2. ASSUME syms' = syms
      PROVE  /\ Lined' <=> Lined
             /\ FuncsSoFar' <=>
                  (Lined /\ Reads' =>
                    /\ \A o \in DOMAIN overlays' :
                         /\ OneBody(overlays'[o].funcs)
                         /\ BodyKeys(overlays'[o].funcs) = StartKeys(o, Starts')
                         /\ \A x \in DOMAIN overlays'[o].funcs : Bare(overlays'[o].funcs[x])
                    /\ \A j \in Starts' : ActiveAt(j) \in DOMAIN overlays'
                    /\ mode' = "func" => HasBody(CurFunc'))
  <2>1. Lined' <=> Lined
    BY <1>2 DEF Lined, Pos, IsBody
  <2>2. /\ \A fs : OneBody(fs)' <=> OneBody(fs)
        /\ \A fs : BodyKeys(fs)' = BodyKeys(fs)
        /\ \A f : Bare(f)' <=> Bare(f)
        /\ \A f : HasBody(f)' <=> HasBody(f)
    BY DEF OneBody, BodyKeys, Bare, HasBody
  <2>3. /\ \A j : ActiveAt(j)' = ActiveAt(j)
        /\ \A o, hs : StartKeys(o, hs)' = StartKeys(o, hs)
    BY <1>2 DEF StartKeys, ActiveAt, OverlayMadeAt, Outside, InFunc, IsBody, Pos
  <2>4. QED
    BY <2>1, <2>2, <2>3, Zenon DEF FuncsSoFar
<1>3. CASE [Next]_vars /\ UNCHANGED declVars
  <2>1. /\ syms' = syms /\ NextPos' = NextPos /\ overlays' = overlays /\ mode' = mode
        /\ curOverlay' = curOverlay /\ fn' = fn
    BY <1>3, TypesKeepDecls
  <2>2. Starts' = Starts /\ CurFunc' = CurFunc /\ (Reads' <=> Reads)
    BY <2>1, BodiesKept DEF Starts, CurFunc, Funcs, Reads
  <2>3. QED
    BY <1>2, <2>1, <2>2 DEF FuncsSoFar
<1>4. CASE ParseDeclsStep
  <2>1. syms' = syms
    BY <1>1, <1>4, DeclsAfterTypes DEF DeclTyped
  <2> SUFFICES ASSUME Lined, Reads'
               PROVE  /\ \A o \in DOMAIN overlays' :
                           /\ OneBody(overlays'[o].funcs)
                           /\ BodyKeys(overlays'[o].funcs) = StartKeys(o, Starts')
                           /\ \A x \in DOMAIN overlays'[o].funcs : Bare(overlays'[o].funcs[x])
                      /\ \A j \in Starts' : ActiveAt(j) \in DOMAIN overlays'
                      /\ mode' = "func" => HasBody(CurFunc')
    BY <1>2, <2>1
  <2>2. mode \in {"top", "lines", "func"}
    BY <1>1, <1>4, ReadByStep
  <2>3. /\ \A o \in DOMAIN overlays :
             /\ OneBody(overlays[o].funcs) /\ BodyKeys(overlays[o].funcs) = StartKeys(o, Starts)
             /\ \A x \in DOMAIN overlays[o].funcs : Bare(overlays[o].funcs[x])
        /\ \A j \in Starts : ActiveAt(j) \in DOMAIN overlays
        /\ mode = "func" => HasBody(CurFunc)
        /\ curOverlay = ActiveAt(NextPos)
    BY <1>1, <2>2 DEF FuncsSoFar, Reads, Numbered
  <2>4. /\ \A p \in DOMAIN overlays' : p \in DOMAIN overlays \/ DOMAIN overlays'[p].funcs = {}
        /\ DOMAIN overlays \subseteq DOMAIN overlays'
        /\ \A p \in DOMAIN overlays : p # curOverlay => overlays'[p].funcs = overlays[p].funcs
        /\ FuncsAfter(overlays'[curOverlay].funcs)
    BY <1>1, <1>4, FuncsAfterStep
  <2> DEFINE fs == overlays'[curOverlay].funcs
             key == <<ValidName[Sym.name], Sym.value>>
  <2>5. /\ OneBody(fs) /\ \A x \in DOMAIN fs : Bare(fs[x])
        /\ ~ BeginFunc => BodyKeys(fs) = BodyKeys(Funcs)
        /\ BeginFunc => BodyKeys(fs) = BodyKeys(Funcs) \cup {key}
    BY <1>1, <1>4, <2>3, <2>4, KeysAfter
  <2>6. /\ ~ BeginFunc /\ ~ SkipFunc => Starts' = Starts
        /\ BeginFunc \/ SkipFunc => Starts' = Starts \cup {d} /\ NextPos = d
    BY <1>1, <1>4, StartsAfter
  <2>7. SkipFunc => key \in BodyKeys(Funcs)
    <3> SUFFICES ASSUME SkipFunc PROVE key \in BodyKeys(Funcs)
      OBVIOUS
    <3>1. /\ Found(Sym) # {} /\ Funcs[FindFunc].lineStart # 0 /\ Sym.body = "FuncStart"
          /\ d \in 1 .. Len(syms) /\ Sym = syms[d]
      BY <1>1, DeclSymbolProperty DEF SkipFunc, IsDuplicate, AtFuncStart, AtDecl, DeclTyped, Begun, Sym
    <3>2. FindFunc \in Found(Sym)
      BY <1>1, <3>1, FindFuncProperty, Zenon
    <3>3. /\ FindFunc \in DOMAIN Funcs /\ Funcs[FindFunc].key = ValidName[Sym.name]
          /\ Funcs[FindFunc].addr = Sym.value
      BY <3>2 DEF Found, Namesakes
    <3>4. HasBody(Funcs[FindFunc])
      BY <3>1 DEF HasBody
    <3>5. QED
      BY <3>3, <3>4 DEF BodyKeys
  <2>8. ASSUME NextPos = d
        PROVE  /\ StartKeys(curOverlay, Starts \cup {d}) = StartKeys(curOverlay, Starts) \cup {key}
               /\ \A o : o # curOverlay => StartKeys(o, Starts \cup {d}) = StartKeys(o, Starts)
    <3>1. ActiveAt(d) = curOverlay
      BY <2>3, <2>8
    <3>2. {h \in Starts \cup {d} : ActiveAt(h) = curOverlay}
          = {h \in Starts : ActiveAt(h) = curOverlay} \cup {d}
      BY <3>1
    <3>3. \A o : o # curOverlay => {h \in Starts \cup {d} : ActiveAt(h) = o}
                                   = {h \in Starts : ActiveAt(h) = o}
      BY <3>1
    <3>4. QED
      BY <3>2, <3>3 DEF StartKeys, Sym
  <2>9. BodyKeys(fs) = StartKeys(curOverlay, Starts')
    <3>1. BodyKeys(Funcs) = StartKeys(curOverlay, Starts)
      BY <1>1, <2>3
    <3>2. CASE BeginFunc \/ SkipFunc
      BY <2>5, <2>6, <2>7, <2>8, <3>1, <3>2
    <3>3. CASE ~ BeginFunc /\ ~ SkipFunc
      BY <2>5, <2>6, <3>1, <3>3
    <3>4. QED
      BY <3>2, <3>3
  <2>10. ASSUME NEW o \in DOMAIN overlays
         PROVE  o # curOverlay => StartKeys(o, Starts') = StartKeys(o, Starts)
    <3>1. CASE BeginFunc \/ SkipFunc
      BY <2>6, <2>8, <3>1
    <3>2. CASE ~ BeginFunc /\ ~ SkipFunc
      BY <2>6, <3>2
    <3>3. QED
      BY <3>1, <3>2
  <2>11. \A j \in Starts' : ActiveAt(j) \in DOMAIN overlays
    <3>1. CASE BeginFunc \/ SkipFunc
      BY <1>1, <2>3, <2>6, <3>1
    <3>2. CASE ~ BeginFunc /\ ~ SkipFunc
      BY <2>3, <2>6, <3>2
    <3>3. QED
      BY <3>1, <3>2
  <2>12. ASSUME NEW o \in DOMAIN overlays'
         PROVE  /\ OneBody(overlays'[o].funcs)
                /\ BodyKeys(overlays'[o].funcs) = StartKeys(o, Starts')
                /\ \A x \in DOMAIN overlays'[o].funcs : Bare(overlays'[o].funcs[x])
    <3>1. CASE o = curOverlay
      BY <2>5, <2>9, <3>1
    <3>2. CASE o # curOverlay /\ o \in DOMAIN overlays
      BY <2>3, <2>4, <2>10, <3>2, Zenon
    <3>3. CASE o \notin DOMAIN overlays
      <4>1. DOMAIN overlays'[o].funcs = {}
        BY <2>4, <3>3
      <4>2. OneBody(overlays'[o].funcs) /\ BodyKeys(overlays'[o].funcs) = {}
        BY <4>1 DEF OneBody, BodyKeys
      <4>3. StartKeys(o, Starts') = {}
        BY <2>11, <3>3 DEF StartKeys
      <4>4. QED
        BY <4>1, <4>2, <4>3
    <3>4. QED
      BY <3>1, <3>2, <3>3
  <2>13. ASSUME mode' = "func" PROVE HasBody(CurFunc')
    <3>1. CASE BeginFunc
      <4>1. /\ fn' = FindFunc /\ curOverlay' = curOverlay
            /\ d \in 1 .. Len(syms) /\ Sym.body = "FuncStart" /\ Sym = syms[d]
        BY <1>1, <3>1, BeginFuncWrites DEF BeginFunc, Sym
      <4>3. CurFunc' = BegunFunc
        BY <1>1, <3>1, CurFuncBegun
      <4>4. BegunFunc.lineStart = Sym.line
        BY <1>1, <3>1, BegunProperty
      <4>5. Sym.line # 0
        BY <4>1 DEF Lined, Pos, IsBody
      <4>6. QED
        BY <4>3, <4>4, <4>5 DEF HasBody
    <3>2. CASE ~ BeginFunc
      <4>1. BlockStart \/ BlockEnd \/ AddLocal
        BY <1>1, <1>4, <2>13, <3>2, StepCases, PanicDoes, EndFuncDoes DEF AddSymbol, Ignore, AddGlobal,
           AddOverlay, SetOverlay, FinishDecls, BeginLines, NextLine, EndLines, SkipFunc, Return,
           AtDecl, AtFuncStart, AtInner, DeclPanics
      <4>2. /\ mode = "func" /\ (CurFunc' = BlockFunc \/ CurFunc' = CurFunc \/ CurFunc' = LocalFunc)
        BY <1>1, <4>1, CurFuncAfter
      <4>3. Same(BlockFunc, CurFunc) /\ Same(LocalFunc, CurFunc)
        BY <1>1, <4>2, FuncChanges
      <4>4. QED
        BY <2>3, <4>2, <4>3 DEF Same, HasBody
    <3>3. QED
      BY <3>1, <3>2
  <2>14. QED
    BY <2>4, <2>11, <2>12, <2>13
<1>5. QED
  BY <1>3, <1>4 DEF BothNext, allVars

(* What a function has comes from one body, and what the current function  *)
(* has from the one that is read, unless no FuncEnd follows, after which   *)
(* ParseDecls cannot end: a body parsed before is then parsed once more.   *)
OneStart(f) == \A s, h \in BodiesOf(f) : s = h

BodiesSoFar ==
  Lined /\ Reads /\ (mode = "func" => FuncEnds # {}) =>
    /\ \A o \in DOMAIN overlays : \A x \in DOMAIN overlays[o].funcs : OneStart(overlays[o].funcs[x])
    /\ mode = "func" => BodiesOf(CurFunc) \subseteq {d}

LEMMA BodiesAfter ==
  ASSUME DeclTyped, Place, Scoped, mode = "func", InnerPos \in 1 .. Len(syms),
         BodiesOf(CurFunc) \subseteq {d}
  PROVE  /\ BodiesOf(EndedFunc) \subseteq {d} /\ BodiesOf(BlockFunc) \subseteq {d}
         /\ IsDefn(syms[InnerPos]) => BodiesOf(LocalFunc) \subseteq {d}
<1> DEFINE bs == CurFunc.blocks
           vs == CurFunc.params
           S  == DOMAIN bs
<1>1. FuncStartBefore(InnerPos) = d
  BY ScopeHere
<1>2. /\ EndedFunc.params = vs /\ EndedFunc.blocks = bs
      /\ BlockFunc.params = vs /\ BlockFunc.blocks = Append(bs, Block(InnerPos))
      /\ curBlock = None => LocalFunc.params = AddedTo(vs, Var(InnerPos)) /\ LocalFunc.blocks = bs
      /\ curBlock # None =>
           /\ LocalFunc.params = vs /\ curBlock \in DOMAIN bs
           /\ LocalFunc.blocks =
                [bs EXCEPT ![curBlock] =
                   [bs[curBlock] EXCEPT !.locals = AddedTo(bs[curBlock].locals, Var(InnerPos))]]
  BY FuncChanges
<1>3. bs \in Seq(BlockRecs) /\ vs \in Seq(Vars) /\ \A b \in DOMAIN bs : bs[b] \in BlockRecs
  BY CurTyped, FuncParts
<1>4. /\ \A b \in DOMAIN bs : FuncStartBefore(bs[b].at) = d
      /\ \A v \in DOMAIN vs : FuncStartBefore(vs[v].at) = d
  BY DEF BodiesOf
<1>5. ASSUME NEW f, \A b \in DOMAIN f.blocks : FuncStartBefore(f.blocks[b].at) = d,
             \A v \in DOMAIN f.params : FuncStartBefore(f.params[v].at) = d
      PROVE  BodiesOf(f) \subseteq {d}
  BY <1>5 DEF BodiesOf
<1>6. BodiesOf(EndedFunc) \subseteq {d}
  BY <1>2, <1>4, <1>5
<1>7. BodiesOf(BlockFunc) \subseteq {d}
  <2>1. Block(InnerPos) \in BlockRecs /\ Block(InnerPos).at = InnerPos
    <3>1. InnerPos \in Nat /\ <<>> \in Seq(Vars)
      BY DeclSymbolProperty DEF DeclTyped, Begun
    <3>2. QED
      BY <3>1 DEF Block, BlockRecs
  <2>2. \A b \in DOMAIN BlockFunc.blocks :
          BlockFunc.blocks[b] = Block(InnerPos) \/ (b \in DOMAIN bs /\ BlockFunc.blocks[b] = bs[b])
    <3> DEFINE b == Block(InnerPos)
               Bs == BlockRecs
               gs == Append(bs, b)
    <3>1. bs \in Seq(Bs) /\ b \in Bs
      BY <1>3, <2>1
    <3> HIDE DEF bs, b, Bs
    <3>2. /\ DOMAIN gs = 1 .. Len(bs) + 1 /\ DOMAIN bs = 1 .. Len(bs)
          /\ gs[Len(bs) + 1] = b /\ Len(bs) \in Nat
          /\ \A x \in DOMAIN bs : gs[x] = bs[x]
      BY <3>1, OneMore
    <3> HIDE DEF gs
    <3>3. \A x \in DOMAIN gs : gs[x] = b \/ (x \in DOMAIN bs /\ gs[x] = bs[x])
      BY <3>2
    <3>4. BlockFunc.blocks = gs
      BY <1>2 DEF gs, b, bs
    <3>5. QED
      BY <3>3, <3>4 DEF b
  <2>3. \A b \in DOMAIN BlockFunc.blocks : FuncStartBefore(BlockFunc.blocks[b].at) = d
    <3> TAKE b \in DOMAIN BlockFunc.blocks
    <3>1. CASE BlockFunc.blocks[b] = Block(InnerPos)
      BY <1>1, <2>1, <3>1
    <3>2. CASE b \in DOMAIN bs /\ BlockFunc.blocks[b] = bs[b]
      BY <1>4, <3>2
    <3>3. QED
      BY <2>2, <3>1, <3>2
  <2>4. QED
    BY <1>2, <1>4, <1>5, <2>3
<1>8. ASSUME IsDefn(syms[InnerPos]) PROVE BodiesOf(LocalFunc) \subseteq {d}
  <2> DEFINE v == Var(InnerPos)
  <2>1. v \in Vars /\ v.at = InnerPos
    BY <1>8, VarTyped DEF Var
  <2> HIDE DEF v
  <2>2. CASE curBlock = None
    <3>1. LocalFunc.params = AddedTo(vs, v) /\ LocalFunc.blocks = bs
      BY <1>2, <2>2 DEF v
    <3>2. \A x \in DOMAIN AddedTo(vs, v) :
            (x \in DOMAIN vs /\ AddedTo(vs, v)[x] = vs[x]) \/ AddedTo(vs, v)[x] = v
      BY <1>3, <2>1, AddedToProperty, Zenon
    <3>3. \A x \in DOMAIN LocalFunc.params : FuncStartBefore(LocalFunc.params[x].at) = d
      <4> HIDE DEF vs
      <4>1. QED
        BY <1>1, <1>4, <2>1, <3>1, <3>2, Zenon
    <3>4. QED
      BY <1>4, <1>5, <3>1, <3>3
  <2>3. CASE curBlock # None
    <3> DEFINE l == AddedTo(bs[curBlock].locals, v)
               c == [bs[curBlock] EXCEPT !.locals = l]
    <3>1. /\ LocalFunc.params = vs /\ curBlock \in DOMAIN bs
          /\ LocalFunc.blocks = [bs EXCEPT ![curBlock] = c]
      BY <1>2, <2>3 DEF v
    <3>2. bs[curBlock] \in BlockRecs
      BY <1>3, <3>1
    <3> HIDE DEF l
    <3>3. c.at = bs[curBlock].at
      BY <3>2 DEF BlockRecs
    <3> HIDE DEF c
    <3>4. DOMAIN LocalFunc.blocks = DOMAIN bs
          /\ \A b \in DOMAIN bs : LocalFunc.blocks[b].at = bs[b].at
      BY <3>1, <3>3
    <3>5. QED
      BY <1>4, <1>5, <3>1, <3>4
  <2>4. QED
    BY <2>2, <2>3
<1>9. QED
  BY <1>6, <1>7, <1>8

(* A body is parsed for a function that nothing has given anything.        *)
LEMMA BegunBodies ==
  ASSUME DeclTyped, BeginFunc, FuncEnds # {}, \A x \in DOMAIN Funcs : Bare(Funcs[x])
  PROVE  BodiesOf(BegunFunc) = {}
<1>1. d \in 1 .. Len(syms) /\ Sym.body = "FuncStart" /\ (Found(Sym) # {} => Funcs[FindFunc].lineStart = 0)
  BY BeginFuncWrites DEF BeginFunc, IsDuplicate
<1>2. CASE Found(Sym) = {}
  BY <1>2, BegunProperty DEF BodiesOf
<1>3. CASE Found(Sym) # {}
  <2>1. FindFunc \in Found(Sym) /\ FuncsAfterFind = Funcs
    BY <1>1, <1>3, FindFuncProperty, Zenon
  <2>2. Bare(Funcs[FindFunc])
    BY <2>1 DEF Found, Namesakes
  <2>3. Funcs[FindFunc].params = <<>> /\ Funcs[FindFunc].blocks = <<>>
    BY <1>1, <1>3, <2>2 DEF Bare, HasBody
  <2>4. BegunFunc.params = <<>> /\ BegunFunc.blocks = <<>>
    BY <2>1, <2>3, BegunProperty
  <2>5. QED
    BY <2>4 DEF BodiesOf
<1>4. QED
  BY <1>2, <1>3

(* What the functions of the current overlay have after a step.            *)
LEMMA OneStartAfter ==
  ASSUME DeclTyped, Place, Scoped, mode = "func" => BodiesOf(CurFunc) \subseteq {d},
         \A x \in DOMAIN Funcs : OneStart(Funcs[x]) /\ Bare(Funcs[x]),
         NEW fs, FuncsAfter(fs), BeginFunc => FuncEnds # {}, NEW x \in DOMAIN fs
  PROVE  OneStart(fs[x])
<1>1. Funcs \in Seq(FuncRecs) /\ DOMAIN Funcs = 1 .. Len(Funcs) /\ Len(Funcs) \in Nat
  BY CurTyped
<1>2. ASSUME NEW f, BodiesOf(f) \subseteq {d} PROVE OneStart(f)
  BY <1>2 DEF OneStart
<1>3. CASE fs = Funcs
  BY <1>3
<1>4. CASE AddGlobal /\ Sym.func /\ fs = Append(Funcs, NewFunc)
  <2>1. NewFunc \in FuncRecs /\ NewFunc.params = <<>> /\ NewFunc.blocks = <<>>
    BY <1>4, AddGlobalWrites DEF NewFunc, Func
  <2>2. OneStart(NewFunc)
    BY <2>1 DEF OneStart, BodiesOf
  <2>3. /\ DOMAIN fs = 1 .. Len(Funcs) + 1 /\ fs[Len(Funcs) + 1] = NewFunc
        /\ \A y \in DOMAIN Funcs : fs[y] = Funcs[y]
    BY <1>1, <1>4, <2>1, OneMore
  <2>4. x \in DOMAIN Funcs \/ x = Len(Funcs) + 1
    BY <1>1, <2>3
  <2>5. QED
    BY <2>2, <2>3, <2>4
<1>5. CASE BeginFunc /\ fs = BegunFuncs
  <2>1. /\ d \in 1 .. Len(syms) /\ Sym.body = "FuncStart"
        /\ DOMAIN BegunFuncs = DOMAIN FuncsAfterFind
        /\ BegunFuncs[FindFunc] = BegunFunc
        /\ \A y \in DOMAIN FuncsAfterFind : y # FindFunc => BegunFuncs[y] = FuncsAfterFind[y]
    BY <1>5, BeginFuncWrites, Zenon
  <2>2. BodiesOf(BegunFunc) = {}
    BY <1>5, BegunBodies
  <2>3. \A y \in DOMAIN FuncsAfterFind : y # FindFunc => y \in DOMAIN Funcs /\ FuncsAfterFind[y] = Funcs[y]
    <3> DEFINE gs == FuncsAfterFind
               grown == Len(gs) = Len(Funcs) + 1 /\ FindFunc = Len(Funcs) + 1
    <3>1. DOMAIN gs = 1 .. Len(gs) /\ \A y \in DOMAIN Funcs : gs[y] = Funcs[y]
      BY <2>1, FindFuncProperty, Zenon
    <3>2. gs = Funcs \/ grown
      BY <2>1, FindFuncProperty, Zenon
    <3> HIDE DEF gs
    <3>3. ASSUME NEW y \in DOMAIN gs, y # FindFunc PROVE y \in DOMAIN Funcs
      <4>1. CASE gs = Funcs
        BY <3>3, <4>1
      <4>2. CASE grown
        <5> DEFINE L == Len(Funcs)
        <5>1. L \in Nat /\ DOMAIN Funcs = 1 .. L /\ y \in 1 .. L + 1 /\ y # L + 1
          BY <1>1, <3>1, <3>3, <4>2
        <5> HIDE DEF L
        <5>2. y \in 1 .. L
          BY <5>1
        <5>3. QED
          BY <5>1, <5>2
      <4>3. QED
        BY <3>2, <4>1, <4>2
    <3>4. \A y \in DOMAIN gs : y # FindFunc => y \in DOMAIN Funcs /\ gs[y] = Funcs[y]
      BY <3>1, <3>3, Zenon
    <3>5. QED
      BY <3>4 DEF gs
  <2>4. CASE x = FindFunc
    BY <1>2, <1>5, <2>1, <2>2, <2>4
  <2>5. CASE x # FindFunc
    BY <1>5, <2>1, <2>3, <2>5
  <2>6. QED
    BY <2>4, <2>5
<1>6. ASSUME mode = "func", NEW f, BodiesOf(f) \subseteq {d}, fs = [Funcs EXCEPT ![fn] = f]
      PROVE  OneStart(fs[x])
  BY <1>1, <1>2, <1>6
<1>7. CASE EndFunc /\ fs = [Funcs EXCEPT ![fn] = EndedFunc]
  <2>1. mode = "func" /\ InnerPos \in 1 .. Len(syms)
    BY <1>7, EndFuncDoes, Zenon
  <2>2. BodiesOf(EndedFunc) \subseteq {d}
    BY <2>1, BodiesAfter
  <2>3. QED
    BY <1>6, <1>7, <2>1, <2>2
<1>8. CASE BlockStart /\ fs = [Funcs EXCEPT ![fn] = BlockFunc]
  <2>1. mode = "func" /\ InnerPos \in 1 .. Len(syms)
    BY <1>8, BlockStartDoes, Zenon
  <2>2. BodiesOf(BlockFunc) \subseteq {d}
    BY <2>1, BodiesAfter
  <2>3. QED
    BY <1>6, <1>8, <2>1, <2>2
<1>9. CASE AddLocal /\ fs = [Funcs EXCEPT ![fn] = LocalFunc]
  <2>1. mode = "func" /\ InnerPos \in 1 .. Len(syms) /\ IsDefn(syms[InnerPos])
    BY <1>9, AddLocalDoes, Zenon
  <2>2. BodiesOf(LocalFunc) \subseteq {d}
    BY <2>1, BodiesAfter
  <2>3. QED
    BY <1>6, <1>9, <2>1, <2>2
<1>10. QED
  BY <1>3, <1>4, <1>5, <1>7, <1>8, <1>9 DEF FuncsAfter

LEMMA BodiesSoFarStep ==
  Standing /\ Scoped /\ FuncsSoFar /\ BodiesSoFar /\ [BothNext]_allVars => BodiesSoFar'
<1> SUFFICES ASSUME Standing, Scoped, FuncsSoFar, BodiesSoFar, [BothNext]_allVars
             PROVE  BodiesSoFar'
  OBVIOUS
<1>1. /\ DeclTyped /\ Place /\ curOverlay \in DOMAIN overlays
      /\ Funcs = overlays[curOverlay].funcs
  BY DEF Standing, DeclTyped, DeclTypeOK, Funcs
<1>2. ASSUME syms' = syms
      PROVE  /\ Lined' <=> Lined
             /\ BodiesSoFar' <=>
                  (Lined /\ Reads' /\ (mode' = "func" => FuncEnds' # {}) =>
                    /\ \A o \in DOMAIN overlays' :
                         \A x \in DOMAIN overlays'[o].funcs : OneStart(overlays'[o].funcs[x])
                    /\ mode' = "func" => BodiesOf(CurFunc') \subseteq {d'})
             /\ d' = d => FuncEnds' = FuncEnds
  <2>1. Lined' <=> Lined
    BY <1>2 DEF Lined, Pos, IsBody
  <2>2. /\ \A f : OneStart(f)' <=> OneStart(f)
        /\ \A f : BodiesOf(f)' = BodiesOf(f)
    BY <1>2 DEF OneStart, BodiesOf, FuncStartBefore, IsBody
  <2>3. d' = d => FuncEnds' = FuncEnds
    BY <1>2 DEF FuncEnds
  <2>4. QED
    BY <2>1, <2>2, <2>3, Zenon DEF BodiesSoFar
<1>3. CASE [Next]_vars /\ UNCHANGED declVars
  <2>1. /\ syms' = syms /\ overlays' = overlays /\ mode' = mode /\ d' = d
        /\ curOverlay' = curOverlay /\ fn' = fn
    BY <1>3, TypesKeepDecls DEF declVars
  <2>2. CurFunc' = CurFunc /\ (Reads' <=> Reads) /\ FuncEnds' = FuncEnds
    BY <2>1 DEF CurFunc, Funcs, Reads, FuncEnds
  <2>3. QED
    BY <1>2, <2>1, <2>2 DEF BodiesSoFar
<1>4. CASE ParseDeclsStep
  <2>1. syms' = syms
    BY <1>1, <1>4, DeclsAfterTypes DEF DeclTyped
  <2> SUFFICES ASSUME Lined, Reads', mode' = "func" => FuncEnds' # {}
               PROVE  /\ \A o \in DOMAIN overlays' :
                           \A x \in DOMAIN overlays'[o].funcs : OneStart(overlays'[o].funcs[x])
                      /\ mode' = "func" => BodiesOf(CurFunc') \subseteq {d'}
    BY <1>2, <2>1
  <2>2. mode \in {"top", "lines", "func"} /\ d \in Nat /\ m \in Nat
    BY <1>1, <1>4, ReadByStep DEF DeclTyped, Begun
  <2>3. ASSUME mode = "func"
        PROVE  EndFunc \/ BlockStart \/ BlockEnd \/ AddLocal
    <3>1. ~ PanicStep
      BY PanicDoes DEF Reads, DeclPanics
    <3>2. ~ (AddSymbol \/ Ignore \/ AddGlobal \/ AddOverlay \/ SetOverlay \/ FinishDecls
             \/ BeginLines \/ NextLine \/ EndLines \/ SkipFunc \/ BeginFunc)
      BY <2>3 DEF AddSymbol, Ignore, AddGlobal, AddOverlay, SetOverlay, FinishDecls, BeginLines,
         NextLine, EndLines, SkipFunc, BeginFunc, AtDecl, AtFuncStart, AtInner
    <3>3. QED
      BY <1>4, <3>1, <3>2, StepCases
  <2>4. ASSUME BeginFunc
        PROVE  mode' = "func" /\ d' = d /\ FuncEnds # {} /\ mode = "top" /\ CurFunc' = BegunFunc
    BY <1>1, <1>2, <2>1, <2>4, CurFuncBegun DEF BeginFunc, AtFuncStart, AtDecl
  <2>5. Reads /\ (mode = "func" => FuncEnds # {})
    <3>1. ASSUME mode = "func" PROVE FuncEnds # {}
      <4>1. CASE EndFunc
        <5>1. InnerPos \in 1 .. Len(syms) /\ syms[InnerPos].body = "FuncEnd" /\ Len(syms) \in Nat
          BY <1>1, <4>1, EndFuncDoes, DeclSymbolProperty DEF DeclTyped, Begun
        <5>2. InnerPos \in d + 1 .. Len(syms)
          BY <2>2, <5>1 DEF InnerPos
        <5>3. QED
          BY <5>1, <5>2 DEF FuncEnds
      <4>2. CASE BlockStart \/ BlockEnd \/ AddLocal
        BY <1>1, <1>2, <2>1, <4>2, CurFuncAfter
      <4>3. QED
        BY <2>3, <3>1, <4>1, <4>2
    <3>2. QED
      BY <2>2, <3>1 DEF Reads
  <2>6. /\ \A o \in DOMAIN overlays : \A x \in DOMAIN overlays[o].funcs :
               OneStart(overlays[o].funcs[x]) /\ Bare(overlays[o].funcs[x])
        /\ mode = "func" => BodiesOf(CurFunc) \subseteq {d}
    BY <2>5 DEF BodiesSoFar, FuncsSoFar
  <2>7. \A x \in DOMAIN Funcs : OneStart(Funcs[x]) /\ Bare(Funcs[x])
    BY <1>1, <2>6
  <2>8. ASSUME NEW o \in DOMAIN overlays', NEW x \in DOMAIN overlays'[o].funcs
        PROVE  OneStart(overlays'[o].funcs[x])
    <3>1. ASSUME NEW fs, FuncsAfter(fs), x \in DOMAIN fs PROVE OneStart(fs[x])
      BY <1>1, <2>4, <2>6, <2>7, <3>1, OneStartAfter
    <3>2. QED
      BY <1>1, <1>4, <2>6, <3>1, FuncsBySteps, Zenon
  <2>9. ASSUME mode' = "func" PROVE BodiesOf(CurFunc') \subseteq {d'}
    <3>1. CASE BeginFunc
      BY <1>1, <2>4, <2>7, <3>1, BegunBodies
    <3>2. CASE BlockStart \/ BlockEnd \/ AddLocal
      <4>1. /\ mode = "func" /\ d' = d /\ InnerPos \in 1 .. Len(syms)
            /\ BlockStart => CurFunc' = BlockFunc
            /\ BlockEnd => CurFunc' = CurFunc
            /\ AddLocal => CurFunc' = LocalFunc
        BY <1>1, <3>2, CurFuncAfter
      <4>2. /\ BodiesOf(BlockFunc) \subseteq {d}
            /\ IsDefn(syms[InnerPos]) => BodiesOf(LocalFunc) \subseteq {d}
        BY <1>1, <2>6, <4>1, BodiesAfter
      <4>3. AddLocal => IsDefn(syms[InnerPos])
        BY <1>1, AddLocalDoes
      <4>4. QED
        BY <2>6, <3>2, <4>1, <4>2, <4>3
    <3>3. CASE ~ BeginFunc /\ ~ (BlockStart \/ BlockEnd \/ AddLocal)
      <4>1. mode # "func" \/ EndFunc
        BY <2>3, <3>3
      <4>2. CASE EndFunc
        BY <1>1, <2>9, <4>2, EndFuncDoes
      <4>3. CASE mode # "func"
        BY <1>1, <1>4, <2>9, <3>3, <4>3, StepCases, PanicDoes, EndFuncDoes DEF AddSymbol, Ignore,
           AddGlobal, AddOverlay, SetOverlay, FinishDecls, BeginLines, NextLine, EndLines, SkipFunc,
           Return, AtDecl, AtFuncStart, AtInner, DeclPanics, inner
      <4>4. QED
        BY <4>1, <4>2, <4>3
    <3>4. QED
      BY <3>1, <3>2, <3>3
  <2>10. QED
    BY <2>8, <2>9
<1>5. QED
  BY <1>3, <1>4 DEF BothNext, allVars

(* findFunc and the FuncStart of a body: a body with a name and an address *)
(* is parsed once, on the first function with them, whatever declarations  *)
(* and bodies the stream repeats.                                          *)
THEOREM EachFunctionHasOneBody == BothSpec => []OneBodyPerFunction
<1>1. BothInit => Standing /\ Scoped /\ FuncsSoFar /\ BodiesSoFar
  <2> SUFFICES ASSUME BothInit PROVE Standing /\ Scoped /\ FuncsSoFar /\ BodiesSoFar
    OBVIOUS
  <2>1. mode = "top" /\ d = 1 /\ overlays = <<EmptyOverlay(0)>>
    BY DEF BothInit, DeclInit
  <2>2. DOMAIN overlays = {1} /\ overlays[1].funcs = <<>>
    BY <2>1 DEF EmptyOverlay
  <2>3. Starts = {}
    <3>1. \A h \in Outside({"FuncStart"}) : h \in Nat /\ h >= 1
      BY StandingInit, OutsideProperty DEF Standing, DeclTyped, Begun
    <3>2. NextPos = 1
      BY <2>1 DEF NextPos
    <3>3. QED
      BY <3>1, <3>2 DEF Starts
  <2>4. \A o \in DOMAIN overlays : DOMAIN overlays[o].funcs = {}
    BY <2>2
  <2>5. FuncsSoFar
    <3>1. \A o : StartKeys(o, Starts) = {}
      BY <2>3 DEF StartKeys
    <3>2. QED
      BY <2>1, <2>3, <2>4, <3>1 DEF FuncsSoFar, OneBody, BodyKeys
  <2>6. BodiesSoFar
    BY <2>1, <2>4 DEF BodiesSoFar
  <2>7. QED
    BY <2>1, <2>5, <2>6, StandingInit DEF Scoped
<1>2. Standing /\ Scoped /\ FuncsSoFar /\ BodiesSoFar /\ [BothNext]_allVars
      => Standing' /\ Scoped' /\ FuncsSoFar' /\ BodiesSoFar'
  <2>1. Standing /\ [BothNext]_allVars => DeclTyped'
    BY DeclTypedStep DEF Standing
  <2>2. QED
    BY <2>1, StandingStep, ScopedStep, FuncsSoFarStep, BodiesSoFarStep DEF Standing
<1>3. Standing /\ FuncsSoFar /\ BodiesSoFar => OneBodyPerFunction
  <2> SUFFICES ASSUME Standing, FuncsSoFar, BodiesSoFar, mode = "end", Lined
               PROVE  /\ \A f \in AllFuncs : OneStart(f)
                      /\ \A o \in DOMAIN overlays :
                           OneBody(overlays[o].funcs) /\ BodyKeys(overlays[o].funcs) = BodyAddrs(o)
    BY Zenon DEF OneBodyPerFunction, OneStart, OneBody, BodyKeys, Lined
  <2>1. Reads /\ mode # "func"
    BY DEF Reads
  <2>2. /\ \A o \in DOMAIN overlays :
             OneBody(overlays[o].funcs) /\ BodyKeys(overlays[o].funcs) = StartKeys(o, Starts)
        /\ \A o \in DOMAIN overlays : \A x \in DOMAIN overlays[o].funcs : OneStart(overlays[o].funcs[x])
    BY <2>1 DEF FuncsSoFar, BodiesSoFar
  <2>3. \A f \in AllFuncs : OneStart(f)
    BY <2>2 DEF AllFuncs
  <2>4. Starts = Outside({"FuncStart"})
    <3>1. d = Len(syms) + 1 /\ NextPos = d /\ Len(syms) \in Nat
      BY DeclSymbolProperty DEF Standing, Place, NextPos, DeclTyped, Begun
    <3>2. Outside({"FuncStart"}) \subseteq 1 .. Len(syms)
      BY <3>1 DEF Outside, Pos
    <3>3. QED
      BY <3>1, <3>2 DEF Starts
  <2>5. \A o : StartKeys(o, Starts) = BodyAddrs(o)
    BY <2>4 DEF StartKeys, BodyAddrs
  <2>6. QED
    BY <2>2, <2>3, <2>5
<1>4. QED
  BY <1>1, <1>2, <1>3, PTL DEF BothSpec

-----------------------------------------------------------------------------
(* DeclsBindDefinitions.  A declaration is bound as a member is, to what   *)
(* is found for its tag now and ever after; and what is found for a tag    *)
(* that the stream defines is one of the scaffolds.                        *)

(* The type that a declaration would have been given of the heap.          *)
Fits(heap, v) ==
  v.ref.to = "tagged" =>
    LET s == syms[v.at] IN
    /\ v.at \in 1 .. Len(syms) /\ s.base \in TaggedBases
    /\ Tagged(heap, KindOfBase(s.base), TagOf(s)) # {}
    /\ v.ref = [to |-> "tagged", id |-> FindType(heap, KindOfBase(s.base), TagOf(s))]

FitFunc(heap, f) ==
  /\ Fits(heap, f)
  /\ \A x \in DOMAIN f.params : Fits(heap, f.params[x])
  /\ \A b \in DOMAIN f.blocks : \A x \in DOMAIN f.blocks[b].locals :
       Fits(heap, f.blocks[b].locals[x])

FitOverlays(heap) ==
  \A o \in DOMAIN overlays : /\ \A x \in DOMAIN overlays[o].vars : Fits(heap, overlays[o].vars[x])
                             /\ \A x \in DOMAIN overlays[o].funcs : FitFunc(heap, overlays[o].funcs[x])

(* The variables of every overlay after a step.                            *)
OldVar(p, e) == p \in DOMAIN overlays /\ \E x \in DOMAIN overlays[p].vars : overlays[p].vars[x] = e
NewVar(e) == AddGlobal /\ ~ Sym.func /\ e = Var(d)

LEMMA VarsWritten ==
  ASSUME DeclTyped, NEW o \in OverlayRecs, Write(o),
         \A x \in DOMAIN o.vars : OldVar(curOverlay, o.vars[x]) \/ NewVar(o.vars[x])
  PROVE  \A p \in DOMAIN overlays' : \A x \in DOMAIN overlays'[p].vars :
           OldVar(p, overlays'[p].vars[x]) \/ NewVar(overlays'[p].vars[x])
<1>1. /\ DOMAIN overlays' = DOMAIN overlays /\ overlays'[curOverlay] = o
      /\ \A x \in DOMAIN overlays : x # curOverlay => overlays'[x] = overlays[x]
  BY WriteProperty, Zenon DEF DeclTyped, DeclTypeOK
<1>2. ASSUME NEW p \in DOMAIN overlays', NEW x \in DOMAIN overlays'[p].vars
      PROVE  OldVar(p, overlays'[p].vars[x]) \/ NewVar(overlays'[p].vars[x])
  <2>1. CASE p = curOverlay
    BY <1>1, <1>2, <2>1
  <2>2. CASE p # curOverlay
    BY <1>1, <1>2, <2>2, Zenon DEF OldVar
  <2>3. QED
    BY <2>1, <2>2
<1>3. QED
  BY <1>2

LEMMA VarsKeptByWrite ==
  ASSUME DeclTyped, NEW o \in OverlayRecs, o.vars = Cur.vars, Write(o)
  PROVE  \A p \in DOMAIN overlays' : \A x \in DOMAIN overlays'[p].vars :
           OldVar(p, overlays'[p].vars[x]) \/ NewVar(overlays'[p].vars[x])
<1>1. curOverlay \in DOMAIN overlays /\ Cur = overlays[curOverlay]
  BY DEF DeclTyped, DeclTypeOK, Cur
<1>2. \A x \in DOMAIN o.vars : OldVar(curOverlay, o.vars[x])
  BY <1>1, Zenon DEF OldVar
<1>3. QED
  BY <1>2, VarsWritten, Zenon

LEMMA VarsAfterStep ==
  ASSUME DeclTyped, ParseDeclsStep
  PROVE  \A p \in DOMAIN overlays' : \A x \in DOMAIN overlays'[p].vars :
           OldVar(p, overlays'[p].vars[x]) \/ NewVar(overlays'[p].vars[x])
<1> DEFINE Goal == \A p \in DOMAIN overlays' : \A x \in DOMAIN overlays'[p].vars :
                     OldVar(p, overlays'[p].vars[x]) \/ NewVar(overlays'[p].vars[x])
<1>0. overlays \in Seq(OverlayRecs) /\ curOverlay \in DOMAIN overlays /\ Cur = overlays[curOverlay]
  BY DEF DeclTyped, DeclTypeOK, Cur
<1>1. Cur \in OverlayRecs
  BY CurTyped
<1>2. ASSUME NEW j \in 1 .. Len(syms), NEW line \in LineRecs, NEW v \in OverlayRecs,
             v.vars = Cur.vars, Write(WithLine(v, j, line))
      PROVE  Goal
  <2>1. WithLine(v, j, line) \in OverlayRecs
    BY <1>2, LineTyped, Zenon
  <2>2. WithLine(v, j, line).vars = v.vars
    <3>1. \A o \in OverlayRecs : WithLine(o, j, line).vars = o.vars
      BY DEF WithLine, OverlayRecs
    <3>2. QED
      BY <1>2, <3>1, Zenon
  <2>3. QED
    BY <1>2, <2>1, <2>2, VarsKeptByWrite, Zenon
<1>3. CASE Ignore \/ SetOverlay \/ FinishDecls \/ EndLines \/ SkipFunc \/ PanicStep
  <2>1. overlays' = overlays
    BY <1>3, PanicDoes DEF Ignore, SetOverlay, FinishDecls, EndLines, SkipFunc, recorded
  <2>2. QED
    BY <2>1, Zenon DEF OldVar
<1>4. CASE AddOverlay
  <2>1. overlays' = Append(overlays, EmptyOverlay(Sym.id))
    BY <1>4 DEF AddOverlay
  <2>2. /\ DOMAIN overlays = 1 .. Len(overlays) /\ DOMAIN overlays' = 1 .. Len(overlays) + 1
        /\ overlays'[Len(overlays) + 1] = EmptyOverlay(Sym.id)
        /\ \A x \in DOMAIN overlays : overlays'[x] = overlays[x]
        /\ Len(overlays) \in Nat
    <3> HIDE DEF OverlayRecs
    <3> DEFINE e == EmptyOverlay(Sym.id)
    <3> HIDE DEF e
    <3>1. overlays' = Append(overlays, e)
      BY <2>1 DEF e
    <3>2. QED
      BY <1>0, <3>1 DEF e
  <2>3. DOMAIN EmptyOverlay(Sym.id).vars = {}
    BY DEF EmptyOverlay
  <2>4. \A p \in DOMAIN overlays' : p \in DOMAIN overlays \/ p = Len(overlays) + 1
    BY <2>2
  <2>5. QED
    BY <2>2, <2>3, <2>4, Zenon DEF OldVar
<1>5. CASE AddSymbol
  <2>1. /\ Write([Cur EXCEPT !.symbols = Append(@, NewSymbol)])
        /\ [Cur EXCEPT !.symbols = Append(@, NewSymbol)] \in OverlayRecs
    BY <1>5, AddSymbolWrites, Zenon
  <2>2. [Cur EXCEPT !.symbols = Append(@, NewSymbol)].vars = Cur.vars
    BY <1>1, ListReplaced, Zenon
  <2>3. QED
    BY <2>1, <2>2, VarsKeptByWrite, Zenon
<1>6. CASE AddGlobal
  <2>1. CASE Sym.func
    <3>1. /\ Write([Cur EXCEPT !.funcs = Append(@, NewFunc)])
          /\ [Cur EXCEPT !.funcs = Append(@, NewFunc)] \in OverlayRecs
      BY <1>6, <2>1, AddGlobalWrites, Zenon
    <3>2. [Cur EXCEPT !.funcs = Append(@, NewFunc)].vars = Cur.vars
      BY <1>1, ListReplaced, Zenon
    <3>3. QED
      BY <3>1, <3>2, VarsKeptByWrite, Zenon
  <2>2. CASE ~ Sym.func
    <3> DEFINE e == Var(d)
               w == Append(Cur.vars, e)
               o == [Cur EXCEPT !.vars = w]
    <3>1. Write(o) /\ o \in OverlayRecs /\ e \in Vars
      BY <1>6, <2>2, AddGlobalWrites, Zenon
    <3>2. o.vars = w /\ Cur.vars \in Seq(Vars)
      BY <1>1, ListReplaced, Zenon
    <3>3. \A x \in DOMAIN w : w[x] = e \/ (x \in DOMAIN Cur.vars /\ w[x] = Cur.vars[x])
      <4> HIDE DEF e
      <4>1. /\ Len(Cur.vars) \in Nat /\ DOMAIN Cur.vars = 1 .. Len(Cur.vars)
            /\ DOMAIN w = 1 .. Len(Cur.vars) + 1
            /\ w[Len(Cur.vars) + 1] = e /\ \A x \in DOMAIN Cur.vars : w[x] = Cur.vars[x]
        BY <3>1, <3>2, OneMore
      <4> HIDE DEF w
      <4>2. \A x \in DOMAIN w : x \in DOMAIN Cur.vars \/ x = Len(Cur.vars) + 1
        BY <4>1
      <4>3. QED
        BY <4>1, <4>2, Zenon
    <3>4. NewVar(e)
      BY <1>6, <2>2 DEF NewVar
    <3> HIDE DEF e, w, o
    <3>5. \A x \in DOMAIN o.vars : OldVar(curOverlay, o.vars[x]) \/ NewVar(o.vars[x])
      BY <1>0, <3>2, <3>3, <3>4, Zenon DEF OldVar
    <3>6. QED
      BY <3>1, <3>5, VarsWritten, Zenon
  <2>3. QED
    BY <2>1, <2>2
<1>8. CASE BeginLines \/ NextLine
  <2>1. \E j \in 1 .. Len(syms) : \E line \in LineRecs : Write(WithLine(Cur, j, line))
    <3>1. CASE BeginLines
      <4>1. d \in 1 .. Len(syms) /\ Sym.body = "SetSLD2" /\ Sym = syms[d]
        BY <3>1, DeclSymbolProperty DEF BeginLines, AtDecl, DeclTyped, Begun, Sym
      <4>2. StartLine \in LineRecs
        BY <4>1, DeclSymbolProperty DEF DeclTyped, Begun, IsDeclSymbol, LineBodies, StartLine,
           LineRecs
      <4>3. AddLine(d, StartLine)
        BY <3>1, Zenon DEF BeginLines, StartLine
      <4>4. QED
        BY <4>1, <4>2, <4>3, Zenon DEF AddLine, Write, Cur
    <3>2. CASE NextLine
      <4>1. InnerPos \in 1 .. Len(syms) /\ syms[InnerPos].body \in SLDBodies
        BY <3>2, DeclSymbolProperty DEF NextLine, AtInner, InnerPos, DeclTyped, Begun
      <4>2. LineAfter(syms[InnerPos]) \in LineRecs
        BY <4>1, LineAfterTyped
      <4>3. AddLine(InnerPos, LineAfter(syms[InnerPos]))
        BY <3>2, Zenon DEF NextLine
      <4>4. QED
        BY <4>1, <4>2, <4>3, Zenon DEF AddLine, Write, Cur
    <3>3. QED
      BY <1>8, <3>1, <3>2
  <2>2. QED
    BY <1>1, <1>2, <2>1, Zenon
<1>9. CASE BeginFunc
  <2>1. /\ d \in 1 .. Len(syms) /\ StartLine \in LineRecs
        /\ Write(BegunOverlay) /\ BegunFuncs \in Seq(FuncRecs)
    BY <1>9, BeginFuncWrites, Zenon
  <2> DEFINE v == [Cur EXCEPT !.funcs = BegunFuncs]
  <2>2. v \in OverlayRecs /\ v.vars = Cur.vars
    BY <1>1, <2>1, OverlayTyped, ListReplaced, Zenon
  <2>3. Write(WithLine(v, d, StartLine))
    BY <2>1, Zenon DEF BegunOverlay
  <2> HIDE DEF v
  <2>5. QED
    BY <1>2, <2>1, <2>2, <2>3, Zenon
<1>10. CASE EndFunc \/ AddLocal
  <2>1. mode = "func" /\ \E f \in FuncRecs : SetFunc(f)
    BY <1>10, EndFuncDoes, AddLocalDoes, Zenon
  <2>2. PICK f \in FuncRecs : SetFunc(f)
    BY <2>1
  <2>3. Write(FuncSet(f)) /\ FuncSet(f) \in OverlayRecs /\ FuncSet(f).vars = Cur.vars
    BY <2>1, <2>2, SetFuncWrites, Zenon
  <2>4. QED
    BY <2>3, VarsKeptByWrite, Zenon
<1>12. CASE BlockStart
  <2>1. /\ BlockFunc \in FuncRecs /\ BlockLine \in LineRecs /\ SetFuncAndLine(BlockFunc, BlockLine)
        /\ InnerPos \in 1 .. Len(syms) /\ mode = "func"
    BY <1>12, BlockStartDoes, Zenon
  <2>2. /\ Write(WithLine(FuncSet(BlockFunc), InnerPos, BlockLine))
        /\ FuncSet(BlockFunc) \in OverlayRecs /\ FuncSet(BlockFunc).vars = Cur.vars
    BY <2>1, SetFuncWrites, Zenon
  <2>4. QED
    BY <1>2, <2>1, <2>2, Zenon
<1>13. CASE BlockEnd
  <2>1. BlockLine \in LineRecs /\ AddLine(InnerPos, BlockLine) /\ InnerPos \in 1 .. Len(syms)
    BY <1>13, BlockEndDoes, Zenon
  <2>2. Write(WithLine(Cur, InnerPos, BlockLine))
    BY <2>1, Zenon DEF AddLine, Write, Cur
  <2>4. QED
    BY <1>1, <1>2, <2>1, <2>2, Zenon
<1>14. QED
  BY StepCases, <1>3, <1>4, <1>5, <1>6, <1>8, <1>9, <1>10, <1>12, <1>13, Zenon

LEMMA FitsAlso ==
  ASSUME NEW heap, NEW f, NEW g, Fits(heap, g), f.at = g.at, f.ref = g.ref
  PROVE  Fits(heap, f)
<1>1. syms[f.at] = syms[g.at] /\ f.ref.to = g.ref.to
  OBVIOUS
<1>2. TagOf(syms[f.at]) = TagOf(syms[g.at])
  BY <1>1
<1> QED
  BY <1>1, <1>2, Zenon DEF Fits

(* The functions of the current overlay after a step fit a heap that those *)
(* before it fit, and the declaration that the step makes.                 *)
LEMMA FitFuncs ==
  ASSUME DeclTyped, NEW heap, \A y \in DOMAIN Funcs : FitFunc(heap, Funcs[y]),
         AddGlobal => Fits(heap, NewFunc), AddLocal => Fits(heap, Var(InnerPos)),
         NEW fs, FuncsAfter(fs), NEW x \in DOMAIN fs
  PROVE  FitFunc(heap, fs[x])
<1>1. Funcs \in Seq(FuncRecs) /\ \A y \in DOMAIN Funcs : FitFunc(heap, Funcs[y])
  BY CurTyped DEF DeclTyped, DeclTypeOK
<1>2. ASSUME NEW f, f.params = <<>>, f.blocks = <<>>, Fits(heap, f) PROVE FitFunc(heap, f)
  BY <1>2 DEF FitFunc
<1>3. ASSUME NEW f, NEW g, FitFunc(heap, g), f.at = g.at, f.ref = g.ref,
             f.params = g.params, f.blocks = g.blocks
      PROVE  FitFunc(heap, f)
  <2>1. Fits(heap, f)
    BY <1>3, FitsAlso, Zenon DEF FitFunc
  <2> QED
    BY <1>3, <2>1 DEF FitFunc
<1>4. ASSUME AddGlobal, Sym.func, fs = Append(Funcs, NewFunc) PROVE FitFunc(heap, fs[x])
  <2>1. NewFunc \in FuncRecs /\ NewFunc.params = <<>> /\ NewFunc.blocks = <<>>
    BY <1>4, AddGlobalWrites DEF NewFunc, Func
  <2>2. FitFunc(heap, NewFunc)
    BY <1>2, <1>4, <2>1
  <2>3. x \in DOMAIN Funcs \/ fs[x] = NewFunc
    <3>1. DOMAIN fs = 1 .. Len(Funcs) + 1 /\ fs[Len(Funcs) + 1] = NewFunc
          /\ DOMAIN Funcs = 1 .. Len(Funcs) /\ Len(Funcs) \in Nat
      BY <1>1, <1>4, <2>1, OneMore
    <3> QED
      BY <3>1
  <2>4. x \in DOMAIN Funcs => fs[x] = Funcs[x]
    BY <1>1, <1>4, <2>1, OneMore
  <2> QED
    BY <1>1, <2>2, <2>3, <2>4, Zenon
<1>5. ASSUME BeginFunc, fs = BegunFuncs PROVE FitFunc(heap, fs[x])
  <2>1. /\ d \in 1 .. Len(syms) /\ Sym.body = "FuncStart"
        /\ DOMAIN BegunFuncs = DOMAIN FuncsAfterFind
        /\ BegunFuncs[FindFunc] = BegunFunc
        /\ \A y \in DOMAIN FuncsAfterFind : y # FindFunc => BegunFuncs[y] = FuncsAfterFind[y]
    BY <1>5, BeginFuncWrites, Zenon
  <2>2. /\ DOMAIN FuncsAfterFind = 1 .. Len(FuncsAfterFind) /\ DOMAIN Funcs = 1 .. Len(Funcs)
        /\ FindFunc \in DOMAIN FuncsAfterFind /\ FuncsAfterFind[FindFunc] \in FuncRecs
        /\ \A y \in DOMAIN Funcs : FuncsAfterFind[y] = Funcs[y]
        /\ \/ FuncsAfterFind = Funcs
           \/ /\ Len(FuncsAfterFind) = Len(Funcs) + 1 /\ FindFunc = Len(Funcs) + 1
              /\ FuncsAfterFind[FindFunc] = EmptyFunc
    <3>1. DOMAIN Funcs = 1 .. Len(Funcs)
      BY <1>1
    <3> QED
      BY <2>1, <3>1, FindFuncProperty, Zenon
  <2>3. FitFunc(heap, EmptyFunc)
    <3>1. EmptyFunc.params = <<>> /\ EmptyFunc.blocks = <<>> /\ EmptyFunc.ref.to = "basic"
      BY DEF EmptyFunc, Func
    <3>2. Fits(heap, EmptyFunc)
      BY <3>1 DEF Fits
    <3> QED
      BY <1>2, <3>1, <3>2, Zenon
  <2>4. \A y \in DOMAIN FuncsAfterFind : FitFunc(heap, FuncsAfterFind[y])
    <3>1. CASE FuncsAfterFind = Funcs
      BY <1>1, <3>1
    <3>2. CASE /\ Len(FuncsAfterFind) = Len(Funcs) + 1 /\ FindFunc = Len(Funcs) + 1
               /\ FuncsAfterFind[FindFunc] = EmptyFunc
      <4>1. \A y \in DOMAIN FuncsAfterFind : y \in DOMAIN Funcs \/ y = FindFunc
        BY <1>1, <2>2, <3>2
      <4> QED
        BY <1>1, <2>2, <2>3, <3>2, <4>1, Zenon
    <3> QED
      BY <2>2, <3>1, <3>2, Zenon
  <2>5. /\ BegunFunc.params = FuncsAfterFind[FindFunc].params
        /\ BegunFunc.blocks = FuncsAfterFind[FindFunc].blocks
        /\ BegunFunc.at = FuncsAfterFind[FindFunc].at
        /\ BegunFunc.ref = FuncsAfterFind[FindFunc].ref
    <3> DEFINE g == FuncsAfterFind[FindFunc]
               p == Sym.path
               l == Sym.line
    <3>1. g \in FuncRecs /\ BegunFunc = [[g EXCEPT !.path = p] EXCEPT !.lineStart = l]
      BY <2>2, Zenon DEF BegunFunc
    <3> HIDE DEF g, p, l
    <3>2. /\ BegunFunc.params = g.params /\ BegunFunc.blocks = g.blocks
          /\ BegunFunc.at = g.at /\ BegunFunc.ref = g.ref
      BY <3>1 DEF FuncRecs
    <3> QED
      BY <3>2 DEF g
  <2>6. FitFunc(heap, BegunFunc)
    BY <1>3, <2>2, <2>4, <2>5, Zenon
  <2>7. CASE x = FindFunc
    BY <1>5, <2>1, <2>6, <2>7, Zenon
  <2>8. CASE x # FindFunc
    BY <1>5, <2>1, <2>4, <2>8
  <2> QED
    BY <2>7, <2>8
<1>6. ASSUME mode = "func", NEW f, FitFunc(heap, f), fs = [Funcs EXCEPT ![fn] = f]
      PROVE  FitFunc(heap, fs[x])
  BY <1>1, <1>6
<1>7. ASSUME mode = "func" PROVE FitFunc(heap, CurFunc)
  BY <1>1, <1>7, FuncChanges
<1>8. ASSUME EndFunc, fs = [Funcs EXCEPT ![fn] = EndedFunc] PROVE FitFunc(heap, fs[x])
  <2>1. mode = "func"
    BY <1>8, EndFuncDoes, Zenon
  <2>2. /\ EndedFunc.at = CurFunc.at /\ EndedFunc.ref = CurFunc.ref
        /\ EndedFunc.params = CurFunc.params /\ EndedFunc.blocks = CurFunc.blocks
    BY <2>1, FuncChanges, Zenon DEF Same
  <2>3. FitFunc(heap, EndedFunc)
    BY <1>3, <1>7, <2>1, <2>2, Zenon
  <2> QED
    BY <1>6, <1>8, <2>1, <2>3
<1>9. ASSUME BlockStart, fs = [Funcs EXCEPT ![fn] = BlockFunc] PROVE FitFunc(heap, fs[x])
  <2>1. mode = "func" /\ InnerPos \in Nat
    BY <1>9, BlockStartDoes
  <2> DEFINE b == Block(InnerPos)
  <2>2. /\ BlockFunc.params = CurFunc.params /\ BlockFunc.blocks = Append(CurFunc.blocks, b)
        /\ BlockFunc.at = CurFunc.at /\ BlockFunc.ref = CurFunc.ref
    BY <2>1, FuncChanges, Zenon DEF Same
  <2>3. b.locals = <<>> /\ b \in BlockRecs
    BY <2>1 DEF Block, BlockRecs
  <2>4. CurFunc.blocks \in Seq(BlockRecs)
    BY <2>1, BlocksOfCur
  <2> HIDE DEF b
  <2>5. \A y \in DOMAIN BlockFunc.blocks :
          \/ BlockFunc.blocks[y] = b
          \/ y \in DOMAIN CurFunc.blocks /\ BlockFunc.blocks[y] = CurFunc.blocks[y]
    <3> DEFINE cs == CurFunc.blocks
    <3>1. cs \in Seq(BlockRecs) /\ BlockFunc.blocks = Append(cs, b)
      BY <2>2, <2>4
    <3> HIDE DEF cs
    <3>2. /\ DOMAIN cs = 1 .. Len(cs) /\ DOMAIN Append(cs, b) = 1 .. Len(cs) + 1 /\ Len(cs) \in Nat
          /\ Append(cs, b)[Len(cs) + 1] = b /\ \A y \in DOMAIN cs : Append(cs, b)[y] = cs[y]
      BY <2>3, <3>1, OneMore
    <3>3. \A y \in DOMAIN Append(cs, b) : y \in DOMAIN cs \/ y = Len(cs) + 1
      BY <3>2
    <3> QED
      BY <3>1, <3>2, <3>3, Zenon DEF cs
  <2>6. FitFunc(heap, BlockFunc)
    <3>1. FitFunc(heap, CurFunc)
      BY <1>7, <2>1
    <3>2. Fits(heap, BlockFunc)
      BY <2>2, <3>1, FitsAlso, Zenon DEF FitFunc
    <3>3. DOMAIN b.locals = {}
      BY <2>3
    <3> QED
      BY <2>2, <2>5, <3>1, <3>2, <3>3, Zenon DEF FitFunc
  <2> QED
    BY <1>6, <1>9, <2>1, <2>6
<1>10. ASSUME AddLocal, fs = [Funcs EXCEPT ![fn] = LocalFunc] PROVE FitFunc(heap, fs[x])
  <2> DEFINE v == Var(InnerPos)
  <2>1. mode = "func" /\ InnerPos \in 1 .. Len(syms) /\ IsDefn(syms[InnerPos])
    BY <1>10, AddLocalDoes, Zenon
  <2>2. v \in Vars /\ CurFunc \in FuncRecs /\ FitFunc(heap, CurFunc) /\ Fits(heap, v)
    BY <1>7, <1>10, <2>1, VarTyped, CurTyped
  <2>3. LocalFunc.at = CurFunc.at /\ LocalFunc.ref = CurFunc.ref
    BY <2>1, FuncChanges, Zenon DEF Same
  <2>4. Fits(heap, LocalFunc)
    BY <2>2, <2>3, FitsAlso, Zenon DEF FitFunc
  <2> HIDE DEF v
  <2>5. CASE curBlock = None
    <3>1. LocalFunc.params = AddedTo(CurFunc.params, v) /\ LocalFunc.blocks = CurFunc.blocks
      BY <2>1, <2>5, FuncChanges, Zenon DEF v
    <3>2. CurFunc.params \in Seq(Vars)
      BY <2>2, FuncParts
    <3>3. \A y \in DOMAIN AddedTo(CurFunc.params, v) :
            \/ y \in DOMAIN CurFunc.params /\ AddedTo(CurFunc.params, v)[y] = CurFunc.params[y]
            \/ AddedTo(CurFunc.params, v)[y] = v
      BY <2>2, <3>2, AddedToProperty, Zenon
    <3>4. FitFunc(heap, LocalFunc)
      BY <2>2, <2>4, <3>1, <3>3, Zenon DEF FitFunc
    <3> QED
      BY <1>6, <1>10, <2>1, <3>4
  <2>6. CASE curBlock # None
    <3> DEFINE c == CurFunc.blocks[curBlock]
               l == AddedTo(c.locals, v)
               e == [c EXCEPT !.locals = l]
    <3>1. /\ LocalFunc.params = CurFunc.params /\ curBlock \in DOMAIN CurFunc.blocks
          /\ LocalFunc.blocks = [CurFunc.blocks EXCEPT ![curBlock] = e]
      BY <2>1, <2>6, FuncChanges, Zenon DEF v
    <3>2. c \in BlockRecs /\ c.locals \in Seq(Vars)
      BY <2>2, <3>1, FuncParts, Zenon
    <3>3. \A y \in DOMAIN l : (y \in DOMAIN c.locals /\ l[y] = c.locals[y]) \/ l[y] = v
      BY <2>2, <3>2, AddedToProperty, Zenon
    <3>4. e.locals = l
      <4> HIDE DEF c, l
      <4> QED
        BY <3>2 DEF BlockRecs
    <3>5. \A y \in DOMAIN c.locals : Fits(heap, c.locals[y])
      BY <2>2, <3>1, Zenon DEF FitFunc
    <3>6. \A y \in DOMAIN e.locals : Fits(heap, e.locals[y])
      <4> HIDE DEF e, l, c
      <4> QED
        BY <2>2, <3>3, <3>4, <3>5, Zenon
    <3>7. /\ DOMAIN LocalFunc.blocks = DOMAIN CurFunc.blocks /\ LocalFunc.blocks[curBlock] = e
          /\ \A y \in DOMAIN CurFunc.blocks :
               y # curBlock => LocalFunc.blocks[y] = CurFunc.blocks[y]
      <4> HIDE DEF e
      <4> QED
        BY <3>1
    <3> HIDE DEF e, l, c
    <3>8. FitFunc(heap, LocalFunc)
      BY <2>2, <2>4, <3>1, <3>6, <3>7, Zenon DEF FitFunc
    <3> QED
      BY <1>6, <1>10, <2>1, <3>8
  <2> QED
    BY <2>5, <2>6
<1>11. QED
  BY <1>1, <1>4, <1>5, <1>8, <1>9, <1>10, Zenon DEF FuncsAfter

(* What a step does to the heap: its objects keep kinds and tags, and      *)
(* there may be an object for the type of a symbol.                        *)
SameTags(heap) ==
  /\ DOMAIN types' = DOMAIN heap
  /\ \A t \in DOMAIN heap : types'[t].kind = heap[t].kind /\ types'[t].tag = heap[t].tag

HeapGrows == \/ SameTags(types)
             \/ \E s : IsSymbol(s) /\ IsDefn(s) /\ SameTags(TypesAfter(s))

LEMMA TypesGrow ==
  ASSUME Typed, [Next]_vars
  PROVE  InitTaggedTypes \/ HeapGrows
<1>1. CASE UNCHANGED vars
  BY <1>1 DEF vars, made, HeapGrows, SameTags
<1>2. CASE ParseTypedef
  <2>1. IsSymbol(syms[i]) /\ IsDefn(syms[i]) /\ types' = TypesAfter(syms[i])
    BY <1>2, ParseTypedefDoes
  <2>2. SameTags(TypesAfter(syms[i]))
    BY <2>1 DEF SameTags
  <2> QED
    BY <2>1, <2>2 DEF HeapGrows
<1>3. CASE AddField \/ AddMethod
  <2>1. /\ IsSymbol(Here) /\ IsDefn(Here) /\ cur \in DOMAIN types
        /\ DOMAIN types' = DOMAIN TypesAfter(Here)
        /\ \A t \in DOMAIN types' : t # cur => types'[t] = TypesAfter(Here)[t]
        /\ \/ types'[cur] = [types[cur] EXCEPT !.fields = Append(@, NewMember)]
           \/ types'[cur] = [types[cur] EXCEPT !.methods = Append(@, NewMember)]
    BY <1>3, AddMemberDoes
  <2>2. types'[cur].kind = types[cur].kind /\ types'[cur].tag = types[cur].tag
    <3> HIDE DEF NewMember
    <3>1. CASE types'[cur] = [types[cur] EXCEPT !.fields = Append(@, NewMember)]
      BY <2>1, <3>1, MembersAfter
    <3>2. CASE types'[cur] = [types[cur] EXCEPT !.methods = Append(@, NewMember)]
      BY <2>1, <3>2, MembersAfter
    <3> QED
      BY <2>1, <3>1, <3>2
  <2>3. TypesAfter(Here)[cur] = types[cur]
    BY <2>1, ParseTypeProperty
  <2>4. SameTags(TypesAfter(Here))
    BY <2>1, <2>2, <2>3 DEF SameTags
  <2> QED
    BY <2>1, <2>4 DEF HeapGrows
<1>4. CASE AddEnumMember
  <2>1. /\ cur \in DOMAIN types /\ DOMAIN types' = DOMAIN types
        /\ \A t \in DOMAIN types' : t # cur => types'[t] = types[t]
        /\ types'[cur] = [types[cur] EXCEPT !.fields = Append(@, NewEnumMember)]
    BY <1>4, AddEnumMemberDoes
  <2> HIDE DEF NewEnumMember
  <2>2. types'[cur].kind = types[cur].kind /\ types'[cur].tag = types[cur].tag
    BY <2>1, MembersAfter
  <2> QED
    BY <2>1, <2>2 DEF HeapGrows, SameTags
<1>5. CASE UNCHANGED <<syms, made>>
  BY <1>5 DEF made, HeapGrows, SameTags
<1> QED
  BY <1>1, <1>2, <1>3, <1>4, <1>5, StepKinds

(* ParseDecls makes the types of the definitions it adds.                  *)
LEMMA DeclsGrow ==
  ASSUME DeclTyped, ParseDeclsStep
  PROVE  /\ syms' = syms /\ typedefs' = typedefs /\ pc = "done" /\ pc' = "done" /\ HeapGrows
         /\ AddGlobal => /\ d \in 1 .. Len(syms) /\ IsSymbol(Sym) /\ IsDefn(Sym)
                         /\ types' = TypesAfter(Sym)
         /\ AddLocal => /\ InnerPos \in 1 .. Len(syms) /\ IsSymbol(syms[InnerPos])
                        /\ IsDefn(syms[InnerPos]) /\ types' = TypesAfter(syms[InnerPos])
         /\ \A t \in DOMAIN types' : \/ t \in DOMAIN types /\ types'[t] = types[t]
                                     \/ types'[t].fields = <<>> /\ types'[t].methods = <<>>
<1>1. syms' = syms /\ typedefs' = typedefs /\ pc = "done" /\ pc' = "done"
  BY DeclsAfterTypes DEF DeclTyped, ParseDeclsStep, UnchangedPass1
<1>2. ASSUME AddGlobal PROVE /\ d \in 1 .. Len(syms) /\ IsSymbol(Sym) /\ IsDefn(Sym)
                             /\ types' = TypesAfter(Sym)
  <2>1. d \in 1 .. Len(syms) /\ IsDefn(Sym)
    BY <1>2, AddGlobalWrites
  <2>2. IsSymbol(Sym)
    BY <2>1, DeclSymbolProperty DEF DeclTyped, Begun, Sym
  <2> QED
    BY <1>2, <2>1, <2>2 DEF AddGlobal, MakeType
<1>3. ASSUME AddLocal PROVE /\ InnerPos \in 1 .. Len(syms) /\ IsSymbol(syms[InnerPos])
                            /\ IsDefn(syms[InnerPos]) /\ types' = TypesAfter(syms[InnerPos])
  BY <1>3, AddLocalDoes DEF MakeType
<1>4. AddGlobal \/ AddLocal \/ types' = types
  BY StepCases, PanicDoes DEF AddSymbol, Ignore, AddOverlay, SetOverlay, FinishDecls, BeginLines,
     NextLine, EndLines, SkipFunc, BeginFunc, EndFunc, BlockStart, BlockEnd, UnchangedTypes, Return
<1>5. \A s : types' = TypesAfter(s) => SameTags(TypesAfter(s))
  BY DEF SameTags
<1>6. HeapGrows
  BY <1>2, <1>3, <1>4, <1>5 DEF HeapGrows, SameTags
<1>7. \A t \in DOMAIN types' : \/ t \in DOMAIN types /\ types'[t] = types[t]
                               \/ types'[t].fields = <<>> /\ types'[t].methods = <<>>
  BY <1>2, <1>3, <1>4, NewObjectsEmpty DEF DeclTyped, Begun
<1> QED
  BY <1>1, <1>2, <1>3, <1>6, <1>7

(* What fits the heap fits it ever after, and so does what is given the    *)
(* type of a symbol when it is parsed.                                     *)
LEMMA FitsEverAfter ==
  ASSUME Typed, HeapGrows, NEW v, Fits(types, v)
  PROVE  Fits(types', v)
<1>1. CASE SameTags(types)
  <2>1. \A kind, tag : Tagged(types', kind, tag) = Tagged(types, kind, tag)
    BY <1>1 DEF SameTags, Tagged
  <2>2. \A kind, tag : FindType(types', kind, tag) = FindType(types, kind, tag)
    BY <2>1 DEF FindType
  <2> QED
    BY <2>1, <2>2, Zenon DEF Fits
<1>2. ASSUME NEW s, IsSymbol(s), IsDefn(s), SameTags(TypesAfter(s)) PROVE Fits(types', v)
  <2>1. /\ DOMAIN types' = DOMAIN TypesAfter(s)
        /\ \A t \in DOMAIN types' : /\ types'[t].kind = TypesAfter(s)[t].kind
                                    /\ types'[t].tag = TypesAfter(s)[t].tag
    BY <1>2 DEF SameTags
  <2>2. \A kind, tag : Tagged(types, kind, tag) # {} =>
          /\ Tagged(types', kind, tag) = Tagged(types, kind, tag)
          /\ FindType(types', kind, tag) = FindType(types, kind, tag)
    BY <1>2, <2>1, FoundEverAfter
  <2> QED
    BY <2>2, Zenon DEF Fits
<1> QED
  BY <1>1, <1>2 DEF HeapGrows

LEMMA NewFits ==
  ASSUME Typed, NEW v, v.at \in 1 .. Len(syms), IsSymbol(syms[v.at]), IsDefn(syms[v.at]),
         types' = TypesAfter(syms[v.at]), v.ref = TypeRef(syms[v.at])
  PROVE  Fits(types', v)
<1> DEFINE s == syms[v.at]
<1>1. /\ s.base \in TaggedBases =>
           /\ Tagged(types', KindOfBase(s.base), TagOf(s)) # {}
           /\ TypeRef(s) = [to |-> "tagged",
                            id |-> FindType(types', KindOfBase(s.base), TagOf(s))]
      /\ TypeRef(s).to = "tagged" => s.base \in TaggedBases
  <2>1. IsSymbol(s) /\ IsDefn(s) /\ types' = TypesAfter(s)
    OBVIOUS
  <2> HIDE DEF s
  <2> QED
    BY <2>1, FoundEverAfter
<1> QED
  BY <1>1 DEF Fits

(* The scaffolds keep their kinds and tags, and no other object is made    *)
(* with those of a scaffold.                                               *)
Defines(j, kind, tag) == KindOf(syms[j].class) = kind /\ ValidName[syms[j].name] = tag

HeapOrigin ==
  pc # "init" =>
    /\ \A j \in Scaffolds : j \in DOMAIN types /\ Defines(j, types[j].kind, types[j].tag)
    /\ \A t \in DOMAIN types \ ({0} \cup Scaffolds) :
         \A j \in Scaffolds : ~ Defines(j, types[t].kind, types[t].tag)

LEMMA HeapOriginKept ==
  ASSUME Typed, HeapGrows, syms' = syms, pc # "init", HeapOrigin
  PROVE  HeapOrigin'
<1>1. Scaffolds' = Scaffolds /\ \A j, kind, tag : Defines(j, kind, tag)' <=> Defines(j, kind, tag)
  BY DEF Scaffolds, Defines
<1>2. /\ \A j \in Scaffolds : j \in DOMAIN types /\ Defines(j, types[j].kind, types[j].tag)
      /\ \A t \in DOMAIN types \ ({0} \cup Scaffolds) :
           \A j \in Scaffolds : ~ Defines(j, types[t].kind, types[t].tag)
  BY DEF HeapOrigin
<1>3. SUFFICES /\ \A j \in Scaffolds : j \in DOMAIN types' /\ Defines(j, types'[j].kind, types'[j].tag)
               /\ \A t \in DOMAIN types' \ ({0} \cup Scaffolds) :
                    \A j \in Scaffolds : ~ Defines(j, types'[t].kind, types'[t].tag)
  <2>1. HeapOrigin' <=>
          (pc' # "init" =>
            /\ \A j \in Scaffolds : j \in DOMAIN types' /\ Defines(j, types'[j].kind, types'[j].tag)
            /\ \A t \in DOMAIN types' \ ({0} \cup Scaffolds) :
                 \A j \in Scaffolds : ~ Defines(j, types'[t].kind, types'[t].tag))
    BY <1>1 DEF HeapOrigin, Defines
  <2> QED
    BY <1>3, <2>1
<1>4. CASE SameTags(types)
  BY <1>2, <1>4, Zenon DEF SameTags
<1>5. ASSUME NEW s, IsSymbol(s), IsDefn(s), SameTags(TypesAfter(s)), MakesType(s)
      PROVE  /\ \A j \in Scaffolds : j \in DOMAIN types' /\ Defines(j, types'[j].kind, types'[j].tag)
             /\ \A t \in DOMAIN types' \ ({0} \cup Scaffolds) :
                  \A j \in Scaffolds : ~ Defines(j, types'[t].kind, types'[t].tag)
  <2> DEFINE kind == KindOfBase(s.base)
             tag == TagOf(s)
  <2>1. fresh \notin DOMAIN types
    BY DEF Typed, TypeOK, Ids
  <2>2. FindType(types, kind, tag) = None
    BY <1>5 DEF MakesType
  <2>3. /\ DOMAIN types' = DOMAIN types \cup {fresh}
        /\ types'[fresh].kind = kind /\ types'[fresh].tag = tag
        /\ \A t \in DOMAIN types : types'[t].kind = types[t].kind /\ types'[t].tag = types[t].tag
    BY <1>5, <2>1 DEF SameTags, TypesAfter, EmptyType
  <2> HIDE DEF kind, tag
  <2>4. Tagged(types, kind, tag) = {}
    BY <2>2, FoundIsTagged
  <2>5. \A j \in Scaffolds : ~ Defines(j, kind, tag)
    <3> SUFFICES ASSUME NEW j \in Scaffolds, Defines(j, kind, tag) PROVE FALSE
      OBVIOUS
    <3>1. types[j].kind = kind /\ types[j].tag = tag /\ j \in DOMAIN types
      BY <1>2 DEF Defines
    <3> QED
      BY <2>4, <3>1 DEF Tagged
  <2> QED
    BY <1>2, <2>1, <2>3, <2>5, Zenon
<1>6. ASSUME NEW s, SameTags(TypesAfter(s)), ~ MakesType(s) PROVE SameTags(types)
  BY <1>6 DEF TypesAfter
<1> QED
  BY <1>4, <1>5, <1>6 DEF HeapGrows

LEMMA HeapOriginBegins ==
  ASSUME Typed, InitTaggedTypes
  PROVE  HeapOrigin'
<1>1. 0 \notin Scaffolds
  BY SymbolProperty DEF Typed, Scaffolds
<1>2. /\ syms' = syms /\ DOMAIN types' = {0} \cup Scaffolds
      /\ \A t \in Scaffolds : /\ types'[t].kind = KindOf(syms[t].class)
                              /\ types'[t].tag = ValidName[syms[t].name]
  BY <1>1 DEF InitTaggedTypes, EmptyType
<1>3. Scaffolds' = Scaffolds
  BY <1>2 DEF Scaffolds
<1>4. /\ \A j \in Scaffolds' : j \in DOMAIN types' /\ Defines(j, types'[j].kind, types'[j].tag)
      /\ DOMAIN types' \ ({0} \cup Scaffolds') = {}
  BY <1>2, <1>3 DEF Defines
<1>5. HeapOrigin' <=>
        (pc' # "init" =>
          /\ \A j \in Scaffolds' : j \in DOMAIN types' /\ Defines(j, types'[j].kind, types'[j].tag)
          /\ \A t \in DOMAIN types' \ ({0} \cup Scaffolds') :
               \A j \in Scaffolds' : ~ Defines(j, types'[t].kind, types'[t].tag))
  <2>1. syms' = syms
    BY <1>2
  <2> QED
    BY <2>1 DEF HeapOrigin, Defines
<1> QED
  BY <1>4, <1>5

(* The uses of tagged types and the declarations after a step of           *)
(* ParseDecls, and after one of ParseTypes.                                *)
HeapInv == DeclTyped /\ Place /\ Nothing /\ UsesBound /\ FitOverlays(types) /\ HeapOrigin

LEMMA UsesFit == ASSUME NEW use, use.ref.to = "tagged" PROVE Bound(use) <=> Fits(types, use)
BY DEF Bound, Fits

LEMMA FitOverlaysStep ==
  ASSUME DeclTyped, Place, FitOverlays(types), ParseDeclsStep
  PROVE  FitOverlays(types)'
<1>1. /\ syms' = syms /\ HeapGrows
      /\ AddGlobal => /\ d \in 1 .. Len(syms) /\ IsSymbol(Sym) /\ IsDefn(Sym)
                      /\ types' = TypesAfter(Sym)
      /\ AddLocal => /\ InnerPos \in 1 .. Len(syms) /\ IsSymbol(syms[InnerPos])
                     /\ IsDefn(syms[InnerPos]) /\ types' = TypesAfter(syms[InnerPos])
  BY DeclsGrow
<1> DEFINE heap == types'
<1>2. \A v : Fits(types, v) => Fits(heap, v)
  BY <1>1, FitsEverAfter DEF DeclTyped, Begun
<1>3. AddGlobal => Fits(heap, NewFunc) /\ Fits(heap, Var(d))
  <2>1. NewFunc.at = d /\ NewFunc.ref = TypeRef(Sym) /\ Var(d).at = d /\ Var(d).ref = TypeRef(Sym)
    BY DEF NewFunc, Func, Var, Sym
  <2> QED
    BY <1>1, <2>1, NewFits DEF DeclTyped, Begun, Sym
<1>4. AddLocal => Fits(heap, Var(InnerPos))
  <2>1. Var(InnerPos).at = InnerPos /\ Var(InnerPos).ref = TypeRef(syms[InnerPos])
    BY DEF Var
  <2> QED
    BY <1>1, <2>1, NewFits DEF DeclTyped, Begun
<1> HIDE DEF heap
<1>5. \A f : FitFunc(types, f) => FitFunc(heap, f)
  BY <1>2, Zenon DEF FitFunc
<1>6. ASSUME NEW o \in DOMAIN overlays', NEW x \in DOMAIN overlays'[o].vars
      PROVE  Fits(heap, overlays'[o].vars[x])
  <2>1. OldVar(o, overlays'[o].vars[x]) \/ NewVar(overlays'[o].vars[x])
    BY VarsAfterStep
  <2>2. \A p \in DOMAIN overlays : \A y \in DOMAIN overlays[p].vars : Fits(heap, overlays[p].vars[y])
    BY <1>2, Zenon DEF FitOverlays
  <2> QED
    BY <1>3, <2>1, <2>2, Zenon DEF OldVar, NewVar
<1>7. ASSUME NEW o \in DOMAIN overlays', NEW x \in DOMAIN overlays'[o].funcs
      PROVE  FitFunc(heap, overlays'[o].funcs[x])
  <2>1. \A p \in DOMAIN overlays : \A y \in DOMAIN overlays[p].funcs : FitFunc(heap, overlays[p].funcs[y])
    BY <1>5, Zenon DEF FitOverlays
  <2>2. \A y \in DOMAIN Funcs : FitFunc(heap, Funcs[y])
    BY <2>1 DEF DeclTyped, DeclTypeOK, Funcs
  <2>3. \A fs : FuncsAfter(fs) => \A y \in DOMAIN fs : FitFunc(heap, fs[y])
    BY <1>3, <1>4, <2>2, FitFuncs, Zenon
  <2>4. \/ /\ o \in DOMAIN overlays /\ x \in DOMAIN overlays[o].funcs
           /\ overlays'[o].funcs[x] = overlays[o].funcs[x]
        \/ \E fs : FuncsAfter(fs) /\ x \in DOMAIN fs /\ overlays'[o].funcs[x] = fs[x]
    BY FuncsBySteps
  <2> QED
    BY <2>1, <2>3, <2>4, Zenon
<1>8. \A v : Fits(types, v)' <=> Fits(heap, v)
  <2>1. syms' = syms
    BY <1>1
  <2>2. \A s : TagOf(s)' = TagOf(s)
    BY DEF TagOf
  <2> QED
    BY <2>1, <2>2, Zenon DEF Fits, heap
<1>9. \A f : FitFunc(types, f)' <=> FitFunc(heap, f)
  BY <1>8, Zenon DEF FitFunc
<1> QED
  BY <1>6, <1>7, <1>8, <1>9, Zenon DEF FitOverlays

LEMMA HeapInvDecls ==
  ASSUME HeapInv, ParseDeclsStep
  PROVE  Nothing' /\ UsesBound' /\ FitOverlays(types)' /\ HeapOrigin'
<1>1. /\ syms' = syms /\ typedefs' = typedefs /\ pc = "done" /\ pc' = "done" /\ HeapGrows
      /\ \A t \in DOMAIN types' : \/ t \in DOMAIN types /\ types'[t] = types[t]
                                  \/ types'[t].fields = <<>> /\ types'[t].methods = <<>>
  BY DeclsGrow DEF HeapInv
<1>2. Nothing'
  BY <1>1 DEF Nothing
<1>3. UsesBound'
  <2> DEFINE none == [ref |-> [to |-> "basic"]]
  <2> SUFFICES ASSUME NEW use \in Uses' PROVE Bound(use)'
    BY DEF UsesBound
  <2>1. none.ref.to # "tagged"
    OBVIOUS
  <2> HIDE DEF none
  <2>2. \A t \in DOMAIN types' :
          \/ t \in DOMAIN types /\ MembersIn(types'[t]) \subseteq MembersIn(types[t]) \cup {none}
          \/ MembersIn(types'[t]) = {}
    <3> SUFFICES ASSUME NEW t \in DOMAIN types'
                 PROVE  \/ t \in DOMAIN types /\ MembersIn(types'[t]) \subseteq MembersIn(types[t]) \cup {none}
                        \/ MembersIn(types'[t]) = {}
      OBVIOUS
    <3>1. CASE t \in DOMAIN types /\ types'[t] = types[t]
      BY <3>1
    <3>2. CASE types'[t].fields = <<>> /\ types'[t].methods = <<>>
      BY <3>2 DEF MembersIn
    <3> QED
      BY <1>1, <3>1, <3>2
  <2>3. \A l \in DOMAIN typedefs' : typedefs'[l] = none \/ \E j \in DOMAIN typedefs : typedefs'[l] = typedefs[j]
    BY <1>1
  <2>4. (use \in Uses \/ use = none) /\ use.ref.to = "tagged"
    BY <2>2, <2>3, UsesGrow
  <2>5. use \in Uses
    BY <2>1, <2>4
  <2>6. Fits(types, use)
    BY <2>4, <2>5, UsesFit DEF HeapInv, UsesBound
  <2>7. Fits(types', use)
    BY <1>1, <2>6, FitsEverAfter DEF HeapInv, DeclTyped, Begun
  <2>8. Bound(use)' <=> Fits(types', use)
    <3>1. \A s : TagOf(s)' = TagOf(s)
      BY DEF TagOf
    <3> QED
      BY <1>1, <2>4, <3>1, Zenon DEF Bound, Fits
  <2> QED
    BY <2>7, <2>8
<1>4. FitOverlays(types)'
  BY FitOverlaysStep DEF HeapInv
<1>5. HeapOrigin'
  BY <1>1, HeapOriginKept DEF HeapInv, DeclTyped, Begun
<1> QED
  BY <1>2, <1>3, <1>4, <1>5

LEMMA HeapInvTypes ==
  ASSUME HeapInv, [Next]_vars, UNCHANGED declVars
  PROVE  Nothing' /\ UsesBound' /\ FitOverlays(types)' /\ HeapOrigin'
<1>1. syms' = syms /\ overlays' = overlays
  BY TypesKeepDecls
<1>2. Typed
  BY DEF HeapInv, DeclTyped, Begun
<1>3. InitTaggedTypes \/ HeapGrows
  BY <1>2, TypesGrow
<1>4. Nothing' /\ UsesBound'
  <2>1. CASE UNCHANGED vars
    <3>1. UNCHANGED <<syms, types, typedefs, pc>>
      BY <2>1 DEF vars, made
    <3>2. Uses' = Uses
      BY <3>1 DEF Uses, MembersOf
    <3> QED
      BY <3>1, <3>2, BoundKept DEF HeapInv, Nothing, UsesBound
  <2>2. CASE Next
    <3>1. Nothing /\ UsesBound
      BY DEF HeapInv
    <3> QED
      BY <1>2, <2>2, <3>1, NothingStep, UsesBoundStep
  <2> QED
    BY <2>1, <2>2
<1>5. FitOverlays(types)'
  <2>1. \A v : Fits(types, v) => Fits(types', v)
    <3>1. CASE InitTaggedTypes
      <4>1. DOMAIN types = {}
        BY <3>1 DEF InitTaggedTypes, HeapInv, Nothing
      <4>2. \A kind, tag : Tagged(types, kind, tag) = {}
        BY <4>1 DEF Tagged
      <4> QED
        BY <4>2, Zenon DEF Fits
    <3>2. CASE HeapGrows
      BY <1>2, <3>2, FitsEverAfter
    <3> QED
      BY <1>3, <3>1, <3>2
  <2>2. \A v : Fits(types, v)' <=> Fits(types', v)
    <3>1. \A s : TagOf(s)' = TagOf(s)
      BY DEF TagOf
    <3> QED
      BY <1>1, <3>1, Zenon DEF Fits
  <2>3. \A f : FitFunc(types, f) => FitFunc(types, f)'
    BY <2>1, <2>2, Zenon DEF FitFunc
  <2> QED
    BY <1>1, <2>1, <2>2, <2>3, Zenon DEF HeapInv, FitOverlays
<1>6. HeapOrigin'
  <2>1. CASE InitTaggedTypes
    BY <1>2, <2>1, HeapOriginBegins
  <2>2. CASE HeapGrows /\ pc # "init"
    BY <1>1, <1>2, <2>2, HeapOriginKept DEF HeapInv
  <2>3. CASE pc = "init" /\ ~ InitTaggedTypes
    <3>1. pc' = "init"
      <4>1. CASE Next
        BY <2>3, <4>1, StepKinds DEF ParseTypedef, AtTypedef, AtTop, AddField, AddMethod,
           AddEnumMember, InTag
      <4>2. CASE UNCHANGED vars
        BY <2>3, <4>2 DEF vars
      <4> QED
        BY <4>1, <4>2
    <3> QED
      BY <3>1 DEF HeapOrigin
  <2> QED
    BY <1>3, <2>1, <2>2, <2>3
<1> QED
  BY <1>4, <1>5, <1>6

LEMMA HeapInvStep == HeapInv /\ [BothNext]_allVars => HeapInv'
<1> SUFFICES ASSUME HeapInv, [BothNext]_allVars PROVE HeapInv'
  OBVIOUS
<1>1. DeclTyped'
  BY DeclTypedStep DEF HeapInv
<1>2. CASE ParseDeclsStep
  BY <1>1, <1>2, PlaceStep, HeapInvDecls DEF HeapInv
<1>3. CASE [Next]_vars /\ UNCHANGED declVars
  <2>1. Place'
    <3>1. /\ syms' = syms /\ NextPos' = NextPos
          /\ UNCHANGED <<overlays, overlayIDs, curOverlay, d, m, curLine, fn, curBlock, blocks, mode>>
      BY <1>3, TypesKeepDecls
    <3> QED
      BY <3>1 DEF HeapInv, Place, InFunc, IsBody, InnerPos
  <2> QED
    BY <1>1, <1>3, <2>1, HeapInvTypes DEF HeapInv
<1> QED
  BY <1>2, <1>3 DEF BothNext, allVars

(* What is found for a tag that the stream defines is a scaffold.          *)
LEMMA FoundIsScaffold ==
  ASSUME Typed, Nothing, HeapOrigin, NEW kind, NEW tag, Tagged(types, kind, tag) # {},
         NEW j \in Scaffolds, Defines(j, kind, tag)
  PROVE  FindType(types, kind, tag) \in Scaffolds
<1> DEFINE T == Tagged(types, kind, tag)
           t == FindType(types, kind, tag)
<1>1. t \in T /\ t = LastOf(T)
  BY FoundIsTagged DEF FindType
<1>2. pc # "init"
  BY DEF Nothing, Tagged
<1>3. /\ j \in DOMAIN types /\ Defines(j, types[j].kind, types[j].tag)
      /\ t \notin {0} \cup Scaffolds => ~ Defines(j, types[t].kind, types[t].tag)
  BY <1>1, <1>2 DEF HeapOrigin, Tagged
<1>4. j \in T
  BY <1>3 DEF Defines, Tagged
<1>5. t = 0 \/ t \in Scaffolds
  BY <1>1, <1>3 DEF Tagged
<1>6. \A y \in T : y <= t
  <2>1. fresh \in Nat /\ T \in SUBSET (0 .. fresh - 1)
    BY DEF Tagged, Typed, TypeOK, Ids
  <2>2. IsFiniteSet(0 .. fresh - 1)
    BY <2>1, FS_Interval
  <2>3. IsFiniteSet(T) /\ T # {} /\ T \subseteq Int
    <3>1. IsFiniteSet(T)
      BY <2>1, <2>2, FS_Subset, Zenon
    <3> QED
      BY <2>1, <3>1
  <2> HIDE DEF T, t
  <2> QED
    BY <1>1, <2>3, LastOfProperty
<1>7. j \in Nat \ {0}
  BY SymbolProperty DEF Typed, Scaffolds
<1>8. t # 0
  <2> HIDE DEF T, t
  <2> QED
    BY <1>4, <1>6, <1>7
<1> QED
  BY <1>5, <1>8

(* A declaration of ParseDecls is bound to the object that members and     *)
(* typedefs of its tag are bound to, which is a definition's if the stream *)
(* defines the tag: parseType makes an object only for a tag without one,  *)
(* and every definition has had its scaffold since initTaggedTypes.        *)
THEOREM DeclarationsAreBound == BothSpec => []DeclsBindDefinitions
<1>1. BothInit => HeapInv
  <2> SUFFICES ASSUME BothInit PROVE HeapInv
    OBVIOUS
  <2>1. /\ overlays = <<EmptyOverlay(0)>> /\ typedefs = <<>> /\ pc = "init"
        /\ DOMAIN types = {}
    BY DEF BothInit, Init, DeclInit
  <2>2. DOMAIN overlays = {1} /\ overlays[1].vars = <<>> /\ overlays[1].funcs = <<>>
    BY <2>1 DEF EmptyOverlay
  <2>3. FitOverlays(types)
    BY <2>2 DEF FitOverlays
  <2>4. UsesBound
    BY <2>1 DEF UsesBound, Uses
  <2> QED
    BY <2>1, <2>3, <2>4, StandingInit DEF HeapInv, Standing, Nothing, HeapOrigin
<1>2. HeapInv /\ [BothNext]_allVars => HeapInv'
  BY HeapInvStep
<1>3. HeapInv => DeclsBindDefinitions
  <2> SUFFICES ASSUME HeapInv, NEW v \in DeclUses
               PROVE  LET s == syms[v.at] IN
                      /\ types[v.ref.id].kind = KindOfBase(s.base) /\ types[v.ref.id].tag = TagOf(s)
                      /\ \A u \in Uses \cup DeclUses :
                           syms[u.at].base = s.base /\ TagOf(syms[u.at]) = TagOf(s) => u.ref = v.ref
                      /\ (\E j \in Scaffolds : /\ KindOf(syms[j].class) = KindOfBase(s.base)
                                               /\ ValidName[syms[j].name] = TagOf(s))
                         => v.ref.id \in Scaffolds
    BY Zenon DEF DeclsBindDefinitions
  <2>1. ASSUME NEW u \in DeclUses PROVE u.ref.to = "tagged" /\ Fits(types, u)
    <3>1. u.ref.to = "tagged" /\ \E o \in DOMAIN overlays : u \in VarsOf(overlays[o])
      BY <2>1 DEF DeclUses
    <3>2. PICK o \in DOMAIN overlays : u \in VarsOf(overlays[o])
      BY <3>1
    <3>3. \/ \E x \in DOMAIN overlays[o].vars : u = overlays[o].vars[x]
          \/ \E x \in DOMAIN overlays[o].funcs : u = overlays[o].funcs[x]
          \/ \E x \in DOMAIN overlays[o].funcs :
               \/ \E p \in DOMAIN overlays[o].funcs[x].params : u = overlays[o].funcs[x].params[p]
               \/ \E b \in DOMAIN overlays[o].funcs[x].blocks :
                    \E l \in DOMAIN overlays[o].funcs[x].blocks[b].locals :
                      u = overlays[o].funcs[x].blocks[b].locals[l]
      BY <3>2 DEF VarsOf, Declarations
    <3>4. /\ \A x \in DOMAIN overlays[o].vars : Fits(types, overlays[o].vars[x])
          /\ \A x \in DOMAIN overlays[o].funcs : FitFunc(types, overlays[o].funcs[x])
      BY DEF HeapInv, FitOverlays
    <3> QED
      BY <3>1, <3>3, <3>4, Zenon DEF FitFunc
  <2>2. \A u \in Uses : u.ref.to = "tagged" /\ Fits(types, u)
    BY UsesFit DEF HeapInv, UsesBound, Uses
  <2> DEFINE s == syms[v.at]
             kind == KindOfBase(s.base)
             tag == TagOf(s)
  <2>3. Tagged(types, kind, tag) # {} /\ v.ref = [to |-> "tagged", id |-> FindType(types, kind, tag)]
    BY <2>1 DEF Fits
  <2>4. FindType(types, kind, tag) \in Tagged(types, kind, tag)
    BY <2>3, FoundIsTagged DEF HeapInv, DeclTyped, Begun
  <2>5. types[v.ref.id].kind = kind /\ types[v.ref.id].tag = tag
    BY <2>3, <2>4 DEF Tagged
  <2>6. ASSUME NEW u \in Uses \cup DeclUses, syms[u.at].base = s.base, TagOf(syms[u.at]) = tag
        PROVE  u.ref = v.ref
    <3>1. u.ref.to = "tagged" /\ Fits(types, u)
      BY <2>1, <2>2
    <3> QED
      BY <2>3, <2>6, <3>1 DEF Fits
  <2>7. ASSUME NEW j \in Scaffolds, KindOf(syms[j].class) = kind, ValidName[syms[j].name] = tag
        PROVE  v.ref.id \in Scaffolds
    <3>1. Defines(j, kind, tag)
      BY <2>7 DEF Defines
    <3>2. FindType(types, kind, tag) \in Scaffolds
      BY <2>3, <3>1, FoundIsScaffold DEF HeapInv, DeclTyped, Begun
    <3> QED
      BY <2>3, <3>2
  <2> QED
    BY <2>5, <2>6, <2>7
<1> QED
  BY <1>1, <1>2, <1>3, PTL DEF BothSpec
=============================================================================
