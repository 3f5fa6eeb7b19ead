---------------------------- MODULE DriverProofs ----------------------------
(***************************************************************************)
(* What the driver does to the output directory, for every sequence of     *)
(* inputs, every limit of open files and whatever pruneDuplicates returns. *)
(***************************************************************************)
EXTENDS Driver, TLAPS, FiniteSetTheorems, SequenceTheorems, WellFoundedInduction

(* The actions that neither touch the directory nor count a dump.          *)
LEMMA QuietSteps ==
  ASSUME \/ CheckFlags \/ Unreadable \/ PassPanics \/ Parse \/ PrintListing \/ Merge \/ Finish
         \/ NoPath \/ NoHandle \/ Return \/ EndDump
  PROVE  fs' = fs /\ dumps' = dumps /\ opts' = opts
BY DEF CheckFlags, Unreadable, PassPanics, Parse, PrintListing, Merge, Finish,
       NoPath, NoHandle, Return, EndDump, End

(* Those that do, and what they do to it.                                  *)
LEMMA InitOutputDirDoes ==
  ASSUME InitOutputDir
  PROVE  /\ fs' = Without(Removed) /\ dumps' = dumps + 1 /\ opts' = opts
BY DEF InitOutputDir

LEMMA PartlyRemoved ==
  ASSUME InitOutputDirFails
  PROVE  /\ dumps' = dumps /\ opts' = opts
         /\ \E paths \in SUBSET Removed : fs' = Without(paths)
<1>1. dumps' = dumps /\ opts' = opts
  BY DEF InitOutputDirFails
<1>2. CASE fs' = Without(Removed)
  BY <1>1, <1>2
<1>3. CASE \E path \in Removed : fs' = Without(Removed \ {path})
  <2>1. PICK path \in Removed : fs' = Without(Removed \ {path})
    BY <1>3
  <2>2. Removed \ {path} \in SUBSET Removed
    OBVIOUS
  <2> QED
    BY <1>1, <2>1, <2>2
<1> QED
  BY <1>2, <1>3 DEF InitOutputDirFails

LEMMA Writes ==
  ASSUME WriteFile \/ WriteFails
  PROVE  /\ dumps' = dumps /\ opts' = opts
         /\ fs' = fs \/ \E items : fs' = Written(items)
<1>1. CASE WriteFile
  BY <1>1 DEF WriteFile
<1>2. CASE WriteFails
  BY <1>2 DEF WriteFails
<1> QED
  BY <1>1, <1>2

LEMMA StepCases ==
  ASSUME Next
  PROVE  \/ fs' = fs /\ dumps' = dumps /\ opts' = opts
         \/ InitOutputDir \/ InitOutputDirFails \/ WriteFile \/ WriteFails
BY QuietSteps DEF Next, MainStep, DumpStep

-----------------------------------------------------------------------------
(* The default directory holds the files of one dump, at any time: it is   *)
(* emptied in the step that counts the dump, a removal that fails half way *)
(* only takes files away, and what is written belongs to the dump.         *)
THEOREM OutputIsOfOneDump == Spec => []OutputOfOneDump
<1>1. Init => OutputOfOneDump
  <2> SUFFICES ASSUME Init, NEW path \in DOMAIN fs
               PROVE  fs[path].dump = dumps
    BY DEF OutputOfOneDump
  <2> QED
    BY DEF Init
<1>2. OutputOfOneDump /\ [Next]_vars => OutputOfOneDump'
  <2> SUFFICES ASSUME OutputOfOneDump, [Next]_vars, opts'["default dir"],
                      NEW path \in DOMAIN fs'
               PROVE  fs'[path].dump = dumps'
    BY DEF OutputOfOneDump
  <2>1. CASE fs' = fs /\ dumps' = dumps /\ opts' = opts
    BY <2>1 DEF OutputOfOneDump
  <2>2. CASE InitOutputDir
    BY <2>2, InitOutputDirDoes DEF Without, Removed
  <2>3. CASE InitOutputDirFails
    <3>1. PICK paths \in SUBSET Removed : fs' = Without(paths)
      BY <2>3, PartlyRemoved
    <3> QED
      BY <2>3, <3>1, PartlyRemoved DEF Without, OutputOfOneDump
  <2>4. CASE WriteFile \/ WriteFails
    <3>1. CASE fs' = fs
      BY <2>4, <3>1, Writes DEF OutputOfOneDump
    <3>2. CASE \E items : fs' = Written(items)
      <4>1. PICK items : fs' = Written(items)
        BY <3>2
      <4>2. path = TheFile.path \/ (path \in DOMAIN fs /\ path # TheFile.path)
        BY <4>1 DEF Written
      <4>3. CASE path = TheFile.path
        BY <2>4, <4>1, <4>3, Writes DEF Written
      <4>4. CASE path \in DOMAIN fs /\ path # TheFile.path
        BY <2>4, <4>1, <4>4, Writes DEF Written, OutputOfOneDump
      <4> QED
        BY <4>2, <4>3, <4>4
    <3> QED
      BY <2>4, <3>1, <3>2, Writes
  <2>5. CASE UNCHANGED vars
    BY <2>5, <2>1 DEF vars
  <2> QED
    BY <2>1, <2>2, <2>3, <2>4, <2>5, StepCases
<1> QED
  BY <1>1, <1>2, PTL DEF Spec

-----------------------------------------------------------------------------
(* No step takes a file away from a directory that the user named.         *)
THEOREM CustomDirIsKept == Spec => CustomDirKept
<1>1. [Next]_vars => [~ opts["default dir"] => DOMAIN fs \subseteq DOMAIN fs']_vars
  <2> SUFFICES ASSUME Next, ~ opts["default dir"]
               PROVE  DOMAIN fs \subseteq DOMAIN fs'
    OBVIOUS
  <2>1. CASE fs' = fs
    BY <2>1
  <2>2. CASE InitOutputDir
    BY <2>2, InitOutputDirDoes DEF Without, Removed
  <2>3. CASE InitOutputDirFails
    BY <2>3, PartlyRemoved DEF Without, Removed
  <2>4. CASE WriteFile \/ WriteFails
    BY <2>4, Writes DEF Written
  <2> QED
    BY <2>1, <2>2, <2>3, <2>4, StepCases
<1> QED
  BY <1>1, PTL DEF Spec, CustomDirKept

-----------------------------------------------------------------------------
(* OutputAfterParsing is not inductive: that the directory is touched only *)
(* in init and write has to be known of what led there, and in merge mode  *)
(* of the parsers collected before.                                        *)
Translates == WithDecls \/ WithTypes

IInv ==
  /\ k \in Nat \ {0} /\ dumps \in Nat
  /\ pc \in {"init", "write"} => k > 1 /\ Translates
  /\ ps # <<>> => k > 1 /\ Translates
  /\ Untouched \/ (k > 1 /\ Translates)
  /\ opts["merge"] =>
       /\ pc \in {"start", "inputs", "init"} => Untouched
       /\ pc \in {"init", "write"} \/ ~ Untouched => k > Len(args)
       /\ dumps <= 1

LEMMA IInvImplies == IInv => OutputAfterParsing
BY DEF IInv, OutputAfterParsing, Translates, Untouched

LEMMA IInvInit == Init => IInv
BY DriverAssumption DEF Init, IInv, Untouched

(* main before a dump: the directory is as it was.                         *)
LEMMA IInvMain ==
  ASSUME IInv, MainStep
  PROVE  IInv'
<1>1. /\ fs' = fs /\ dumps' = dumps /\ opts' = opts /\ args' = args
      /\ Untouched' = Untouched /\ Translates' = Translates
  BY DEF MainStep, CheckFlags, Unreadable, PassPanics, Parse, PrintListing, Merge, Finish,
         AtInput, End, Untouched, Translates, WithDecls, WithTypes
<1>2. CASE CheckFlags
  BY <1>1, <1>2 DEF CheckFlags, End, IInv
<1>3. CASE Unreadable \/ PassPanics \/ Finish
  BY <1>1, <1>3 DEF Unreadable, PassPanics, Finish, AtInput, End, IInv
<1>4. CASE Parse
  <2>1. Translates /\ pc = "inputs" /\ k <= Len(args) /\ k' = k + 1
        /\ pc' = (IF opts["merge"] THEN "inputs" ELSE "init")
    BY <1>4 DEF Parse, AtInput, AfterParsing, Translates
  <2>2. k' \in Nat \ {0} /\ k' > 1
    BY <2>1 DEF IInv
  <2>3. opts["merge"] => Untouched
    BY <2>1 DEF IInv
  <2> QED
    BY <1>1, <2>1, <2>2, <2>3 DEF IInv
<1>5. CASE PrintListing
  <2>1. ~ Translates /\ pc = "inputs" /\ pc' = pc /\ ps' = ps /\ k' = k + 1
    BY <1>5 DEF PrintListing, AtInput, Translates
  <2>2. k' \in Nat \ {0} /\ k' > 1
    BY <2>1 DEF IInv
  <2> QED
    BY <1>1, <2>1, <2>2 DEF IInv
<1>6. CASE Merge
  BY <1>1, <1>6 DEF Merge, End, IInv
<1> QED
  BY <1>2, <1>3, <1>4, <1>5, <1>6 DEF MainStep

(* The steps of a dump: it began when there was something to output.       *)
LEMMA IInvDump ==
  ASSUME IInv, DumpStep
  PROVE  IInv'
<1>1. /\ pc \in {"init", "write"} /\ pc' \notin {"start", "init"}
      /\ k' = k /\ ps' = ps /\ opts' = opts /\ args' = args /\ Translates' = Translates
  BY DEF DumpStep, InitOutputDir, InitOutputDirFails, WriteFile, NoPath, WriteFails, NoHandle,
         Return, EndDump, AtFile, End, Translates, WithDecls, WithTypes
<1>2. k > 1 /\ Translates /\ (opts["merge"] => k > Len(args))
  BY <1>1 DEF IInv
<1>3. opts["merge"] => pc' # "inputs"
  BY <1>1 DEF DumpStep, InitOutputDir, InitOutputDirFails, WriteFile, NoPath, WriteFails,
              NoHandle, Return, EndDump, AtFile, End
<1>4. dumps' \in Nat /\ (opts["merge"] => dumps' <= 1)
  <2>1. CASE InitOutputDir
    BY <2>1 DEF InitOutputDir, IInv, Untouched
  <2>2. CASE ~ InitOutputDir
    <3>1. dumps' = dumps
      BY <2>2 DEF DumpStep, InitOutputDirFails, WriteFile, NoPath, WriteFails, NoHandle,
                  Return, EndDump, End
    <3> QED
      BY <3>1 DEF IInv
  <2> QED
    BY <2>1, <2>2
<1> QED
  BY <1>1, <1>2, <1>3, <1>4 DEF IInv

(* Nothing is lost before there is something to replace it, in whatever    *)
(* order files that cannot be read, panics and failing steps occur.        *)
THEOREM OutputIsAfterParsing == Spec => []OutputAfterParsing
<1>1. IInv /\ [Next]_vars => IInv'
  <2> SUFFICES ASSUME IInv, [Next]_vars
               PROVE  IInv'
    OBVIOUS
  <2>1. CASE UNCHANGED vars
    BY <2>1 DEF vars, IInv, Untouched, Translates, WithDecls, WithTypes
  <2> QED
    BY <2>1, IInvMain, IInvDump DEF Next
<1> QED
  BY <1>1, IInvInit, IInvImplies, PTL DEF Spec

-----------------------------------------------------------------------------
(* What the recursive functions of the model return.  A property of all    *)
(* their values is proved by the least argument that contradicts it.       *)

(* A set of natural numbers that is not empty has a least element.         *)
LEMMA LeastExists ==
  ASSUME NEW S, S \subseteq Nat, S # {}
  PROVE  \E x \in S : \A y \in S : x <= y
<1> DEFINE R == {p \in Nat \X Nat : p[1] < p[2]}
<1>1. IsWellFoundedOn(R, Nat)
  BY NatLessThanWellFounded DEF OpToRel
<1>2. PICK x \in S : \A y \in S : ~ (<<y, x>> \in R)
  <2> HIDE DEF R
  <2>1. QED
    BY <1>1, WFMin
<1>3. \A y \in S : x <= y
  <2> SUFFICES ASSUME NEW y \in S PROVE x <= y
    OBVIOUS
  <2>1. x \in Nat /\ y \in Nat
    OBVIOUS
  <2>2. y < x => <<y, x>> \in R
    BY <2>1
  <2> HIDE DEF R
  <2>3. ~ (y < x)
    BY <1>2, <2>2
  <2>4. QED
    BY <2>1, <2>3
<1>4. QED
  BY <1>3

(* What Among has picked from the first n elements of a list.              *)
Picks(t, s, chosen, n) ==
  /\ t \in Seq(ToSet(s))
  /\ \A y \in DOMAIN t : \E x \in 1 .. n : t[y] = s[x] /\ s[x] \in chosen
  /\ \A x \in 1 .. n : s[x] \in chosen => \E y \in DOMAIN t : t[y] = s[x]
  /\ IsInjective(s) => IsInjective(t)

AmongNext(t, e, chosen) == IF e \in chosen THEN Append(t, e) ELSE t

LEMMA PicksNext ==
  ASSUME NEW s, IsList(s), NEW chosen, NEW x \in 1 .. Len(s), NEW t, Picks(t, s, chosen, x - 1)
  PROVE  Picks(AmongNext(t, s[x], chosen), s, chosen, x)
<1>1. /\ Len(s) \in Nat /\ DOMAIN s = 1 .. Len(s) /\ s[x] \in ToSet(s)
      /\ t \in Seq(ToSet(s)) /\ DOMAIN t = 1 .. Len(t) /\ Len(t) \in Nat
  BY DEF IsList, Picks, ToSet
<1>2. CASE s[x] \notin chosen
  <2>1. AmongNext(t, s[x], chosen) = t
    BY <1>2 DEF AmongNext
  <2>2. \A y \in 1 .. x - 1 : y \in 1 .. x
    BY <1>1
  <2>3. \A y \in 1 .. x : y = x \/ y \in 1 .. x - 1
    BY <1>1
  <2> QED
    BY <1>2, <2>1, <2>2, <2>3 DEF Picks
<1>3. CASE s[x] \in chosen
  <2> DEFINE u == Append(t, s[x])
  <2>1. AmongNext(t, s[x], chosen) = u
    BY <1>3 DEF AmongNext
  <2>2. /\ u \in Seq(ToSet(s)) /\ Len(u) = Len(t) + 1 /\ DOMAIN u = 1 .. Len(t) + 1
        /\ u[Len(t) + 1] = s[x] /\ \A y \in 1 .. Len(t) : u[y] = t[y]
    BY <1>1
  <2> HIDE DEF u
  <2>3. ASSUME NEW y \in DOMAIN u
        PROVE  \E z \in 1 .. x : u[y] = s[z] /\ s[z] \in chosen
    <3>1. CASE y = Len(t) + 1
      <4>1. x \in 1 .. x
        BY <1>1
      <4> QED
        BY <1>3, <2>2, <3>1, <4>1
    <3>2. CASE y # Len(t) + 1
      <4>1. y \in DOMAIN t /\ u[y] = t[y]
        BY <1>1, <2>2, <2>3, <3>2
      <4>2. PICK z \in 1 .. x - 1 : t[y] = s[z] /\ s[z] \in chosen
        BY <4>1 DEF Picks
      <4>3. z \in 1 .. x
        BY <1>1
      <4> QED
        BY <4>1, <4>2, <4>3
    <3> QED
      BY <3>1, <3>2
  <2>4. ASSUME NEW z \in 1 .. x, s[z] \in chosen
        PROVE  \E y \in DOMAIN u : u[y] = s[z]
    <3>1. CASE z = x
      <4>1. Len(t) + 1 \in DOMAIN u
        BY <1>1, <2>2
      <4> QED
        BY <2>2, <3>1, <4>1
    <3>2. CASE z # x
      <4>1. z \in 1 .. x - 1
        BY <1>1, <3>2
      <4>2. PICK y \in DOMAIN t : t[y] = s[z]
        BY <2>4, <4>1 DEF Picks
      <4>3. y \in DOMAIN u /\ u[y] = t[y]
        BY <1>1, <2>2
      <4> QED
        BY <4>2, <4>3
    <3> QED
      BY <3>1, <3>2
  <2>5. ASSUME IsInjective(s), NEW y \in DOMAIN u, NEW z \in DOMAIN u, u[y] = u[z]
        PROVE  y = z
    <3>1. \A q \in DOMAIN t : t[q] # s[x]
      <4> SUFFICES ASSUME NEW q \in DOMAIN t, t[q] = s[x] PROVE FALSE
        OBVIOUS
      <4>1. PICK r \in 1 .. x - 1 : t[q] = s[r]
        BY DEF Picks
      <4>2. r \in DOMAIN s /\ x \in DOMAIN s /\ r # x
        BY <1>1
      <4> QED
        BY <2>5, <4>1, <4>2 DEF IsInjective
    <3>2. \A q \in DOMAIN u : q = Len(t) + 1 \/ (q \in DOMAIN t /\ u[q] = t[q])
      BY <1>1, <2>2
    <3>3. IsInjective(t)
      BY <2>5 DEF Picks
    <3> QED
      BY <2>2, <2>5, <3>1, <3>2, <3>3 DEF IsInjective
  <2>6. IsInjective(s) => IsInjective(u)
    BY <2>5 DEF IsInjective
  <2> QED
    BY <2>1, <2>2, <2>3, <2>4, <2>6 DEF Picks
<1> QED
  BY <1>2, <1>3

AmongRec(f, s, chosen, L) ==
  f = [n \in 0 .. L |->
         IF n = 0 THEN <<>>
         ELSE IF s[n] \in chosen THEN Append(f[n - 1], s[n]) ELSE f[n - 1]]

LEMMA AmongExists ==
  ASSUME NEW s, NEW chosen, NEW L \in Nat
  PROVE  \E f : AmongRec(f, s, chosen, L)
<1> DEFINE bad == {x \in 0 .. L : ~ \E f : AmongRec(f, s, chosen, x)}
<1>1. SUFFICES ASSUME bad # {} PROVE FALSE
  OBVIOUS
<1>2. bad \subseteq Nat
  OBVIOUS
<1>3. PICK x \in bad : \A y \in bad : x <= y
  BY <1>1, <1>2, LeastExists
<1>4. x \in 0 .. L /\ ~ \E f : AmongRec(f, s, chosen, x)
  BY <1>3
<1>5. CASE x = 0
  <2>1. AmongRec([n \in 0 .. 0 |-> <<>>], s, chosen, 0)
    BY DEF AmongRec
  <2> QED
    BY <1>4, <1>5, <2>1
<1>6. CASE x # 0
  <2>1. x - 1 \in 0 .. L /\ x - 1 \notin bad /\ x \in Nat
    BY <1>2, <1>3, <1>4, <1>6
  <2>2. PICK f : AmongRec(f, s, chosen, x - 1)
    BY <2>1
  <2> DEFINE g == [y \in 0 .. x |-> IF y = x THEN AmongNext(f[x - 1], s[x], chosen) ELSE f[y]]
  <2>3. \A y \in 0 .. x - 1 : f[y] = IF y = 0 THEN <<>> ELSE AmongNext(f[y - 1], s[y], chosen)
    BY <2>2 DEF AmongRec, AmongNext
  <2>4. \A y \in 0 .. x : g[y] = IF y = 0 THEN <<>> ELSE AmongNext(g[y - 1], s[y], chosen)
    <3> SUFFICES ASSUME NEW y \in 0 .. x
                 PROVE  g[y] = IF y = 0 THEN <<>> ELSE AmongNext(g[y - 1], s[y], chosen)
      OBVIOUS
    <3>1. CASE y = x
      <4>1. x - 1 \in 0 .. x /\ x - 1 # x
        BY <2>1, <1>6
      <4> QED
        BY <1>6, <3>1, <4>1
    <3>2. CASE y # x
      <4>1. y \in 0 .. x - 1 /\ (y # 0 => y - 1 \in 0 .. x /\ y - 1 # x)
        BY <2>1, <3>2
      <4> QED
        BY <2>3, <3>2, <4>1
    <3> QED
      BY <3>1, <3>2
  <2>5. g = [y \in 0 .. x |-> g[y]]
    OBVIOUS
  <2> HIDE DEF g
  <2>6. AmongRec(g, s, chosen, x)
    BY <2>4, <2>5 DEF AmongRec, AmongNext
  <2> QED
    BY <1>4, <2>6
<1> QED
  BY <1>5, <1>6

LEMMA AmongProperty ==
  ASSUME NEW s, IsList(s), NEW chosen
  PROVE  Picks(Among(s, chosen), s, chosen, Len(s))
<1> DEFINE L == Len(s)
           S(f) == [n \in 0 .. L |->
                      IF n = 0 THEN <<>>
                      ELSE IF s[n] \in chosen THEN Append(f[n - 1], s[n]) ELSE f[n - 1]]
           among == CHOOSE f : f = S(f)
<1>1. Among(s, chosen) = among[L]
  BY DEF Among
<1>2. L \in Nat
  BY DEF IsList
<1>3. PICK t : AmongRec(t, s, chosen, L)
  BY <1>2, AmongExists
<1>4. t = S(t)
  BY <1>3 DEF AmongRec
<1>5. among = S(among)
  BY <1>4, Zenon
<1>6. \A x \in 0 .. L : among[x] = IF x = 0 THEN <<>> ELSE AmongNext(among[x - 1], s[x], chosen)
  BY <1>5 DEF AmongNext
<1> HIDE DEF among
<1> DEFINE bad == {x \in 0 .. L : ~ Picks(among[x], s, chosen, x)}
<1>7. SUFFICES ASSUME bad # {} PROVE FALSE
  BY <1>1, <1>2
<1>8. bad \subseteq Nat
  OBVIOUS
<1>9. PICK x \in bad : \A y \in bad : x <= y
  BY <1>7, <1>8, LeastExists
<1>10. x \in 0 .. L /\ ~ Picks(among[x], s, chosen, x)
  BY <1>9
<1>11. CASE x = 0
  <2>1. among[x] = <<>>
    BY <1>6, <1>10, <1>11
  <2>2. Picks(<<>>, s, chosen, 0)
    BY DEF Picks, IsInjective
  <2> QED
    BY <1>10, <1>11, <2>1, <2>2
<1>12. CASE x # 0
  <2>1. x - 1 \in 0 .. L /\ x - 1 \notin bad /\ x \in 1 .. L
    BY <1>2, <1>8, <1>9, <1>10, <1>12
  <2>2. Picks(among[x - 1], s, chosen, x - 1)
    BY <2>1
  <2>3. among[x] = AmongNext(among[x - 1], s[x], chosen)
    BY <1>6, <1>10, <1>12
  <2> QED
    BY <1>10, <2>1, <2>2, <2>3, PicksNext
<1> QED
  BY <1>11, <1>12

LEMMA ListIs ==
  ASSUME NEW S, NEW s \in Seq(S)
  PROVE  IsList(s)
BY DEF IsList, ToSet

LEMMA ConcatIs ==
  ASSUME NEW s, IsList(s), NEW t, IsList(t)
  PROVE  /\ IsList(s \o t)
         /\ \A e : e \in ToSet(s \o t) <=> e \in ToSet(s) \/ e \in ToSet(t)
<1> DEFINE T == ToSet(s) \cup ToSet(t)
           u == s \o t
<1>1. s \in Seq(T) /\ t \in Seq(T)
  BY DEF IsList, ToSet
<1>2. /\ u \in Seq(T) /\ Len(s) \in Nat /\ Len(t) \in Nat /\ Len(u) = Len(s) + Len(t)
      /\ DOMAIN u = 1 .. Len(s) + Len(t) /\ DOMAIN s = 1 .. Len(s) /\ DOMAIN t = 1 .. Len(t)
      /\ \A x \in 1 .. Len(s) : u[x] = s[x]
      /\ \A x \in 1 .. Len(t) : u[Len(s) + x] = t[x]
  <2> HIDE DEF T
  <2> QED
    BY <1>1
<1> HIDE DEF u, T
<1>3. IsList(u)
  BY <1>2, ListIs
<1>4. \A x \in DOMAIN u : x \in 1 .. Len(s) \/ (x - Len(s) \in 1 .. Len(t) /\ x = Len(s) + (x - Len(s)))
  BY <1>2
<1>5. \A x \in 1 .. Len(t) : Len(s) + x \in DOMAIN u
  BY <1>2
<1>6. \A x \in 1 .. Len(s) : x \in DOMAIN u
  BY <1>2
<1>7. ASSUME NEW e, e \in ToSet(u)
      PROVE  e \in ToSet(s) \/ e \in ToSet(t)
  <2>1. PICK x \in DOMAIN u : u[x] = e
    BY <1>7 DEF ToSet
  <2>2. CASE x \in 1 .. Len(s)
    BY <1>2, <2>1, <2>2 DEF ToSet
  <2>3. CASE x - Len(s) \in 1 .. Len(t) /\ x = Len(s) + (x - Len(s))
    <3>1. PICK y \in 1 .. Len(t) : x = Len(s) + y
      BY <2>3
    <3>2. u[x] = t[y] /\ y \in DOMAIN t
      BY <1>2, <3>1
    <3> QED
      BY <2>1, <3>2 DEF ToSet
  <2> QED
    BY <1>4, <2>2, <2>3
<1>8. ASSUME NEW e, e \in ToSet(s) \/ e \in ToSet(t)
      PROVE  e \in ToSet(u)
  <2>1. CASE e \in ToSet(s)
    <3>1. PICK x \in 1 .. Len(s) : s[x] = e
      BY <1>2, <2>1 DEF ToSet
    <3> QED
      BY <1>2, <1>6, <3>1 DEF ToSet
  <2>2. CASE e \in ToSet(t)
    <3>1. PICK x \in 1 .. Len(t) : t[x] = e
      BY <1>2, <2>2 DEF ToSet
    <3>2. u[Len(s) + x] = e /\ Len(s) + x \in DOMAIN u
      BY <1>2, <1>5, <3>1
    <3> QED
      BY <3>2 DEF ToSet
  <2> QED
    BY <1>8, <2>1, <2>2
<1> QED
  BY <1>3, <1>7, <1>8 DEF u

(* The first n lists, one after the other.                                 *)
Flat(t, seqs, n) ==
  /\ IsList(t)
  /\ \A e : e \in ToSet(t) <=> \E x \in 1 .. n : e \in ToSet(seqs[x])

FlattenRec(f, seqs, L) ==
  f = [x \in 1 .. L |-> IF x = 1 THEN seqs[x] ELSE f[x - 1] \o seqs[x]]

LEMMA FlattenExists ==
  ASSUME NEW seqs, NEW L \in Nat
  PROVE  \E f : FlattenRec(f, seqs, L)
<1> DEFINE bad == {x \in 0 .. L : ~ \E f : FlattenRec(f, seqs, x)}
<1>1. SUFFICES ASSUME bad # {} PROVE FALSE
  OBVIOUS
<1>2. bad \subseteq Nat
  OBVIOUS
<1>3. PICK x \in bad : \A y \in bad : x <= y
  BY <1>1, <1>2, LeastExists
<1>4. x \in 0 .. L /\ ~ \E f : FlattenRec(f, seqs, x)
  BY <1>3
<1>5. CASE x = 0
  <2>1. FlattenRec([y \in 1 .. 0 |-> 0], seqs, 0)
    BY DEF FlattenRec
  <2> QED
    BY <1>4, <1>5, <2>1
<1>6. CASE x # 0
  <2>1. x - 1 \in 0 .. L /\ x - 1 \notin bad /\ x \in Nat /\ x >= 1
    BY <1>2, <1>3, <1>4, <1>6
  <2>2. PICK f : FlattenRec(f, seqs, x - 1)
    BY <2>1
  <2> DEFINE last == IF x = 1 THEN seqs[x] ELSE f[x - 1] \o seqs[x]
             g == [y \in 1 .. x |-> IF y = x THEN last ELSE f[y]]
  <2>3. \A y \in 1 .. x - 1 : f[y] = IF y = 1 THEN seqs[y] ELSE f[y - 1] \o seqs[y]
    BY <2>2 DEF FlattenRec
  <2>4. \A y \in 1 .. x : g[y] = IF y = 1 THEN seqs[y] ELSE g[y - 1] \o seqs[y]
    <3> SUFFICES ASSUME NEW y \in 1 .. x
                 PROVE  g[y] = IF y = 1 THEN seqs[y] ELSE g[y - 1] \o seqs[y]
      OBVIOUS
    <3>1. CASE y = x
      <4>1. x = 1 \/ (x - 1 \in 1 .. x /\ x - 1 # x)
        BY <2>1
      <4> QED
        BY <3>1, <4>1
    <3>2. CASE y # x
      <4>1. y \in 1 .. x - 1 /\ (y # 1 => y - 1 \in 1 .. x /\ y - 1 # x)
        BY <2>1, <3>2
      <4> QED
        BY <2>3, <3>2, <4>1
    <3> QED
      BY <3>1, <3>2
  <2>5. g = [y \in 1 .. x |-> g[y]]
    OBVIOUS
  <2> HIDE DEF g
  <2>6. FlattenRec(g, seqs, x)
    BY <2>4, <2>5 DEF FlattenRec
  <2> QED
    BY <1>4, <2>6
<1> QED
  BY <1>5, <1>6

LEMMA FlattenProperty ==
  ASSUME NEW seqs, IsList(seqs), \A x \in DOMAIN seqs : IsList(seqs[x])
  PROVE  Flat(FlattenSeq(seqs), seqs, Len(seqs))
<1> DEFINE L == Len(seqs)
           S(f) == [i \in 1 .. L |-> IF i = 1 THEN seqs[i] ELSE f[i - 1] \o seqs[i]]
           flatten == CHOOSE f : f = S(f)
<1>1. FlattenSeq(seqs) = IF L = 0 THEN seqs ELSE flatten[L]
  BY DEF FlattenSeq
<1>2. L \in Nat /\ DOMAIN seqs = 1 .. L
  BY DEF IsList
<1>3. PICK t : FlattenRec(t, seqs, L)
  BY <1>2, FlattenExists
<1>4. t = S(t)
  BY <1>3 DEF FlattenRec
<1>5. flatten = S(flatten)
  BY <1>4, Zenon
<1>6. \A x \in 1 .. L : flatten[x] = IF x = 1 THEN seqs[x] ELSE flatten[x - 1] \o seqs[x]
  BY <1>5
<1> HIDE DEF flatten
<1>7. CASE L = 0
  <2>1. Flat(seqs, seqs, 0)
    BY <1>2, <1>7 DEF Flat, ToSet
  <2> QED
    BY <1>1, <1>7, <2>1
<1>8. CASE L # 0
  <2> DEFINE bad == {x \in 1 .. L : ~ Flat(flatten[x], seqs, x)}
  <2>1. SUFFICES ASSUME bad # {} PROVE FALSE
    BY <1>1, <1>2, <1>8
  <2>2. bad \subseteq Nat
    OBVIOUS
  <2>3. PICK x \in bad : \A y \in bad : x <= y
    BY <2>1, <2>2, LeastExists
  <2>4. x \in 1 .. L /\ ~ Flat(flatten[x], seqs, x)
    BY <2>3
  <2>5. CASE x = 1
    <3>1. flatten[x] = seqs[1] /\ IsList(seqs[1])
      BY <1>2, <1>6, <2>4, <2>5
    <3>2. \A y \in 1 .. 1 : y = 1
      OBVIOUS
    <3>3. Flat(seqs[1], seqs, 1)
      BY <3>1, <3>2 DEF Flat
    <3> QED
      BY <2>4, <2>5, <3>1, <3>3
  <2>6. CASE x # 1
    <3>1. x - 1 \in 1 .. L /\ x - 1 \notin bad /\ x \in Nat
      BY <1>2, <2>2, <2>3, <2>4, <2>6
    <3>2. Flat(flatten[x - 1], seqs, x - 1)
      BY <3>1
    <3>3. flatten[x] = flatten[x - 1] \o seqs[x] /\ IsList(seqs[x])
      BY <1>2, <1>6, <2>4, <2>6
    <3> DEFINE u == flatten[x - 1]
               v == seqs[x]
    <3>4. /\ IsList(u \o v)
          /\ \A e : e \in ToSet(u \o v) <=> e \in ToSet(u) \/ e \in ToSet(v)
      <4>1. IsList(u) /\ IsList(v)
        BY <3>2, <3>3 DEF Flat
      <4> HIDE DEF u, v
      <4> QED
        BY <4>1, ConcatIs
    <3>5. \A y \in 1 .. x : y = x \/ y \in 1 .. x - 1
      BY <3>1
    <3>6. x \in 1 .. x /\ \A y \in 1 .. x - 1 : y \in 1 .. x
      BY <3>1
    <3>7. \A e : e \in ToSet(u) <=> \E y \in 1 .. x - 1 : e \in ToSet(seqs[y])
      BY <3>2 DEF Flat
    <3>8. \A e : e \in ToSet(u \o v) <=> \E y \in 1 .. x : e \in ToSet(seqs[y])
      <4> HIDE DEF u
      <4> QED
        BY <3>4, <3>5, <3>6, <3>7
    <3>9. Flat(u \o v, seqs, x)
      BY <3>4, <3>8 DEF Flat
    <3> QED
      BY <2>4, <3>3, <3>9
  <2> QED
    BY <2>5, <2>6
<1> QED
  BY <1>7, <1>8

(* The names of the first n declarations: each is that of the declaration, *)
(* which none before it has then, or made of it and its address.           *)
NameOf(places, x) == places[x].decl.name
MadeUnique(places, x) == UniqueName(places[x].decl.name, places[x].decl.addr)

Named(t, places, n) ==
  /\ IsList(t) /\ Len(t) = n
  /\ \A x \in 1 .. n : \/ t[x] = MadeUnique(places, x)
                       \/ t[x] = NameOf(places, x) /\ \A y \in 1 .. x - 1 : t[y] # t[x]

NameNext(t, places, x) ==
  Append(t, IF NameOf(places, x) \in ToSet(t) THEN MadeUnique(places, x) ELSE NameOf(places, x))

PrintedRec(f, places, L) ==
  f = [x \in 0 .. L |-> IF x = 0 THEN <<>> ELSE NameNext(f[x - 1], places, x)]

LEMMA NamedNext ==
  ASSUME NEW places, NEW x \in Nat \ {0}, NEW t, Named(t, places, x - 1)
  PROVE  Named(NameNext(t, places, x), places, x)
<1> DEFINE e == IF NameOf(places, x) \in ToSet(t) THEN MadeUnique(places, x) ELSE NameOf(places, x)
           u == NameNext(t, places, x)
           T == ToSet(t) \cup {e}
<1>1. u = Append(t, e)
  BY DEF NameNext
<1>2. t \in Seq(T) /\ e \in T /\ Len(t) = x - 1 /\ DOMAIN t = 1 .. x - 1
  BY DEF Named, IsList, ToSet
<1>3. e = MadeUnique(places, x) \/ (e = NameOf(places, x) /\ \A y \in 1 .. x - 1 : t[y] # e)
  BY <1>2 DEF ToSet
<1> HIDE DEF e, u, T
<1>4. u \in Seq(T) /\ Len(u) = x /\ u[x] = e /\ \A y \in 1 .. x - 1 : u[y] = t[y]
  BY <1>1, <1>2
<1>5. IsList(u)
  BY <1>4, ListIs
<1>6. ASSUME NEW y \in 1 .. x
      PROVE  \/ u[y] = MadeUnique(places, y)
             \/ u[y] = NameOf(places, y) /\ \A z \in 1 .. y - 1 : u[z] # u[y]
  <2>1. CASE y = x
    BY <1>3, <1>4, <2>1
  <2>2. CASE y # x
    <3>1. y \in 1 .. x - 1 /\ \A z \in 1 .. y - 1 : z \in 1 .. x - 1
      BY <2>2
    <3>2. \/ t[y] = MadeUnique(places, y)
          \/ t[y] = NameOf(places, y) /\ \A z \in 1 .. y - 1 : t[z] # t[y]
      BY <3>1 DEF Named
    <3> QED
      BY <1>4, <3>1, <3>2
  <2> QED
    BY <2>1, <2>2
<1> QED
  BY <1>4, <1>5, <1>6 DEF Named, u

LEMMA PrintedExists ==
  ASSUME NEW places, NEW L \in Nat
  PROVE  \E f : PrintedRec(f, places, L)
<1> DEFINE bad == {x \in 0 .. L : ~ \E f : PrintedRec(f, places, x)}
<1>1. SUFFICES ASSUME bad # {} PROVE FALSE
  OBVIOUS
<1>2. bad \subseteq Nat
  OBVIOUS
<1>3. PICK x \in bad : \A y \in bad : x <= y
  BY <1>1, <1>2, LeastExists
<1>4. x \in 0 .. L /\ ~ \E f : PrintedRec(f, places, x)
  BY <1>3
<1>5. CASE x = 0
  <2>1. PrintedRec([y \in 0 .. 0 |-> <<>>], places, 0)
    BY DEF PrintedRec
  <2> QED
    BY <1>4, <1>5, <2>1
<1>6. CASE x # 0
  <2>1. x - 1 \in 0 .. L /\ x - 1 \notin bad /\ x \in Nat
    BY <1>2, <1>3, <1>4, <1>6
  <2>2. PICK f : PrintedRec(f, places, x - 1)
    BY <2>1
  <2> DEFINE g == [y \in 0 .. x |-> IF y = x THEN NameNext(f[x - 1], places, x) ELSE f[y]]
  <2>3. \A y \in 0 .. x - 1 : f[y] = IF y = 0 THEN <<>> ELSE NameNext(f[y - 1], places, y)
    BY <2>2 DEF PrintedRec
  <2>4. \A y \in 0 .. x : g[y] = IF y = 0 THEN <<>> ELSE NameNext(g[y - 1], places, y)
    <3> SUFFICES ASSUME NEW y \in 0 .. x
                 PROVE  g[y] = IF y = 0 THEN <<>> ELSE NameNext(g[y - 1], places, y)
      OBVIOUS
    <3>1. CASE y = x
      <4>1. x - 1 \in 0 .. x /\ x - 1 # x
        BY <2>1, <1>6
      <4> QED
        BY <1>6, <3>1, <4>1
    <3>2. CASE y # x
      <4>1. y \in 0 .. x - 1 /\ (y # 0 => y - 1 \in 0 .. x /\ y - 1 # x)
        BY <2>1, <3>2
      <4> QED
        BY <2>3, <3>2, <4>1
    <3> QED
      BY <3>1, <3>2
  <2>5. g = [y \in 0 .. x |-> g[y]]
    OBVIOUS
  <2> HIDE DEF g
  <2>6. PrintedRec(g, places, x)
    BY <2>4, <2>5 DEF PrintedRec
  <2> QED
    BY <1>4, <2>6
<1> QED
  BY <1>5, <1>6

LEMMA PrintedProperty ==
  ASSUME NEW places, Len(places) \in Nat
  PROVE  Named(PrintedNames(places), places, Len(places))
<1> DEFINE L == Len(places)
           S(f) == [n \in 0 .. L |->
                      IF n = 0 THEN <<>>
                      ELSE Append(f[n - 1],
                             IF places[n].decl.name \in ToSet(f[n - 1])
                             THEN UniqueName(places[n].decl.name, places[n].decl.addr)
                             ELSE places[n].decl.name)]
           printed == CHOOSE f : f = S(f)
<1>1. PrintedNames(places) = printed[L]
  BY DEF PrintedNames
<1>2. PICK t : PrintedRec(t, places, L)
  BY PrintedExists
<1>3. t = S(t)
  BY <1>2 DEF PrintedRec, NameNext, NameOf, MadeUnique
<1>4. printed = S(printed)
  BY <1>3, Zenon
<1>5. \A x \in 0 .. L : printed[x] = IF x = 0 THEN <<>> ELSE NameNext(printed[x - 1], places, x)
  BY <1>4 DEF NameNext, NameOf, MadeUnique
<1> HIDE DEF printed
<1> DEFINE bad == {x \in 0 .. L : ~ Named(printed[x], places, x)}
<1>6. SUFFICES ASSUME bad # {} PROVE FALSE
  BY <1>1
<1>7. bad \subseteq Nat
  OBVIOUS
<1>8. PICK x \in bad : \A y \in bad : x <= y
  BY <1>6, <1>7, LeastExists
<1>9. x \in 0 .. L /\ ~ Named(printed[x], places, x)
  BY <1>8
<1>10. CASE x = 0
  <2>1. printed[x] = <<>>
    BY <1>5, <1>9, <1>10
  <2>2. Named(<<>>, places, 0)
    BY DEF Named, IsList
  <2> QED
    BY <1>9, <1>10, <2>1, <2>2
<1>11. CASE x # 0
  <2>1. x - 1 \in 0 .. L /\ x - 1 \notin bad /\ x \in Nat \ {0}
    BY <1>7, <1>8, <1>9, <1>11
  <2>2. Named(printed[x - 1], places, x - 1)
    BY <2>1
  <2>3. printed[x] = NameNext(printed[x - 1], places, x)
    BY <1>5, <1>9, <1>11
  <2> QED
    BY <1>9, <2>1, <2>2, <2>3, NamedNext
<1> QED
  BY <1>10, <1>11

LEMMA FcnIsList ==
  ASSUME NEW L \in Nat, NEW f, f = [x \in 1 .. L |-> f[x]]
  PROVE  IsList(f) /\ Len(f) = L /\ DOMAIN f = 1 .. L
<1>1. f \in [1 .. L -> ToSet(f)]
  BY DEF ToSet
<1> QED
  BY <1>1 DEF IsList

(* A declaration with its place, as Placed makes it.                       *)
Place(decls, overlay, kind, x) == [kind |-> kind, overlay |-> overlay, place |-> x, decl |-> decls[x]]

LEMMA PlacedProperty ==
  ASSUME NEW decls, IsList(decls), NEW overlay, NEW kind, NEW chosen
  PROVE  /\ IsList(Placed(decls, overlay, kind, chosen))
         /\ \A e : e \in ToSet(Placed(decls, overlay, kind, chosen)) <=>
                     \E x \in DOMAIN decls : x \in chosen /\ e = Place(decls, overlay, kind, x)
<1> DEFINE L == Len(decls)
           s == [x \in DOMAIN decls |-> x]
           places == Among(s, chosen)
           pl == Placed(decls, overlay, kind, chosen)
<1>1. L \in Nat /\ DOMAIN decls = 1 .. L
  BY DEF IsList
<1>2. IsList(s) /\ Len(s) = L
  <2>1. s = [x \in 1 .. L |-> s[x]]
    BY <1>1
  <2> HIDE DEF s
  <2> QED
    BY <1>1, <2>1, FcnIsList
<1>3. \A x \in 1 .. L : s[x] = x
  BY <1>1
<1> HIDE DEF s
<1>4. Picks(places, s, chosen, L)
  BY <1>2, AmongProperty
<1>5. pl = [x \in DOMAIN places |-> Place(decls, overlay, kind, places[x])]
  BY DEF Placed, Place, s
<1> HIDE DEF places, pl
<1>6. Len(places) \in Nat /\ DOMAIN places = 1 .. Len(places)
  BY <1>4 DEF Picks
<1>7. IsList(pl)
  BY <1>5, <1>6, FcnIsList
<1>8. ASSUME NEW e, e \in ToSet(pl)
      PROVE  \E x \in DOMAIN decls : x \in chosen /\ e = Place(decls, overlay, kind, x)
  <2>1. PICK y \in DOMAIN places : e = Place(decls, overlay, kind, places[y])
    BY <1>5, <1>8 DEF ToSet
  <2>2. PICK x \in 1 .. L : places[y] = s[x] /\ s[x] \in chosen
    BY <1>4 DEF Picks
  <2> QED
    BY <1>1, <1>3, <2>1, <2>2
<1>9. ASSUME NEW x \in DOMAIN decls, x \in chosen
      PROVE  Place(decls, overlay, kind, x) \in ToSet(pl)
  <2>1. x \in 1 .. L /\ s[x] = x
    BY <1>1, <1>3
  <2>2. PICK y \in DOMAIN places : places[y] = s[x]
    BY <1>4, <1>9, <2>1 DEF Picks
  <2> QED
    BY <1>5, <2>1, <2>2 DEF ToSet
<1> QED
  BY <1>7, <1>8, <1>9 DEF pl

IsVarOf(p, source, e) ==
  \E o \in DOMAIN p.overlays : \E x \in DOMAIN p.overlays[o].vars :
    source = GlobalSource(p.overlays[o].id) /\ e = Place(p.overlays[o].vars, o, "var", x)

IsFuncOf(p, source, e) ==
  \E o \in DOMAIN p.overlays : \E x \in DOMAIN p.overlays[o].funcs :
    source = p.overlays[o].funcs[x].path /\ e = Place(p.overlays[o].funcs, o, "func", x)

LEMMA OverlayParts ==
  ASSUME NEW p, IsParser(p), NEW o \in DOMAIN p.overlays, NEW source
  PROVE  /\ IsList(VarsOf(p, o, source)) /\ IsList(FuncsOf(p, o, source))
         /\ \A e : e \in ToSet(VarsOf(p, o, source)) <=>
                     \E x \in DOMAIN p.overlays[o].vars :
                       source = GlobalSource(p.overlays[o].id) /\ e = Place(p.overlays[o].vars, o, "var", x)
         /\ \A e : e \in ToSet(FuncsOf(p, o, source)) <=>
                     \E x \in DOMAIN p.overlays[o].funcs :
                       source = p.overlays[o].funcs[x].path /\ e = Place(p.overlays[o].funcs, o, "func", x)
<1> DEFINE vs == p.overlays[o].vars
           funcs == p.overlays[o].funcs
           vchosen == IF source = GlobalSource(p.overlays[o].id) THEN DOMAIN vs ELSE {}
           fchosen == {x \in DOMAIN funcs : funcs[x].path = source}
<1>1. IsList(vs) /\ IsList(funcs)
  BY DEF IsParser
<1>2. VarsOf(p, o, source) = Placed(vs, o, "var", vchosen)
  BY DEF VarsOf
<1>3. FuncsOf(p, o, source) = Placed(funcs, o, "func", fchosen)
  BY DEF FuncsOf
<1>4. /\ \A x \in DOMAIN vs : x \in vchosen <=> source = GlobalSource(p.overlays[o].id)
      /\ \A x \in DOMAIN funcs : x \in fchosen <=> source = funcs[x].path
  OBVIOUS
<1>5. /\ IsList(Placed(vs, o, "var", vchosen))
      /\ \A e : e \in ToSet(Placed(vs, o, "var", vchosen)) <=>
                  \E x \in DOMAIN vs : x \in vchosen /\ e = Place(vs, o, "var", x)
  <2> HIDE DEF vs, vchosen
  <2> QED
    BY <1>1, PlacedProperty
<1>6. /\ IsList(Placed(funcs, o, "func", fchosen))
      /\ \A e : e \in ToSet(Placed(funcs, o, "func", fchosen)) <=>
                  \E x \in DOMAIN funcs : x \in fchosen /\ e = Place(funcs, o, "func", x)
  <2> HIDE DEF funcs, fchosen
  <2> QED
    BY <1>1, PlacedProperty
<1> HIDE DEF vchosen, fchosen
<1> QED
  BY <1>2, <1>3, <1>4, <1>5, <1>6

LEMMA OrderIs ==
  ASSUME NEW p, IsParser(p)
  PROVE  /\ Len(p.overlays) \in Nat /\ DOMAIN p.overlays = 1 .. Len(p.overlays)
         /\ DOMAIN OverlayOrder(p) = 1 .. Len(p.overlays)
         /\ \A x \in DOMAIN OverlayOrder(p) : OverlayOrder(p)[x] \in DOMAIN p.overlays
         /\ \A o \in DOMAIN p.overlays : \E x \in DOMAIN OverlayOrder(p) : OverlayOrder(p)[x] = o
<1> DEFINE L == Len(p.overlays)
<1>1. L \in Nat /\ DOMAIN p.overlays = 1 .. L
  BY DEF IsParser, IsList
<1>2. OverlayOrder(p) = [x \in 1 .. L |-> IF x = L THEN 1 ELSE x + 1]
  BY <1>1 DEF OverlayOrder
<1> HIDE DEF L
<1>3. \A x \in 1 .. L : (IF x = L THEN 1 ELSE x + 1) \in 1 .. L
  BY <1>1
<1>4. ASSUME NEW o \in 1 .. L
      PROVE  \E x \in 1 .. L : OverlayOrder(p)[x] = o
  <2>1. CASE o = 1
    <3>1. L \in 1 .. L
      BY <1>1
    <3> QED
      BY <1>2, <2>1, <3>1
  <2>2. CASE o # 1
    <3>1. o - 1 \in 1 .. L /\ o - 1 # L /\ (o - 1) + 1 = o
      BY <1>1, <2>2
    <3> QED
      BY <1>2, <3>1
  <2> QED
    BY <2>1, <2>2
<1> QED
  BY <1>1, <1>2, <1>3, <1>4 DEF L

(* A source file has the variables of the overlays it is the file of, and  *)
(* the functions with its path.                                            *)
LEMMA SourceDeclsProperty ==
  ASSUME NEW p, IsParser(p), NEW source
  PROVE  /\ IsList(SourceDecls(p, source))
         /\ \A e : e \in ToSet(SourceDecls(p, source)) <=>
                     IsVarOf(p, source, e) \/ IsFuncOf(p, source, e)
<1> DEFINE order == OverlayOrder(p)
           L == Len(p.overlays)
           vs == [x \in DOMAIN order |-> VarsOf(p, order[x], source)]
           funcs == [x \in DOMAIN order |-> FuncsOf(p, order[x], source)]
<1>1. SourceDecls(p, source) = FlattenSeq(vs) \o FlattenSeq(funcs)
  BY DEF SourceDecls
<1>2. /\ L \in Nat /\ DOMAIN order = 1 .. L
      /\ \A x \in 1 .. L : order[x] \in DOMAIN p.overlays
      /\ \A o \in DOMAIN p.overlays : \E x \in 1 .. L : order[x] = o
  BY OrderIs
<1> HIDE DEF order, L
<1>3. /\ \A x \in 1 .. L : vs[x] = VarsOf(p, order[x], source) /\ IsList(vs[x])
      /\ \A x \in 1 .. L : funcs[x] = FuncsOf(p, order[x], source) /\ IsList(funcs[x])
  BY <1>2, OverlayParts
<1>4. vs = [x \in 1 .. L |-> vs[x]] /\ funcs = [x \in 1 .. L |-> funcs[x]]
  BY <1>2
<1> HIDE DEF vs, funcs
<1>5. /\ IsList(vs) /\ Len(vs) = L /\ DOMAIN vs = 1 .. L
      /\ IsList(funcs) /\ Len(funcs) = L /\ DOMAIN funcs = 1 .. L
  BY <1>2, <1>4, FcnIsList
<1>6. Flat(FlattenSeq(vs), vs, L) /\ Flat(FlattenSeq(funcs), funcs, L)
  BY <1>3, <1>5, FlattenProperty
<1>7. IsList(FlattenSeq(vs)) /\ IsList(FlattenSeq(funcs))
  BY <1>6 DEF Flat
<1>8. /\ IsList(FlattenSeq(vs) \o FlattenSeq(funcs))
      /\ \A e : e \in ToSet(FlattenSeq(vs) \o FlattenSeq(funcs)) <=>
                  e \in ToSet(FlattenSeq(vs)) \/ e \in ToSet(FlattenSeq(funcs))
  BY <1>7, ConcatIs
<1>9. ASSUME NEW e
      PROVE  e \in ToSet(FlattenSeq(vs)) <=> IsVarOf(p, source, e)
  <2>1. e \in ToSet(FlattenSeq(vs)) <=> \E x \in 1 .. L : e \in ToSet(VarsOf(p, order[x], source))
    BY <1>3, <1>6 DEF Flat
  <2>2. e \in ToSet(FlattenSeq(vs)) <=> \E o \in DOMAIN p.overlays : e \in ToSet(VarsOf(p, o, source))
    BY <1>2, <2>1
  <2> QED
    BY <2>2, OverlayParts DEF IsVarOf
<1>10. ASSUME NEW e
       PROVE  e \in ToSet(FlattenSeq(funcs)) <=> IsFuncOf(p, source, e)
  <2>1. e \in ToSet(FlattenSeq(funcs)) <=> \E x \in 1 .. L : e \in ToSet(FuncsOf(p, order[x], source))
    BY <1>3, <1>6 DEF Flat
  <2>2. e \in ToSet(FlattenSeq(funcs)) <=> \E o \in DOMAIN p.overlays : e \in ToSet(FuncsOf(p, o, source))
    BY <1>2, <2>1
  <2> QED
    BY <2>2, OverlayParts DEF IsFuncOf
<1> QED
  BY <1>1, <1>8, <1>9, <1>10

-----------------------------------------------------------------------------
(* The files of a dump: those of the parsers the program dumps.            *)
Dumpable(p) == IsParser(p) /\ UsedSources(p) \subseteq ToSet(Sources)

LEMMA SourcesOfProperty ==
  ASSUME NEW p, Dumpable(p)
  PROVE  /\ IsList(SourcesOf(p)) /\ IsInjective(SourcesOf(p))
         /\ ToSet(SourcesOf(p)) = UsedSources(p)
         /\ Len(SourcesOf(p)) \in Nat /\ DOMAIN SourcesOf(p) = 1 .. Len(SourcesOf(p))
<1> DEFINE t == SourcesOf(p)
           used == UsedSources(p)
<1>1. IsList(Sources) /\ IsInjective(Sources)
  BY DriverAssumption
<1>2. Picks(t, Sources, used, Len(Sources))
  BY <1>1, AmongProperty DEF SourcesOf
<1>3. DOMAIN Sources = 1 .. Len(Sources) /\ used \subseteq ToSet(Sources)
  BY <1>1 DEF IsList, Dumpable
<1> HIDE DEF t, used
<1>4. t \in Seq(ToSet(Sources)) /\ IsInjective(t)
  BY <1>1, <1>2 DEF Picks
<1>5. ToSet(t) \subseteq used
  BY <1>2 DEF Picks, ToSet
<1>6. used \subseteq ToSet(t)
  <2> SUFFICES ASSUME NEW e \in used PROVE e \in ToSet(t)
    OBVIOUS
  <2>1. PICK x \in DOMAIN Sources : Sources[x] = e
    BY <1>3 DEF ToSet
  <2>2. PICK y \in DOMAIN t : t[y] = Sources[x]
    BY <1>2, <1>3, <2>1 DEF Picks
  <2> QED
    BY <2>1, <2>2 DEF ToSet
<1>7. IsList(t) /\ Len(t) \in Nat /\ DOMAIN t = 1 .. Len(t)
  BY <1>4, ListIs
<1> QED
  BY <1>4, <1>5, <1>6, <1>7 DEF t, used

LEMMA SourceFilesAre ==
  ASSUME NEW p, Dumpable(p)
  PROVE  /\ IsList(SourceFiles(p)) /\ Len(SourceFiles(p)) = Len(SourcesOf(p))
         /\ DOMAIN SourceFiles(p) = 1 .. Len(SourcesOf(p))
         /\ \A x \in 1 .. Len(SourcesOf(p)) : SourceFiles(p)[x] =
              IF SourcesOf(p)[x] = NoSource THEN File(<<>>, {}) ELSE SourceFile(p, SourcesOf(p)[x])
<1> DEFINE sources == SourcesOf(p)
           L == Len(sources)
           files == SourceFiles(p)
<1>1. L \in Nat /\ DOMAIN sources = 1 .. L
  BY SourcesOfProperty
<1>2. files = [x \in DOMAIN sources |->
                 IF sources[x] = NoSource THEN File(<<>>, {}) ELSE SourceFile(p, sources[x])]
  BY DEF SourceFiles
<1> HIDE DEF sources, files
<1>3. files = [x \in 1 .. L |-> files[x]]
  BY <1>1, <1>2
<1> HIDE DEF L
<1>4. IsList(files) /\ Len(files) = L /\ DOMAIN files = 1 .. L
  BY <1>1, <1>3, FcnIsList
<1> QED
  BY <1>1, <1>2, <1>4 DEF L, sources, files

(* There are not more source files than paths in the parser.               *)
LEMMA SourcesCounted ==
  ASSUME NEW p, Dumpable(p)
  PROVE  Len(SourceFiles(p)) <= Cardinality(UsedSources(p)) /\ Cardinality(UsedSources(p)) \in Nat
<1> DEFINE t == SourcesOf(p)
           L == Len(t)
           used == UsedSources(p)
<1>1. IsInjective(t) /\ ToSet(t) = used /\ L \in Nat /\ DOMAIN t = 1 .. L /\ IsList(t)
  BY SourcesOfProperty
<1> HIDE DEF t, used
<1>2. t \in [1 .. L -> used]
  BY <1>1 DEF ToSet, IsList
<1>3. t \in Injection(1 .. L, used) /\ t \in Surjection(1 .. L, used)
  BY <1>1, <1>2 DEF Injection, Surjection, IsInjective, ToSet
<1>4. IsFiniteSet(1 .. L) /\ Cardinality(1 .. L) = L
  <2> HIDE DEF L
  <2>1. 1 \in Int /\ L \in Int
    BY <1>1
  <2>2. IsFiniteSet(1 .. L) /\ Cardinality(1 .. L) = IF 1 > L THEN 0 ELSE L - 1 + 1
    BY <2>1, FS_Interval
  <2> QED
    BY <1>1, <2>2
<1>5. IsFiniteSet(used)
  BY <1>3, <1>4, FS_Surjection
<1>6. L <= Cardinality(used)
  BY <1>3, <1>4, <1>5, FS_Injection
<1> QED
  BY <1>5, <1>6, SourceFilesAre, FS_CardinalityType DEF t, used

LEMMA ListOfOne ==
  ASSUME NEW a, NEW s, s = <<a>>
  PROVE  IsList(s) /\ Len(s) = 1 /\ DOMAIN s = 1 .. 1 /\ s[1] = a
<1>1. s \in Seq({a}) /\ Len(s) = 1 /\ DOMAIN s = 1 .. 1 /\ s[1] = a
  OBVIOUS
<1> QED
  BY <1>1, ListIs

LEMMA ListOfTwo ==
  ASSUME NEW a, NEW b, NEW s, s = <<a, b>>
  PROVE  /\ IsList(s) /\ Len(s) = 2 /\ DOMAIN s = 1 .. 2 /\ s[1] = a /\ s[2] = b
         /\ \A x \in DOMAIN s : x = 1 \/ x = 2
<1>1. s \in Seq({a, b}) /\ Len(s) = 2 /\ DOMAIN s = 1 .. 2 /\ s[1] = a /\ s[2] = b
  OBVIOUS
<1>2. \A x \in 1 .. 2 : x = 1 \/ x = 2
  OBVIOUS
<1> QED
  BY <1>1, <1>2, ListIs

LEMMA DeclsFilesAre ==
  ASSUME NEW p, IsParser(p)
  PROVE  /\ IsList(DeclsFiles(p)) /\ Len(DeclsFiles(p)) = Len(p.overlays)
         /\ DOMAIN DeclsFiles(p) = 1 .. Len(p.overlays) /\ Len(p.overlays) \in Nat
<1>1. Len(p.overlays) \in Nat /\ DOMAIN p.overlays = 1 .. Len(p.overlays)
  BY OrderIs
<1>2. DeclsFiles(p) = [x \in 1 .. Len(p.overlays) |-> DeclsFiles(p)[x]]
  BY <1>1 DEF DeclsFiles
<1> QED
  BY <1>1, <1>2, FcnIsList

LEMMA IDAFilesAre ==
  ASSUME NEW p, NEW o
  PROVE  IsList(IDAFiles(p, o)) /\ Len(IDAFiles(p, o)) = 3
<1>1. \A a, b, c : <<a, b, c>> \in Seq({a, b, c}) /\ Len(<<a, b, c>>) = 3
  OBVIOUS
<1> QED
  BY <1>1, ListIs DEF IDAFiles

(* Which functions dump calls, by the flags.                               *)
ForSources == opts["c"] /\ opts["src"]
ForHeaders == opts["c"] /\ ~ opts["src"]
ForTypes == ~ opts["c"] /\ opts["types"]
ForIDA == ~ opts["c"] /\ ~ opts["types"]

LEMMA CallsBy ==
  ASSUME NEW p
  PROVE  /\ ForSources \/ ForHeaders \/ ForTypes \/ ForIDA
         /\ ForSources => Calls(p) = << <<TypesFile(p)>>, SourceFiles(p) >>
         /\ ForHeaders => Calls(p) = << <<TypesFile(p)>>, DeclsFiles(p) >>
         /\ ForTypes => Calls(p) = << <<TypesFile(p)>> >>
         /\ ForIDA => Calls(p) = [o \in DOMAIN p.overlays |-> IDAFiles(p, o)] \o << <<IDATypesFile(p)>> >>
BY DEF ForSources, ForHeaders, ForTypes, ForIDA, Calls

LEMMA IDACalls ==
  ASSUME NEW p, IsParser(p), ForIDA
  PROVE  /\ IsList(Calls(p)) /\ Len(Calls(p)) = Len(p.overlays) + 1 /\ Len(p.overlays) \in Nat
         /\ DOMAIN Calls(p) = 1 .. Len(p.overlays) + 1
         /\ \A o \in 1 .. Len(p.overlays) : Calls(p)[o] = IDAFiles(p, o)
         /\ Calls(p)[Len(p.overlays) + 1] = <<IDATypesFile(p)>>
<1> DEFINE L == Len(p.overlays)
           s == [o \in DOMAIN p.overlays |-> IDAFiles(p, o)]
           t == << <<IDATypesFile(p)>> >>
<1>1. L \in Nat /\ DOMAIN p.overlays = 1 .. L
  BY OrderIs
<1>2. Calls(p) = s \o t
  BY CallsBy
<1>3. s = [o \in 1 .. L |-> s[o]] /\ \A o \in 1 .. L : s[o] = IDAFiles(p, o)
  BY <1>1
<1>4. IsList(t) /\ Len(t) = 1 /\ t[1] = <<IDATypesFile(p)>>
  BY ListOfOne
<1> HIDE DEF L, s, t
<1>5. IsList(s) /\ Len(s) = L
  BY <1>1, <1>3, FcnIsList
<1> DEFINE T == ToSet(s) \cup ToSet(t)
<1>6. s \in Seq(T) /\ t \in Seq(T)
  BY <1>4, <1>5 DEF IsList, ToSet
<1> HIDE DEF T
<1>7. /\ Len(s \o t) = L + 1 /\ DOMAIN (s \o t) = 1 .. L + 1
      /\ \A o \in 1 .. L : (s \o t)[o] = s[o]
      /\ (s \o t)[L + 1] = t[1]
  <2>1. /\ s \o t \in Seq(T) /\ Len(s \o t) = Len(s) + Len(t)
        /\ \A o \in 1 .. Len(s) : (s \o t)[o] = s[o]
        /\ \A o \in 1 .. Len(t) : (s \o t)[Len(s) + o] = t[o]
    BY <1>6
  <2> QED
    BY <1>1, <1>4, <1>5, <2>1
<1>8. IsList(s \o t)
  BY <1>4, <1>5, ConcatIs
<1> QED
  BY <1>1, <1>2, <1>3, <1>4, <1>7, <1>8 DEF L

LEMMA CallsAreLists ==
  ASSUME NEW p, Dumpable(p)
  PROVE  IsList(Calls(p)) /\ \A c \in DOMAIN Calls(p) : IsList(Calls(p)[c])
<1>1. IsParser(p) /\ IsList(<<TypesFile(p)>>) /\ IsList(<<IDATypesFile(p)>>)
  BY ListOfOne DEF Dumpable
<1>2. CASE ForSources
  <2>1. IsList(SourceFiles(p))
    BY SourceFilesAre
  <2>2. Calls(p) = << <<TypesFile(p)>>, SourceFiles(p) >>
    BY <1>2, CallsBy
  <2> QED
    BY <1>1, <2>1, <2>2, ListOfTwo
<1>3. CASE ForHeaders
  <2>1. IsList(DeclsFiles(p))
    BY <1>1, DeclsFilesAre
  <2>2. Calls(p) = << <<TypesFile(p)>>, DeclsFiles(p) >>
    BY <1>3, CallsBy
  <2> QED
    BY <1>1, <2>1, <2>2, ListOfTwo
<1>4. CASE ForTypes
  <2>1. Calls(p) = << <<TypesFile(p)>> >>
    BY <1>4, CallsBy
  <2>2. IsList(Calls(p)) /\ DOMAIN Calls(p) = 1 .. 1 /\ Calls(p)[1] = <<TypesFile(p)>>
    BY <2>1, ListOfOne
  <2>3. \A c \in 1 .. 1 : c = 1
    OBVIOUS
  <2> QED
    BY <1>1, <2>2, <2>3
<1>5. CASE ForIDA
  <2>1. \A c \in 1 .. Len(p.overlays) + 1 : c \in 1 .. Len(p.overlays) \/ c = Len(p.overlays) + 1
    BY <1>1, <1>5, IDACalls
  <2> QED
    BY <1>1, <1>5, <2>1, IDACalls, IDAFilesAre, SMTT(30)
<1> QED
  BY <1>2, <1>3, <1>4, <1>5, CallsBy

(* The only functions that create many files are those for source files    *)
(* and, with many overlays, for headers.                                   *)
TooMany(p) ==
  CASE InSources -> Cardinality(UsedSources(p)) > MaxOpen
    [] opts["c"] /\ ~ opts["src"] -> Len(p.overlays) > MaxOpen
    [] OTHER -> IDAOnly /\ MaxOpen < 3

LEMMA LongCall ==
  ASSUME NEW p, Dumpable(p), Translates, NEW c \in DOMAIN Calls(p), Len(Calls(p)[c]) > MaxOpen
  PROVE  TooMany(p)
<1> DEFINE L == Len(Calls(p)[c])
<1>1. IsParser(p) /\ MaxOpen \in Nat /\ MaxOpen >= 1 /\ L > MaxOpen
  BY DriverAssumption DEF Dumpable
<1>2. Len(<<TypesFile(p)>>) = 1 /\ Len(<<IDATypesFile(p)>>) = 1
  BY ListOfOne
<1>3. CASE ForSources
  <2> DEFINE C == Cardinality(UsedSources(p))
  <2>1. Calls(p) = << <<TypesFile(p)>>, SourceFiles(p) >>
    BY <1>3, CallsBy
  <2>2. L = 1 \/ L = Len(SourceFiles(p))
    BY <1>2, <2>1, ListOfTwo
  <2>3. Len(SourceFiles(p)) \in Nat /\ Len(SourceFiles(p)) <= C /\ C \in Nat
    BY SourceFilesAre, SourcesCounted DEF IsList
  <2> HIDE DEF C, L
  <2>4. C > MaxOpen
    BY <1>1, <2>2, <2>3
  <2> QED
    BY <1>3, <2>4 DEF ForSources, InSources, TooMany, C
<1>4. CASE ForHeaders
  <2>1. Calls(p) = << <<TypesFile(p)>>, DeclsFiles(p) >>
    BY <1>4, CallsBy
  <2>2. L = 1 \/ L = Len(DeclsFiles(p))
    BY <1>2, <2>1, ListOfTwo
  <2>3. Len(DeclsFiles(p)) = Len(p.overlays)
    BY <1>1, DeclsFilesAre
  <2> HIDE DEF L
  <2>4. Len(p.overlays) > MaxOpen
    BY <1>1, <2>2, <2>3
  <2> QED
    BY <1>4, <2>4 DEF ForHeaders, InSources, TooMany
<1>5. CASE ForTypes
  <2>1. Calls(p) = << <<TypesFile(p)>> >>
    BY <1>5, CallsBy
  <2>2. DOMAIN Calls(p) = 1 .. 1 /\ Calls(p)[1] = <<TypesFile(p)>>
    BY <2>1, ListOfOne
  <2>3. L = 1
    BY <1>2, <2>2
  <2> HIDE DEF L
  <2> QED
    BY <1>1, <2>3
<1>6. CASE ForIDA
  <2>1. c \in 1 .. Len(p.overlays) \/ c = Len(p.overlays) + 1
    BY <1>1, <1>6, IDACalls
  <2>2. L = 3 \/ L = 1
    <3>1. CASE c \in 1 .. Len(p.overlays)
      BY <1>1, <1>6, <3>1, IDACalls, IDAFilesAre
    <3>2. CASE c = Len(p.overlays) + 1
      <4>1. Calls(p)[c] = <<IDATypesFile(p)>>
        BY <1>1, <1>6, <3>2, IDACalls
      <4> QED
        BY <1>2, <4>1
    <3> QED
      BY <2>1, <3>1, <3>2
  <2> HIDE DEF L
  <2>3. MaxOpen < 3
    BY <1>1, <2>2
  <2>4. IDAOnly /\ ~ InSources
    BY <1>6 DEF ForIDA, Translates, WithDecls, WithTypes, IDAOnly, InSources
  <2> QED
    BY <1>6, <2>3, <2>4 DEF ForIDA, TooMany
<1> QED
  BY <1>3, <1>4, <1>5, <1>6, CallsBy

-----------------------------------------------------------------------------
(* The parsers that were collected, and the one that is dumped.            *)
Collected ==
  /\ args \in Arguments /\ k \in 1 .. Len(args) + 1
  /\ ps # <<>> => opts["merge"] /\ Translates
  /\ opts["merge"] /\ Translates =>
       /\ ps = [x \in 1 .. k - 1 |-> args[x].parser]
       /\ \A x \in 1 .. k - 1 : args[x].outcome \in {"parsed", "decls panic"}
  /\ pc \in {"init", "write", "fatal handles"} => Translates /\ Dumpable(parser)

LEMMA ArgsTyped ==
  ASSUME Collected
  PROVE  /\ args \in Seq(Inputs) /\ Len(args) \in Nat /\ DOMAIN args = 1 .. Len(args)
         /\ \A x \in 1 .. Len(args) : args[x] \in Inputs
         /\ k \in Nat /\ k >= 1 /\ k <= Len(args) + 1
<1>1. args \in Seq(Inputs)
  BY DriverAssumption DEF Collected
<1>2. /\ Len(args) \in Nat /\ DOMAIN args = 1 .. Len(args)
      /\ \A x \in 1 .. Len(args) : args[x] \in Inputs
  BY <1>1
<1>3. k \in 1 .. Len(args) + 1
  BY DEF Collected
<1> DEFINE L == Len(args)
<1>4. k \in 1 .. L + 1 /\ L \in Nat
  BY <1>2, <1>3
<1> HIDE DEF L
<1>5. k \in Nat /\ k >= 1 /\ k <= L + 1
  BY <1>4
<1> QED
  BY <1>1, <1>2, <1>5 DEF L

LEMMA CollectedInit == Init => Collected
<1> SUFFICES ASSUME Init PROVE Collected
  OBVIOUS
<1>1. args \in Arguments /\ k = 1 /\ ps = <<>> /\ pc = "start"
  BY DEF Init
<1>2. Len(args) \in Nat
  BY <1>1, DriverAssumption
<1>3. ps = [x \in 1 .. k - 1 |-> args[x].parser] /\ 1 .. k - 1 = {}
  BY <1>1
<1> QED
  BY <1>1, <1>2, <1>3 DEF Collected

LEMMA CollectedParse ==
  ASSUME Collected, Parse
  PROVE  Collected'
<1>1. /\ opts' = opts /\ args' = args /\ Translates /\ Translates' = Translates
      /\ k <= Len(args) /\ k' = k + 1 /\ ps' = ParsersAfter /\ parser' = args[k].parser
      /\ args[k].outcome \in {"parsed", "decls panic"}
      /\ pc' \in {"inputs", "init"}
  BY DEF Parse, AtInput, AfterParsing, Translates, WithDecls, WithTypes
<1>2. /\ args \in Seq(Inputs) /\ Len(args) \in Nat /\ DOMAIN args = 1 .. Len(args)
      /\ \A x \in 1 .. Len(args) : args[x] \in Inputs
      /\ k \in Nat /\ k >= 1
  BY ArgsTyped
<1> DEFINE L == Len(args)
<1>2a. L \in Nat /\ k \in Nat /\ k >= 1 /\ k <= L /\ k' = k + 1
  BY <1>1, <1>2
<1> HIDE DEF L
<1>3. /\ k \in 1 .. L /\ k' \in 1 .. L + 1 /\ k' - 1 = k
      /\ \A x \in 1 .. k : x = k \/ x \in 1 .. k - 1
  BY <1>2a
<1>3b. args[k] \in Inputs
  BY <1>2, <1>3 DEF L
<1>4. Dumpable(args[k].parser)
  BY <1>3b, ParserAssumption DEF Dumpable
<1>5. Dumpable(parser)'
  BY <1>1, <1>4 DEF Dumpable
<1>6. CASE opts["merge"]
  <2> DEFINE e == args[k].parser
  <2>1. ps = [x \in 1 .. k - 1 |-> args[x].parser] /\ ps' = Append(ps, e)
    BY <1>1, <1>6 DEF Collected, ParsersAfter
  <2>2. IsList(ps) /\ Len(ps) = k - 1
    <3>1. k - 1 \in Nat /\ ps = [x \in 1 .. k - 1 |-> ps[x]]
      BY <1>2, <2>1
    <3> QED
      BY <3>1, FcnIsList
  <2> DEFINE T == ToSet(ps) \cup {e}
  <2>3. ps \in Seq(T) /\ e \in T
    BY <2>2 DEF IsList, ToSet
  <2> HIDE DEF e, T
  <2>4. /\ ps' \in Seq(T) /\ Len(ps') = k /\ ps'[k] = e /\ \A x \in 1 .. k - 1 : ps'[x] = ps[x]
    BY <1>2, <2>1, <2>2, <2>3
  <2>5. \A x \in 1 .. k : ps'[x] = args[x].parser
    <3> SUFFICES ASSUME NEW x \in 1 .. k PROVE ps'[x] = args[x].parser
      OBVIOUS
    <3>1. x = k \/ x \in 1 .. k - 1
      BY <1>3
    <3> QED
      BY <2>1, <2>4, <3>1 DEF e
  <2>6. ps' = [x \in 1 .. k |-> ps'[x]]
    BY <2>4
  <2>7. ps' = [x \in 1 .. k' - 1 |-> args'[x].parser]
    <3>1. args' = args
      BY <1>1
    <3> QED
      BY <1>3, <2>5, <2>6, <3>1
  <2>8. \A x \in 1 .. k' - 1 : args'[x].outcome \in {"parsed", "decls panic"}
    <3>0. args' = args
      BY <1>1
    <3> SUFFICES ASSUME NEW x \in 1 .. k PROVE args[x].outcome \in {"parsed", "decls panic"}
      BY <1>3, <3>0
    <3>1. x = k \/ x \in 1 .. k - 1
      BY <1>3
    <3> QED
      BY <1>1, <1>6, <3>1 DEF Collected
  <2>9. k' \in 1 .. Len(args') + 1 /\ args' \in Arguments
    BY <1>1, <1>3 DEF Collected, L
  <2> QED
    BY <1>1, <1>5, <1>6, <2>7, <2>8, <2>9 DEF Collected
<1>7. CASE ~ opts["merge"]
  <2>1. ps' = <<>>
    BY <1>1, <1>7 DEF Collected, ParsersAfter
  <2>2. k' \in 1 .. Len(args') + 1 /\ args' \in Arguments
    BY <1>1, <1>3 DEF Collected, L
  <2> QED
    BY <1>1, <1>5, <1>7, <2>1, <2>2 DEF Collected
<1> QED
  BY <1>6, <1>7

LEMMA CollectedMerge ==
  ASSUME Collected, Merge
  PROVE  Collected'
<1>1. /\ opts' = opts /\ args' = args /\ Translates' = Translates /\ k' = k /\ ps' = ps
      /\ k > Len(args) /\ opts["merge"]
  BY DEF Merge, End, Translates, WithDecls, WithTypes
<1>2. CASE ps = <<>>
  BY <1>1, <1>2 DEF Merge, End, Collected
<1>3. CASE ps # <<>>
  <2>1. parser' = Merged(ps) /\ pc' = "init"
    BY <1>3 DEF Merge
  <2>2. /\ args \in Seq(Inputs) /\ Len(args) \in Nat /\ DOMAIN args = 1 .. Len(args)
        /\ k \in Nat /\ k >= 1
    BY ArgsTyped
  <2>3. Translates /\ k - 1 = Len(args) /\ args \in Arguments
    <3> DEFINE L == Len(args)
    <3>1. L \in Nat /\ k \in Nat /\ k > L /\ k <= L + 1
      BY <1>1, ArgsTyped
    <3> HIDE DEF L
    <3>2. k - 1 = L
      BY <3>1
    <3> QED
      BY <1>3, <3>2 DEF Collected, L
  <2> DEFINE L == Len(args)
  <2>3a. /\ ps = [x \in 1 .. k - 1 |-> args[x].parser]
        /\ \A x \in 1 .. k - 1 : args[x].outcome \in {"parsed", "decls panic"}
    BY <1>1, <2>3 DEF Collected
  <2>3b. /\ ps = [x \in 1 .. L |-> args[x].parser]
        /\ \A x \in 1 .. L : args[x].outcome \in {"parsed", "decls panic"}
    BY <2>3, <2>3a
  <2>4. ps = Parsers(args)
    BY <2>2, <2>3b DEF Parsers
  <2>5. args \in Parsed
    <3>1. args # <<>>
      <4> SUFFICES ASSUME args = <<>> PROVE FALSE
        OBVIOUS
      <4>0. L = 0
        OBVIOUS
      <4>1. ps = [x \in 1 .. 0 |-> args[x].parser]
        BY <2>3b, <4>0
      <4> QED
        BY <1>3, <4>1
    <3>2. \A x \in 1 .. Len(args) : args[x].outcome \in {"parsed", "decls panic"}
      BY <2>3b
    <3> QED
      BY <2>2, <2>3, <3>1, <3>2 DEF Parsed
  <2>6. Dumpable(Merged(ps))
    BY <2>4, <2>5, ParserAssumption DEF Dumpable
  <2>7. Dumpable(parser)'
    BY <2>1, <2>6 DEF Dumpable
  <2> QED
    BY <1>1, <2>1, <2>3, <2>7 DEF Collected
<1> QED
  BY <1>2, <1>3

LEMMA CollectedNext ==
  ASSUME Collected, [Next]_vars
  PROVE  Collected'
<1>1. CASE Parse
  BY <1>1, CollectedParse
<1>2. CASE Merge
  BY <1>2, CollectedMerge
<1>3. CASE CheckFlags \/ Unreadable \/ PassPanics \/ Finish
  <2>1. /\ opts' = opts /\ args' = args /\ k' = k /\ ps' = ps /\ Translates' = Translates
        /\ pc' \notin {"init", "write", "fatal handles"}
    BY <1>3 DEF CheckFlags, Unreadable, PassPanics, Finish, AtInput, End, Translates, WithDecls, WithTypes
  <2> QED
    BY <2>1 DEF Collected
<1>4. CASE PrintListing
  <2>1. /\ opts' = opts /\ args' = args /\ ps' = ps /\ ~ Translates /\ Translates' = Translates
        /\ k <= Len(args) /\ k' = k + 1 /\ pc' = "inputs"
    BY <1>4 DEF PrintListing, AtInput, Translates, WithDecls, WithTypes
  <2>2. Len(args) \in Nat /\ k \in Nat /\ k >= 1
    BY ArgsTyped
  <2>3. k' \in 1 .. Len(args') + 1
    BY <2>1, <2>2
  <2> QED
    BY <2>1, <2>3 DEF Collected
<1>5. CASE DumpStep \/ UNCHANGED vars
  <2>1. /\ opts' = opts /\ args' = args /\ k' = k /\ ps' = ps /\ parser' = parser
        /\ Translates' = Translates
        /\ pc' \in {"init", "write", "fatal handles"} => pc \in {"init", "write", "fatal handles"}
    BY <1>5 DEF vars, DumpStep, InitOutputDir, InitOutputDirFails, WriteFile, NoPath, WriteFails,
                NoHandle, Return, EndDump, AtFile, End, Translates, WithDecls, WithTypes
  <2>2. Dumpable(parser)' = Dumpable(parser)
    BY <2>1 DEF Dumpable
  <2> QED
    BY <2>1, <2>2 DEF Collected
<1> QED
  BY <1>1, <1>2, <1>3, <1>4, <1>5 DEF Next, MainStep

-----------------------------------------------------------------------------
(* Where a dump is: todo is what is left of the files of Calls(parser),    *)
(* the call under way has created as many files as are open.               *)
Total == Len(Calls(parser))
Current == Total - Len(todo) + 1
Rest(c, n) == SubSeq(Calls(parser)[c], n + 1, Len(Calls(parser)[c]))

InProgress ==
  /\ pc \in {"start", "inputs", "init"} => open = 0
  /\ pc = "write" =>
       /\ IsList(todo) /\ Len(todo) <= Total
       /\ \A x \in 2 .. Len(todo) : todo[x] = Calls(parser)[Current + x - 1]
       /\ todo = <<>> => open = 0
       /\ todo # <<>> => /\ open \in 0 .. Len(Calls(parser)[Current])
                         /\ todo[1] = Rest(Current, open)
  /\ pc = "fatal handles" => \E c \in DOMAIN Calls(parser) : Len(Calls(parser)[c]) > MaxOpen

LEMMA SameCalls ==
  ASSUME opts' = opts, parser' = parser
  PROVE  /\ Calls(parser)' = Calls(parser) /\ Total' = Total
         /\ PathsDiffer(parser)' = PathsDiffer(parser)
         /\ \A c, x : Rest(c, x)' = Rest(c, x)
<1>1. Calls(parser)' = Calls(parser)
  BY DEF Calls
<1>2. PathsDiffer(parser)' = PathsDiffer(parser)
  BY DEF PathsDiffer, InSources
<1> QED
  BY <1>1, <1>2 DEF Total, Rest

(* The sequence that is left when the first x elements are gone.           *)
LEMMA SuffixIs ==
  ASSUME NEW s, IsList(s), NEW x \in 0 .. Len(s)
  PROVE  /\ SubSeq(s, x + 1, Len(s)) = <<>> <=> x = Len(s)
         /\ x # Len(s) => /\ x + 1 \in 1 .. Len(s)
                          /\ Head(SubSeq(s, x + 1, Len(s))) = s[x + 1]
                          /\ Tail(SubSeq(s, x + 1, Len(s))) = SubSeq(s, (x + 1) + 1, Len(s))
<1> DEFINE L == Len(s)
           T == ToSet(s)
           u == SubSeq(s, x + 1, L)
<1>1. s \in Seq(T) /\ L \in Nat /\ x \in 0 .. L
  BY DEF IsList
<1> HIDE DEF T
<1>2. u \in Seq(T) /\ Len(u) = L - x /\ \A y \in 1 .. L - x : u[y] = s[x + y]
  BY <1>1
<1>3. u = <<>> <=> L - x = 0
  <2> HIDE DEF u, L
  <2>1. u = <<>> => Len(u) = 0
    OBVIOUS
  <2>2. Len(u) = 0 => u = <<>>
    BY <1>2
  <2> QED
    BY <1>2, <2>1, <2>2
<1>4. ASSUME x # L
      PROVE  x + 1 \in 1 .. L /\ Head(u) = s[x + 1] /\ Tail(u) = SubSeq(s, (x + 1) + 1, L)
  <2> DEFINE w == SubSeq(s, (x + 1) + 1, L)
  <2>1. x + 1 \in 1 .. L /\ 1 \in 1 .. L - x
    BY <1>1, <1>4
  <2>2. w \in Seq(T) /\ Len(w) = L - x - 1 /\ \A y \in 1 .. L - x - 1 : w[y] = s[x + 1 + y]
    BY <1>1, <2>1
  <2> HIDE DEF u, w, L
  <2>3. u # <<>> /\ Head(u) = u[1] /\ Tail(u) \in Seq(T) /\ Len(Tail(u)) = L - x - 1
        /\ \A y \in 1 .. L - x - 1 : Tail(u)[y] = u[y + 1]
    BY <1>1, <1>2, <2>1
  <2>4. \A y \in 1 .. L - x - 1 : Tail(u)[y] = w[y]
    <3> SUFFICES ASSUME NEW y \in 1 .. L - x - 1 PROVE Tail(u)[y] = w[y]
      OBVIOUS
    <3>1. y + 1 \in 1 .. L - x /\ x + (y + 1) = x + 1 + y
      BY <1>1
    <3> QED
      BY <1>2, <2>2, <2>3, <3>1
  <2>5. Tail(u) = w
    BY <2>2, <2>3, <2>4
  <2> QED
    BY <1>2, <2>1, <2>3, <2>5 DEF w
<1> QED
  BY <1>1, <1>3, <1>4

(* In a dump: the head of todo belongs to a call, with the files it has    *)
(* created taken away.                                                     *)
LEMMA AtWork ==
  ASSUME Collected, InProgress, pc = "write", todo # <<>>
  PROVE  /\ Dumpable(parser) /\ IsList(Calls(parser)) /\ Total \in Nat
         /\ Len(todo) \in Nat /\ Len(todo) >= 1
         /\ Current \in 1 .. Total /\ Current \in DOMAIN Calls(parser)
         /\ IsList(Calls(parser)[Current]) /\ Len(Calls(parser)[Current]) \in Nat
         /\ open \in 0 .. Len(Calls(parser)[Current])
         /\ Head(todo) = Rest(Current, open)
<1>1. Dumpable(parser) /\ IsList(todo) /\ Len(todo) <= Total
  BY DEF Collected, InProgress
<1>2. IsList(Calls(parser)) /\ \A c \in DOMAIN Calls(parser) : IsList(Calls(parser)[c])
  BY <1>1, CallsAreLists
<1>3. Total \in Nat /\ DOMAIN Calls(parser) = 1 .. Total
  BY <1>2 DEF IsList, Total
<1>4. Len(todo) \in Nat /\ Len(todo) >= 1 /\ Head(todo) = todo[1]
  BY <1>1 DEF IsList
<1>5. Current \in 1 .. Total
  BY <1>1, <1>3, <1>4 DEF Current
<1>6. IsList(Calls(parser)[Current])
  BY <1>2, <1>3, <1>5
<1>7. Len(Calls(parser)[Current]) \in Nat
  BY <1>6 DEF IsList
<1>8. open \in 0 .. Len(Calls(parser)[Current]) /\ todo[1] = Rest(Current, open)
  BY DEF InProgress
<1> QED
  BY <1>1, <1>2, <1>3, <1>4, <1>5, <1>6, <1>7, <1>8

LEMMA ProgressStart ==
  ASSUME Collected, InProgress, InitOutputDir
  PROVE  InProgress'
<1>1. /\ opts' = opts /\ parser' = parser /\ open' = open /\ pc' = "write" /\ pc = "init"
      /\ todo' = Calls(parser)
  BY DEF InitOutputDir
<1>2. Calls(parser)' = Calls(parser) /\ Total' = Total /\ open' = 0
  BY <1>1, SameCalls DEF InProgress
<1>3. Dumpable(parser)
  BY <1>1 DEF Collected
<1>4. IsList(Calls(parser)) /\ \A c \in DOMAIN Calls(parser) : IsList(Calls(parser)[c])
  BY <1>3, CallsAreLists
<1> DEFINE cs == Calls(parser)
           L == Len(cs)
<1>5. L \in Nat /\ DOMAIN cs = 1 .. L /\ (cs # <<>> => L >= 1)
  BY <1>4 DEF IsList
<1>6. todo' = cs /\ Total' = L /\ Current' = L - L + 1
  BY <1>1, <1>2 DEF Total, Current
<1>7. Current' = 1 /\ \A x \in 2 .. L : 1 + x - 1 = x
  <2> HIDE DEF L
  <2> QED
    BY <1>5, <1>6
<1>8. ASSUME cs # <<>>
      PROVE  0 \in 0 .. Len(cs[1]) /\ SubSeq(cs[1], 0 + 1, Len(cs[1])) = cs[1]
  <2>1. IsList(cs[1])
    BY <1>4, <1>5, <1>8
  <2> DEFINE s == cs[1]
  <2> HIDE DEF s
  <2>2. IsList(s) => 0 \in 0 .. Len(s) /\ SubSeq(s, 0 + 1, Len(s)) = s
    BY DEF IsList
  <2> QED
    BY <2>1, <2>2 DEF s
<1>9. todo' # <<>> => open' \in 0 .. Len(Calls(parser)'[Current']) /\ todo'[1] = Rest(Current, open)'
  BY <1>2, <1>6, <1>7, <1>8 DEF Rest
<1>10. \A x \in 2 .. Len(todo') : todo'[x] = Calls(parser)'[Current' + x - 1]
  BY <1>2, <1>6, <1>7
<1> QED
  BY <1>1, <1>2, <1>4, <1>5, <1>6, <1>9, <1>10 DEF InProgress

LEMMA ProgressWrite ==
  ASSUME Collected, InProgress, WriteFile
  PROVE  /\ InProgress' /\ Current' = Current /\ open' = open + 1
         /\ open + 1 \in 1 .. Len(Calls(parser)[Current])
         /\ TheFile = Calls(parser)[Current][open + 1]
<1>1. /\ opts' = opts /\ parser' = parser /\ open' = open + 1 /\ pc' = "write" /\ pc = "write"
      /\ todo # <<>> /\ Head(todo) # <<>> /\ todo' = <<Tail(Head(todo))>> \o Tail(todo)
  BY DEF WriteFile, AtFile
<1>2. /\ IsList(Calls(parser)) /\ Total \in Nat /\ Len(todo) \in Nat /\ Len(todo) >= 1
      /\ IsList(Calls(parser)[Current]) /\ open \in 0 .. Len(Calls(parser)[Current])
      /\ Head(todo) = Rest(Current, open)
  BY <1>1, AtWork
<1>3. /\ Calls(parser)' = Calls(parser) /\ Total' = Total
      /\ \A c, x : Rest(c, x)' = Rest(c, x)
  BY <1>1, SameCalls
<1> DEFINE s == Calls(parser)[Current]
<1>4. /\ open + 1 \in 1 .. Len(s) /\ Head(Head(todo)) = s[open + 1]
      /\ Tail(Head(todo)) = Rest(Current, open + 1)
  <2>1. /\ SubSeq(s, open + 1, Len(s)) = <<>> <=> open = Len(s)
        /\ open # Len(s) => /\ open + 1 \in 1 .. Len(s)
                            /\ Head(SubSeq(s, open + 1, Len(s))) = s[open + 1]
                            /\ Tail(SubSeq(s, open + 1, Len(s))) = SubSeq(s, (open + 1) + 1, Len(s))
    <3> HIDE DEF s
    <3>1. IsList(s) /\ open \in 0 .. Len(s)
      BY <1>2 DEF s
    <3> QED
      BY <3>1, SuffixIs
  <2>2. Head(todo) = SubSeq(s, open + 1, Len(s))
    BY <1>2 DEF Rest
  <2>3. open # Len(s)
    BY <1>1, <2>1, <2>2
  <2> QED
    BY <2>1, <2>2, <2>3 DEF Rest
<1>5. IsList(todo)
  BY <1>1 DEF InProgress
<1> DEFINE h == Tail(Head(todo))
           T == ToSet(todo) \cup {h}
<1>6. todo \in Seq(T) /\ h \in T
  BY <1>5 DEF IsList, ToSet
<1>7. /\ todo' \in Seq(T) /\ Len(todo') = Len(todo) /\ todo'[1] = h
      /\ \A x \in 2 .. Len(todo) : todo'[x] = todo[x]
  <2> HIDE DEF h, T
  <2>1. Tail(todo) \in Seq(T) /\ Len(Tail(todo)) = Len(todo) - 1
        /\ \A x \in 1 .. Len(todo) - 1 : Tail(todo)[x] = todo[x + 1]
    BY <1>1, <1>2, <1>6
  <2> DEFINE r == Tail(todo)
  <2> HIDE DEF r
  <2>2. r \in Seq(T) /\ Len(r) = Len(todo) - 1 /\ \A x \in 1 .. Len(todo) - 1 : r[x] = todo[x + 1]
    BY <2>1 DEF r
  <2>3. <<h>> \in Seq(T) /\ Len(<<h>>) = 1 /\ <<h>>[1] = h
    BY <1>6
  <2> DEFINE w == <<h>> \o r
  <2>4. /\ w \in Seq(T) /\ Len(w) = 1 + Len(r) /\ w[1] = <<h>>[1]
        /\ \A x \in 1 .. Len(r) : w[1 + x] = r[x]
    BY <2>2, <2>3
  <2> HIDE DEF w
  <2>5. \A x \in 2 .. Len(todo) : x - 1 \in 1 .. Len(r) /\ 1 + (x - 1) = x /\ (x - 1) + 1 = x
                                  /\ x - 1 \in 1 .. Len(todo) - 1
    BY <1>2, <2>2
  <2>6. ASSUME NEW x \in 2 .. Len(todo)
        PROVE  w[x] = todo[x]
    <3>1. x - 1 \in 1 .. Len(r) /\ 1 + (x - 1) = x /\ (x - 1) + 1 = x /\ x - 1 \in 1 .. Len(todo) - 1
      BY <2>5
    <3>2. w[1 + (x - 1)] = r[x - 1] /\ r[x - 1] = todo[(x - 1) + 1]
      BY <2>2, <2>4, <3>1
    <3> QED
      BY <3>1, <3>2
  <2>7. todo' = w
    BY <1>1 DEF w, h, r
  <2> QED
    BY <1>2, <2>2, <2>3, <2>4, <2>6, <2>7
<1>8. Current' = Current
  BY <1>3, <1>7 DEF Current
<1>9. IsList(todo') /\ todo' # <<>>
  <2> HIDE DEF T
  <2>1. IsList(todo')
    BY <1>7, ListIs
  <2>2. Len(todo') # 0
    BY <1>2, <1>7
  <2> QED
    BY <2>1, <2>2
<1>10. \A x \in 2 .. Len(todo') : todo'[x] = Calls(parser)'[Current' + x - 1]
  BY <1>1, <1>3, <1>7, <1>8 DEF InProgress
<1>11. todo'[1] = Rest(Current, open)'
  <2>1. todo'[1] = Rest(Current, open + 1)
    BY <1>4, <1>7
  <2> QED
    BY <1>1, <1>3, <1>8, <2>1 DEF Rest
<1>12. open' \in 0 .. Len(Calls(parser)'[Current'])
  <2>1. open' \in 1 .. Len(s) /\ Len(s) \in Nat
    BY <1>1, <1>2, <1>4 DEF IsList
  <2>2. open' \in 0 .. Len(s)
    <3> HIDE DEF s
    <3> QED
      BY <2>1
  <2> QED
    BY <1>3, <1>8, <2>2
<1>13. Len(todo') <= Total'
  BY <1>1, <1>3, <1>7 DEF InProgress
<1>14. InProgress'
  BY <1>1, <1>9, <1>10, <1>11, <1>12, <1>13 DEF InProgress
<1> QED
  BY <1>1, <1>4, <1>8, <1>14 DEF TheFile

LEMMA ProgressReturn ==
  ASSUME Collected, InProgress, Return
  PROVE  /\ InProgress' /\ Current' = Current + 1 /\ open' = 0
         /\ open = Len(Calls(parser)[Current])
<1>1. /\ opts' = opts /\ parser' = parser /\ open' = 0 /\ pc' = "write" /\ pc = "write"
      /\ todo # <<>> /\ Head(todo) = <<>> /\ todo' = Tail(todo)
  BY DEF Return, OpenAfter
<1>2. /\ Dumpable(parser) /\ IsList(Calls(parser)) /\ Total \in Nat /\ Len(todo) \in Nat /\ Len(todo) >= 1
      /\ IsList(Calls(parser)[Current]) /\ open \in 0 .. Len(Calls(parser)[Current])
      /\ Head(todo) = Rest(Current, open) /\ Current \in 1 .. Total
  BY <1>1, AtWork
<1>3. /\ Calls(parser)' = Calls(parser) /\ Total' = Total
      /\ \A c, x : Rest(c, x)' = Rest(c, x)
  BY <1>1, SameCalls
<1>4. open = Len(Calls(parser)[Current])
  <2> DEFINE s == Calls(parser)[Current]
  <2>1. IsList(s) /\ open \in 0 .. Len(s) /\ SubSeq(s, open + 1, Len(s)) = <<>>
    BY <1>1, <1>2 DEF Rest
  <2> HIDE DEF s
  <2>2. open = Len(s)
    BY <2>1, SuffixIs
  <2> QED
    BY <2>2 DEF s
<1>5. IsList(todo) /\ Len(todo) <= Total
  BY <1>1 DEF InProgress
<1>6. /\ todo' \in Seq(ToSet(todo)) /\ Len(todo') = Len(todo) - 1
      /\ \A x \in 1 .. Len(todo) - 1 : todo'[x] = todo[x + 1]
  BY <1>1, <1>5 DEF IsList
<1>7. IsList(todo')
  BY <1>6, ListIs
<1>8. Current' = Current + 1 /\ Current \in Nat
  BY <1>2, <1>3, <1>6 DEF Current
<1>9. \A x \in 1 .. Len(todo') : todo'[x] = Calls(parser)'[Current' + x - 1]
  <2> SUFFICES ASSUME NEW x \in 1 .. Len(todo') PROVE todo'[x] = Calls(parser)'[Current' + x - 1]
    OBVIOUS
  <2>1. x \in 1 .. Len(todo) - 1 /\ x + 1 \in 2 .. Len(todo) /\ Current + (x + 1) - 1 = Current' + x - 1
    BY <1>2, <1>6, <1>8
  <2>2. todo[x + 1] = Calls(parser)[Current + (x + 1) - 1]
    BY <1>1, <2>1 DEF InProgress
  <2> QED
    BY <1>3, <1>6, <2>1, <2>2
<1>10. ASSUME todo' # <<>>
       PROVE  open' \in 0 .. Len(Calls(parser)'[Current']) /\ todo'[1] = Rest(Current, open)'
  <2>1. Len(todo') \in Nat /\ Len(todo') >= 1
    BY <1>6, <1>10
  <2>2. Current' \in 1 .. Total
    BY <1>2, <1>3, <1>5, <1>6, <1>8, <2>1 DEF Current
  <2>3. todo'[1] = Calls(parser)[Current']
    BY <1>3, <1>8, <1>9, <2>1
  <2>4. IsList(Calls(parser)[Current'])
    BY <1>2, <2>2, CallsAreLists DEF IsList, Total
  <2> DEFINE s == Calls(parser)[Current']
  <2>5. 0 \in 0 .. Len(s) /\ SubSeq(s, 0 + 1, Len(s)) = s
    <3>1. IsList(s)
      BY <2>4
    <3> HIDE DEF s
    <3> QED
      BY <3>1 DEF IsList
  <2> QED
    BY <1>1, <1>3, <2>3, <2>5 DEF Rest
<1>11. \A x \in 2 .. Len(todo') : todo'[x] = Calls(parser)'[Current' + x - 1]
  <2>1. \A x \in 2 .. Len(todo') : x \in 1 .. Len(todo')
    BY <1>2, <1>6
  <2> QED
    BY <1>9, <2>1
<1>12. Len(todo') <= Total'
  BY <1>2, <1>3, <1>5, <1>6
<1>13. InProgress'
  BY <1>1, <1>7, <1>10, <1>11, <1>12 DEF InProgress
<1> QED
  BY <1>1, <1>4, <1>8, <1>13

LEMMA ProgressNext ==
  ASSUME Collected, InProgress, [Next]_vars
  PROVE  InProgress'
<1>1. CASE MainStep
  <2>1. open' = open /\ pc \in {"start", "inputs"} /\ pc' \notin {"write", "fatal handles"}
    BY <1>1 DEF MainStep, CheckFlags, Unreadable, PassPanics, Parse, PrintListing, Merge, Finish,
                AtInput, End, AfterParsing
  <2> QED
    BY <2>1 DEF InProgress
<1>2. CASE InitOutputDir
  BY <1>2, ProgressStart
<1>3. CASE InitOutputDirFails \/ NoPath \/ WriteFails
  <2>1. pc' \notin {"start", "inputs", "init", "write", "fatal handles"}
    BY <1>3 DEF InitOutputDirFails, NoPath, WriteFails, End
  <2> QED
    BY <2>1 DEF InProgress
<1>4. CASE WriteFile
  BY <1>4, ProgressWrite
<1>5. CASE Return
  BY <1>5, ProgressReturn
<1>6. CASE NoHandle
  <2>1. /\ pc = "write" /\ todo # <<>> /\ Head(todo) # <<>> /\ open >= MaxOpen
        /\ pc' = "fatal handles" /\ opts' = opts /\ parser' = parser
    BY <1>6 DEF NoHandle, AtFile, End
  <2>2. /\ Current \in DOMAIN Calls(parser) /\ IsList(Calls(parser)[Current])
        /\ open \in 0 .. Len(Calls(parser)[Current]) /\ Len(Calls(parser)[Current]) \in Nat
        /\ Head(todo) = Rest(Current, open)
    BY <2>1, AtWork
  <2> DEFINE s == Calls(parser)[Current]
  <2>3. open # Len(s)
    <3>1. IsList(s) /\ open \in 0 .. Len(s) /\ SubSeq(s, open + 1, Len(s)) # <<>>
      BY <2>1, <2>2 DEF Rest
    <3> HIDE DEF s
    <3> QED
      BY <3>1, SuffixIs
  <2>4. Len(s) > MaxOpen
    <3>1. Len(s) \in Nat /\ open \in 0 .. Len(s) /\ MaxOpen \in Nat /\ open >= MaxOpen
      BY <2>1, <2>2, DriverAssumption
    <3> DEFINE L == Len(s)
    <3>2. L \in Nat /\ open \in 0 .. L /\ MaxOpen \in Nat /\ open >= MaxOpen /\ open # L
      BY <2>3, <3>1
    <3> HIDE DEF L
    <3>3. L > MaxOpen
      BY <3>2
    <3> QED
      BY <3>3 DEF L
  <2>5. Calls(parser)' = Calls(parser)
    BY <2>1, SameCalls
  <2> QED
    BY <2>1, <2>2, <2>4, <2>5 DEF InProgress
<1>7. CASE EndDump
  <2>1. pc = "write" /\ todo = <<>> /\ open' = open /\ pc' \in {"done", "inputs"}
    BY <1>7 DEF EndDump
  <2> QED
    BY <2>1 DEF InProgress
<1>8. CASE UNCHANGED vars
  <2>1. UNCHANGED <<opts, parser, todo, open, pc>>
    BY <1>8 DEF vars
  <2>2. Calls(parser)' = Calls(parser) /\ Total' = Total /\ Current' = Current
        /\ Rest(Current, open)' = Rest(Current, open)
    BY <2>1, SameCalls DEF Current, Rest
  <2> QED
    BY <2>1, <2>2 DEF InProgress
<1> QED
  BY <1>1, <1>2, <1>3, <1>4, <1>5, <1>6, <1>7, <1>8 DEF Next, DumpStep

(* A dump stops for want of a handle only if one function creates more     *)
(* files than can be open: all that a function creates are closed when it  *)
(* returns, whatever came before it.                                       *)
THEOREM HandlesDoSuffice == Spec => []HandlesSuffice
<1>1. Init => Collected /\ InProgress
  <2>1. Init => InProgress
    BY DEF Init, InProgress
  <2> QED
    BY <2>1, CollectedInit
<1>2. Collected /\ InProgress /\ [Next]_vars => (Collected /\ InProgress)'
  BY CollectedNext, ProgressNext
<1>3. Collected /\ InProgress => HandlesSuffice
  <2> SUFFICES ASSUME Collected, InProgress, pc = "fatal handles" PROVE TooMany(parser)
    BY DEF HandlesSuffice, TooMany
  <2>1. Translates /\ Dumpable(parser)
    BY DEF Collected
  <2>2. PICK c \in DOMAIN Calls(parser) : Len(Calls(parser)[c]) > MaxOpen
    BY DEF InProgress
  <2> QED
    BY <2>1, <2>2, LongCall
<1> QED
  BY <1>1, <1>2, <1>3, PTL DEF Spec

-----------------------------------------------------------------------------
(* The paths of the files of a dump.                                       *)
TypesPath == << <<"types.h", 0>> >>
Script == << "make_psx.py", "set_funcs.py", "set_vars.py" >>

LEMMA TypesPathIs ==
  ASSUME NEW p
  PROVE  TypesFile(p).path = TypesPath /\ IDATypesFile(p).path = TypesPath
BY DEF TypesFile, IDATypesFile, File, TypesPath

LEMMA IDAPath ==
  ASSUME NEW p, NEW o
  PROVE  /\ DOMAIN IDAFiles(p, o) = 1 .. 3
         /\ \A x \in 1 .. 3 : IDAFiles(p, o)[x].path =
              IF p.overlays[o].id = 0 THEN << <<Script[x], 0>> >>
              ELSE << <<"overlay_%x", p.overlays[o].id>>, <<Script[x], 0>> >>
<1> DEFINE id == p.overlays[o].id
           dir == IDADir(id)
           F(x) == IDAFiles(p, o)[x].path
<1>1. F(1) = dir \o << <<"make_psx.py", 0>> >> /\ F(2) = dir \o << <<"set_funcs.py", 0>> >>
      /\ F(3) = dir \o << <<"set_vars.py", 0>> >>
  BY DEF IDAFiles, File
<1>2. \A a : <<>> \o <<a>> = <<a>>
  OBVIOUS
<1>3. \A a, b : <<b>> \o <<a>> = <<b, a>>
  <2> TAKE a, b
  <2> DEFINE T == {a, b}
  <2>1. <<a>> \in Seq(T) /\ <<b>> \in Seq(T) /\ <<b, a>> \in Seq(T)
    OBVIOUS
  <2> DEFINE s == <<b>>
             t == <<a>>
             u == <<b, a>>
             w == s \o t
  <2>2. /\ s \in Seq(T) /\ Len(s) = 1 /\ s[1] = b
        /\ t \in Seq(T) /\ Len(t) = 1 /\ t[1] = a
        /\ u \in Seq(T) /\ Len(u) = 2 /\ u[1] = b /\ u[2] = a
    BY <2>1
  <2> HIDE DEF s, t, u, T
  <2>3. w \in Seq(T) /\ Len(w) = 2 /\ w[1] = b /\ w[2] = a
    <3>1. s \in Seq(T) /\ t \in Seq(T)
      BY <2>2
    <3>2. /\ w \in Seq(T) /\ Len(w) = Len(s) + Len(t)
          /\ \A x \in 1 .. Len(s) : w[x] = s[x]
          /\ \A x \in 1 .. Len(t) : w[Len(s) + x] = t[x]
      BY <3>1
    <3> HIDE DEF w
    <3>3. w[1 + 1] = t[1]
      BY <2>2, <3>2
    <3> QED
      BY <2>2, <3>2, <3>3
  <2> HIDE DEF w
  <2>4. \A x \in 1 .. 2 : x = 1 \/ x = 2
    OBVIOUS
  <2>5. w = u
    BY <2>2, <2>3, <2>4
  <2> QED
    BY <2>5 DEF w, s, t, u
<1>4. \A x \in 1 .. 3 : x = 1 \/ x = 2 \/ x = 3
  OBVIOUS
<1>5. Script[1] = "make_psx.py" /\ Script[2] = "set_funcs.py" /\ Script[3] = "set_vars.py"
  BY DEF Script
<1>6. DOMAIN IDAFiles(p, o) = 1 .. 3
  BY DEF IDAFiles
<1>7. CASE id = 0
  <2>1. dir = <<>>
    BY <1>7 DEF IDADir
  <2> HIDE DEF dir
  <2>2. F(1) = << <<"make_psx.py", 0>> >> /\ F(2) = << <<"set_funcs.py", 0>> >>
        /\ F(3) = << <<"set_vars.py", 0>> >>
    BY <1>1, <1>2, <2>1
  <2> QED
    BY <1>4, <1>5, <1>6, <1>7, <2>2
<1>8. CASE id # 0
  <2>1. dir = << <<"overlay_%x", id>> >>
    BY <1>8 DEF IDADir
  <2> HIDE DEF dir
  <2>2. F(1) = << <<"overlay_%x", id>>, <<"make_psx.py", 0>> >>
        /\ F(2) = << <<"overlay_%x", id>>, <<"set_funcs.py", 0>> >>
        /\ F(3) = << <<"overlay_%x", id>>, <<"set_vars.py", 0>> >>
    BY <1>1, <1>3, <2>1
  <2> QED
    BY <1>4, <1>5, <1>6, <1>8, <2>2
<1> QED
  BY <1>7, <1>8

LEMMA ScriptsDiffer ==
  ASSUME NEW x \in 1 .. 3, NEW y \in 1 .. 3
  PROVE  (Script[x] = Script[y] => x = y) /\ Script[x] # "types.h"
<1>1. \A z \in 1 .. 3 : z = 1 \/ z = 2 \/ z = 3
  OBVIOUS
<1>2. Script[1] = "make_psx.py" /\ Script[2] = "set_funcs.py" /\ Script[3] = "set_vars.py"
  BY DEF Script
<1> QED
  BY <1>1, <1>2

(* Files with the same path are the same file, in each way to split them.  *)
Distinct(c, x, d, y, p) ==
  Calls(p)[c][x].path # <<>> /\ Calls(p)[c][x].path = Calls(p)[d][y].path => c = d /\ x = y

LEMMA SourcePathsDiffer ==
  ASSUME NEW p, Dumpable(p), PathsDiffer(p), ForSources,
         NEW x \in DOMAIN SourceFiles(p), NEW y \in DOMAIN SourceFiles(p),
         SourceFiles(p)[x].path # <<>>
  PROVE  /\ SourceFiles(p)[x].path = SourceFiles(p)[y].path => x = y
         /\ SourceFiles(p)[x].path # TypesPath
<1> DEFINE t == SourcesOf(p)
           used == UsedSources(p)
<1>1. x \in DOMAIN t /\ y \in DOMAIN t /\ ToSet(t) = used /\ IsInjective(t)
  BY SourceFilesAre, SourcesOfProperty
<1>2. /\ SourceFiles(p)[x] = IF t[x] = NoSource THEN File(<<>>, {}) ELSE SourceFile(p, t[x])
      /\ SourceFiles(p)[y] = IF t[y] = NoSource THEN File(<<>>, {}) ELSE SourceFile(p, t[y])
  BY SourceFilesAre
<1> HIDE DEF t, used
<1>3. \A source : SourceFile(p, source).path = FileOf[source]
  BY DEF SourceFile, File
<1>4. File(<<>>, {}).path = <<>>
  BY DEF File
<1>5. SourceFiles(p)[x].path = FileOf[t[x]]
  BY <1>2, <1>3, <1>4
<1>6. SourceFiles(p)[y].path = FileOf[t[y]] \/ SourceFiles(p)[y].path = <<>>
  BY <1>2, <1>3, <1>4
<1>7. t[x] \in used /\ t[y] \in used
  BY <1>1 DEF ToSet
<1>8. /\ \A a, b \in used : FileOf[a] = FileOf[b] => a = b
      /\ \A a \in used : FileOf[a] # TypesPath
  BY DEF ForSources, InSources, PathsDiffer, TypesPath, used
<1> QED
  BY <1>1, <1>5, <1>6, <1>7, <1>8 DEF IsInjective

LEMMA HeaderPathsDiffer ==
  ASSUME NEW p, Dumpable(p), PathsDiffer(p),
         NEW x \in DOMAIN DeclsFiles(p), NEW y \in DOMAIN DeclsFiles(p)
  PROVE  /\ DeclsFiles(p)[x].path = DeclsFiles(p)[y].path => x = y
         /\ DeclsFiles(p)[x].path # TypesPath
<1> DEFINE P(o) == IF o = 1 THEN << <<"decls.h", 0>> >> ELSE << <<"overlay_%x.h", p.overlays[o].id>> >>
<1>1. x \in DOMAIN p.overlays /\ y \in DOMAIN p.overlays
  BY DEF DeclsFiles
<1>2. DeclsFiles(p)[x].path = P(x) /\ DeclsFiles(p)[y].path = P(y)
  BY <1>1 DEF DeclsFiles, File
<1>3. p.overlays[x].id = p.overlays[y].id => x = y
  BY <1>1 DEF PathsDiffer
<1>4. P(x) = P(y) => x = y
  <2>1. \A a, b, c, d : << <<a, b>> >> = << <<c, d>> >> => a = c /\ b = d
    OBVIOUS
  <2>2. "decls.h" # "overlay_%x.h"
    OBVIOUS
  <2> QED
    BY <1>3, <2>1, <2>2
<1>5. P(x) # TypesPath
  BY DEF TypesPath
<1> QED
  BY <1>2, <1>4, <1>5

LEMMA ScriptPathsDiffer ==
  ASSUME NEW p, Dumpable(p), PathsDiffer(p),
         NEW o \in DOMAIN p.overlays, NEW q \in DOMAIN p.overlays, NEW x \in 1 .. 3, NEW y \in 1 .. 3
  PROVE  /\ IDAFiles(p, o)[x].path = IDAFiles(p, q)[y].path => o = q /\ x = y
         /\ IDAFiles(p, o)[x].path # TypesPath
<1> DEFINE P(id, z) == IF id = 0 THEN << <<Script[z], 0>> >> ELSE << <<"overlay_%x", id>>, <<Script[z], 0>> >>
<1>1. IDAFiles(p, o)[x].path = P(p.overlays[o].id, x) /\ IDAFiles(p, q)[y].path = P(p.overlays[q].id, y)
  BY IDAPath
<1>2. /\ \A a, b : << <<a, 0>> >> = << <<b, 0>> >> => a = b
      /\ \A a, b, c, d : << <<"overlay_%x", a>>, <<b, 0>> >> = << <<"overlay_%x", c>>, <<d, 0>> >> => a = c /\ b = d
  OBVIOUS
<1>3. \A a, b, c : <<a>> # <<b, c>>
  OBVIOUS
<1>4. P(p.overlays[o].id, x) = P(p.overlays[q].id, y) => p.overlays[o].id = p.overlays[q].id /\ Script[x] = Script[y]
  BY <1>2, <1>3
<1>5. P(p.overlays[o].id, x) # TypesPath
  BY <1>2, <1>3, ScriptsDiffer DEF TypesPath
<1>6. p.overlays[o].id = p.overlays[q].id => o = q
  BY DEF PathsDiffer
<1> QED
  BY <1>1, <1>4, <1>5, <1>6, ScriptsDiffer

LEMMA PathsUnique ==
  ASSUME NEW p, Dumpable(p), PathsDiffer(p), NEW c \in DOMAIN Calls(p), NEW d \in DOMAIN Calls(p),
         NEW x \in DOMAIN Calls(p)[c], NEW y \in DOMAIN Calls(p)[d]
  PROVE  Distinct(c, x, d, y, p)
<1>1. IsParser(p) /\ TypesFile(p).path = TypesPath /\ IDATypesFile(p).path = TypesPath
  BY TypesPathIs DEF Dumpable
<1>2. /\ DOMAIN <<TypesFile(p)>> = {1} /\ <<TypesFile(p)>>[1] = TypesFile(p)
      /\ DOMAIN <<IDATypesFile(p)>> = {1} /\ <<IDATypesFile(p)>>[1] = IDATypesFile(p)
  OBVIOUS
<1>3. CASE ForSources
  <2>1. Calls(p) = << <<TypesFile(p)>>, SourceFiles(p) >>
    BY <1>3, CallsBy
  <2>2. /\ Calls(p)[1] = <<TypesFile(p)>> /\ Calls(p)[2] = SourceFiles(p)
        /\ (c = 1 \/ c = 2) /\ (d = 1 \/ d = 2)
    BY <2>1, ListOfTwo
  <2>3. CASE c = 1 /\ d = 1
    BY <1>2, <2>2, <2>3 DEF Distinct
  <2>4. CASE c = 1 /\ d = 2
    <3>1. Calls(p)[c][x].path = TypesPath /\ y \in DOMAIN SourceFiles(p)
          /\ Calls(p)[d][y].path = SourceFiles(p)[y].path
      BY <1>1, <1>2, <2>2, <2>4
    <3> QED
      BY <1>3, <3>1, SourcePathsDiffer DEF Distinct
  <2>5. CASE c = 2 /\ d = 1
    <3>1. Calls(p)[d][y].path = TypesPath /\ x \in DOMAIN SourceFiles(p)
          /\ Calls(p)[c][x].path = SourceFiles(p)[x].path
      BY <1>1, <1>2, <2>2, <2>5
    <3> QED
      BY <1>3, <3>1, SourcePathsDiffer DEF Distinct
  <2>6. CASE c = 2 /\ d = 2
    <3>1. /\ x \in DOMAIN SourceFiles(p) /\ y \in DOMAIN SourceFiles(p)
          /\ Calls(p)[c][x].path = SourceFiles(p)[x].path
          /\ Calls(p)[d][y].path = SourceFiles(p)[y].path
      BY <2>2, <2>6
    <3> QED
      BY <1>3, <2>6, <3>1, SourcePathsDiffer DEF Distinct
  <2> QED
    BY <2>2, <2>3, <2>4, <2>5, <2>6
<1>4. CASE ForHeaders
  <2>1. Calls(p) = << <<TypesFile(p)>>, DeclsFiles(p) >>
    BY <1>4, CallsBy
  <2>2. /\ Calls(p)[1] = <<TypesFile(p)>> /\ Calls(p)[2] = DeclsFiles(p)
        /\ (c = 1 \/ c = 2) /\ (d = 1 \/ d = 2)
    BY <2>1, ListOfTwo
  <2>3. CASE c = 1 /\ d = 1
    BY <1>2, <2>2, <2>3 DEF Distinct
  <2>4. CASE c = 1 /\ d = 2
    <3>1. Calls(p)[c][x].path = TypesPath /\ y \in DOMAIN DeclsFiles(p)
          /\ Calls(p)[d][y].path = DeclsFiles(p)[y].path
      BY <1>1, <1>2, <2>2, <2>4
    <3> QED
      BY <3>1, HeaderPathsDiffer DEF Distinct
  <2>5. CASE c = 2 /\ d = 1
    <3>1. Calls(p)[d][y].path = TypesPath /\ x \in DOMAIN DeclsFiles(p)
          /\ Calls(p)[c][x].path = DeclsFiles(p)[x].path
      BY <1>1, <1>2, <2>2, <2>5
    <3> QED
      BY <3>1, HeaderPathsDiffer DEF Distinct
  <2>6. CASE c = 2 /\ d = 2
    <3>1. /\ x \in DOMAIN DeclsFiles(p) /\ y \in DOMAIN DeclsFiles(p)
          /\ Calls(p)[c][x].path = DeclsFiles(p)[x].path
          /\ Calls(p)[d][y].path = DeclsFiles(p)[y].path
      BY <2>2, <2>6
    <3> QED
      BY <2>6, <3>1, HeaderPathsDiffer DEF Distinct
  <2> QED
    BY <2>2, <2>3, <2>4, <2>5, <2>6
<1>5. CASE ForTypes
  <2>1. Calls(p) = << <<TypesFile(p)>> >>
    BY <1>5, CallsBy
  <2>2. DOMAIN Calls(p) = 1 .. 1 /\ Calls(p)[1] = <<TypesFile(p)>>
    BY <2>1, ListOfOne
  <2>3. c = 1 /\ d = 1
    BY <2>2
  <2> QED
    BY <1>2, <2>2, <2>3 DEF Distinct
<1>6. CASE ForIDA
  <2> DEFINE L == Len(p.overlays)
  <2>1. /\ L \in Nat /\ DOMAIN Calls(p) = 1 .. L + 1
        /\ \A o \in 1 .. L : Calls(p)[o] = IDAFiles(p, o)
        /\ Calls(p)[L + 1] = <<IDATypesFile(p)>>
    BY <1>1, <1>6, IDACalls
  <2>2. DOMAIN p.overlays = 1 .. L
    BY <1>1, OrderIs
  <2> HIDE DEF L
  <2>3. (c = L + 1 \/ c \in 1 .. L) /\ (d = L + 1 \/ d \in 1 .. L)
    BY <2>1
  <2>4. CASE c = L + 1 /\ d = L + 1
    BY <1>2, <2>1, <2>4 DEF Distinct
  <2>5. CASE c = L + 1 /\ d \in 1 .. L
    <3>1. Calls(p)[c][x].path = TypesPath /\ d \in DOMAIN p.overlays
          /\ Calls(p)[d] = IDAFiles(p, d)
      BY <1>1, <1>2, <2>1, <2>2, <2>5
    <3>2. y \in 1 .. 3
      BY <3>1, IDAPath
    <3> QED
      BY <3>1, <3>2, ScriptPathsDiffer DEF Distinct
  <2>6. CASE c \in 1 .. L /\ d = L + 1
    <3>1. Calls(p)[d][y].path = TypesPath /\ c \in DOMAIN p.overlays
          /\ Calls(p)[c] = IDAFiles(p, c)
      BY <1>1, <1>2, <2>1, <2>2, <2>6
    <3>2. x \in 1 .. 3
      BY <3>1, IDAPath
    <3> QED
      BY <3>1, <3>2, ScriptPathsDiffer DEF Distinct
  <2>7. CASE c \in 1 .. L /\ d \in 1 .. L
    <3>1. /\ c \in DOMAIN p.overlays /\ Calls(p)[c] = IDAFiles(p, c)
          /\ d \in DOMAIN p.overlays /\ Calls(p)[d] = IDAFiles(p, d)
      BY <2>1, <2>2, <2>7
    <3>2. x \in DOMAIN IDAFiles(p, c) /\ y \in DOMAIN IDAFiles(p, d)
      BY <3>1
    <3>3. x \in 1 .. 3 /\ y \in 1 .. 3
      BY <3>2, IDAPath
    <3> QED
      BY <3>1, <3>3, ScriptPathsDiffer DEF Distinct
  <2> QED
    BY <2>3, <2>4, <2>5, <2>6, <2>7
<1> QED
  BY <1>3, <1>4, <1>5, <1>6, CallsBy

-----------------------------------------------------------------------------
(* What the files of a dump contain.                                       *)
Triple(y) == <<y.kind, y.overlay, y.place>>
InFile(f, e) == \E y \in f.items : e = Triple(y)
InDump(p, e) == \E c \in DOMAIN Calls(p) : \E x \in DOMAIN Calls(p)[c] : InFile(Calls(p)[c][x], e)
PathsGiven(p) == \A c \in DOMAIN Calls(p) : \A x \in DOMAIN Calls(p)[c] : Calls(p)[c][x].path # <<>>

LEMMA TypesContain ==
  ASSUME NEW p
  PROVE  /\ \A x \in 1 .. p.tags : InFile(TypesFile(p), <<"tag", 0, x>>) /\ InFile(IDATypesFile(p), <<"tag", 0, x>>)
         /\ \A x \in DOMAIN p.typedefs : InFile(TypesFile(p), <<"typedef", 0, x>>)
         /\ \A x \in DOMAIN p.typedefs : p.typedefs[x] # Int64 => InFile(IDATypesFile(p), <<"typedef", 0, x>>)
<1>1. TypesFile(p).items = {Item("bool", 0, 0, <<>>)} \cup {Item("tag", 0, x, <<>>) : x \in 1 .. p.tags}
                           \cup {Item("typedef", 0, x, p.typedefs[x]) : x \in DOMAIN p.typedefs}
  BY DEF TypesFile, File
<1>2. IDATypesFile(p).items =
        {y \in TypesFile(p).items : y.kind # "bool" /\ (y.kind = "typedef" => ~ IsFirstInt64(p, y.place))}
  BY DEF IDATypesFile, TypesFile, File
<1>3. ASSUME NEW x \in 1 .. p.tags
      PROVE  InFile(TypesFile(p), <<"tag", 0, x>>) /\ InFile(IDATypesFile(p), <<"tag", 0, x>>)
  <2> DEFINE y == Item("tag", 0, x, <<>>)
  <2>1. y \in TypesFile(p).items
    BY <1>1
  <2>2. y.kind = "tag" /\ Triple(y) = <<"tag", 0, x>>
    BY DEF Item, Triple
  <2> HIDE DEF y
  <2>3. y \in IDATypesFile(p).items
    BY <1>2, <2>1, <2>2
  <2> QED
    BY <2>1, <2>2, <2>3 DEF InFile
<1>4. ASSUME NEW x \in DOMAIN p.typedefs
      PROVE  /\ InFile(TypesFile(p), <<"typedef", 0, x>>)
             /\ p.typedefs[x] # Int64 => InFile(IDATypesFile(p), <<"typedef", 0, x>>)
  <2> DEFINE y == Item("typedef", 0, x, p.typedefs[x])
  <2>1. y \in TypesFile(p).items
    BY <1>1
  <2>2. y.kind = "typedef" /\ y.place = x /\ Triple(y) = <<"typedef", 0, x>>
    BY DEF Item, Triple
  <2> HIDE DEF y
  <2>3. p.typedefs[x] # Int64 => y \in IDATypesFile(p).items
    BY <1>2, <2>1, <2>2 DEF IsFirstInt64
  <2> QED
    BY <2>1, <2>2, <2>3 DEF InFile
<1> QED
  BY <1>3, <1>4

LEMMA DeclsContain ==
  ASSUME NEW p, NEW o \in DOMAIN p.overlays, NEW f, VarItems(p, o) \cup FuncItems(p, o) = f.items
  PROVE  /\ \A x \in DOMAIN p.overlays[o].vars : InFile(f, <<"var", o, x>>)
         /\ \A x \in DOMAIN p.overlays[o].funcs : InFile(f, <<"func", o, x>>)
<1>1. ASSUME NEW x \in DOMAIN p.overlays[o].vars
      PROVE  InFile(f, <<"var", o, x>>)
  <2> DEFINE y == Item("var", o, x, p.overlays[o].vars[x].name)
  <2>1. y \in f.items /\ Triple(y) = <<"var", o, x>>
    BY DEF VarItems, Item, Triple
  <2> HIDE DEF y
  <2> QED
    BY <2>1 DEF InFile
<1>2. ASSUME NEW x \in DOMAIN p.overlays[o].funcs
      PROVE  InFile(f, <<"func", o, x>>)
  <2> DEFINE y == Item("func", o, x, p.overlays[o].funcs[x].name)
  <2>1. y \in f.items /\ Triple(y) = <<"func", o, x>>
    BY DEF FuncItems, Item, Triple
  <2> HIDE DEF y
  <2> QED
    BY <2>1 DEF InFile
<1> QED
  BY <1>1, <1>2

LEMMA SourceContains ==
  ASSUME NEW p, Dumpable(p), NEW source, NEW decls, NEW o, NEW kind, NEW x,
         Place(decls, o, kind, x) \in ToSet(SourceDecls(p, source))
  PROVE  InFile(SourceFile(p, source), <<kind, o, x>>)
<1> DEFINE places == SourceDecls(p, source)
           names == PrintedNames(places)
           I(z) == Item(places[z].kind, places[z].overlay, places[z].place, names[z])
<1>1. SourceFile(p, source).items = {I(z) : z \in DOMAIN places}
  BY DEF SourceFile, File
<1>2. PICK z \in DOMAIN places : places[z] = Place(decls, o, kind, x)
  BY DEF ToSet
<1>3. Triple(I(z)) = <<kind, o, x>>
  BY <1>2 DEF Triple, Item, Place
<1>4. I(z) \in SourceFile(p, source).items
  BY <1>1
<1> QED
  BY <1>3, <1>4 DEF InFile

(* A source path in use has its file, which is left empty only if the path *)
(* is empty.                                                               *)
LEMMA SourceHasFile ==
  ASSUME NEW p, Dumpable(p), ForSources, PathsGiven(p), NEW source \in UsedSources(p),
         NEW e, InFile(SourceFile(p, source), e)
  PROVE  InDump(p, e)
<1>1. PICK x \in DOMAIN SourcesOf(p) : SourcesOf(p)[x] = source
  BY SourcesOfProperty DEF ToSet
<1>2. /\ x \in DOMAIN SourceFiles(p)
      /\ SourceFiles(p)[x] = IF source = NoSource THEN File(<<>>, {}) ELSE SourceFile(p, source)
  BY <1>1, SourceFilesAre, SourcesOfProperty
<1>3. Calls(p) = << <<TypesFile(p)>>, SourceFiles(p) >>
  BY CallsBy
<1>4. 2 \in DOMAIN Calls(p) /\ Calls(p)[2] = SourceFiles(p)
  BY <1>3
<1>5. SourceFiles(p)[x].path # <<>>
  BY <1>2, <1>4 DEF PathsGiven
<1>6. source # NoSource
  BY <1>2, <1>5 DEF File
<1> QED
  BY <1>2, <1>4, <1>6 DEF InDump

LEMMA VarsDumped ==
  ASSUME NEW p, Dumpable(p), PathsGiven(p), ~ ForTypes,
         NEW o \in DOMAIN p.overlays
  PROVE  /\ \A x \in DOMAIN p.overlays[o].vars : InDump(p, <<"var", o, x>>)
         /\ \A x \in DOMAIN p.overlays[o].funcs : InDump(p, <<"func", o, x>>)
<1>1. IsParser(p)
  BY DEF Dumpable
<1>2. CASE ForSources
  <2>1. ASSUME NEW x \in DOMAIN p.overlays[o].vars
        PROVE  InDump(p, <<"var", o, x>>)
    <3> DEFINE source == GlobalSource(p.overlays[o].id)
               e == Place(p.overlays[o].vars, o, "var", x)
    <3>1. IsVarOf(p, source, e)
      BY DEF IsVarOf
    <3>2. e \in ToSet(SourceDecls(p, source))
      BY <1>1, <3>1, SourceDeclsProperty
    <3>3. InFile(SourceFile(p, source), <<"var", o, x>>)
      BY <3>2, SourceContains
    <3>4. source \in UsedSources(p)
      <4>1. p.overlays[o].vars # <<>>
        OBVIOUS
      <4> QED
        BY <4>1 DEF UsedSources
    <3> QED
      BY <1>2, <3>3, <3>4, SourceHasFile
  <2>2. ASSUME NEW x \in DOMAIN p.overlays[o].funcs
        PROVE  InDump(p, <<"func", o, x>>)
    <3> DEFINE source == p.overlays[o].funcs[x].path
               e == Place(p.overlays[o].funcs, o, "func", x)
    <3>1. IsFuncOf(p, source, e)
      BY DEF IsFuncOf
    <3>2. e \in ToSet(SourceDecls(p, source))
      BY <1>1, <3>1, SourceDeclsProperty
    <3>3. InFile(SourceFile(p, source), <<"func", o, x>>)
      BY <3>2, SourceContains
    <3>4. source \in UsedSources(p)
      <4>1. p.overlays[o].funcs[x] \in ToSet(p.overlays[o].funcs)
        BY DEF ToSet
      <4> QED
        BY <4>1 DEF UsedSources
    <3> QED
      BY <1>2, <3>3, <3>4, SourceHasFile
  <2> QED
    BY <2>1, <2>2
<1>3. CASE ForHeaders
  <2>1. Calls(p) = << <<TypesFile(p)>>, DeclsFiles(p) >>
    BY <1>3, CallsBy
  <2>2. 2 \in DOMAIN Calls(p) /\ Calls(p)[2] = DeclsFiles(p)
    BY <2>1
  <2>3. o \in DOMAIN DeclsFiles(p) /\ DeclsFiles(p)[o].items = VarItems(p, o) \cup FuncItems(p, o)
    BY DEF DeclsFiles, File
  <2>4. /\ \A x \in DOMAIN p.overlays[o].vars : InFile(DeclsFiles(p)[o], <<"var", o, x>>)
        /\ \A x \in DOMAIN p.overlays[o].funcs : InFile(DeclsFiles(p)[o], <<"func", o, x>>)
    BY <2>3, DeclsContain
  <2> QED
    BY <2>2, <2>3, <2>4 DEF InDump
<1>4. CASE ForIDA
  <2>1. o \in DOMAIN Calls(p) /\ Calls(p)[o] = IDAFiles(p, o)
    <3> DEFINE L == Len(p.overlays)
    <3>1. L \in Nat /\ o \in 1 .. L
      BY <1>1, OrderIs
    <3>2. DOMAIN Calls(p) = 1 .. L + 1 /\ \A x \in 1 .. L : Calls(p)[x] = IDAFiles(p, x)
      BY <1>1, <1>4, IDACalls
    <3> HIDE DEF L
    <3>3. o \in 1 .. L + 1
      BY <3>1
    <3> QED
      BY <3>1, <3>2, <3>3
  <2>2. 1 \in DOMAIN IDAFiles(p, o) /\ IDAFiles(p, o)[1].items = VarItems(p, o) \cup FuncItems(p, o)
    BY DEF IDAFiles, File
  <2>3. /\ \A x \in DOMAIN p.overlays[o].vars : InFile(IDAFiles(p, o)[1], <<"var", o, x>>)
        /\ \A x \in DOMAIN p.overlays[o].funcs : InFile(IDAFiles(p, o)[1], <<"func", o, x>>)
    BY <2>2, DeclsContain
  <2> QED
    BY <2>1, <2>2, <2>3 DEF InDump
<1> QED
  BY <1>2, <1>3, <1>4, CallsBy

LEMMA DeclaredIsDumped ==
  ASSUME NEW p, Dumpable(p), PathsGiven(p), Translates, NEW e \in Declared(p)
  PROVE  InDump(p, e)
<1>1. CASE e \in ({"tag"} \X {0} \X (1 .. p.tags))
           \/ e \in ({"typedef"} \X {0} \X {x \in DOMAIN p.typedefs : IDAOnly => p.typedefs[x] # Int64})
  <2> DEFINE f == IF ForIDA THEN IDATypesFile(p) ELSE TypesFile(p)
  <2>1. \E c \in DOMAIN Calls(p) : Calls(p)[c] = <<f>>
    <3>1. CASE ForIDA
      <4>1. Len(p.overlays) + 1 \in DOMAIN Calls(p)
        <5>1. IsParser(p)
          BY DEF Dumpable
        <5>2. DOMAIN Calls(p) = 1 .. Len(p.overlays) + 1 /\ Len(p.overlays) \in Nat
          BY <3>1, <5>1, IDACalls
        <5> QED
          BY <5>2
      <4> QED
        BY <3>1, <4>1, IDACalls DEF Dumpable
    <3>2. CASE ~ ForIDA
      <4>1. \/ Calls(p) = << <<TypesFile(p)>>, SourceFiles(p) >>
            \/ Calls(p) = << <<TypesFile(p)>>, DeclsFiles(p) >>
            \/ Calls(p) = << <<TypesFile(p)>> >>
        BY <3>2, CallsBy
      <4>2. 1 \in DOMAIN Calls(p) /\ Calls(p)[1] = <<TypesFile(p)>>
        BY <4>1
      <4> QED
        BY <3>2, <4>2
    <3> QED
      BY <3>1, <3>2
  <2>2. InFile(f, e)
    <3>1. ForIDA => IDAOnly
      BY DEF ForIDA, IDAOnly, Translates, WithDecls, WithTypes
    <3>2. CASE e \in ({"tag"} \X {0} \X (1 .. p.tags))
      <4>1. PICK x \in 1 .. p.tags : e = <<"tag", 0, x>>
        BY <3>2
      <4> QED
        BY <4>1, TypesContain
    <3>3. CASE e \in ({"typedef"} \X {0} \X {x \in DOMAIN p.typedefs : IDAOnly => p.typedefs[x] # Int64})
      <4>1. PICK x \in DOMAIN p.typedefs : e = <<"typedef", 0, x>> /\ (IDAOnly => p.typedefs[x] # Int64)
        BY <3>3
      <4> QED
        BY <3>1, <4>1, TypesContain
    <3> QED
      BY <1>1, <3>2, <3>3
  <2>3. 1 \in DOMAIN <<f>> /\ <<f>>[1] = f
    OBVIOUS
  <2> HIDE DEF f
  <2> QED
    BY <2>1, <2>2, <2>3 DEF InDump
<1>2. CASE ~ (e \in ({"tag"} \X {0} \X (1 .. p.tags))
              \/ e \in ({"typedef"} \X {0} \X {x \in DOMAIN p.typedefs : IDAOnly => p.typedefs[x] # Int64}))
  <2>1. /\ WithDecls /\ ~ (opts["types"] /\ ~ opts["c"])
        /\ e \in UNION {({"var"} \X {o} \X DOMAIN p.overlays[o].vars)
                        \cup ({"func"} \X {o} \X DOMAIN p.overlays[o].funcs) : o \in DOMAIN p.overlays}
    BY <1>2, Zenon DEF Declared
  <2>2. PICK o \in DOMAIN p.overlays :
          e \in ({"var"} \X {o} \X DOMAIN p.overlays[o].vars)
                \cup ({"func"} \X {o} \X DOMAIN p.overlays[o].funcs)
    BY <2>1, Zenon
  <2>3. \/ \E x \in DOMAIN p.overlays[o].vars : e = <<"var", o, x>>
        \/ \E x \in DOMAIN p.overlays[o].funcs : e = <<"func", o, x>>
    BY <2>2
  <2>4. ~ ForTypes
    BY <2>1 DEF ForTypes
  <2> QED
    BY <2>3, <2>4, VarsDumped
<1> QED
  BY <1>1, <1>2

-----------------------------------------------------------------------------
(* What is in the directory: the files of the dump under way are those of  *)
(* its calls, and the ones that were written are still as written, if no   *)
(* two of them share a path.                                               *)
WasWritten(f) ==
  f.path # <<>> /\ f.path \in DOMAIN fs /\ fs[f.path] = [dump |-> dumps, items |-> f.items]

IsDone(c, x) == c < Current \/ (c = Current /\ x <= open)

OfTheCalls ==
  \A path \in DOMAIN fs : fs[path].dump = dumps =>
    \E c \in DOMAIN Calls(parser) : \E x \in DOMAIN Calls(parser)[c] :
      path = Calls(parser)[c][x].path /\ fs[path].items = Calls(parser)[c][x].items

DoneWritten ==
  PathsDiffer(parser) =>
    \A c \in DOMAIN Calls(parser) : \A x \in DOMAIN Calls(parser)[c] :
      IsDone(c, x) => WasWritten(Calls(parser)[c][x])

AllWritten ==
  PathsDiffer(parser) =>
    \A c \in DOMAIN Calls(parser) : \A x \in DOMAIN Calls(parser)[c] : WasWritten(Calls(parser)[c][x])

DirectoryOK ==
  /\ dumps \in Nat /\ \A path \in DOMAIN fs : fs[path].dump \in 0 .. dumps
  /\ pc = "start" => dumps = 0
  /\ pc = "write" => OfTheCalls /\ DoneWritten
  /\ Dumped => Dumpable(parser) /\ OfTheCalls /\ AllWritten

LEMMA SameDumpable ==
  ASSUME parser' = parser
  PROVE  Dumpable(parser)' = Dumpable(parser)
BY ZenonT(40) DEF Dumpable, IsParser, UsedSources

LEMMA SameDirectory ==
  ASSUME opts' = opts, parser' = parser, fs' = fs, dumps' = dumps
  PROVE  /\ OfTheCalls' = OfTheCalls /\ AllWritten' = AllWritten
         /\ \A f : WasWritten(f)' = WasWritten(f)
         /\ Current' = Current /\ open' = open => DoneWritten' = DoneWritten
<1>1. Calls(parser)' = Calls(parser) /\ PathsDiffer(parser)' = PathsDiffer(parser)
  BY SameCalls
<1>2. \A f : WasWritten(f)' = WasWritten(f)
  BY DEF WasWritten
<1>3. OfTheCalls' = OfTheCalls
  BY <1>1 DEF OfTheCalls
<1>4. AllWritten' = AllWritten
  BY <1>1 DEF AllWritten, WasWritten
<1>5. Current' = Current /\ open' = open => DoneWritten' = DoneWritten
  BY <1>1 DEF DoneWritten, WasWritten, IsDone
<1> QED
  BY <1>2, <1>3, <1>4, <1>5

LEMMA DirectoryMain ==
  ASSUME IInv, Collected, DirectoryOK, MainStep
  PROVE  DirectoryOK'
<1>1. fs' = fs /\ dumps' = dumps /\ opts' = opts /\ pc' # "start" /\ pc' # "write"
  BY DEF MainStep, CheckFlags, Unreadable, PassPanics, Parse, PrintListing, Merge, Finish,
         AtInput, End, AfterParsing
<1>2. ASSUME Dumped' PROVE Dumped /\ parser' = parser
  <2>1. dumps > 0 /\ pc' \in {"inputs", "done"}
    BY <1>1, <1>2 DEF Dumped
  <2>2. CASE CheckFlags
    <3>1. pc = "start"
      BY <2>2 DEF CheckFlags
    <3>2. dumps = 0
      BY <3>1 DEF DirectoryOK
    <3>3. FALSE
      BY <2>1, <3>2
    <3> QED
      BY <3>3
  <2>3. CASE Unreadable \/ PassPanics \/ Merge
    <3>1. pc' \notin {"inputs", "done"}
      BY <2>3 DEF Unreadable, PassPanics, Merge, End
    <3> QED
      BY <2>1, <3>1
  <2>4. CASE Parse
    <3>1. opts["merge"] /\ k <= Len(args) /\ pc = "inputs"
      BY <2>1, <2>4 DEF Parse, AfterParsing, AtInput
    <3>2. Untouched /\ k \in Nat /\ Len(args) \in Nat
      BY <3>1, ArgsTyped DEF IInv
    <3>3. FALSE
      BY <2>1, <3>2 DEF Untouched
    <3> QED
      BY <3>3
  <2>5. CASE PrintListing \/ Finish
    <3>1. pc = "inputs" /\ parser' = parser
      BY <2>5 DEF PrintListing, Finish, AtInput, End
    <3> QED
      BY <2>1, <3>1 DEF Dumped
  <2> QED
    BY <2>2, <2>3, <2>4, <2>5 DEF MainStep
<1>3. Dumped' => Dumpable(parser)' /\ OfTheCalls' /\ AllWritten'
  BY <1>1, <1>2, SameDirectory, SameDumpable DEF DirectoryOK
<1> QED
  BY <1>1, <1>3 DEF DirectoryOK

LEMMA DirectoryStart ==
  ASSUME Collected, InProgress, DirectoryOK, InitOutputDir
  PROVE  DirectoryOK'
<1>1. /\ opts' = opts /\ parser' = parser /\ open' = open /\ pc = "init" /\ pc' = "write"
      /\ todo' = Calls(parser) /\ dumps' = dumps + 1 /\ fs' = Without(Removed)
  BY DEF InitOutputDir
<1>2. Calls(parser)' = Calls(parser) /\ Total' = Total
  BY <1>1, SameCalls
<1>3. \A path \in DOMAIN fs' : path \in DOMAIN fs /\ fs'[path] = fs[path]
  BY <1>1 DEF Without
<1>4. dumps \in Nat /\ \A path \in DOMAIN fs : fs[path].dump \in 0 .. dumps
  BY DEF DirectoryOK
<1>5. /\ dumps' \in Nat /\ \A path \in DOMAIN fs' : fs'[path].dump \in 0 .. dumps'
      /\ \A path \in DOMAIN fs' : fs'[path].dump # dumps'
  <2>1. \A z \in 0 .. dumps : z \in 0 .. dumps + 1 /\ z # dumps + 1
    BY <1>4
  <2> QED
    BY <1>1, <1>3, <1>4, <2>1
<1>6. OfTheCalls'
  BY <1>5 DEF OfTheCalls
<1>7. DoneWritten'
  <2>1. Dumpable(parser) /\ open = 0
    BY <1>1 DEF Collected, InProgress
  <2>2. IsList(Calls(parser)) /\ \A c \in DOMAIN Calls(parser) : IsList(Calls(parser)[c])
    BY <2>1, CallsAreLists
  <2>3. Total \in Nat /\ DOMAIN Calls(parser) = 1 .. Total
    BY <2>2 DEF IsList, Total
  <2>4. Current' = 1 /\ open' = 0
    <3>1. Current' = Total - Total + 1
      BY <1>1, <1>2 DEF Current, Total
    <3> QED
      BY <1>1, <2>1, <2>3, <3>1
  <2>5. \A c \in DOMAIN Calls(parser) : \A x \in DOMAIN Calls(parser)[c] : ~ IsDone(c, x)'
    <3> SUFFICES ASSUME NEW c \in DOMAIN Calls(parser), NEW x \in DOMAIN Calls(parser)[c], IsDone(c, x)'
                 PROVE  FALSE
      OBVIOUS
    <3>1. c \in Nat /\ c >= 1
      BY <2>3
    <3>2. DOMAIN Calls(parser)[c] \subseteq Nat \ {0}
      BY <2>2 DEF IsList
    <3>3. x \in Nat /\ x >= 1
      BY <3>2
    <3> QED
      BY <2>4, <3>1, <3>3 DEF IsDone
  <2> QED
    BY <1>2, <2>5 DEF DoneWritten
<1> QED
  BY <1>1, <1>5, <1>6, <1>7 DEF DirectoryOK, Dumped

(* A file that is written replaces only one that has its path: none that   *)
(* this dump has written before, if the paths differ.                      *)
LEMMA DirectoryWrite ==
  ASSUME Collected, InProgress, DirectoryOK, WriteFile
  PROVE  DirectoryOK'
<1> DEFINE f == TheFile
<1>1. /\ opts' = opts /\ parser' = parser /\ dumps' = dumps /\ pc = "write" /\ pc' = "write"
      /\ todo # <<>> /\ f.path # <<>> /\ fs' = Written(f.items)
  BY DEF WriteFile, AtFile
<1>2. /\ Current' = Current /\ open' = open + 1
      /\ open + 1 \in 1 .. Len(Calls(parser)[Current])
      /\ f = Calls(parser)[Current][open + 1]
  BY ProgressWrite
<1>3. /\ Dumpable(parser) /\ Total \in Nat /\ Current \in DOMAIN Calls(parser)
      /\ IsList(Calls(parser)) /\ Current \in 1 .. Total
      /\ IsList(Calls(parser)[Current]) /\ open \in 0 .. Len(Calls(parser)[Current])
      /\ Len(Calls(parser)[Current]) \in Nat
  BY <1>1, AtWork
<1>4. open + 1 \in DOMAIN Calls(parser)[Current] /\ open \in Nat
  BY <1>2, <1>3 DEF IsList
<1>5. Calls(parser)' = Calls(parser) /\ PathsDiffer(parser)' = PathsDiffer(parser)
  BY <1>1, SameCalls
<1>6. /\ \A path \in DOMAIN fs' : path = f.path \/ (path \in DOMAIN fs /\ fs'[path] = fs[path])
      /\ f.path \in DOMAIN fs' /\ fs'[f.path] = [dump |-> dumps, items |-> f.items]
      /\ \A path \in DOMAIN fs : path \in DOMAIN fs' /\ (path # f.path => fs'[path] = fs[path])
  BY <1>1 DEF Written
<1> HIDE DEF f
<1>7. dumps \in Nat /\ (\A path \in DOMAIN fs : fs[path].dump \in 0 .. dumps) /\ OfTheCalls /\ DoneWritten
  BY <1>1 DEF DirectoryOK
<1>8. \A path \in DOMAIN fs' : fs'[path].dump \in 0 .. dumps'
  <2>1. dumps \in 0 .. dumps
    BY <1>7
  <2> QED
    BY <1>1, <1>6, <1>7, <2>1
<1>9. OfTheCalls'
  <2> SUFFICES ASSUME NEW path \in DOMAIN fs', fs'[path].dump = dumps
               PROVE  \E c \in DOMAIN Calls(parser) : \E x \in DOMAIN Calls(parser)[c] :
                        path = Calls(parser)[c][x].path /\ fs'[path].items = Calls(parser)[c][x].items
    BY <1>1, <1>5 DEF OfTheCalls
  <2>1. CASE path = f.path
    <3>1. path = Calls(parser)[Current][open + 1].path
          /\ fs'[path].items = Calls(parser)[Current][open + 1].items
      BY <1>2, <1>6, <2>1
    <3> QED
      BY <1>3, <1>4, <3>1
  <2>2. CASE path # f.path
    BY <1>6, <1>7, <2>2 DEF OfTheCalls
  <2> QED
    BY <2>1, <2>2
<1>10. DoneWritten'
  <2> SUFFICES ASSUME PathsDiffer(parser), NEW c \in DOMAIN Calls(parser),
                      NEW x \in DOMAIN Calls(parser)[c], IsDone(c, x)'
               PROVE  WasWritten(Calls(parser)[c][x])'
    BY <1>5, Zenon DEF DoneWritten, WasWritten
  <2>1. WasWritten(Calls(parser)[c][x])' <=>
          /\ Calls(parser)[c][x].path # <<>> /\ Calls(parser)[c][x].path \in DOMAIN fs'
          /\ fs'[Calls(parser)[c][x].path] = [dump |-> dumps, items |-> Calls(parser)[c][x].items]
    BY <1>1, <1>5 DEF WasWritten
  <2>2. CASE c = Current /\ x = open + 1
    BY <1>1, <1>2, <1>6, <2>1, <2>2
  <2>3. CASE ~ (c = Current /\ x = open + 1)
    <3>1. x \in Nat /\ c \in Nat
      <4>1. IsList(Calls(parser)[c]) /\ IsList(Calls(parser))
        BY <1>3, CallsAreLists
      <4> QED
        BY <4>1 DEF IsList
    <3>2. c < Current \/ (c = Current /\ x <= open + 1)
      BY <1>2 DEF IsDone
    <3>3. c = Current => x <= open
      BY <1>4, <2>3, <3>1, <3>2, <1>3
    <3>4. IsDone(c, x)
      BY <3>2, <3>3 DEF IsDone
    <3>5. WasWritten(Calls(parser)[c][x])
      BY <1>7, <3>4 DEF DoneWritten
    <3>6. Calls(parser)[c][x].path # f.path
      <4>1. Distinct(Current, open + 1, c, x, parser)
        BY <1>3, <1>4, PathsUnique
      <4> QED
        BY <1>1, <1>2, <2>3, <4>1 DEF Distinct
    <3> QED
      BY <1>6, <2>1, <3>5, <3>6 DEF WasWritten
  <2> QED
    BY <2>2, <2>3
<1> QED
  BY <1>1, <1>7, <1>8, <1>9, <1>10 DEF DirectoryOK, Dumped

LEMMA DirectoryReturn ==
  ASSUME Collected, InProgress, DirectoryOK, Return
  PROVE  DirectoryOK'
<1>1. /\ opts' = opts /\ parser' = parser /\ dumps' = dumps /\ fs' = fs /\ pc = "write"
      /\ pc' = "write" /\ todo # <<>>
  BY DEF Return
<1>2. Current' = Current + 1 /\ open' = 0 /\ open = Len(Calls(parser)[Current])
  BY ProgressReturn
<1>3. Dumpable(parser) /\ Total \in Nat /\ Current \in 1 .. Total
  BY <1>1, AtWork
<1>4. Calls(parser)' = Calls(parser) /\ PathsDiffer(parser)' = PathsDiffer(parser)
      /\ OfTheCalls' = OfTheCalls /\ \A f : WasWritten(f)' = WasWritten(f)
  BY <1>1, SameCalls, SameDirectory
<1>5. ASSUME NEW c \in DOMAIN Calls(parser), NEW x \in DOMAIN Calls(parser)[c], IsDone(c, x)'
      PROVE  IsDone(c, x)
  <2>1. IsList(Calls(parser)[c]) /\ IsList(Calls(parser))
    BY <1>3, CallsAreLists
  <2>2. c \in Nat /\ x \in Nat /\ x >= 1 /\ x <= Len(Calls(parser)[c])
    BY <2>1 DEF IsList
  <2>3. c < Current + 1
    BY <1>2, <1>3, <1>5, <2>2 DEF IsDone
  <2>4. c < Current \/ c = Current
    BY <1>3, <2>2, <2>3
  <2> QED
    BY <1>2, <2>2, <2>4 DEF IsDone
<1>6. DoneWritten'
  <2> SUFFICES ASSUME PathsDiffer(parser), NEW c \in DOMAIN Calls(parser),
                      NEW x \in DOMAIN Calls(parser)[c], IsDone(c, x)'
               PROVE  WasWritten(Calls(parser)[c][x])'
    BY <1>4, Zenon DEF DoneWritten, WasWritten
  <2>1. IsDone(c, x)
    BY <1>5
  <2>2. WasWritten(Calls(parser)[c][x])
    BY <1>1, <2>1 DEF DirectoryOK, DoneWritten
  <2> QED
    BY <1>1, <1>4, <2>2 DEF WasWritten
<1> QED
  BY <1>1, <1>4, <1>6 DEF DirectoryOK, Dumped

LEMMA DirectoryEnd ==
  ASSUME Collected, InProgress, DirectoryOK, EndDump
  PROVE  DirectoryOK'
<1>1. /\ opts' = opts /\ parser' = parser /\ dumps' = dumps /\ fs' = fs /\ pc = "write"
      /\ pc' \notin {"write", "start"} /\ todo = <<>>
  BY DEF EndDump
<1>2. Dumpable(parser) /\ OfTheCalls /\ DoneWritten
  BY <1>1 DEF Collected, DirectoryOK
<1>3. IsList(Calls(parser))
  BY <1>2, CallsAreLists
<1>4. Total \in Nat /\ DOMAIN Calls(parser) = 1 .. Total /\ Current = Total + 1
  <2>1. Len(todo) = 0
    BY <1>1
  <2> QED
    BY <1>3, <2>1 DEF IsList, Total, Current
<1>5. \A c \in DOMAIN Calls(parser) : c < Current
  BY <1>4
<1>6. AllWritten
  BY <1>2, <1>5 DEF DoneWritten, AllWritten, IsDone
<1>7. Dumpable(parser)'
  BY <1>1, <1>2, SameDumpable
<1> QED
  BY <1>1, <1>2, <1>6, <1>7, SameDirectory DEF DirectoryOK

LEMMA DirectoryNext ==
  ASSUME IInv, Collected, InProgress, DirectoryOK, [Next]_vars
  PROVE  DirectoryOK'
<1>1. CASE MainStep
  BY <1>1, DirectoryMain
<1>2. CASE InitOutputDir
  BY <1>2, DirectoryStart
<1>3. CASE WriteFile
  BY <1>3, DirectoryWrite
<1>4. CASE Return
  BY <1>4, DirectoryReturn
<1>5. CASE EndDump
  BY <1>5, DirectoryEnd
<1>6. CASE NoPath \/ NoHandle
  <2>1. fs' = fs /\ dumps' = dumps /\ pc' \notin {"start", "write", "inputs", "done"}
    BY <1>6 DEF NoPath, NoHandle, End
  <2> QED
    BY <2>1 DEF DirectoryOK, Dumped
<1>7. CASE InitOutputDirFails
  <2>1. PICK paths \in SUBSET Removed : fs' = Without(paths)
    BY <1>7, PartlyRemoved
  <2>2. dumps' = dumps /\ pc' = "fatal output"
    BY <1>7 DEF InitOutputDirFails
  <2>3. \A path \in DOMAIN fs' : path \in DOMAIN fs /\ fs'[path] = fs[path]
    BY <2>1 DEF Without
  <2> QED
    BY <2>2, <2>3 DEF DirectoryOK, Dumped
<1>8. CASE WriteFails
  <2>1. dumps' = dumps /\ pc' = "fatal output" /\ (fs' = fs \/ fs' = Written({}))
    BY <1>8 DEF WriteFails
  <2>2. \A path \in DOMAIN fs' : fs'[path].dump \in 0 .. dumps
    <3>1. CASE fs' = fs
      BY <3>1 DEF DirectoryOK
    <3>2. CASE fs' = Written({})
      <4>1. \A path \in DOMAIN fs' : fs'[path].dump = dumps \/ (path \in DOMAIN fs /\ fs'[path] = fs[path])
        BY <3>2 DEF Written
      <4>2. dumps \in 0 .. dumps
        BY DEF DirectoryOK
      <4> QED
        BY <4>1, <4>2 DEF DirectoryOK
    <3> QED
      BY <2>1, <3>1, <3>2
  <2> QED
    BY <2>1, <2>2 DEF DirectoryOK, Dumped
<1>9. CASE UNCHANGED vars
  <2>1. UNCHANGED <<opts, parser, todo, open, fs, dumps, pc>>
    BY <1>9 DEF vars
  <2>2. Current' = Current /\ Dumped' = Dumped
    BY <2>1, SameCalls DEF Current, Dumped
  <2> QED
    BY <2>1, <2>2, SameDirectory, SameDumpable DEF DirectoryOK
<1> QED
  BY <1>1, <1>2, <1>3, <1>4, <1>5, <1>6, <1>7, <1>8, <1>9 DEF Next, DumpStep

AllInv == IInv /\ Collected /\ InProgress /\ DirectoryOK

LEMMA AllInvInvariant == Spec => []AllInv
<1>1. Init => AllInv
  <2> SUFFICES ASSUME Init PROVE AllInv
    OBVIOUS
  <2>1. InProgress
    BY DEF Init, InProgress
  <2>2. DirectoryOK
    BY DEF Init, DirectoryOK, Dumped
  <2> QED
    BY <2>1, <2>2, IInvInit, CollectedInit DEF AllInv
<1>2. IInv /\ [Next]_vars => IInv'
  <2> SUFFICES ASSUME IInv, [Next]_vars PROVE IInv'
    OBVIOUS
  <2>1. CASE UNCHANGED vars
    BY <2>1 DEF vars, IInv, Untouched, Translates, WithDecls, WithTypes
  <2> QED
    BY <2>1, IInvMain, IInvDump DEF Next
<1>3. AllInv /\ [Next]_vars => AllInv'
  BY <1>2, CollectedNext, ProgressNext, DirectoryNext DEF AllInv
<1> QED
  BY <1>1, <1>3, PTL DEF Spec

(* A dump that ends without a failure has written every declaration of its *)
(* parser and lost none of them to a later file, however it is split into  *)
(* files: the calls created all their files, each declaration is in one,   *)
(* and no file replaced another.                                           *)
THEOREM EverythingIsDumped == Spec => []EverythingDumped
<1>1. AllInv => EverythingDumped
  <2> SUFFICES ASSUME AllInv, Dumped, PathsDiffer(parser), NEW e \in Declared(parser)
               PROVE  e \in Places3(UNION {fs[path].items : path \in {q \in DOMAIN fs : fs[q].dump = dumps}})
    BY DEF EverythingDumped
  <2>1. AllWritten /\ dumps > 0
    BY DEF AllInv, DirectoryOK, Dumped
  <2>2. PathsGiven(parser)
    BY <2>1 DEF AllWritten, PathsGiven, WasWritten
  <2>3. Translates
    BY <2>1 DEF AllInv, IInv, Untouched
  <2>4. InDump(parser, e)
    BY <2>2, <2>3, DeclaredIsDumped DEF AllInv, DirectoryOK
  <2>41. PICK c \in DOMAIN Calls(parser) : \E x \in DOMAIN Calls(parser)[c] : InFile(Calls(parser)[c][x], e)
    BY <2>4 DEF InDump
  <2>5. PICK x \in DOMAIN Calls(parser)[c] : InFile(Calls(parser)[c][x], e)
    BY <2>41
  <2> DEFINE f == Calls(parser)[c][x]
  <2>6. f.path \in DOMAIN fs /\ fs[f.path] = [dump |-> dumps, items |-> f.items]
    BY <2>1 DEF AllWritten, WasWritten
  <2>7. PICK y \in f.items : e = Triple(y)
    BY <2>5 DEF InFile
  <2> HIDE DEF f
  <2>8. y \in UNION {fs[path].items : path \in {q \in DOMAIN fs : fs[q].dump = dumps}}
    BY <2>6, <2>7
  <2> QED
    BY <2>7, <2>8 DEF Places3, Triple
<1> QED
  BY <1>1, AllInvInvariant, PTL

-----------------------------------------------------------------------------
(* The names of one source file.                                           *)
ItemAt(places, z) ==
  Item(places[z].kind, places[z].overlay, places[z].place, PrintedNames(places)[z])

IsDeclOf(p, d) ==
  \E o \in DOMAIN p.overlays : d \in ToSet(p.overlays[o].vars) \cup ToSet(p.overlays[o].funcs)

(* The place of an item leads back to its declaration.                     *)
LEMMA ItemsDecl ==
  ASSUME NEW p, IsParser(p), NEW source, NEW z \in DOMAIN SourceDecls(p, source)
  PROVE  /\ DeclAt(p, ItemAt(SourceDecls(p, source), z)) = SourceDecls(p, source)[z].decl
         /\ ItemAt(SourceDecls(p, source), z).kind \in {"var", "func"}
         /\ IsDeclOf(p, SourceDecls(p, source)[z].decl)
<1> DEFINE places == SourceDecls(p, source)
           e == places[z]
           y == ItemAt(places, z)
<1>1. e \in ToSet(places)
  BY DEF ToSet
<1>2. IsVarOf(p, source, e) \/ IsFuncOf(p, source, e)
  BY <1>1, SourceDeclsProperty
<1>3. y.kind = e.kind /\ y.overlay = e.overlay /\ y.place = e.place
  BY DEF ItemAt, Item
<1> HIDE DEF e, y
<1>4. CASE IsVarOf(p, source, e)
  <2>1. PICK o \in DOMAIN p.overlays : \E x \in DOMAIN p.overlays[o].vars : e = Place(p.overlays[o].vars, o, "var", x)
    BY <1>4 DEF IsVarOf
  <2>2. PICK x \in DOMAIN p.overlays[o].vars : e = Place(p.overlays[o].vars, o, "var", x)
    BY <2>1
  <2>3. e.kind = "var" /\ e.overlay = o /\ e.place = x /\ e.decl = p.overlays[o].vars[x]
    BY <2>2 DEF Place
  <2>4. DeclAt(p, y) = e.decl
    BY <1>3, <2>3 DEF DeclAt
  <2>5. e.decl \in ToSet(p.overlays[o].vars)
    BY <2>2, <2>3 DEF ToSet
  <2> QED
    BY <1>3, <2>3, <2>4, <2>5 DEF IsDeclOf, e, y
<1>5. CASE IsFuncOf(p, source, e)
  <2>1. PICK o \in DOMAIN p.overlays : \E x \in DOMAIN p.overlays[o].funcs : e = Place(p.overlays[o].funcs, o, "func", x)
    BY <1>5 DEF IsFuncOf
  <2>2. PICK x \in DOMAIN p.overlays[o].funcs : e = Place(p.overlays[o].funcs, o, "func", x)
    BY <2>1
  <2>3. e.kind = "func" /\ e.overlay = o /\ e.place = x /\ e.decl = p.overlays[o].funcs[x]
    BY <2>2 DEF Place
  <2>4. DeclAt(p, y) = e.decl
    BY <1>3, <2>3 DEF DeclAt
  <2>5. e.decl \in ToSet(p.overlays[o].funcs)
    BY <2>2, <2>3 DEF ToSet
  <2> QED
    BY <1>3, <2>3, <2>4, <2>5 DEF IsDeclOf, e, y
<1> QED
  BY <1>2, <1>4, <1>5

LEMMA NamesAreLists ==
  ASSUME NEW p, IsParser(p), NEW d, IsDeclOf(p, d)
  PROVE  IsList(d.name)
BY DEF IsDeclOf, IsParser

(* A name that was made unique tells the name and the address.             *)
LEMMA UniqueNameTells ==
  ASSUME NEW s, IsList(s), NEW t, IsList(t), NEW u, NEW v, UniqueName(s, u) = UniqueName(t, v)
  PROVE  s = t /\ u = v
<1> DEFINE S == ToSet(s) \cup ToSet(t) \cup {u, v}
<1>1. s \in Seq(S) /\ t \in Seq(S) /\ u \in S /\ v \in S
  BY DEF IsList
<1>2. Append(s, u) = Append(t, v)
  BY DEF UniqueName
<1> HIDE DEF S
<1> QED
  BY <1>1, <1>2, AppendProperties

(* A name that was made unique goes on where the name ends.                *)
LEMMA UniqueNameGoesOn ==
  ASSUME NEW s, IsList(s), NEW u
  PROVE  IsStrictPrefix(s, UniqueName(s, u))
<1> DEFINE S == ToSet(s) \cup {u}
           t == Append(s, u)
<1>1. s \in Seq(S) /\ u \in S
  BY DEF IsList
<1> HIDE DEF S
<1>2. /\ t \in Seq(S) /\ Len(s) \in Nat /\ Len(t) = Len(s) + 1
      /\ \A x \in 1 .. Len(s) : t[x] = s[x]
  BY <1>1
<1>3. t = UniqueName(s, u)
  BY DEF UniqueName
<1> HIDE DEF t
<1>4. SubSeq(s, 1, Len(s)) = SubSeq(t, 1, Len(s))
  BY <1>1, <1>2
<1>5. s # t /\ Len(s) <= Len(t)
  BY <1>2
<1> QED
  BY <1>3, <1>4, <1>5 DEF IsStrictPrefix, IsPrefix

(* Of two declarations of one file that are printed with the same name,    *)
(* both names were made unique: the later one, because the name was taken, *)
(* and then the earlier one, because no plain name reads like that.        *)
LEMMA SameNameMeans ==
  ASSUME NEW p, IsParser(p), PlainDecls(p), NEW source, NEW L, L = Len(SourceDecls(p, source)),
         NEW x \in 1 .. L, NEW y \in 1 .. L, x < y,
         ItemAt(SourceDecls(p, source), x).name = ItemAt(SourceDecls(p, source), y).name
  PROVE  /\ SourceDecls(p, source)[x].decl.name = SourceDecls(p, source)[y].decl.name
         /\ SourceDecls(p, source)[x].decl.addr = SourceDecls(p, source)[y].decl.addr
<1> DEFINE places == SourceDecls(p, source)
           names == PrintedNames(places)
           d == places[x].decl
           e == places[y].decl
<1>1. IsList(places)
  BY SourceDeclsProperty
<1>2. L \in Nat /\ DOMAIN places = 1 .. L
  BY <1>1 DEF IsList
<1>3. Named(names, places, L)
  BY <1>2, PrintedProperty
<1>4. names[x] = names[y]
  BY DEF ItemAt, Item
<1>5. IsDeclOf(p, d) /\ IsDeclOf(p, e)
  BY <1>2, ItemsDecl
<1>6. IsList(d.name) /\ IsList(e.name)
  BY <1>5, NamesAreLists
<1> HIDE DEF names
<1>7. names[y] = MadeUnique(places, y)
  <2>1. x \in 1 .. y - 1
    BY <1>2
  <2> QED
    BY <1>3, <1>4, <2>1 DEF Named
<1>8. names[x] = MadeUnique(places, x) \/ names[x] = NameOf(places, x)
  BY <1>3 DEF Named
<1>9. names[x] # NameOf(places, x)
  <2> SUFFICES ASSUME d.name = UniqueName(e.name, e.addr) PROVE FALSE
    BY <1>4, <1>7 DEF NameOf, MadeUnique
  <2>1. IsStrictPrefix(e.name, d.name)
    BY <1>6, UniqueNameGoesOn
  <2> HIDE DEF d, e
  <2> QED
    BY <1>5, <2>1 DEF PlainDecls, IsDeclOf
<1>10. UniqueName(d.name, d.addr) = UniqueName(e.name, e.addr)
  BY <1>4, <1>7, <1>8, <1>9 DEF MadeUnique
<1> HIDE DEF d, e
<1>11. d.name = e.name /\ d.addr = e.addr
  BY <1>6, <1>10, UniqueNameTells
<1> QED
  BY <1>11 DEF d, e

(* What SourceNamesDistinct says of the declarations of one file.          *)
DeclItems(items) == {y \in items : y.kind \in {"var", "func"}}
NamesDistinct(p, items) ==
  (\A x, y \in DeclItems(items) :
     DeclAt(p, x).name = DeclAt(p, y).name /\ DeclAt(p, x).addr = DeclAt(p, y).addr => x = y)
  => \A x, y \in DeclItems(items) : x.name = y.name => x = y

LEMMA SourceFileNames ==
  ASSUME NEW p, IsParser(p), PlainDecls(p), NEW source
  PROVE  NamesDistinct(p, SourceFile(p, source).items)
<1> DEFINE places == SourceDecls(p, source)
           items == SourceFile(p, source).items
           L == Len(places)
<1>1. items = {ItemAt(places, z) : z \in DOMAIN places}
  BY DEF SourceFile, File, ItemAt
<1>2. L \in Nat /\ DOMAIN places = 1 .. L
  BY SourceDeclsProperty DEF IsList
<1> SUFFICES ASSUME \A x, y \in DeclItems(items) :
                      DeclAt(p, x).name = DeclAt(p, y).name /\ DeclAt(p, x).addr = DeclAt(p, y).addr => x = y,
                    NEW x \in DeclItems(items), NEW y \in DeclItems(items), x.name = y.name
             PROVE  x = y
  BY DEF NamesDistinct
<1>3. PICK z \in 1 .. L : x = ItemAt(places, z)
  BY <1>1, <1>2 DEF DeclItems
<1>4. PICK w \in 1 .. L : y = ItemAt(places, w)
  BY <1>1, <1>2 DEF DeclItems
<1>5. DeclAt(p, x) = places[z].decl /\ DeclAt(p, y) = places[w].decl
  BY <1>2, <1>3, <1>4, ItemsDecl
<1> HIDE DEF L
<1>6. CASE z = w
  BY <1>3, <1>4, <1>6
<1>7. CASE z < w
  <2>1. places[z].decl.name = places[w].decl.name /\ places[z].decl.addr = places[w].decl.addr
    BY <1>3, <1>4, <1>7, SameNameMeans, SMTT(30) DEF L
  <2> QED
    BY <1>5, <2>1
<1>8. CASE w < z
  <2>1. places[w].decl.name = places[z].decl.name /\ places[w].decl.addr = places[z].decl.addr
    BY <1>3, <1>4, <1>8, SameNameMeans, SMTT(30) DEF L
  <2> QED
    BY <1>5, <2>1
<1> QED
  BY <1>2, <1>6, <1>7, <1>8

(* The files of dumpSourceFiles, and types.h, which has no such item.      *)
LEMMA FilesNames ==
  ASSUME NEW p, Dumpable(p), PlainDecls(p), ForSources,
         NEW c \in DOMAIN Calls(p), NEW x \in DOMAIN Calls(p)[c]
  PROVE  NamesDistinct(p, Calls(p)[c][x].items)
<1>1. Calls(p) = << <<TypesFile(p)>>, SourceFiles(p) >>
  BY CallsBy
<1>2. c = 1 \/ c = 2
  BY <1>1
<1>3. CASE c = 1
  <2>1. Calls(p)[c] = <<TypesFile(p)>>
    BY <1>1, <1>3
  <2>2. Calls(p)[c][x] = TypesFile(p)
    BY <2>1
  <2>3. \A y \in TypesFile(p).items : y.kind \in {"bool", "tag", "typedef"}
    BY DEF TypesFile, File, Item
  <2>4. DeclItems(Calls(p)[c][x].items) = {}
    BY <2>2, <2>3 DEF DeclItems
  <2> QED
    BY <2>4 DEF NamesDistinct
<1>4. CASE c = 2
  <2>1. Calls(p)[c] = SourceFiles(p)
    BY <1>1, <1>4
  <2>2. \/ Calls(p)[c][x] = File(<<>>, {})
        \/ \E source : Calls(p)[c][x] = SourceFile(p, source)
    BY <2>1, SourceFilesAre
  <2>3. CASE Calls(p)[c][x] = File(<<>>, {})
    BY <2>3 DEF File, NamesDistinct, DeclItems
  <2>4. CASE \E source : Calls(p)[c][x] = SourceFile(p, source)
    BY <2>4, SourceFileNames DEF Dumpable
  <2> QED
    BY <2>2, <2>3, <2>4
<1> QED
  BY <1>2, <1>3, <1>4

(* In a source file, where the variables and the functions of several      *)
(* overlays meet, the names that are printed are all different, if the     *)
(* declarations of one name have different addresses and no name reads     *)
(* like one that was made unique.                                          *)
THEOREM SourceNamesAreDistinct == Spec => []SourceNamesDistinct
<1>1. AllInv => SourceNamesDistinct
  <2> SUFFICES ASSUME AllInv, Dumped, InSources, PlainDecls(parser),
                      NEW path \in {q \in DOMAIN fs : fs[q].dump = dumps}
               PROVE  NamesDistinct(parser, fs[path].items)
    BY DEF SourceNamesDistinct, NamesDistinct, DeclItems
  <2>1. Dumpable(parser) /\ OfTheCalls
    BY DEF AllInv, DirectoryOK
  <2>2. PICK c \in DOMAIN Calls(parser) : \E x \in DOMAIN Calls(parser)[c] :
          fs[path].items = Calls(parser)[c][x].items
    BY <2>1 DEF OfTheCalls
  <2>3. PICK x \in DOMAIN Calls(parser)[c] : fs[path].items = Calls(parser)[c][x].items
    BY <2>2
  <2> QED
    BY <2>1, <2>3, FilesNames DEF InSources, ForSources
<1> QED
  BY <1>1, AllInvInvariant, PTL
=============================================================================
