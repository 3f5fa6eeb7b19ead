--------------------------- MODULE SymFileProofs ---------------------------
(***************************************************************************)
(* Proofs about SymFile, for every set of files: its type correctness,     *)
(* that the offsets File.String prints are those of the symbols in the     *)
(* file, and that the symbols are those of the file that are whole.        *)
(*                                                                         *)
(* The offsets are not read from the file but added up again while         *)
(* printing.  The invariant therefore has two chains over the same places: *)
(* Chain, which ReadSymbol extends with the lengths it consumes, and       *)
(* Printed, which PrintSymbol extends with the sizes it computes; they     *)
(* agree by the lemma SizeIsLength as long as no Def2 has more dimensions  *)
(* than a uint16 counts the bytes of.                                      *)
(***************************************************************************)
EXTENDS SymFile, TLAPS

Typed == TypeOK /\ file \in Files

(* The place in the file after the first j symbols.                        *)
PlaceAfter(j) ==
  IF j = 0 THEN FileHeaderSize ELSE starts[j] + SymbolLen(syms[j])

AllFit(j) == \A h \in 1 .. j : DimsFit(syms[h])

Chain == /\ \A j \in DOMAIN syms : starts[j] = PlaceAfter(j - 1)
         /\ pc = "symbols" => pos = PlaceAfter(Len(syms))

OffsetHere == pc = "print" /\ AllFit(k) => offset = PlaceAfter(k)

NotPrinted == pc \in {"open", "symbols", "parsed"} => out = <<>> /\ k = 0
NotParsed == pc = "open" => syms = <<>>

IInv == /\ Typed /\ Chain /\ OffsetHere /\ NotPrinted /\ NotParsed
        /\ OffsetsTrue

-----------------------------------------------------------------------------
LEMMA FieldTypes ==
  ASSUME NEW s \in EncodedSymbols
  PROVE  /\ s.name \in Nat /\ s.path \in Nat /\ s.tag \in Nat /\ s.dims \in Nat
         /\ s.line \in Nat /\ s.inc \in Nat
BY DEF EncodedSymbols, Byte, Word

(* Where the body of each kind ends, and what BodySize computes for it.    *)
LEMMA ByKind ==
  ASSUME NEW s
  PROVE  /\ s.kind \in NameKinds => BodyEnds(s) = NameEnds(s) /\ BodySize(s) = NameBodySize(s)
         /\ s.kind = "IncSLDByte" => BodyEnds(s) = <<1>> /\ BodySize(s) = 1
         /\ s.kind = "IncSLDWord" => BodyEnds(s) = <<2>> /\ BodySize(s) = 2
         /\ s.kind \in LineKinds \cup {"SetSLD"} => BodyEnds(s) = <<4>> /\ BodySize(s) = 4
         /\ s.kind = "SetSLD2" => BodyEnds(s) = SetSLD2Ends(s) /\ BodySize(s) = SetSLD2BodySize(s)
         /\ s.kind = "FuncStart" => /\ BodyEnds(s) = FuncStartEnds(s)
                                    /\ BodySize(s) = FuncStartBodySize(s)
         /\ s.kind = "Def" => BodyEnds(s) = DefEnds(s) /\ BodySize(s) = DefBodySize(s)
         /\ s.kind = "Def2" => BodyEnds(s) = Def2Ends(s) /\ BodySize(s) = Def2BodySize(s)
         /\ s.kind = "Overlay" => BodyEnds(s) = <<4, 8>> /\ BodySize(s) = 4 + 4
BY DEF BodyEnds, BodySize, NameKinds, LineKinds

(* What is read for a body, and what BodySize computes for it.             *)
LEMMA BodyLenAndSize ==
  ASSUME NEW s \in EncodedSymbols
  PROVE  BodyLen(s) \in Nat /\ BodySize(s) \in Nat /\ (DimsFit(s) => BodySize(s) = BodyLen(s))
<1>0. s.name \in Nat /\ s.path \in Nat /\ s.tag \in Nat /\ s.dims \in Nat
  BY FieldTypes
<1>1. CASE s.kind \in NameKinds
  <2>1. BodyEnds(s) = NameEnds(s) /\ BodySize(s) = NameBodySize(s)
    BY <1>1, ByKind
  <2>2. Len(NameEnds(s)) = 2 /\ NameEnds(s)[2] = 1 + s.name
    BY DEF NameEnds
  <2>3. BodyLen(s) = 1 + s.name
    BY <2>1, <2>2 DEF BodyLen
  <2> QED BY <1>0, <2>1, <2>3 DEF NameBodySize
<1>2. CASE s.kind \in {"IncSLDByte", "IncSLDWord"} \cup LineKinds \cup {"SetSLD"}
  BY <1>2, ByKind DEF BodyLen
<1>3. CASE s.kind = "SetSLD2"
  <2>1. BodyEnds(s) = SetSLD2Ends(s) /\ BodySize(s) = SetSLD2BodySize(s)
    BY <1>3, ByKind
  <2>2. Len(SetSLD2Ends(s)) = 3 /\ SetSLD2Ends(s)[3] = 5 + s.path
    BY DEF SetSLD2Ends
  <2>3. BodyLen(s) = 5 + s.path
    BY <2>1, <2>2 DEF BodyLen
  <2> QED BY <1>0, <2>1, <2>3 DEF SetSLD2BodySize
<1>4. CASE s.kind = "FuncStart"
  <2>1. BodyEnds(s) = FuncStartEnds(s) /\ BodySize(s) = FuncStartBodySize(s)
    BY <1>4, ByKind
  <2>2. Len(FuncStartEnds(s)) = 10 /\ FuncStartEnds(s)[10] = 22 + s.path + s.name
    BY DEF FuncStartEnds
  <2>3. BodyLen(s) = 22 + s.path + s.name
    BY <2>1, <2>2 DEF BodyLen
  <2> QED BY <1>0, <2>1, <2>3 DEF FuncStartBodySize
<1>5. CASE s.kind = "Def"
  <2>1. BodyEnds(s) = DefEnds(s) /\ BodySize(s) = DefBodySize(s)
    BY <1>5, ByKind
  <2>2. Len(DefEnds(s)) = 5 /\ DefEnds(s)[5] = 9 + s.name
    BY DEF DefEnds
  <2>3. BodyLen(s) = 9 + s.name
    BY <2>1, <2>2 DEF BodyLen
  <2> QED BY <1>0, <2>1, <2>3 DEF DefBodySize
<1>6. CASE s.kind = "Def2"
  <2>1. BodyEnds(s) = Def2Ends(s) /\ BodySize(s) = Def2BodySize(s)
    BY <1>6, ByKind
  <2>2. Len(Def2Ends(s)) = 9 /\ Def2Ends(s)[9] = 10 + 4 * s.dims + 2 + s.tag + s.name
    BY DEF Def2Ends
  <2>5. BodyLen(s) = 10 + 4 * s.dims + 2 + s.tag + s.name
    BY <2>1, <2>2 DEF BodyLen
  <2>3. (4 * s.dims) % 65536 \in Nat
    BY <1>0
  <2>4. DimsFit(s) => (4 * s.dims) % 65536 = 4 * s.dims
    BY <1>0, <1>6 DEF DimsFit
  <2> QED BY <1>0, <2>1, <2>3, <2>4, <2>5 DEF Def2BodySize
<1>7. CASE s.kind = "Overlay"
  BY <1>7, ByKind DEF BodyLen
<1>8. CASE s.kind \notin NameKinds \cup LineKinds \cup
           {"IncSLDByte", "IncSLDWord", "SetSLD", "SetSLD2", "FuncStart", "Def", "Def2", "Overlay"}
  BY <1>8 DEF BodyLen, BodyEnds, BodySize
<1> QED BY <1>1, <1>2, <1>3, <1>4, <1>5, <1>6, <1>7, <1>8

(* A symbol's place, and the offset after it, grow by the same number.     *)
LEMMA SizeIsLength ==
  ASSUME NEW s \in EncodedSymbols
  PROVE  /\ SymbolLen(s) \in Nat /\ Size(s) \in Nat
         /\ DimsFit(s) => Size(s) = SymbolLen(s)
BY BodyLenAndSize DEF SymbolLen, Size, HdrSize

LEMMA LineAfterType ==
  ASSUME NEW s \in EncodedSymbols, line \in Nat
  PROVE  LineAfter(s) \in Nat
BY FieldTypes DEF LineAfter, SetKinds

(* The symbol to read next.                                                *)
LEMMA SymType ==
  ASSUME Typed, More
  PROVE  Sym \in EncodedSymbols
BY FilesAssumption DEF Typed, TypeOK, More, Sym
-----------------------------------------------------------------------------
LEMMA TypedInit == Init => Typed
BY DEF Init, Typed, TypeOK

LEMMA TypedStep ==
  ASSUME Typed, [Next]_vars
  PROVE  Typed'
<1> USE DEF Typed, TypeOK
<1>1. CASE OpenHeader
  BY <1>1 DEF OpenHeader, FileHeaderSize
<1>2. CASE BadHeader \/ EndOfFile \/ Truncated \/ Unsupported \/ NoLine \/ Printed
  BY <1>2 DEF BadHeader, EndOfFile, Truncated, Unsupported, NoLine, Printed, Stop
<1>3. CASE ReadSymbol
  <2>1. Sym \in EncodedSymbols /\ SymbolLen(Sym) \in Nat
    BY <1>3, SymType, SizeIsLength DEF ReadSymbol
  <2>2. /\ syms' \in Seq(EncodedSymbols) /\ Len(syms') = Len(syms) + 1
        /\ starts' \in Seq(Nat) /\ Len(starts') = Len(starts) + 1
        /\ pos' \in Nat
    BY <1>3, <2>1 DEF ReadSymbol
  <2>3. file.syms \in Seq(EncodedSymbols) /\ Len(syms) < Len(file.syms)
    BY <1>3, FilesAssumption DEF ReadSymbol, More
  <2>4. Len(syms) + 1 <= Len(file.syms)
    BY <2>3
  <2>5. /\ file' = file /\ k' = k /\ out' = out /\ offset' = offset /\ line' = line
        /\ pc' = pc
    BY <1>3 DEF ReadSymbol
  <2> QED BY <2>2, <2>4, <2>5
<1>4. CASE PrintHeader
  BY <1>4 DEF PrintHeader, FileHeaderSize
<1>5. CASE PrintSymbol
  <2>1. Printee \in EncodedSymbols
    BY <1>5 DEF PrintSymbol, Printing, Printee
  <2>2. LineAfter(Printee) \in Nat /\ Size(Printee) \in Nat
    BY <2>1, LineAfterType, SizeIsLength
  <2> QED BY <1>5, <2>2 DEF PrintSymbol, Printing
<1>6. CASE UNCHANGED vars
  BY <1>6 DEF vars
<1> QED BY <1>1, <1>2, <1>3, <1>4, <1>5, <1>6 DEF Next

(* SymFile's state has its shape, whatever files there are.                *)
THEOREM TypeCorrect == Spec => []TypeOK
<1>1. Init => Typed
  BY TypedInit
<1>2. Typed /\ [Next]_vars => Typed'
  BY TypedStep
<1>3. Typed => TypeOK
  BY DEF Typed
<1> QED BY <1>1, <1>2, <1>3, PTL DEF Spec
-----------------------------------------------------------------------------
LEMMA IInvInit == Init => IInv
<1> SUFFICES ASSUME Init PROVE IInv
  OBVIOUS
<1>1. Typed
  BY TypedInit
<1> QED BY <1>1 DEF Init, IInv, Chain, OffsetHere, NotPrinted, NotParsed, OffsetsTrue

(* Reading a symbol extends the chain.                                     *)
LEMMA ReadKeepsIInv ==
  ASSUME IInv, ReadSymbol, Typed'
  PROVE  IInv'
<1>1. Sym \in EncodedSymbols /\ SymbolLen(Sym) \in Nat
  BY SymType, SizeIsLength DEF IInv, ReadSymbol
<1>2. /\ pc = "symbols" /\ pc' = "symbols" /\ out' = out /\ k' = k /\ out = <<>> /\ k = 0
      /\ pos = PlaceAfter(Len(syms))
      /\ syms' = Append(syms, Sym) /\ starts' = Append(starts, pos)
      /\ pos' = pos + SymbolLen(Sym)
      /\ syms \in Seq(EncodedSymbols) /\ starts \in Seq(Nat) /\ Len(starts) = Len(syms)
      /\ pos \in Nat
  BY DEF IInv, ReadSymbol, More, NotPrinted, Chain, Typed, TypeOK
<1>3. \A j \in 0 .. Len(syms) : PlaceAfter(j)' = PlaceAfter(j)
  <2> SUFFICES ASSUME NEW j \in 0 .. Len(syms) PROVE PlaceAfter(j)' = PlaceAfter(j)
    OBVIOUS
  <2>1. j # 0 => starts'[j] = starts[j] /\ syms'[j] = syms[j]
    BY <1>2
  <2> QED BY <2>1 DEF PlaceAfter
<1>4. PlaceAfter(Len(syms))' = pos'
  <2>1. Len(syms') # 0 /\ starts'[Len(syms')] = pos /\ syms'[Len(syms')] = Sym
    BY <1>2
  <2> QED BY <1>2, <2>1 DEF PlaceAfter
<1>5. \A j \in DOMAIN syms' : starts'[j] = PlaceAfter(j - 1)'
  <2> SUFFICES ASSUME NEW j \in DOMAIN syms' PROVE starts'[j] = PlaceAfter(j - 1)'
    OBVIOUS
  <2>1. CASE j \in DOMAIN syms
    <3>1. starts[j] = PlaceAfter(j - 1) /\ j - 1 \in 0 .. Len(syms)
      BY <1>2, <2>1 DEF IInv, Chain
    <3> QED BY <1>2, <1>3, <2>1, <3>1
  <2>2. CASE j = Len(syms) + 1
    BY <1>2, <1>3, <2>2
  <2> QED BY <1>2, <2>1, <2>2
<1>6. Chain'
  BY <1>4, <1>5 DEF Chain
<1> QED BY <1>2, <1>6 DEF IInv, OffsetHere, NotPrinted, NotParsed, OffsetsTrue

(* Printing a symbol keeps the offset in step with the chain.              *)
LEMMA PrintKeepsIInv ==
  ASSUME IInv, PrintSymbol, Typed'
  PROVE  IInv'
<1>1. /\ pc = "print" /\ pc' = "print" /\ k' = k + 1 /\ k < Len(syms)
      /\ syms' = syms /\ starts' = starts
      /\ offset' = offset + Size(Printee)
      /\ out' = Append(out, [offset |-> offset, line |-> LineAfter(Printee)])
      /\ syms \in Seq(EncodedSymbols) /\ starts \in Seq(Nat) /\ Len(starts) = Len(syms)
      /\ k \in 0 .. Len(syms) /\ out \in Seq([offset : Nat, line : Nat]) /\ Len(out) = k
  BY DEF IInv, PrintSymbol, Printing, Typed, TypeOK
<1>2. Printee = syms[k + 1] /\ Printee \in EncodedSymbols
  BY <1>1 DEF Printee
<1>3. k + 1 \in DOMAIN syms /\ starts[k + 1] = PlaceAfter(k)
  <2>1. k + 1 \in DOMAIN syms /\ (k + 1) - 1 = k
    BY <1>1
  <2>2. starts[k + 1] = PlaceAfter((k + 1) - 1)
    BY <2>1 DEF IInv, Chain
  <2> QED BY <2>1, <2>2
<1>4. \A j : PlaceAfter(j)' = PlaceAfter(j)
  BY <1>1 DEF PlaceAfter
<1>5. Chain'
  BY <1>1, <1>4 DEF IInv, Chain
<1>6. OffsetHere'
  <2> SUFFICES ASSUME AllFit(k)' PROVE offset' = PlaceAfter(k)'
    BY DEF OffsetHere
  <2>1. \A h \in 1 .. k + 1 : DimsFit(syms[h])
    BY <1>1 DEF AllFit
  <2>5. PlaceAfter(k)' = PlaceAfter(k + 1)
    BY <1>1 DEF PlaceAfter
  <2>2. AllFit(k) /\ DimsFit(Printee)
    BY <1>1, <1>2, <2>1 DEF AllFit
  <2>3. offset = PlaceAfter(k)
    BY <1>1, <2>2 DEF IInv, OffsetHere
  <2>4. Size(Printee) = SymbolLen(Printee)
    BY <1>2, <2>2, SizeIsLength
  <2> QED BY <1>1, <1>2, <1>3, <2>3, <2>4, <2>5 DEF PlaceAfter
<1>7. OffsetsTrue'
  <2> SUFFICES ASSUME NEW j \in DOMAIN out', \A h \in 1 .. j - 1 : DimsFit(syms[h])
               PROVE  out'[j].offset = starts[j]
    BY <1>1 DEF OffsetsTrue
  <2>1. CASE j \in DOMAIN out
    BY <1>1, <2>1 DEF IInv, OffsetsTrue
  <2>2. CASE j = k + 1
    <3>1. AllFit(k)
      BY <1>1, <2>2 DEF AllFit
    <3>2. offset = PlaceAfter(k)
      BY <1>1, <3>1 DEF IInv, OffsetHere
    <3> QED BY <1>1, <1>3, <2>2, <3>2
  <2> QED BY <1>1, <2>1, <2>2
<1> QED BY <1>1, <1>5, <1>6, <1>7 DEF IInv, NotPrinted, NotParsed

LEMMA IInvStep ==
  ASSUME IInv, [Next]_vars
  PROVE  IInv'
<1>0. Typed'
  BY TypedStep DEF IInv
<1> USE DEF IInv, Chain, OffsetHere, NotPrinted, NotParsed, OffsetsTrue
<1>1. CASE OpenHeader
  BY <1>0, <1>1 DEF OpenHeader, PlaceAfter, Typed, TypeOK
<1>2. CASE BadHeader \/ EndOfFile \/ Truncated \/ Unsupported \/ NoLine \/ Printed
  BY <1>0, <1>2 DEF BadHeader, EndOfFile, Truncated, Unsupported, NoLine, Printed, Stop,
                    More, Printing, PlaceAfter
<1>3. CASE ReadSymbol
  BY <1>0, <1>3, ReadKeepsIInv
<1>4. CASE PrintHeader
  BY <1>0, <1>4 DEF PrintHeader, PlaceAfter
<1>5. CASE PrintSymbol
  BY <1>0, <1>5, PrintKeepsIInv
<1>6. CASE UNCHANGED vars
  BY <1>0, <1>6 DEF vars, PlaceAfter, AllFit
<1> QED BY <1>1, <1>2, <1>3, <1>4, <1>5, <1>6 DEF Next

(* The offset printed for each symbol is its place in the file, up to the  *)
(* first Def2 whose dimensions BodySize cannot count.                      *)
THEOREM OffsetsAreTrue == Spec => []OffsetsTrue
<1>1. Init => IInv
  BY IInvInit
<1>2. IInv /\ [Next]_vars => IInv'
  BY IInvStep
<1>3. IInv => OffsetsTrue
  BY DEF IInv
<1> QED BY <1>1, <1>2, <1>3, PTL DEF Spec
-----------------------------------------------------------------------------
(* The next symbol is whole when what is left of the file is its length.   *)
LEMMA LeftOfWhole ==
  ASSUME Typed, More
  PROVE  /\ Len(syms) + 1 \in DOMAIN file.syms
         /\ Whole(Len(syms) + 1) <=> Left = SymbolLen(Sym)
         /\ Left < SymbolLen(Sym) => Len(syms) + 1 = Len(file.syms)
         /\ Left <= SymbolLen(Sym)
<1>1. /\ file.syms \in Seq(EncodedSymbols) /\ Len(syms) \in Nat /\ Len(syms) < Len(file.syms)
      /\ file.syms # <<>> => file.last \in 0 .. SymbolLen(file.syms[Len(file.syms)])
  BY FilesAssumption DEF Typed, TypeOK, More
<1>2. Len(syms) + 1 \in DOMAIN file.syms /\ file.syms # <<>> /\ Len(file.syms) \in Nat
  BY <1>1
<1>3. SymbolLen(Sym) \in Nat
  BY SymType, SizeIsLength
<1>4. CASE Len(syms) + 1 = Len(file.syms)
  BY <1>1, <1>2, <1>3, <1>4 DEF Whole, Left, Sym
<1>5. CASE Len(syms) + 1 # Len(file.syms)
  BY <1>1, <1>2, <1>3, <1>5 DEF Whole, Left, Sym
<1> QED
  BY <1>4, <1>5

LEMMA WholeStep ==
  ASSUME Typed, NotParsed, WholeSymbolsParsed, [Next]_vars
  PROVE  WholeSymbolsParsed'
<1>0. /\ syms \in Seq(EncodedSymbols) /\ file.syms \in Seq(EncodedSymbols)
      /\ file.header \in 0 .. FileHeaderSize
      /\ file.syms # <<>> => file.header = FileHeaderSize
      /\ Len(syms) <= Len(file.syms)
  BY FilesAssumption DEF Typed, TypeOK
<1>1. ASSUME UNCHANGED <<file, syms>>,
             pc' \in {"parsed", "print", "done", "panic"} =>
               /\ \A j \in DOMAIN file.syms : Whole(j) => j \in DOMAIN syms
               /\ Len(syms) < Len(file.syms) => Left \in Cuts(Sym),
             pc' = "failed" /\ file.mnd /\ file.header = FileHeaderSize =>
               /\ Len(syms) < Len(file.syms)
               /\ Whole(Len(syms) + 1) => Sym.kind \notin KnownKinds
      PROVE  WholeSymbolsParsed'
  <2>1. Left' = Left /\ Sym' = Sym /\ \A j : Whole(j)' <=> Whole(j)
    BY <1>1 DEF Left, Sym, Whole
  <2> QED
    BY <1>1, <2>1 DEF WholeSymbolsParsed
<1>2. CASE OpenHeader
  BY <1>1, <1>2 DEF OpenHeader
<1>3. CASE BadHeader
  BY <1>0, <1>1, <1>3 DEF BadHeader, Stop
<1>4. CASE ReadSymbol
  <2>1. /\ More /\ Left = SymbolLen(Sym) /\ syms' = Append(syms, Sym) /\ file' = file
        /\ pc = "symbols" /\ pc' = "symbols"
    BY <1>4 DEF ReadSymbol, More
  <2>2. Whole(Len(syms) + 1)
    BY <2>1, LeftOfWhole
  <2>3. \A j \in DOMAIN syms' : \/ j \in DOMAIN syms /\ syms'[j] = syms[j]
                                \/ j = Len(syms) + 1 /\ syms'[j] = Sym
    <3>1. Sym \in EncodedSymbols
      BY <2>1, SymType
    <3>2. /\ Len(syms) \in Nat /\ DOMAIN syms = 1 .. Len(syms)
          /\ DOMAIN syms' = 1 .. Len(syms) + 1 /\ syms'[Len(syms) + 1] = Sym
          /\ \A j \in 1 .. Len(syms) : syms'[j] = syms[j]
      BY <1>0, <2>1, <3>1
    <3>3. \A j \in 1 .. Len(syms) + 1 : j \in 1 .. Len(syms) \/ j = Len(syms) + 1
      BY <3>2
    <3> QED
      BY <3>2, <3>3
  <2>4. \A j : Whole(j)' <=> Whole(j)
    BY <2>1 DEF Whole
  <2> QED
    BY <2>1, <2>2, <2>3, <2>4 DEF WholeSymbolsParsed, Sym
<1>5. CASE EndOfFile
  <2>1. pc = "symbols" /\ pc' = "parsed" /\ UNCHANGED <<file, syms>>
    BY <1>5 DEF EndOfFile, More, Stop
  <2>2. CASE ~ More
    BY <1>0, <1>1, <2>1, <2>2 DEF More
  <2>3. CASE More /\ Left < SymbolLen(Sym) /\ Left \in Cuts(Sym)
    <3>1. Len(syms) + 1 = Len(file.syms) /\ ~ Whole(Len(syms) + 1)
      BY <2>3, LeftOfWhole, SymType, SizeIsLength DEF Cuts
    <3>2. \A j \in DOMAIN file.syms : Whole(j) => j \in DOMAIN syms
      BY <1>0, <3>1
    <3> QED
      BY <1>1, <2>1, <2>3, <3>2
  <2> QED
    BY <1>5, <2>2, <2>3 DEF EndOfFile
<1>6. CASE Truncated
  <2>1. More /\ Left < SymbolLen(Sym) /\ pc' = "failed" /\ UNCHANGED <<file, syms>>
    BY <1>6 DEF Truncated, Stop
  <2>2. Left # SymbolLen(Sym)
    <3>1. SymbolLen(Sym) \in Nat
      BY <2>1, SymType, SizeIsLength
    <3> QED
      BY <2>1, <3>1
  <2>3. ~ Whole(Len(syms) + 1)
    BY <2>1, <2>2, LeftOfWhole
  <2> QED
    BY <1>1, <2>1, <2>3 DEF More
<1>7. CASE Unsupported
  <2>1. /\ More /\ pc' = "failed" /\ UNCHANGED <<file, syms>>
        /\ Sym.kind \notin KnownKinds
    BY <1>7 DEF Unsupported, KindAccepted, Stop
  <2> QED
    BY <1>1, <2>1 DEF More
<1>8. CASE PrintHeader \/ PrintSymbol \/ NoLine \/ Printed
  <2>1. /\ pc \in {"parsed", "print"} /\ pc' \in {"print", "done", "panic"}
        /\ UNCHANGED <<file, syms>>
    BY <1>8 DEF PrintHeader, PrintSymbol, NoLine, Printed, Printing, Stop
  <2> QED
    BY <1>1, <2>1 DEF WholeSymbolsParsed
<1>9. CASE UNCHANGED vars
  BY <1>1, <1>9 DEF vars, WholeSymbolsParsed
<1> QED
  BY <1>2, <1>3, <1>4, <1>5, <1>6, <1>7, <1>8, <1>9 DEF Next

(* Whatever the file and wherever it stops, Parse gives its whole symbols, *)
(* in order and up to the one it stops at, and accepts no file that stops  *)
(* inside a field.                                                         *)
THEOREM WholeSymbolsAreParsed == Spec => []WholeSymbolsParsed
<1> DEFINE Inv == Typed /\ NotParsed /\ WholeSymbolsParsed
<1>1. Init => Inv
  BY TypedInit DEF Init, NotParsed, WholeSymbolsParsed
<1>2. Inv /\ [Next]_vars => Inv'
  <2> SUFFICES ASSUME Inv, [Next]_vars PROVE Inv'
    OBVIOUS
  <2>1. NotParsed'
    BY DEF NotParsed, Next, vars, OpenHeader, BadHeader, ReadSymbol, EndOfFile, Truncated,
       Unsupported, PrintHeader, PrintSymbol, NoLine, Printed, Printing, More, Stop
  <2> QED
    BY <2>1, TypedStep, WholeStep
<1>3. Inv => WholeSymbolsParsed
  OBVIOUS
<1> QED
  BY <1>1, <1>2, <1>3, PTL DEF Spec
=============================================================================
