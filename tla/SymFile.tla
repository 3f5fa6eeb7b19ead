------------------------------ MODULE SymFile ------------------------------
(***************************************************************************)
(* Reading a symbol file and printing it: sym.Parse of file.go and         *)
(* symbol.go, then File.String.                                            *)
(*                                                                         *)
(* The file on disk is a header and a sequence of encoded symbols; the     *)
(* header, or the last symbol, may be cut short.  A symbol is its kind,    *)
(* the lengths of its variable fields and the line numbers in it: its      *)
(* bytes matter by their number only.  File.String's text is the offset    *)
(* and the line number it prints for each symbol.                          *)
(***************************************************************************)
EXTENDS Integers, Sequences

CONSTANT Files   (* the files that may be read *)

NameKinds  == {"Name1", "Name2", "Name5", "Name6"}
EmptyKinds == {"IncSLD", "EndSLD", "SetOverlay"}
IncKinds   == {"IncSLD", "IncSLDByte", "IncSLDWord"}
SetKinds   == {"SetSLD", "SetSLD2"}
LineKinds  == {"FuncEnd", "BlockStart", "BlockEnd"}
KnownKinds == NameKinds \cup EmptyKinds \cup IncKinds \cup SetKinds \cup LineKinds
              \cup {"FuncStart", "Def", "Def2", "Overlay"}

Byte == {x \in Nat : x < 256}
Word == {x \in Nat : x < 65536}

(* kind: the symbol kind, KnownKinds or another byte; name, path, tag:     *)
(* uint8 lengths; dims: the uint16 number of dimensions; line: the line    *)
(* number of the body; inc: the increment of an IncSLDByte or IncSLDWord.  *)
EncodedSymbols ==
  [kind : KnownKinds \cup {"unknown"}, name : Byte, path : Byte, tag : Byte,
   dims : Word, line : Nat, inc : Word]

VARIABLES
  file,    (* the file                                                     *)
  pos,     (* the bytes consumed, of the header and of whole symbols       *)
  syms,    (* f.Syms                                                       *)
  starts,  (* where in the file each of syms starts, kept for properties   *)
  k,       (* the number of symbols printed                                *)
  offset,  (* String's offset                                              *)
  line,    (* String's line                                                *)
  out,     (* what is printed of each symbol: the offset and the line      *)
  pc       (* "open", "symbols", "parsed", "print", "done", "failed",      *)
           (* "panic"                                                      *)

vars == <<file, pos, syms, starts, k, offset, line, out, pc>>

-----------------------------------------------------------------------------
(* Where the fields of a body end, counted from its start.                 *)

NameEnds(s) == <<1, 1 + s.name>>
SetSLD2Ends(s) == <<4, 5, 5 + s.path>>
FuncStartEnds(s) ==
  <<2, 6, 8, 12, 16, 20, 21, 21 + s.path, 22 + s.path, 22 + s.path + s.name>>
DefEnds(s) == <<2, 4, 8, 9, 9 + s.name>>
Def2Ends(s) ==
  LET d == 10 + 4 * s.dims
  IN <<2, 4, 8, 10, d, d + 1, d + 1 + s.tag, d + 2 + s.tag, d + 2 + s.tag + s.name>>

(* parseSymbolBody: the body unpacked for each kind.                       *)
BodyEnds(s) ==
  CASE s.kind \in NameKinds -> NameEnds(s)
    [] s.kind = "IncSLDByte" -> <<1>>
    [] s.kind = "IncSLDWord" -> <<2>>
    [] s.kind \in LineKinds \cup {"SetSLD"} -> <<4>>
    [] s.kind = "SetSLD2" -> SetSLD2Ends(s)
    [] s.kind = "FuncStart" -> FuncStartEnds(s)
    [] s.kind = "Def" -> DefEnds(s)
    [] s.kind = "Def2" -> Def2Ends(s)
    [] s.kind = "Overlay" -> <<4, 8>>
    [] OTHER -> <<0>>

HdrSize == 5
BodyLen(s) == BodyEnds(s)[Len(BodyEnds(s))]
SymbolLen(s) == HdrSize + BodyLen(s)

(* struc.Unpack reads field by field with io.ReadFull: where the bytes     *)
(* stop between two fields it returns io.EOF, inside one ErrUnexpectedEOF. *)
Cuts(s) == {0, 4, 5} \cup {HdrSize + BodyEnds(s)[j] : j \in DOMAIN BodyEnds(s)}

FileHeaderSize == 8

(* A file: mnd, whether it starts with "MND"; header, the bytes present of *)
(* the header; syms, the symbols; last, the bytes present of the last one. *)
ASSUME FilesAssumption ==
  \A f \in Files :
    /\ f.mnd \in BOOLEAN /\ f.header \in 0 .. FileHeaderSize
    /\ f.syms \in Seq(EncodedSymbols)
    /\ f.syms # <<>> => /\ f.header = FileHeaderSize
                        /\ f.last \in 0 .. SymbolLen(f.syms[Len(f.syms)])

-----------------------------------------------------------------------------
(* BodySize of each body; the product in Def2's is a uint16.               *)

NameBodySize(s) == 1 + s.name
SetSLD2BodySize(s) == 4 + 1 + s.path
FuncStartBodySize(s) == 2 + 4 + 2 + 4 + 4 + 4 + 1 + s.path + 1 + s.name
DefBodySize(s) == 2 + 2 + 4 + 1 + s.name
Def2BodySize(s) ==
  2 + 2 + 4 + 2 + ((4 * s.dims) % 65536) + 1 + s.tag + 1 + s.name

BodySize(s) ==
  CASE s.kind \in NameKinds -> NameBodySize(s)
    [] s.kind = "IncSLDByte" -> 1
    [] s.kind = "IncSLDWord" -> 2
    [] s.kind \in LineKinds \cup {"SetSLD"} -> 4
    [] s.kind = "SetSLD2" -> SetSLD2BodySize(s)
    [] s.kind = "FuncStart" -> FuncStartBodySize(s)
    [] s.kind = "Def" -> DefBodySize(s)
    [] s.kind = "Def2" -> Def2BodySize(s)
    [] s.kind = "Overlay" -> 4 + 4
    [] OTHER -> 0

(* A plausible defect: the header of the symbol is not counted.            *)
SizeOfBody(s) == BodySize(s)

Size(s) == HdrSize + BodySize(s)

-----------------------------------------------------------------------------
(* Parse.                                                                  *)

Init ==
  /\ file \in Files
  /\ pos = 0 /\ syms = <<>> /\ starts = <<>>
  /\ k = 0 /\ offset = 0 /\ line = 0 /\ out = <<>>
  /\ pc = "open"

Stop(how) ==
  pc' = how /\ UNCHANGED <<file, pos, syms, starts, k, offset, line, out>>

(* parseFileHeader: the signature is looked at after all of the header is  *)
(* read; either error ends Parse, an io.EOF too.                           *)
OpenHeader ==
  /\ pc = "open" /\ file.header = FileHeaderSize /\ file.mnd
  /\ pos' = FileHeaderSize /\ pc' = "symbols"
  /\ UNCHANGED <<file, syms, starts, k, offset, line, out>>

BadHeader == /\ pc = "open" /\ (file.header < FileHeaderSize \/ ~ file.mnd)
             /\ Stop("failed")

More == pc = "symbols" /\ Len(syms) < Len(file.syms)
Sym == file.syms[Len(syms) + 1]
Left == IF Len(syms) + 1 = Len(file.syms) THEN file.last ELSE SymbolLen(Sym)

(* The kind of the symbol is read, and is one that parseSymbolBody knows   *)
(* or none at all is read.                                                 *)
KindAccepted == Sym.kind \in KnownKinds \/ Left < HdrSize

(* parseSymbol.                                                            *)
ReadSymbol ==
  /\ More /\ KindAccepted /\ Left = SymbolLen(Sym)
  /\ syms' = Append(syms, Sym) /\ starts' = Append(starts, pos)
  /\ pos' = pos + SymbolLen(Sym)
  /\ UNCHANGED <<file, k, offset, line, out, pc>>

(* A plausible defect: io.ErrUnexpectedEOF is taken for the end as well.   *)
EndOfFileAny ==
  /\ \/ pc = "symbols" /\ ~ More
     \/ More /\ KindAccepted /\ Left < SymbolLen(Sym)
  /\ Stop("parsed")

(* errors.Cause(err) == io.EOF, at the end of the file or between two      *)
(* fields: f is returned as parsed without an error.                       *)
EndOfFile ==
  /\ \/ pc = "symbols" /\ ~ More
     \/ More /\ KindAccepted /\ Left < SymbolLen(Sym) /\ Left \in Cuts(Sym)
  /\ Stop("parsed")

Truncated ==
  /\ More /\ KindAccepted /\ Left < SymbolLen(Sym) /\ Left \notin Cuts(Sym)
  /\ Stop("failed")

Unsupported == More /\ ~ KindAccepted /\ Stop("failed")

-----------------------------------------------------------------------------
(* String, which dump calls on what Parse returned without an error.       *)

PrintHeader ==
  /\ pc = "parsed" /\ pc' = "print" /\ offset' = FileHeaderSize
  /\ UNCHANGED <<file, pos, syms, starts, k, line, out>>

Printing == pc = "print" /\ k < Len(syms)
Printee == syms[k + 1]

(* A plausible defect: the increment of IncSLDByte is read as an int8.     *)
LineAfterSigned(s) ==
  CASE s.kind = "IncSLD" -> line + 1
    [] s.kind = "IncSLDByte" -> line + IF s.inc > 127 THEN s.inc - 256 ELSE s.inc
    [] s.kind = "IncSLDWord" -> line + s.inc
    [] s.kind \in SetKinds -> s.line
    [] OTHER -> line

LineAfter(s) ==
  CASE s.kind = "IncSLD" -> line + 1
    [] s.kind \in {"IncSLDByte", "IncSLDWord"} -> line + s.inc
    [] s.kind \in SetKinds -> s.line
    [] OTHER -> line

PrintSymbol ==
  /\ Printing /\ ~ (Printee.kind \in IncKinds /\ line = 0)
  /\ out' = Append(out, [offset |-> offset, line |-> LineAfter(Printee)])
  /\ line' = LineAfter(Printee)
  /\ offset' = offset + Size(Printee)
  /\ k' = k + 1
  /\ UNCHANGED <<file, pos, syms, starts, pc>>

(* The panic is one of String; fmt.Print of main recovers it and prints it *)
(* in place of the listing.                                                *)
NoLine == /\ Printing /\ Printee.kind \in IncKinds /\ line = 0
          /\ Stop("panic")

Printed == pc = "print" /\ k = Len(syms) /\ Stop("done")

Next == \/ OpenHeader \/ BadHeader
        \/ ReadSymbol \/ EndOfFile \/ Truncated \/ Unsupported
        \/ PrintHeader \/ PrintSymbol \/ NoLine \/ Printed

Spec == Init /\ [][Next]_vars

-----------------------------------------------------------------------------
(* The properties.                                                         *)

TypeOK ==
  /\ pos \in Nat /\ offset \in Nat /\ line \in Nat
  /\ syms \in Seq(EncodedSymbols) /\ starts \in Seq(Nat)
  /\ Len(starts) = Len(syms) /\ Len(syms) <= Len(file.syms)
  /\ k \in 0 .. Len(syms)
  /\ out \in Seq([offset : Nat, line : Nat]) /\ Len(out) = k
  /\ pc \in {"open", "symbols", "parsed", "print", "done", "failed", "panic"}

(* The dimensions of a Def2 whose length in bytes fits the uint16 that     *)
(* BodySize computes it in.                                                *)
DimsFit(s) == s.kind = "Def2" => 4 * s.dims < 65536

(* The offset printed for a symbol is the place in the file where it       *)
(* starts, unless a Def2 before it has more dimensions than BodySize can   *)
(* count: the sizes are added up apart from the reading that found them.   *)
OffsetsTrue ==
  \A j \in DOMAIN out :
    (\A h \in 1 .. j - 1 : DimsFit(syms[h])) => out[j].offset = starts[j]

Whole(j) == j < Len(file.syms) \/ file.last = SymbolLen(file.syms[j])

(* Nothing that is whole is lost or made up: a file that Parse accepts     *)
(* gives exactly its whole symbols, in order, and one with a good header   *)
(* that it rejects all those before a symbol that is truncated or not      *)
(* supported.  A file that stops inside a field is not accepted; one that  *)
(* stops between two fields of a symbol is, and the bytes of that symbol   *)
(* are dropped in silence.                                                 *)
WholeSymbolsParsed ==
  /\ \A j \in DOMAIN syms : syms[j] = file.syms[j] /\ Whole(j)
  /\ pc \in {"parsed", "print", "done", "panic"} =>
       /\ \A j \in DOMAIN file.syms : Whole(j) => j \in DOMAIN syms
       /\ Len(syms) < Len(file.syms) => Left \in Cuts(Sym)
  /\ pc = "failed" /\ file.mnd /\ file.header = FileHeaderSize =>
       /\ Len(syms) < Len(file.syms)
       /\ Whole(Len(syms) + 1) => Sym.kind \notin KnownKinds

=============================================================================
