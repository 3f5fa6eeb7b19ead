----------------------------- MODULE MCSymFile -----------------------------
(* Files for SymFile: every header cut short or with another signature,    *)
(* with and without symbols after it, every file of one or two of the      *)
(* symbols below cut at every byte of the last one, and every whole file   *)
(* of at most MaxSymbols of them.  The Def2s with 16383 and 16384          *)
(* dimensions are on both sides of the limit of BodySize's uint16; they    *)
(* are not cut.                                                            *)
EXTENDS SymFile, SequencesExt

CONSTANT MaxSymbols

Symbol(kind) ==
  [kind |-> kind, name |-> 0, path |-> 0, tag |-> 0, dims |-> 0, line |-> 0, inc |-> 0]

Symbols ==
  { [Symbol("Name1") EXCEPT !.name = 2], [Symbol("Name5") EXCEPT !.name = 0],
    Symbol("IncSLD"), [Symbol("IncSLDByte") EXCEPT !.inc = 254], Symbol("IncSLDWord"),
    Symbol("SetSLD"), [Symbol("SetSLD") EXCEPT !.line = 7],
    [Symbol("SetSLD2") EXCEPT !.line = 1, !.path = 1], Symbol("EndSLD"),
    [Symbol("FuncStart") EXCEPT !.path = 1, !.name = 2], Symbol("BlockEnd"),
    [Symbol("Def") EXCEPT !.name = 1],
    [Symbol("Def2") EXCEPT !.dims = 2, !.tag = 1, !.name = 1],
    Symbol("Overlay"), Symbol("SetOverlay"), Symbol("unknown") }

Large == {[Symbol("Def2") EXCEPT !.dims = d, !.tag = 255, !.name = 255] : d \in {16383, 16384}}

File(symbols, bytes) ==
  [mnd |-> TRUE, header |-> FileHeaderSize, syms |-> symbols, last |-> bytes]
WholeFile(symbols) == File(symbols, SymbolLen(symbols[Len(symbols)]))

MCFiles ==
  {[mnd |-> m, header |-> h, syms |-> <<>>, last |-> 0] :
     m \in BOOLEAN, h \in 0 .. FileHeaderSize}
  \cup UNION {{File(f \o <<s>>, c) : c \in 0 .. SymbolLen(s)} :
                f \in BoundedSeq(Symbols, 1), s \in Symbols}
  \cup {[WholeFile(<<s>>) EXCEPT !.mnd = FALSE] : s \in Symbols}
  \cup {WholeFile(f) : f \in BoundedSeq(Symbols, MaxSymbols) \ {<<>>}}
  \cup {WholeFile(<<d>> \o f) : d \in Large, f \in BoundedSeq(Symbols, 2)}
=============================================================================
