------------------------------ MODULE TypeCode ------------------------------
(***************************************************************************)
(* From the type of a SYM definition to a declaration in C: Type.Mods of   *)
(* type.go, parseMods of csym/parse_types.go, and Var.String of            *)
(* csym/c/type.go, each a loop with its own direction.                     *)
(*                                                                         *)
(* A type is an uint16: four bits for the base type and six modifiers of   *)
(* two bits.  A modifier of the C type is a pair of its name and, for an   *)
(* array, its length; a C type is the sequence of its modifiers, outermost *)
(* first, around the base.  The text is abstracted to its tokens; a        *)
(* parameter list is one token, "()".                                      *)
(***************************************************************************)
EXTENDS Integers, Sequences, FiniteSets

CONSTANTS
  Codes,     (* the types that a definition may have         *)
  DimLists   (* the lists of dimensions that it may have     *)

ASSUME TypeCodeAssumption ==
  /\ Codes \subseteq {x \in Nat : x < 65536}
  /\ \A list \in DimLists : list \in Seq(Nat)

VARIABLES
  code,   (* the Type                                                      *)
  dims,   (* its dimensions; none for a Def                                *)
  i,      (* the index of the loop                                         *)
  j,      (* the next dimension                                            *)
  mods,   (* the result of Mods                                            *)
  type,   (* the C type; v.Type                                            *)
  name,   (* v.Name                                                        *)
  pc      (* "mods", "parse", "print", "done", "panic"                     *)

vars == <<code, dims, i, j, mods, type, name, pc>>

ModNames == [m \in {1, 2, 3} |-> <<"PTR", "FCN", "ARY">>[m]]

Init ==
  /\ code \in Codes /\ dims \in DimLists
  /\ i = 0 /\ j = 1 /\ mods = <<>> /\ type = <<>> /\ name = << <<"name", 0>> >> /\ pc = "mods"

-----------------------------------------------------------------------------
(* Mods. *)

(* 1 << (4 + 2 * n). *)
Unit(n) == <<16, 64, 256, 1024, 4096, 16384, 65536>>[n + 1]

ModAt(n) == (code \div Unit(n)) % 4

DecodeMod ==
  /\ pc = "mods" /\ i < 6 /\ i' = i + 1
  /\ mods' = IF ModAt(i) = 0 THEN mods ELSE Append(mods, ModNames[ModAt(i)])
  /\ UNCHANGED <<code, dims, j, type, name, pc>>

EndMods ==
  /\ pc = "mods" /\ i = 6
  /\ i' = Len(mods) /\ pc' = "parse" /\ UNCHANGED <<code, dims, j, mods, type, name>>

-----------------------------------------------------------------------------
(* parseMods: from the last modifier to the first, one around the other.   *)

AtMod(mod) == pc = "parse" /\ i > 0 /\ mods[i] = mod

Wrap(modifier) ==
  /\ type' = <<modifier>> \o type /\ i' = i - 1
  /\ UNCHANGED <<code, dims, mods, name, pc>>

WrapPointer == AtMod("PTR") /\ Wrap(<<"PTR", 0>>) /\ UNCHANGED j
WrapFunc    == AtMod("FCN") /\ Wrap(<<"FCN", 0>>) /\ UNCHANGED j

(* A plausible defect: the last dimension is taken for missing.            *)
OutOfDimsEarly == j >= Len(dims)

OutOfDims == j > Len(dims)

WrapArray ==
  /\ AtMod("ARY") /\ ~ OutOfDims
  /\ Wrap(<<"ARY", dims[j]>>) /\ j' = j + 1

(* dims[j] is out of range. *)
NoDim ==
  /\ AtMod("ARY") /\ OutOfDims
  /\ pc' = "panic" /\ UNCHANGED <<code, dims, i, j, mods, type, name>>

EndParse ==
  /\ pc = "parse" /\ i = 0 /\ pc' = "print"
  /\ UNCHANGED <<code, dims, i, j, mods, type, name>>

-----------------------------------------------------------------------------
(* Var.String: the outermost modifier is written around the name.          *)

AtType(mod) == pc = "print" /\ type # <<>> /\ Head(type)[1] = mod

Token(text) == <<text, 0>>

Peel(newName) ==
  /\ name' = newName /\ type' = Tail(type)
  /\ UNCHANGED <<code, dims, i, j, mods, pc>>

(* A plausible defect: no parentheses around a pointer to an array.        *)
NeedsGroupFunc == Len(type) > 1 /\ type[2][1] = "FCN"

NeedsGroup == Len(type) > 1 /\ type[2][1] \in {"FCN", "ARY"}

PrintPointer ==
  /\ AtType("PTR")
  /\ Peel(IF NeedsGroup THEN <<Token("("), Token("*")>> \o name \o <<Token(")")>>
                        ELSE <<Token("*")>> \o name)

(* "[%d]", or "[]" for the length 0. *)
PrintArray == AtType("ARY") /\ Peel(Append(name, <<"[]", Head(type)[2]>>))
PrintFunc  == AtType("FCN") /\ Peel(Append(name, Token("()")))

PrintBase ==
  /\ pc = "print" /\ type = <<>> /\ pc' = "done"
  /\ UNCHANGED <<code, dims, i, j, mods, type, name>>

-----------------------------------------------------------------------------
ModsStep  == DecodeMod \/ EndMods
ParseStep == WrapPointer \/ WrapFunc \/ WrapArray \/ NoDim \/ EndParse
PrintStep == PrintPointer \/ PrintArray \/ PrintFunc \/ PrintBase

Next == ModsStep \/ ParseStep \/ PrintStep

Spec == Init /\ [][Next]_vars

-----------------------------------------------------------------------------
(* The properties.                                                         *)

(* What type.go says a type means: the modifiers next to the base type     *)
(* come first in the reading, "function returning pointer" for 0x64, and   *)
(* two zero bits are none.  Of several arrays the innermost, which is read *)
(* last, has the first dimension.                                          *)
Bits(n) == (code % Unit(n + 1)) \div Unit(n)
Fields == {n \in 0 .. 5 : Bits(n) # 0}
Before(n) == Cardinality({h \in Fields : h < n})
ArraysFrom(n) == Cardinality({h \in n .. 5 : Bits(h) = 3})

Modifier(n) == <<ModNames[Bits(n)], IF Bits(n) = 3 THEN dims[ArraysFrom(n)] ELSE 0>>

Meaning == [x \in 1 .. Before(6) |-> Modifier(CHOOSE n \in Fields : Before(n) = x - 1)]

(* How C reads a declarator: from the name outwards, to the right while    *)
(* there are brackets, then to the left while there are stars, and out of  *)
(* the parentheses around what was read.  What cannot be read is an error. *)
Is(text, x, token) == x \in DOMAIN text /\ text[x][1] = token
Bracket(text, x) == Is(text, x, "[]") \/ Is(text, x, "()")

ReadOn(text, s) ==
  IF Bracket(text, s.r)
  THEN [l |-> s.l, r |-> s.r + 1,
        read |-> Append(s.read, <<IF Is(text, s.r, "[]") THEN "ARY" ELSE "FCN", text[s.r][2]>>)]
  ELSE IF Is(text, s.l, "*")
  THEN [l |-> s.l - 1, r |-> s.r, read |-> Append(s.read, <<"PTR", 0>>)]
  ELSE IF Is(text, s.l, "(") /\ Is(text, s.r, ")")
  THEN [l |-> s.l - 1, r |-> s.r + 1, read |-> s.read]
  ELSE s

Reading(text) ==
  LET at == CHOOSE x \in DOMAIN text : Is(text, x, "name")
      read[x \in 0 .. Len(text)] ==
        IF x = 0 THEN [l |-> at - 1, r |-> at + 1, read |-> <<>>] ELSE ReadOn(text, read[x - 1])
      end == read[Len(text)]
  IN IF end.l = 0 /\ end.r = Len(text) + 1 THEN end.read ELSE << <<"error", 0>> >>

(* At every step of the printing C reads in the text, followed by the      *)
(* modifiers still to be printed, what the type of the symbol means: also  *)
(* for functions that return pointers to arrays of pointers to functions,  *)
(* and so for the declaration in the end.                                  *)
DeclarationReadsBack ==
  pc \in {"print", "done"} => Reading(name) \o type = Meaning

(* An array without a dimension (a Def has none, a Def2 may have too few)  *)
(* makes parseMods panic, and nothing else does; dimensions that are left  *)
(* over are ignored.                                                       *)
PanicForWantOfDims ==
  /\ pc = "panic" => ArraysFrom(0) > Len(dims)
  /\ pc \in {"print", "done"} => ArraysFrom(0) <= Len(dims)
=============================================================================
