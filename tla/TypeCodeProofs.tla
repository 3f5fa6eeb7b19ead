--------------------------- MODULE TypeCodeProofs ---------------------------
(***************************************************************************)
(* What a type means and what its declaration reads as, for every type of  *)
(* 16 bits and every list of dimensions.  The loops of Mods and parseMods  *)
(* are compared with the meaning by counting the fields before and the     *)
(* arrays from each; the loop of Var.String by the path on which C reads   *)
(* through the text: what is written around a text is read last, as long   *)
(* as a bracket comes only behind a text that is closed.                   *)
(***************************************************************************)
EXTENDS TypeCode, TLAPS, FiniteSetTheorems, SequenceTheorems, WellFoundedInduction

-----------------------------------------------------------------------------
(* Induction over numbers, by the least place where something fails.       *)
LEMMA LeastExists ==
  ASSUME NEW S, S \subseteq Nat, S # {}
  PROVE  \E x \in S : \A y \in S : x <= y
<1> DEFINE R == {p \in Nat \X Nat : p[1] < p[2]}
<1>1. IsWellFoundedOn(R, Nat)
  BY NatLessThanWellFounded DEF OpToRel
<1>2. PICK x \in S : \A y \in S : ~ (<<y, x>> \in R)
  <2> HIDE DEF R
  <2>1. QED
    BY <1>1, WFMin
<1>3. \A y \in S : x <= y
  <2> SUFFICES ASSUME NEW y \in S PROVE x <= y
    OBVIOUS
  <2>1. x \in Nat /\ y \in Nat
    OBVIOUS
  <2>2. y < x => <<y, x>> \in R
    BY <2>1
  <2> HIDE DEF R
  <2>3. ~ (y < x)
    BY <1>2, <2>2
  <2>4. QED
    BY <2>1, <2>3
<1>4. QED
  BY <1>3

-----------------------------------------------------------------------------
(* The fields of a type.                                                   *)

LEMMA FieldBits ==
  ASSUME code \in Nat, NEW n \in 0 .. 5
  PROVE  ModAt(n) = Bits(n) /\ Bits(n) \in 0 .. 3
<1>1. CASE n = 0
  BY <1>1 DEF ModAt, Bits, Unit
<1>2. CASE n = 1
  BY <1>2 DEF ModAt, Bits, Unit
<1>3. CASE n = 2
  BY <1>3 DEF ModAt, Bits, Unit
<1>4. CASE n = 3
  BY <1>4 DEF ModAt, Bits, Unit
<1>5. CASE n = 4
  BY <1>5 DEF ModAt, Bits, Unit
<1>6. CASE n = 5
  BY <1>6 DEF ModAt, Bits, Unit
<1> QED
  BY <1>1, <1>2, <1>3, <1>4, <1>5, <1>6

LEMMA BeforeCounts ==
  /\ Before(0) = 0
  /\ \A n \in 0 .. 5 : Before(n + 1) = IF Bits(n) # 0 THEN Before(n) + 1 ELSE Before(n)
  /\ \A n \in 0 .. 6 : Before(n) \in Nat
<1> DEFINE Set(n) == {h \in Fields : h < n}
<1>1. \A n : IsFiniteSet(Set(n)) /\ Cardinality(Set(n)) \in Nat
  <2>1. IsFiniteSet(0 .. 5)
    <3>1. 0 \in Int /\ 5 \in Int
      OBVIOUS
    <3> QED
      BY <3>1, FS_Interval, Zenon
  <2>2. \A n : Set(n) \subseteq 0 .. 5
    BY DEF Fields
  <2> QED
    BY <2>1, <2>2, FS_Subset, FS_CardinalityType
<1>2. Set(0) = {}
  BY DEF Fields
<1>3. ASSUME NEW n \in 0 .. 5
      PROVE  Cardinality(Set(n + 1)) = IF Bits(n) # 0 THEN Cardinality(Set(n)) + 1 ELSE Cardinality(Set(n))
  <2>1. CASE Bits(n) # 0
    <3>1. Set(n + 1) = Set(n) \cup {n} /\ n \notin Set(n)
      BY <2>1 DEF Fields
    <3>2. Cardinality(Set(n) \cup {n}) = Cardinality(Set(n)) + 1
      BY <1>1, <3>1, FS_AddElement
    <3> QED
      BY <2>1, <3>1, <3>2
  <2>2. CASE Bits(n) = 0
    <3>1. Set(n + 1) = Set(n)
      BY <2>2 DEF Fields
    <3> QED
      BY <2>2, <3>1
  <2> QED
    BY <2>1, <2>2
<1> QED
  BY <1>1, <1>2, <1>3, FS_EmptySet DEF Before

LEMMA ArraysCount ==
  /\ ArraysFrom(6) = 0
  /\ \A n \in 0 .. 5 : ArraysFrom(n) = IF Bits(n) = 3 THEN ArraysFrom(n + 1) + 1 ELSE ArraysFrom(n + 1)
  /\ \A n \in 0 .. 6 : ArraysFrom(n) \in Nat
<1> DEFINE Set(n) == {h \in n .. 5 : Bits(h) = 3}
<1>1. \A n \in 0 .. 6 : IsFiniteSet(Set(n)) /\ Cardinality(Set(n)) \in Nat
  <2>1. IsFiniteSet(0 .. 5)
    <3>1. 0 \in Int /\ 5 \in Int
      OBVIOUS
    <3> QED
      BY <3>1, FS_Interval, Zenon
  <2>2. \A n \in 0 .. 6 : Set(n) \subseteq 0 .. 5
    OBVIOUS
  <2> QED
    BY <2>1, <2>2, FS_Subset, FS_CardinalityType
<1>2. Set(6) = {}
  OBVIOUS
<1>3. ASSUME NEW n \in 0 .. 5
      PROVE  Cardinality(Set(n)) = IF Bits(n) = 3 THEN Cardinality(Set(n + 1)) + 1 ELSE Cardinality(Set(n + 1))
  <2>1. CASE Bits(n) = 3
    <3>1. Set(n) = Set(n + 1) \cup {n} /\ n \notin Set(n + 1) /\ n + 1 \in 0 .. 6
      BY <2>1
    <3> QED
      BY <1>1, <2>1, <3>1, FS_AddElement
  <2>2. CASE Bits(n) # 3
    <3>1. Set(n) = Set(n + 1)
      BY <2>2
    <3> QED
      BY <2>2, <3>1
  <2> QED
    BY <2>1, <2>2
<1> QED
  BY <1>1, <1>2, <1>3, FS_EmptySet DEF ArraysFrom

LEMMA CountsAreNat ==
  \A n \in 0 .. 6 : Before(n) \in Nat /\ ArraysFrom(n) \in Nat
BY BeforeCounts, ArraysCount

LEMMA FieldOrder ==
  ASSUME code \in Nat
  PROVE  /\ \A n, m \in 0 .. 6 : n <= m => Before(n) <= Before(m) /\ ArraysFrom(m) <= ArraysFrom(n)
         /\ \A n \in Fields : \A m \in 0 .. 6 : n < m => Before(n) < Before(m)
         /\ \A n, m \in 0 .. 6 : Before(n) = Before(m) => ArraysFrom(n) = ArraysFrom(m)
<1>1. /\ Before(0) = 0
      /\ Before(1) = (IF Bits(0) # 0 THEN Before(0) + 1 ELSE Before(0))
      /\ Before(2) = (IF Bits(1) # 0 THEN Before(1) + 1 ELSE Before(1))
      /\ Before(3) = (IF Bits(2) # 0 THEN Before(2) + 1 ELSE Before(2))
      /\ Before(4) = (IF Bits(3) # 0 THEN Before(3) + 1 ELSE Before(3))
      /\ Before(5) = (IF Bits(4) # 0 THEN Before(4) + 1 ELSE Before(4))
      /\ Before(6) = (IF Bits(5) # 0 THEN Before(5) + 1 ELSE Before(5))
  BY BeforeCounts
<1>2. /\ ArraysFrom(6) = 0
      /\ ArraysFrom(0) = (IF Bits(0) = 3 THEN ArraysFrom(1) + 1 ELSE ArraysFrom(1))
      /\ ArraysFrom(1) = (IF Bits(1) = 3 THEN ArraysFrom(2) + 1 ELSE ArraysFrom(2))
      /\ ArraysFrom(2) = (IF Bits(2) = 3 THEN ArraysFrom(3) + 1 ELSE ArraysFrom(3))
      /\ ArraysFrom(3) = (IF Bits(3) = 3 THEN ArraysFrom(4) + 1 ELSE ArraysFrom(4))
      /\ ArraysFrom(4) = (IF Bits(4) = 3 THEN ArraysFrom(5) + 1 ELSE ArraysFrom(5))
      /\ ArraysFrom(5) = (IF Bits(5) = 3 THEN ArraysFrom(6) + 1 ELSE ArraysFrom(6))
  BY ArraysCount
<1>3. \A n \in 0 .. 6 : Before(n) \in Nat /\ ArraysFrom(n) \in Nat
  BY BeforeCounts, ArraysCount
<1>4. \A n \in 0 .. 6 : n \in {0, 1, 2, 3, 4, 5, 6}
  OBVIOUS
<1>5. \A n, m \in 0 .. 6 : n <= m => Before(n) <= Before(m) /\ ArraysFrom(m) <= ArraysFrom(n)
  BY <1>1, <1>2, <1>3, <1>4
<1>6. ASSUME NEW n \in Fields, NEW m \in 0 .. 6, n < m PROVE Before(n) < Before(m)
  <2>1. n \in 0 .. 5 /\ Bits(n) # 0 /\ n + 1 \in 0 .. 6 /\ n + 1 <= m
    BY <1>6 DEF Fields
  <2>2. Before(n + 1) = Before(n) + 1 /\ Before(n) \in Nat /\ Before(m) \in Nat
    BY <1>3, <2>1, BeforeCounts
  <2>3. Before(n + 1) <= Before(m)
    BY <1>5, <2>1
  <2> QED
    BY <2>2, <2>3
<1>7. \A n, m \in 0 .. 6 : n <= m /\ Before(n) = Before(m) => ArraysFrom(n) = ArraysFrom(m)
  BY <1>1, <1>2, <1>3, <1>4
<1>8. \A n, m \in 0 .. 6 : Before(n) = Before(m) => ArraysFrom(n) = ArraysFrom(m)
  BY <1>7
<1> QED
  BY <1>5, <1>6, <1>8, Zenon

LEMMA FieldAt ==
  ASSUME code \in Nat, NEW m \in 0 .. 6, NEW x \in 0 .. Before(m) - 1
  PROVE  \E n \in Fields : n < m /\ Before(n) = x
<1> DEFINE After == {n \in 0 .. 6 : Before(n) > x}
<1>1. Before(m) \in Nat /\ m \in After /\ After \subseteq Nat
  BY BeforeCounts
<1>2. PICK n \in After : \A h \in After : n <= h
  BY <1>1, LeastExists
<1>3. n # 0 /\ n - 1 \in 0 .. 5 /\ n - 1 \notin After /\ n <= m
  BY <1>1, <1>2, BeforeCounts
<1>4. Before(n - 1) <= x /\ Before(n) > x /\ Before(n - 1) \in Nat
  BY <1>1, <1>2, <1>3, BeforeCounts
<1>5. (n - 1) + 1 = n
  BY <1>3
<1>6. Before(n) = IF Bits(n - 1) # 0 THEN Before(n - 1) + 1 ELSE Before(n - 1)
  BY <1>3, <1>5, BeforeCounts
<1>7. Bits(n - 1) # 0 /\ Before(n - 1) = x
  BY <1>4, <1>6
<1> QED
  BY <1>3, <1>7 DEF Fields

-----------------------------------------------------------------------------
(* Decoding and wrapping.                                                  *)

Names3 == {"PTR", "FCN", "ARY"}
Mods3 == {<<"PTR", 0>>, <<"FCN", 0>>} \cup ({"ARY"} \X Nat)

(* mods has the modifiers of the fields below the k-th.                    *)
ModsAre(k) ==
  /\ mods \in Seq(Names3) /\ Len(mods) = Before(k)
  /\ \A n \in Fields : n < k => mods[Before(n) + 1] = ModNames[Bits(n)]

(* type has those of the fields whose modifiers stand after the k-th.      *)
Wrapped(k) ==
  /\ type \in Seq(Mods3) /\ Len(type) = Before(6) - k
  /\ \A n \in Fields : Before(n) >= k => type[Before(n) + 1 - k] = Modifier(n)

Given == code \in Nat /\ dims \in Seq(Nat)

Decoding == pc = "mods" => i \in 0 .. 6 /\ ModsAre(i) /\ type = <<>> /\ j = 1

Wrapping ==
  pc = "parse" =>
    /\ ModsAre(6) /\ i \in 0 .. Before(6) /\ Wrapped(i) /\ j \in 1 .. Len(dims) + 1
    /\ \A n \in 0 .. 6 : Before(n) = i => j = ArraysFrom(n) + 1

Wrapped6 == pc \in {"print", "done"} => ArraysFrom(0) <= Len(dims) /\ type \in Seq(Mods3)

ParseInv ==
  /\ Given /\ Decoding /\ Wrapping /\ Wrapped6
  /\ pc = "panic" => ArraysFrom(0) > Len(dims)

LEMMA ModNamesAre ==
  /\ ModNames[1] = "PTR" /\ ModNames[2] = "FCN" /\ ModNames[3] = "ARY"
  /\ \A n \in {1, 2, 3} : ModNames[n] \in Names3
BY DEF ModNames, Names3

LEMMA ModNameTells ==
  \A n \in 1 .. 3 : /\ ModNames[n] = "PTR" <=> n = 1
                    /\ ModNames[n] = "FCN" <=> n = 2
                    /\ ModNames[n] = "ARY" <=> n = 3
<1> SUFFICES ASSUME NEW n \in 1 .. 3
             PROVE  /\ ModNames[n] = "PTR" <=> n = 1
                    /\ ModNames[n] = "FCN" <=> n = 2
                    /\ ModNames[n] = "ARY" <=> n = 3
  OBVIOUS
<1>1. n = 1 \/ n = 2 \/ n = 3
  OBVIOUS
<1> QED
  BY <1>1, ModNamesAre

LEMMA FieldsKept ==
  ASSUME code' = code
  PROVE  /\ Fields' = Fields /\ \A n : Bits(n)' = Bits(n) /\ ModAt(n)' = ModAt(n)
         /\ \A n : Before(n)' = Before(n) /\ ArraysFrom(n)' = ArraysFrom(n)
         /\ dims' = dims => \A n : Modifier(n)' = Modifier(n)
BY DEF Fields, Bits, ModAt, Before, ArraysFrom, Modifier

LEMMA DecodeStep ==
  ASSUME ParseInv, DecodeMod
  PROVE  ParseInv'
<1>1. /\ pc = "mods" /\ i < 6 /\ i' = i + 1 /\ UNCHANGED <<code, dims, j, type, name, pc>>
      /\ mods' = IF ModAt(i) = 0 THEN mods ELSE Append(mods, ModNames[ModAt(i)])
  BY DEF DecodeMod
<1>2. i \in 0 .. 5 /\ ModsAre(i) /\ type = <<>> /\ j = 1 /\ Given
  BY <1>1 DEF ParseInv, Decoding
<1>3. ModAt(i) = Bits(i) /\ Bits(i) \in 0 .. 3
  BY <1>2, FieldBits DEF Given
<1>4. Before(i + 1) = IF Bits(i) # 0 THEN Before(i) + 1 ELSE Before(i)
  BY <1>2, BeforeCounts
<1>5. \A n \in Fields : n < i => Before(n) < Before(i) /\ n \in 0 .. 5
  BY <1>2, FieldOrder DEF Given, Fields
<1>6. Before(i) \in Nat /\ \A n \in Fields : Before(n) \in Nat /\ n \in Nat
  <2>1. i \in 0 .. 6 /\ \A n \in Fields : n \in 0 .. 6 /\ n \in Nat
    BY <1>2 DEF Fields
  <2> QED
    BY <2>1, CountsAreNat
<1>7. /\ mods' \in Seq(Names3) /\ Len(mods') = Before(i + 1)
      /\ \A n \in Fields : n < i + 1 => mods'[Before(n) + 1] = ModNames[Bits(n)]
  <2>1. CASE Bits(i) = 0
    <3>1. \A n \in Fields : n # i
      BY <2>1 DEF Fields
    <3>2. \A n \in Fields : n < i + 1 => n < i
      BY <1>2, <1>6, <3>1
    <3> QED
      BY <1>1, <1>2, <1>3, <1>4, <2>1, <3>2 DEF ModsAre
  <2>2. CASE Bits(i) # 0
    <3>1. ModNames[Bits(i)] \in Names3
      BY <1>3, <2>2, ModNamesAre
    <3>2. mods' = Append(mods, ModNames[Bits(i)]) /\ mods \in Seq(Names3) /\ Len(mods) = Before(i)
      BY <1>1, <1>2, <1>3, <2>2 DEF ModsAre
    <3>3. /\ mods' \in Seq(Names3) /\ Len(mods') = Before(i) + 1 /\ mods'[Before(i) + 1] = ModNames[Bits(i)]
          /\ \A x \in 1 .. Before(i) : mods'[x] = mods[x]
      BY <3>1, <3>2
    <3>4. ASSUME NEW n \in Fields, n < i + 1 PROVE mods'[Before(n) + 1] = ModNames[Bits(n)]
      <4>1. CASE n = i
        BY <3>3, <4>1
      <4>2. CASE n # i
        <5>1. n < i
          BY <1>2, <1>6, <3>4, <4>2
        <5>2. Before(n) + 1 \in 1 .. Before(i)
          BY <1>5, <1>6, <5>1
        <5> QED
          BY <1>2, <3>3, <5>1, <5>2 DEF ModsAre
      <4> QED
        BY <4>1, <4>2
    <3> QED
      BY <1>4, <2>2, <3>3, <3>4
  <2> QED
    BY <2>1, <2>2
<1>8. Decoding'
  <2>1. Fields' = Fields /\ Before(i)' = Before(i + 1)
        /\ \A n : Before(n)' = Before(n) /\ Bits(n)' = Bits(n)
    BY <1>1, FieldsKept DEF Before
  <2>2. ModNames' = ModNames
    BY DEF ModNames
  <2>3. ModsAre(i)'
    BY <1>1, <1>7, <2>1, <2>2 DEF ModsAre
  <2> QED
    BY <1>1, <1>2, <2>3 DEF Decoding
<1> QED
  BY <1>1, <1>2, <1>8 DEF ParseInv, Given, Wrapping, Wrapped6

LEMMA EndModsStep ==
  ASSUME ParseInv, EndMods
  PROVE  ParseInv'
<1>1. /\ pc = "mods" /\ i = 6 /\ i' = Len(mods) /\ pc' = "parse"
      /\ UNCHANGED <<code, dims, j, mods, type, name>>
  BY DEF EndMods
<1>2. ModsAre(6) /\ type = <<>> /\ j = 1 /\ Given
  BY <1>1 DEF ParseInv, Decoding
<1>3. /\ Fields' = Fields
      /\ \A n : /\ Before(n)' = Before(n) /\ Bits(n)' = Bits(n)
                /\ ArraysFrom(n)' = ArraysFrom(n) /\ Modifier(n)' = Modifier(n)
  BY <1>1, FieldsKept
<1>4. ModsAre(6)'
  BY <1>1, <1>2, <1>3 DEF ModsAre, ModNames
<1>5. i' = Before(6) /\ Before(6) \in Nat
  BY <1>1, <1>2, BeforeCounts DEF ModsAre
<1>6. \A n \in Fields : n \in 0 .. 5 /\ Before(n) < Before(6) /\ Before(n) \in Nat
  BY <1>2, FieldOrder, BeforeCounts DEF Given, Fields
<1>7. Wrapped(i)'
  BY <1>1, <1>2, <1>3, <1>5, <1>6 DEF Wrapped
<1>8. \A n \in 0 .. 6 : Before(n) = Before(6) => ArraysFrom(n) = 0
  <2> SUFFICES ASSUME NEW n \in 0 .. 6, Before(n) = Before(6) PROVE ArraysFrom(n) = 0
    OBVIOUS
  <2>1. 6 \in 0 .. 6 /\ code \in Nat
    BY <1>2 DEF Given
  <2>2. ArraysFrom(n) = ArraysFrom(6)
    BY <2>1, FieldOrder
  <2> QED
    BY <2>2, ArraysCount
<1>9. Wrapping'
  BY <1>1, <1>2, <1>3, <1>4, <1>5, <1>7, <1>8 DEF Wrapping, Given
<1> QED
  BY <1>1, <1>2, <1>9 DEF ParseInv, Given, Decoding, Wrapped6

(* The i-th modifier is that of a field.                                   *)
LEMMA FieldHere ==
  ASSUME ParseInv, pc = "parse", i > 0
  PROVE  \E n \in Fields :
           /\ Before(n) = i - 1 /\ mods[i] = ModNames[Bits(n)]
           /\ j = ArraysFrom(n + 1) + 1 /\ Bits(n) \in 1 .. 3
<1>1. ModsAre(6) /\ i \in 1 .. Before(6) /\ Given /\ \A n \in 0 .. 6 : Before(n) = i => j = ArraysFrom(n) + 1
  BY DEF ParseInv, Wrapping
<1>2. Before(6) \in Nat
  BY BeforeCounts
<1>3. PICK n \in Fields : n < 6 /\ Before(n) = i - 1
  <2>1. 6 \in 0 .. 6 /\ i - 1 \in 0 .. Before(6) - 1 /\ code \in Nat
    BY <1>1, <1>2 DEF Given
  <2> QED
    BY <2>1, FieldAt, Zenon
<1>4. n \in 0 .. 5 /\ Bits(n) \in 1 .. 3
  BY <1>1, FieldBits DEF Fields, Given
<1>5. mods[(i - 1) + 1] = ModNames[Bits(n)] /\ (i - 1) + 1 = i
  BY <1>1, <1>3 DEF ModsAre
<1>6. n + 1 \in 0 .. 6 /\ Before(n + 1) = (i - 1) + 1
  BY <1>3, <1>4, BeforeCounts
<1> QED
  BY <1>1, <1>3, <1>4, <1>5, <1>6

(* What Wrap makes of a type that is wrapped from a place on.              *)
LEMMA WrapAround ==
  ASSUME Given, NEW k \in 1 .. Before(6), Wrapped(k), NEW n \in Fields, Before(n) = k - 1,
         Modifier(n) \in Mods3, NEW t, t = <<Modifier(n)>> \o type
  PROVE  /\ t \in Seq(Mods3) /\ Len(t) = Before(6) - (k - 1)
         /\ \A h \in Fields : Before(h) >= k - 1 => t[Before(h) + 1 - (k - 1)] = Modifier(h)
<1>1. Before(6) \in Nat
  BY BeforeCounts
<1>2. type \in Seq(Mods3) /\ Len(type) = Before(6) - k
  BY DEF Wrapped
<1>3. /\ t \in Seq(Mods3) /\ Len(t) = 1 + Len(type) /\ t[1] = Modifier(n)
      /\ \A x \in 1 .. Len(type) : t[x + 1] = type[x]
  <2> DEFINE a == Modifier(n)
  <2>1. a \in Mods3 /\ t = <<a>> \o type
    OBVIOUS
  <2> HIDE DEF a
  <2> QED
    BY <1>2, <2>1 DEF a
<1>4. ASSUME NEW h \in Fields, Before(h) >= k - 1 PROVE t[Before(h) + 1 - (k - 1)] = Modifier(h)
  <2>1. h \in 0 .. 5 /\ n \in 0 .. 5 /\ Before(h) \in Nat /\ Before(h) < Before(6)
    <3>1. h \in 0 .. 5 /\ n \in 0 .. 5 /\ h \in 0 .. 6 /\ 6 \in 0 .. 6 /\ h < 6
      BY DEF Fields
    <3> QED
      BY <3>1, FieldOrder, BeforeCounts DEF Given
  <2>2. CASE h = n
    BY <1>1, <1>3, <2>2
  <2>3. CASE h # n
    <3>1. Before(h) # Before(n)
      <4>1. h < n \/ n < h
        BY <2>1, <2>3
      <4>2. h < n => Before(h) < Before(n)
        BY <2>1, FieldOrder DEF Given
      <4>3. n < h => Before(n) < Before(h)
        BY <2>1, FieldOrder DEF Given
      <4> QED
        BY <1>1, <2>1, <4>1, <4>2, <4>3
    <3>2. Before(h) >= k /\ Before(h) + 1 - k \in 1 .. Len(type)
      BY <1>1, <1>2, <1>4, <2>1, <3>1
    <3>3. type[Before(h) + 1 - k] = Modifier(h)
      BY <3>2 DEF Wrapped
    <3>4. Before(h) + 1 - (k - 1) = (Before(h) + 1 - k) + 1
      BY <2>1
    <3> QED
      BY <1>3, <3>2, <3>3, <3>4
  <2> QED
    BY <2>2, <2>3
<1>5. Len(t) = Before(6) - (k - 1)
  BY <1>1, <1>2, <1>3
<1> QED
  BY <1>3, <1>4, <1>5

LEMMA WrapKeeps ==
  ASSUME ParseInv, pc = "parse", i > 0, NEW n \in Fields, Before(n) = i - 1,
         j = ArraysFrom(n + 1) + 1, Modifier(n) \in Mods3, Wrap(Modifier(n)),
         j' = (IF Bits(n) = 3 THEN j + 1 ELSE j), j' <= Len(dims) + 1, dims' = dims
  PROVE  ParseInv'
<1>1. /\ type' = <<Modifier(n)>> \o type /\ i' = i - 1
      /\ UNCHANGED <<code, dims, mods, name, pc>>
  BY DEF Wrap
<1>2. /\ ModsAre(6) /\ i \in 0 .. Before(6) /\ Wrapped(i) /\ j \in 1 .. Len(dims) + 1 /\ Given
  BY DEF ParseInv, Wrapping
<1>3. /\ Fields' = Fields
      /\ \A h : /\ Before(h)' = Before(h) /\ Bits(h)' = Bits(h)
                /\ ArraysFrom(h)' = ArraysFrom(h) /\ Modifier(h)' = Modifier(h)
  BY <1>1, FieldsKept
<1>4. ModsAre(6)'
  BY <1>1, <1>2, <1>3 DEF ModsAre, ModNames
<1>5. Before(6) \in Nat /\ i \in 1 .. Before(6) /\ i' \in 0 .. Before(6)
  <2>1. 6 \in 0 .. 6 /\ n \in 0 .. 6
    BY DEF Fields
  <2>2. Before(6) \in Nat
    BY <2>1, CountsAreNat
  <2>3. i \in 0 .. Before(6) /\ i > 0 /\ i' = i - 1
    BY <1>1, <1>2
  <2> QED
    BY <2>2, <2>3
<1>6. /\ type' \in Seq(Mods3) /\ Len(type') = Before(6) - i'
      /\ \A h \in Fields : Before(h) >= i' => type'[Before(h) + 1 - i'] = Modifier(h)
  BY <1>1, <1>2, <1>5, WrapAround
<1>7. Wrapped(i)'
  BY <1>3, <1>6 DEF Wrapped
<1>8. n \in 0 .. 5
  BY DEF Fields
<1>9. ArraysFrom(n) = IF Bits(n) = 3 THEN ArraysFrom(n + 1) + 1 ELSE ArraysFrom(n + 1)
  BY <1>8, ArraysCount
<1>10. ASSUME NEW h \in 0 .. 6, Before(h) = i' PROVE j' = ArraysFrom(h) + 1
  <2>1. n \in 0 .. 6 /\ Before(n) = Before(h)
    BY <1>1, <1>8, <1>10
  <2>2. ArraysFrom(n) = ArraysFrom(h)
    BY <1>2, <2>1, FieldOrder DEF Given
  <2>3. ArraysFrom(n + 1) \in Nat
    <3>1. n + 1 \in 0 .. 6
      BY <1>8
    <3> QED
      BY <3>1, CountsAreNat
  <2> QED
    BY <1>9, <2>2, <2>3
<1>11. j' \in 1 .. Len(dims) + 1
  <2>1. Len(dims) \in Nat
    BY <1>2 DEF Given
  <2> QED
    BY <1>2, <2>1
<1>12. Wrapping'
  BY <1>1, <1>3, <1>4, <1>5, <1>7, <1>10, <1>11 DEF Wrapping
<1> QED
  BY <1>1, <1>2, <1>12 DEF ParseInv, Given, Decoding, Wrapped6

LEMMA WrapStep ==
  ASSUME ParseInv, WrapPointer \/ WrapFunc \/ WrapArray
  PROVE  ParseInv'
<1>1. pc = "parse" /\ i > 0 /\ Given
  BY DEF WrapPointer, WrapFunc, WrapArray, AtMod, ParseInv
<1>2. PICK n \in Fields : /\ Before(n) = i - 1 /\ mods[i] = ModNames[Bits(n)]
                          /\ j = ArraysFrom(n + 1) + 1 /\ Bits(n) \in 1 .. 3
  BY <1>1, FieldHere
<1>3. n \in 0 .. 5 /\ ArraysFrom(n + 1) \in Nat /\ j \in 1 .. Len(dims) + 1
  <2>1. n \in 0 .. 5 /\ j \in 1 .. Len(dims) + 1
    BY <1>1 DEF Fields, ParseInv, Wrapping
  <2>2. n + 1 \in 0 .. 6
    BY <2>1
  <2> QED
    BY <2>1, <2>2, CountsAreNat
<1>4. CASE WrapPointer
  <2>1. mods[i] = "PTR" /\ Wrap(<<"PTR", 0>>) /\ j' = j
    BY <1>4 DEF WrapPointer, AtMod
  <2>2. Bits(n) = 1
    BY <1>2, <2>1, ModNameTells
  <2>3. Modifier(n) = <<"PTR", 0>>
    BY <2>2, ModNamesAre DEF Modifier
  <2>4. Modifier(n) \in Mods3 /\ dims' = dims
    BY <2>1, <2>3 DEF Mods3, Wrap
  <2> QED
    BY <1>1, <1>2, <1>3, <2>1, <2>2, <2>3, <2>4, WrapKeeps
<1>5. CASE WrapFunc
  <2>1. mods[i] = "FCN" /\ Wrap(<<"FCN", 0>>) /\ j' = j
    BY <1>5 DEF WrapFunc, AtMod
  <2>2. Bits(n) = 2
    BY <1>2, <2>1, ModNameTells
  <2>3. Modifier(n) = <<"FCN", 0>>
    BY <2>2, ModNamesAre DEF Modifier
  <2>4. Modifier(n) \in Mods3 /\ dims' = dims
    BY <2>1, <2>3 DEF Mods3, Wrap
  <2> QED
    BY <1>1, <1>2, <1>3, <2>1, <2>2, <2>3, <2>4, WrapKeeps
<1>6. CASE WrapArray
  <2>1. mods[i] = "ARY" /\ ~ (j > Len(dims)) /\ Wrap(<<"ARY", dims[j]>>) /\ j' = j + 1
    BY <1>6 DEF WrapArray, AtMod, OutOfDims
  <2>2. Bits(n) = 3
    BY <1>2, <2>1, ModNameTells
  <2>3. ArraysFrom(n) = j
    BY <1>2, <1>3, <2>2, ArraysCount
  <2>4. Modifier(n) = <<"ARY", dims[j]>>
    BY <2>2, <2>3, ModNamesAre DEF Modifier
  <2>5. j \in DOMAIN dims /\ dims[j] \in Nat /\ j' <= Len(dims) + 1
    <3>1. dims \in Seq(Nat)
      BY <1>1 DEF Given
    <3> QED
      BY <1>3, <2>1, <3>1
  <2>6. Modifier(n) \in Mods3 /\ dims' = dims
    BY <2>1, <2>4, <2>5 DEF Mods3, Wrap
  <2> QED
    BY <1>1, <1>2, <1>3, <2>1, <2>2, <2>4, <2>5, <2>6, WrapKeeps
<1> QED
  BY <1>4, <1>5, <1>6

LEMMA NoDimStep ==
  ASSUME ParseInv, NoDim
  PROVE  ParseInv'
<1>1. /\ pc = "parse" /\ i > 0 /\ mods[i] = "ARY" /\ j > Len(dims) /\ pc' = "panic"
      /\ UNCHANGED <<code, dims, i, j, mods, type, name>> /\ Given
  BY DEF NoDim, AtMod, OutOfDims, ParseInv
<1>2. PICK n \in Fields : /\ Before(n) = i - 1 /\ mods[i] = ModNames[Bits(n)]
                          /\ j = ArraysFrom(n + 1) + 1 /\ Bits(n) \in 1 .. 3
  BY <1>1, FieldHere
<1>3. n \in 0 .. 5 /\ Bits(n) = 3
  BY <1>1, <1>2, ModNamesAre DEF Fields
<1>4. ArraysFrom(n) = j /\ ArraysFrom(n) <= ArraysFrom(0)
  <2>1. n \in 0 .. 6 /\ n + 1 \in 0 .. 6 /\ 0 \in 0 .. 6 /\ 0 <= n /\ code \in Nat
    BY <1>1, <1>3 DEF Given
  <2>2. ArraysFrom(n) = ArraysFrom(n + 1) + 1
    BY <1>3, ArraysCount
  <2>3. ArraysFrom(n) <= ArraysFrom(0)
    BY <2>1, FieldOrder
  <2>4. ArraysFrom(n + 1) \in Nat
    BY <2>1, CountsAreNat
  <2> QED
    BY <1>2, <2>2, <2>3, <2>4
<1>5. ArraysFrom(0) > Len(dims)
  <2>1. ArraysFrom(0) \in Nat /\ ArraysFrom(n) \in Nat /\ Len(dims) \in Nat
    <3>1. 0 \in 0 .. 6 /\ n \in 0 .. 6 /\ Len(dims) \in Nat
      BY <1>1, <1>3 DEF Given
    <3> QED
      BY <3>1, CountsAreNat
  <2> QED
    BY <1>1, <1>4, <2>1
<1>6. ArraysFrom(0)' = ArraysFrom(0)
  BY <1>1, FieldsKept
<1> QED
  BY <1>1, <1>5, <1>6 DEF ParseInv, Given, Decoding, Wrapping, Wrapped6

LEMMA EndParseStep ==
  ASSUME ParseInv, EndParse
  PROVE  ParseInv' /\ type' = Meaning' /\ name' = name
<1>1. /\ pc = "parse" /\ i = 0 /\ pc' = "print" /\ Given
      /\ UNCHANGED <<code, dims, i, j, mods, type, name>>
  BY DEF EndParse, ParseInv
<1>2. Wrapped(0) /\ j \in 1 .. Len(dims) + 1 /\ (Before(0) = 0 => j = ArraysFrom(0) + 1)
  BY <1>1 DEF ParseInv, Wrapping
<1>3. ArraysFrom(0) <= Len(dims)
  <2>1. ArraysFrom(0) \in Nat /\ Len(dims) \in Nat /\ j = ArraysFrom(0) + 1
    BY <1>1, <1>2, ArraysCount, BeforeCounts DEF Given
  <2> QED
    BY <1>2, <2>1
<1>4. /\ Fields' = Fields
      /\ \A n : /\ Before(n)' = Before(n) /\ ArraysFrom(n)' = ArraysFrom(n) /\ Modifier(n)' = Modifier(n)
  BY <1>1, FieldsKept
<1>5. Meaning' = Meaning
  BY <1>1 DEF Meaning, Modifier, Before, ArraysFrom, Fields, Bits, ModNames
<1>6. type = Meaning
  <2>1. type \in Seq(Mods3) /\ Len(type) = Before(6) /\ Before(6) \in Nat
    BY <1>2, BeforeCounts DEF Wrapped
  <2>2. ASSUME NEW x \in 1 .. Before(6) PROVE type[x] = Meaning[x]
    <3>1. 6 \in 0 .. 6 /\ x - 1 \in 0 .. Before(6) - 1 /\ code \in Nat
      BY <1>1, <2>1 DEF Given
    <3>2. \E n \in Fields : Before(n) = x - 1
      BY <3>1, FieldAt
    <3> DEFINE n == CHOOSE h \in Fields : Before(h) = x - 1
    <3>3. n \in Fields /\ Before(n) = x - 1
      BY <3>2
    <3>4. Meaning[x] = Modifier(n)
      BY DEF Meaning
    <3> HIDE DEF n
    <3>5. Before(n) >= 0 /\ Before(n) + 1 - 0 = x
      BY <2>1, <3>3
    <3>6. type[Before(n) + 1 - 0] = Modifier(n)
      BY <1>2, <3>3, <3>5 DEF Wrapped
    <3> QED
      BY <3>4, <3>5, <3>6
  <2>3. Meaning = [x \in 1 .. Before(6) |-> Meaning[x]]
    BY DEF Meaning
  <2>4. type = [x \in 1 .. Before(6) |-> type[x]]
    BY <2>1
  <2>5. [x \in 1 .. Before(6) |-> type[x]] = [x \in 1 .. Before(6) |-> Meaning[x]]
    BY <2>2
  <2> QED
    BY <2>3, <2>4, <2>5, Zenon
<1> QED
  BY <1>1, <1>2, <1>3, <1>4, <1>5, <1>6 DEF ParseInv, Given, Decoding, Wrapping, Wrapped6, Wrapped

-----------------------------------------------------------------------------
(* Reading.  The steps from the name to the end of a text, as the places   *)
(* of the tokens next to what was read.                                    *)

Tokens == {"name", "*", "(", ")", "[]", "()"} \X Nat
Texts == Seq(Tokens)
Cursors == [l : Nat, r : Nat \ {0}, read : Seq(Mods3)]

(* A step that reads something, by the code of Reading.                    *)
ReadsBracket(text, s, t) ==
  /\ Bracket(text, s.r)
  /\ t = [l |-> s.l, r |-> s.r + 1,
          read |-> Append(s.read, <<IF Is(text, s.r, "[]") THEN "ARY" ELSE "FCN", text[s.r][2]>>)]
ReadsStar(text, s, t) ==
  /\ ~ Bracket(text, s.r) /\ Is(text, s.l, "*")
  /\ t = [l |-> s.l - 1, r |-> s.r, read |-> Append(s.read, <<"PTR", 0>>)]
ReadsGroup(text, s, t) ==
  /\ Is(text, s.l, "(") /\ Is(text, s.r, ")")
  /\ t = [l |-> s.l - 1, r |-> s.r + 1, read |-> s.read]
Reads(text, s, t) == ReadsBracket(text, s, t) \/ ReadsStar(text, s, t) \/ ReadsGroup(text, s, t)

(* The name stands at p, and the cursors of f lead on from there, in a     *)
(* path to both ends.                                                      *)
Trail(text, p, f, K) ==
  /\ p \in DOMAIN text /\ \A x \in DOMAIN text : text[x][1] = "name" <=> x = p
  /\ K \in 0 .. Len(text)
  /\ f \in [0 .. K -> Cursors] /\ f[0] = [l |-> p - 1, r |-> p + 1, read |-> <<>>]
  /\ \A x \in 1 .. K : Reads(text, f[x - 1], f[x])

Path(text, p, f, K) == Trail(text, p, f, K) /\ f[K].l = 0 /\ f[K].r = Len(text) + 1

LEMMA ReadsOn ==
  ASSUME NEW text, NEW s, NEW t, Reads(text, s, t)
  PROVE  ReadOn(text, s) = t
<1>1. CASE ReadsBracket(text, s, t)
  BY <1>1, Zenon DEF ReadsBracket, ReadOn
<1>2. CASE ReadsStar(text, s, t)
  BY <1>2, Zenon DEF ReadsStar, ReadOn
<1>3. CASE ReadsGroup(text, s, t)
  <2>1. ~ Bracket(text, s.r) /\ ~ Is(text, s.l, "*")
    BY <1>3 DEF ReadsGroup, Bracket, Is
  <2> QED
    BY <1>3, <2>1, Zenon DEF ReadsGroup, ReadOn
<1> QED
  BY <1>1, <1>2, <1>3 DEF Reads

LEMMA StaysAtEnd ==
  ASSUME NEW text \in Texts, NEW s, s.l = 0, s.r = Len(text) + 1
  PROVE  ReadOn(text, s) = s
<1>1. s.l \notin DOMAIN text /\ s.r \notin DOMAIN text
  BY DEF Texts
<1>2. ~ Bracket(text, s.r) /\ ~ Is(text, s.l, "*") /\ ~ Is(text, s.l, "(")
  BY <1>1 DEF Bracket, Is
<1> QED
  BY <1>2, Zenon DEF ReadOn

(* The function that Reading chooses exists, and follows the path.         *)
ReadRec(g, text, s, L) == g = [x \in 0 .. L |-> IF x = 0 THEN s ELSE ReadOn(text, g[x - 1])]

LEMMA ReadExists ==
  ASSUME NEW text, NEW s, NEW L \in Nat
  PROVE  \E g : ReadRec(g, text, s, L)
<1> DEFINE bad == {x \in 0 .. L : ~ \E g : ReadRec(g, text, s, x)}
<1>1. SUFFICES ASSUME bad # {} PROVE FALSE
  OBVIOUS
<1>2. bad \subseteq Nat
  OBVIOUS
<1>3. PICK x \in bad : \A y \in bad : x <= y
  BY <1>1, <1>2, LeastExists
<1>4. x \in 0 .. L /\ ~ \E g : ReadRec(g, text, s, x)
  BY <1>3
<1>5. CASE x = 0
  <2>1. ReadRec([y \in 0 .. 0 |-> s], text, s, 0)
    BY DEF ReadRec
  <2> QED
    BY <1>4, <1>5, <2>1
<1>6. CASE x # 0
  <2>1. x - 1 \in 0 .. L /\ x - 1 \notin bad /\ x \in Nat
    BY <1>2, <1>3, <1>4, <1>6
  <2>2. PICK f : ReadRec(f, text, s, x - 1)
    BY <2>1
  <2> DEFINE g == [y \in 0 .. x |-> IF y = x THEN ReadOn(text, f[x - 1]) ELSE f[y]]
  <2>3. \A y \in 0 .. x - 1 : f[y] = IF y = 0 THEN s ELSE ReadOn(text, f[y - 1])
    BY <2>2 DEF ReadRec
  <2>4. \A y \in 0 .. x : g[y] = IF y = 0 THEN s ELSE ReadOn(text, g[y - 1])
    <3> SUFFICES ASSUME NEW y \in 0 .. x
                 PROVE  g[y] = IF y = 0 THEN s ELSE ReadOn(text, g[y - 1])
      OBVIOUS
    <3>1. CASE y = x
      <4>1. x - 1 \in 0 .. x /\ x - 1 # x
        BY <2>1, <1>6
      <4> QED
        BY <1>6, <3>1, <4>1
    <3>2. CASE y # x
      <4>1. y \in 0 .. x - 1 /\ (y # 0 => y - 1 \in 0 .. x /\ y - 1 # x)
        BY <2>1, <3>2
      <4> QED
        BY <2>3, <3>2, <4>1
    <3> QED
      BY <3>1, <3>2
  <2>5. g = [y \in 0 .. x |-> g[y]]
    OBVIOUS
  <2> HIDE DEF g
  <2>6. ReadRec(g, text, s, x)
    BY <2>4, <2>5 DEF ReadRec
  <2> QED
    BY <1>4, <2>6
<1> QED
  BY <1>5, <1>6

LEMMA PathIsRead ==
  ASSUME NEW text \in Texts, NEW p, NEW f, NEW K, Path(text, p, f, K)
  PROVE  Reading(text) = f[K].read
<1> DEFINE at == CHOOSE x \in DOMAIN text : Is(text, x, "name")
           L == Len(text)
           start == [l |-> at - 1, r |-> at + 1, read |-> <<>>]
           S(g) == [x \in 0 .. L |-> IF x = 0 THEN [l |-> at - 1, r |-> at + 1, read |-> <<>>]
                                     ELSE ReadOn(text, g[x - 1])]
           read == CHOOSE g : g = S(g)
           end == read[L]
<1>1. Reading(text) = IF end.l = 0 /\ end.r = L + 1 THEN end.read ELSE << <<"error", 0>> >>
  BY DEF Reading
<1>2. at = p
  <2>1. \A x \in DOMAIN text : Is(text, x, "name") <=> x = p
    BY DEF Path, Trail, Is
  <2>2. p \in DOMAIN text
    BY DEF Path, Trail
  <2> QED
    BY <2>1, <2>2
<1>3. L \in Nat
  BY DEF Texts
<1>4. \E g : g = S(g)
  <2>1. \A g : ReadRec(g, text, start, L) <=> g = S(g)
    BY Zenon DEF ReadRec
  <2> QED
    BY <1>3, <2>1, ReadExists
<1> HIDE DEF S
<1>5. read = S(read)
  BY <1>4
<1> USE DEF S
<1>6. /\ read[0] = start
      /\ \A x \in 1 .. L : read[x] = ReadOn(text, read[x - 1])
  <2> HIDE DEF read
  <2> QED
    BY <1>3, <1>5
<1> HIDE DEF read, S, at
<1>7. K \in 0 .. L /\ f[0] = start /\ (\A x \in 1 .. K : f[x] = ReadOn(text, f[x - 1]))
      /\ f[K].l = 0 /\ f[K].r = L + 1
  BY <1>2, ReadsOn DEF Path, Trail
<1> HIDE DEF start, L
<1>8. \A x \in 0 .. L : read[x] = IF x <= K THEN f[x] ELSE f[K]
  <2> DEFINE wrong == {x \in 0 .. L : read[x] # IF x <= K THEN f[x] ELSE f[K]}
  <2>1. SUFFICES ASSUME wrong # {} PROVE FALSE
    OBVIOUS
  <2>2. wrong \subseteq Nat
    OBVIOUS
  <2>3. PICK x \in wrong : \A y \in wrong : x <= y
    BY <2>1, <2>2, LeastExists
  <2>4. x # 0 /\ x \in 1 .. L /\ x - 1 \in 0 .. L /\ x - 1 \notin wrong
    BY <1>3, <1>6, <1>7, <2>3
  <2>5. read[x - 1] = IF x - 1 <= K THEN f[x - 1] ELSE f[K]
    BY <2>4
  <2>6. read[x] = ReadOn(text, read[x - 1])
    BY <1>6, <2>4
  <2>7. CASE x <= K
    <3>1. x - 1 <= K /\ x \in 1 .. K
      BY <1>3, <1>7, <2>4, <2>7
    <3> QED
      BY <1>7, <2>3, <2>5, <2>6, <2>7, <3>1
  <2>8. CASE ~ (x <= K)
    <3>1. read[x - 1] = f[K]
      BY <1>3, <1>7, <2>4, <2>5, <2>8
    <3>2. ReadOn(text, f[K]) = f[K]
      BY <1>7, StaysAtEnd DEF L
    <3> QED
      BY <2>3, <2>6, <2>8, <3>1, <3>2
  <2> QED
    BY <2>7, <2>8
<1>9. end = f[K]
  <2>1. L \in 0 .. L /\ (L <= K => L = K)
    BY <1>3, <1>7
  <2> QED
    BY <1>8, <2>1
<1> QED
  BY <1>1, <1>7, <1>9

-----------------------------------------------------------------------------
(* Writing around a text.  A path through the text is one through what is  *)
(* written around it, if nothing that is read first comes too soon.        *)

Shift(s, k) == [l |-> s.l + k, r |-> s.r + k, read |-> s.read]

Within(text, big, k) == \A x \in DOMAIN text : x + k \in DOMAIN big /\ big[x + k] = text[x]

LEMMA ReadsShifted ==
  ASSUME NEW text \in Texts, NEW big, NEW k \in Nat, Within(text, big, k),
         NEW s \in Cursors, NEW t, Reads(text, s, t),
         s.r \in DOMAIN text \/ ~ Bracket(big, s.r + k)
  PROVE  Reads(big, Shift(s, k), Shift(t, k))
<1>1. s.l \in Nat /\ s.r \in Nat
  BY DEF Cursors
<1>2. \A x, token : Is(text, x, token) => Is(big, x + k, token)
  BY DEF Is, Within
<1>3. \A x, token : x \in DOMAIN text /\ Is(big, x + k, token) => Is(text, x, token)
  BY DEF Is, Within
<1>4. CASE ReadsBracket(text, s, t)
  <2>1. Bracket(text, s.r) /\ s.r \in DOMAIN text
    BY <1>4 DEF ReadsBracket, Bracket, Is
  <2>2. Bracket(big, s.r + k) /\ big[s.r + k] = text[s.r]
        /\ (Is(big, s.r + k, "[]") <=> Is(text, s.r, "[]"))
    BY <1>2, <1>3, <2>1 DEF Bracket, Within
  <2> DEFINE e == <<IF Is(text, s.r, "[]") THEN "ARY" ELSE "FCN", text[s.r][2]>>
             ee == <<IF Is(big, s.r + k, "[]") THEN "ARY" ELSE "FCN", big[s.r + k][2]>>
  <2>3. e = ee
    BY <2>2
  <2>4. t = [l |-> s.l, r |-> s.r + 1, read |-> Append(s.read, e)]
    BY <1>4, Zenon DEF ReadsBracket
  <2> HIDE DEF e
  <2>5. Shift(t, k) = [l |-> s.l + k, r |-> (s.r + 1) + k, read |-> Append(s.read, e)]
    BY <2>4 DEF Shift
  <2>6. (s.r + 1) + k = (s.r + k) + 1
    BY <1>1
  <2>7. Shift(t, k) = [l |-> s.l + k, r |-> (s.r + k) + 1, read |-> Append(s.read, ee)]
    BY <2>3, <2>5, <2>6, Zenon
  <2>8. Shift(s, k).l = s.l + k /\ Shift(s, k).r = s.r + k /\ Shift(s, k).read = s.read
    BY DEF Shift
  <2> QED
    BY <2>2, <2>7, <2>8, Zenon DEF Reads, ReadsBracket
<1>5. CASE ReadsStar(text, s, t)
  <2>1. ~ Bracket(text, s.r) /\ Is(text, s.l, "*") /\ s.l \in DOMAIN text /\ s.l >= 1
    BY <1>5 DEF ReadsStar, Is, Texts
  <2>2. ~ Bracket(big, s.r + k)
    BY <1>3, <2>1 DEF Bracket
  <2>3. Is(big, s.l + k, "*")
    BY <1>2, <2>1
  <2> DEFINE e == <<"PTR", 0>>
  <2>4. t = [l |-> s.l - 1, r |-> s.r, read |-> Append(s.read, e)]
    BY <1>5, Zenon DEF ReadsStar
  <2>5. Shift(t, k) = [l |-> (s.l - 1) + k, r |-> s.r + k, read |-> Append(s.read, e)]
    BY <2>4 DEF Shift
  <2>6. (s.l - 1) + k = (s.l + k) - 1
    BY <1>1
  <2>8. Shift(s, k).l = s.l + k /\ Shift(s, k).r = s.r + k /\ Shift(s, k).read = s.read
    BY DEF Shift
  <2> QED
    BY <2>2, <2>3, <2>5, <2>6, <2>8, Zenon DEF Reads, ReadsStar
<1>6. CASE ReadsGroup(text, s, t)
  <2>1. Is(text, s.l, "(") /\ Is(text, s.r, ")")
    BY <1>6 DEF ReadsGroup
  <2>2. Is(big, s.l + k, "(") /\ Is(big, s.r + k, ")")
    BY <1>2, <2>1
  <2>4. t = [l |-> s.l - 1, r |-> s.r + 1, read |-> s.read]
    BY <1>6, Zenon DEF ReadsGroup
  <2>5. Shift(t, k) = [l |-> (s.l - 1) + k, r |-> (s.r + 1) + k, read |-> s.read]
    BY <2>4 DEF Shift
  <2>6. (s.l - 1) + k = (s.l + k) - 1 /\ (s.r + 1) + k = (s.r + k) + 1
    BY <1>1
  <2>8. Shift(s, k).l = s.l + k /\ Shift(s, k).r = s.r + k /\ Shift(s, k).read = s.read
    BY DEF Shift
  <2> QED
    BY <2>2, <2>5, <2>6, <2>8, Zenon DEF Reads, ReadsGroup
<1> QED
  BY <1>4, <1>5, <1>6 DEF Reads

LEMMA TrailShifted ==
  ASSUME NEW text \in Texts, NEW big \in Texts, NEW k \in Nat, Within(text, big, k),
         NEW p, NEW f, NEW K, Trail(text, p, f, K), K <= Len(big),
         \A x \in DOMAIN big : big[x][1] = "name" <=> x = p + k,
         \A x \in 0 .. K - 1 : f[x].r \in DOMAIN text \/ ~ Bracket(big, f[x].r + k),
         NEW g, g = [x \in 0 .. K |-> Shift(f[x], k)]
  PROVE  Trail(big, p + k, g, K)
<1>1. /\ K \in 0 .. Len(text) /\ f \in [0 .. K -> Cursors] /\ p \in DOMAIN text
      /\ f[0] = [l |-> p - 1, r |-> p + 1, read |-> <<>>]
      /\ \A x \in 1 .. K : Reads(text, f[x - 1], f[x])
  BY DEF Trail
<1>2. p \in Nat /\ p + k \in DOMAIN big /\ Len(big) \in Nat /\ Len(text) \in Nat
  BY <1>1 DEF Within, Texts
<1>3. \A s \in Cursors : Shift(s, k) \in Cursors
  BY DEF Shift, Cursors
<1>4. g \in [0 .. K -> Cursors]
  BY <1>1, <1>3
<1>5. g[0] = [l |-> (p + k) - 1, r |-> (p + k) + 1, read |-> <<>>]
  <2>1. g[0] = Shift(f[0], k)
    BY <1>1
  <2>2. Shift(f[0], k) = [l |-> (p - 1) + k, r |-> (p + 1) + k, read |-> <<>>]
    BY <1>1 DEF Shift
  <2>3. (p - 1) + k = (p + k) - 1 /\ (p + 1) + k = (p + k) + 1
    BY <1>2
  <2> QED
    BY <2>1, <2>2, <2>3, Zenon
<1>6. ASSUME NEW x \in 1 .. K PROVE Reads(big, g[x - 1], g[x])
  <2>1. x - 1 \in 0 .. K - 1 /\ x - 1 \in 0 .. K /\ x \in 0 .. K
    BY <1>1
  <2>2. f[x - 1] \in Cursors /\ Reads(text, f[x - 1], f[x])
    BY <1>1, <2>1
  <2>3. f[x - 1].r \in DOMAIN text \/ ~ Bracket(big, f[x - 1].r + k)
    BY <2>1
  <2>4. Reads(big, Shift(f[x - 1], k), Shift(f[x], k))
    BY <2>2, <2>3, ReadsShifted
  <2> QED
    BY <2>1, <2>4
<1>7. K \in 0 .. Len(big)
  BY <1>1, <1>2
<1> QED
  BY <1>2, <1>4, <1>5, <1>6, <1>7, Zenon DEF Trail

LEMMA TrailOn ==
  ASSUME NEW text \in Texts, NEW p, NEW f, NEW K, Trail(text, p, f, K), K < Len(text),
         NEW t \in Cursors, Reads(text, f[K], t),
         NEW g, g = [x \in 0 .. K + 1 |-> IF x <= K THEN f[x] ELSE t]
  PROVE  Trail(text, p, g, K + 1)
<1>1. /\ K \in 0 .. Len(text) /\ f \in [0 .. K -> Cursors]
      /\ \A x \in 1 .. K : Reads(text, f[x - 1], f[x])
  BY DEF Trail
<1>2. Len(text) \in Nat /\ K \in Nat
  BY <1>1 DEF Texts
<1>3. K + 1 \in 0 .. Len(text) /\ g \in [0 .. K + 1 -> Cursors] /\ g[0] = f[0]
  BY <1>1, <1>2
<1>4. ASSUME NEW x \in 1 .. K + 1 PROVE Reads(text, g[x - 1], g[x])
  <2>1. CASE x <= K
    <3>1. x \in 1 .. K /\ x - 1 <= K /\ x - 1 \in 0 .. K + 1 /\ x \in 0 .. K + 1
      BY <1>2, <2>1
    <3>2. g[x] = f[x] /\ g[x - 1] = f[x - 1]
      BY <2>1, <3>1
    <3> QED
      BY <1>1, <3>1, <3>2
  <2>2. CASE ~ (x <= K)
    <3>1. x = K + 1 /\ x - 1 = K /\ K \in 0 .. K + 1 /\ K + 1 \in 0 .. K + 1 /\ ~ (K + 1 <= K)
      BY <1>2, <2>2
    <3>2. g[x] = t /\ g[x - 1] = f[K]
      BY <3>1
    <3> QED
      BY <3>2
  <2> QED
    BY <2>1, <2>2
<1> QED
  BY <1>3, <1>4, Zenon DEF Trail

LEMMA TrailBounded ==
  ASSUME NEW text \in Texts, NEW p, NEW f, NEW K, Trail(text, p, f, K)
  PROVE  \A x \in 0 .. K : f[x].r \in 1 .. Len(text) + 1
<1>1. /\ p \in DOMAIN text /\ K \in Nat /\ f \in [0 .. K -> Cursors] /\ Len(text) \in Nat
      /\ f[0] = [l |-> p - 1, r |-> p + 1, read |-> <<>>]
      /\ \A x \in 1 .. K : Reads(text, f[x - 1], f[x])
  BY DEF Trail, Texts
<1> DEFINE bad == {x \in 0 .. K : ~ (f[x].r <= Len(text) + 1)}
<1>2. ASSUME bad # {} PROVE FALSE
  <2>1. bad \subseteq Nat
    OBVIOUS
  <2>2. PICK x \in bad : \A y \in bad : x <= y
    BY <1>2, <2>1, LeastExists
  <2>3. x \in 0 .. K /\ ~ (f[x].r <= Len(text) + 1)
    BY <2>2
  <2>4. x # 0
    <3>1. f[0].r = p + 1 /\ p <= Len(text) /\ p \in Nat
      BY <1>1 DEF Texts
    <3> QED
      BY <1>1, <2>3, <3>1
  <2>5. x \in 1 .. K /\ x - 1 \in 0 .. K /\ x - 1 \notin bad
    BY <1>1, <2>2, <2>3, <2>4
  <2>6. f[x - 1].r <= Len(text) + 1 /\ f[x - 1] \in Cursors /\ Reads(text, f[x - 1], f[x])
    BY <1>1, <2>5
  <2>7. f[x - 1].r \in Nat
    BY <2>6 DEF Cursors
  <2>8. \/ f[x].r = f[x - 1].r + 1 /\ f[x - 1].r \in DOMAIN text
        \/ f[x].r = f[x - 1].r
    <3>1. CASE ReadsBracket(text, f[x - 1], f[x])
      BY <3>1 DEF ReadsBracket, Bracket, Is
    <3>2. CASE ReadsStar(text, f[x - 1], f[x])
      BY <3>2 DEF ReadsStar
    <3>3. CASE ReadsGroup(text, f[x - 1], f[x])
      BY <3>3 DEF ReadsGroup, Is
    <3> QED
      BY <2>6, <3>1, <3>2, <3>3 DEF Reads
  <2>9. DOMAIN text = 1 .. Len(text)
    BY DEF Texts
  <2> QED
    BY <1>1, <2>3, <2>6, <2>7, <2>8, <2>9
<1>3. ASSUME NEW x \in 0 .. K PROVE f[x].r \in 1 .. Len(text) + 1
  <2>1. f[x] \in Cursors /\ f[x].r <= Len(text) + 1
    BY <1>1, <1>2
  <2> QED
    BY <1>1, <2>1 DEF Cursors
<1> QED
  BY <1>3

(* Nothing but the last step has read all that is on the right.            *)
Closed(text, f, K) == \A x \in 0 .. K - 1 : f[x].r \in DOMAIN text

(* A path of n steps from the p-th token of a text reads this.             *)
IsRead(text, p, n, read) == \E f : Path(text, p, f, n) /\ f[n].read = read

IsReadClosed(text, p, n, read) ==
  \E f : Path(text, p, f, n) /\ Closed(text, f, n) /\ f[n].read = read

(* A bracket behind a closed text is read last.                            *)
LEMMA BracketIsRead ==
  ASSUME NEW text \in Texts, NEW p, NEW f, NEW K, Path(text, p, f, K), Closed(text, f, K),
         NEW token \in ({"[]"} \X Nat) \cup {<<"()", 0>>}
  PROVE  IsReadClosed(Append(text, token), p, K + 1,
                      Append(f[K].read, <<IF token[1] = "[]" THEN "ARY" ELSE "FCN", token[2]>>))
<1> DEFINE big == Append(text, token)
           h == [x \in 0 .. K |-> Shift(f[x], 0)]
           e == <<IF token[1] = "[]" THEN "ARY" ELSE "FCN", token[2]>>
           t == [l |-> f[K].l, r |-> Len(text) + 2, read |-> Append(f[K].read, e)]
           g == [x \in 0 .. K + 1 |-> IF x <= K THEN h[x] ELSE t]
<1>1. /\ Trail(text, p, f, K) /\ f[K].l = 0 /\ f[K].r = Len(text) + 1 /\ Len(text) \in Nat
      /\ K \in Nat /\ K <= Len(text) /\ f \in [0 .. K -> Cursors] /\ DOMAIN text = 1 .. Len(text)
      /\ \A x \in DOMAIN text : text[x][1] = "name" <=> x = p
  BY DEF Path, Trail, Texts
<1>2. token \in Tokens /\ token[1] # "name" /\ token[1] \in {"[]", "()"} /\ e \in Mods3
  <2>1. CASE token = <<"()", 0>>
    <3>1. token[1] = "()" /\ token[2] = 0
      BY <2>1
    <3>2. e = <<"FCN", 0>>
      BY <3>1
    <3>3. token \in Tokens
      BY <2>1 DEF Tokens
    <3> QED
      BY <3>1, <3>2, <3>3 DEF Mods3
  <2>2. CASE token \in {"[]"} \X Nat
    <3>0. PICK x \in Nat : token = <<"[]", x>>
      BY <2>2
    <3>1. token[1] = "[]" /\ token[2] \in Nat
      BY <3>0
    <3>4. token \in Tokens
      BY <3>0 DEF Tokens
    <3>2. e = <<"ARY", token[2]>>
      BY <3>1
    <3> QED
      BY <3>1, <3>2, <3>4 DEF Mods3
  <2> QED
    BY <2>1, <2>2
<1>3. /\ big \in Texts /\ Len(big) = Len(text) + 1 /\ big[Len(text) + 1] = token
      /\ \A x \in DOMAIN text : x + 0 \in DOMAIN big /\ big[x + 0] = text[x]
      /\ DOMAIN big = 1 .. Len(text) + 1 /\ \A x \in DOMAIN text : big[x] = text[x]
  BY <1>1, <1>2 DEF Texts
<1> HIDE DEF e, big
<1>4. Within(text, big, 0)
  BY <1>3 DEF Within
<1>5. \A x \in DOMAIN big : big[x][1] = "name" <=> x = p + 0
  <2>1. p \in DOMAIN text
    BY <1>1 DEF Trail
  <2> QED
    BY <1>1, <1>2, <1>3, <2>1
<1>6. \A x \in 0 .. K - 1 : f[x].r \in DOMAIN text \/ ~ Bracket(big, f[x].r + 0)
  BY DEF Closed
<1>7. Trail(big, p + 0, h, K)
  <2>1. K <= Len(big) /\ 0 \in Nat /\ Trail(text, p, f, K)
    BY <1>1, <1>3
  <2>2. h = [x \in 0 .. K |-> Shift(f[x], 0)]
    OBVIOUS
  <2> HIDE DEF h
  <2> QED
    BY <1>3, <1>4, <1>5, <1>6, <2>1, <2>2, TrailShifted
<1>8. p + 0 = p /\ p \in Nat
  BY <1>1 DEF Trail
<1>9. f[K] \in Cursors /\ Shift(f[K], 0) = [l |-> 0, r |-> Len(text) + 1, read |-> f[K].read]
  BY <1>1 DEF Shift, Cursors
<1>10. h[K] = [l |-> 0, r |-> Len(text) + 1, read |-> f[K].read]
  BY <1>1, <1>9
<1>11. t \in Cursors /\ t.l = 0 /\ t.r = Len(big) + 1 /\ t.read = Append(f[K].read, e)
  <2>1. Append(f[K].read, e) \in Seq(Mods3)
    BY <1>2, <1>9 DEF Cursors
  <2> QED
    BY <1>1, <1>3, <2>1 DEF Cursors
<1>12. Reads(big, h[K], t)
  <2>1. h[K].r = Len(text) + 1 /\ h[K].l = f[K].l /\ h[K].read = f[K].read
    BY <1>1, <1>10
  <2>2. Len(text) + 1 \in DOMAIN big
    BY <1>1, <1>3
  <2>3. Bracket(big, h[K].r) /\ (Is(big, h[K].r, "[]") <=> token[1] = "[]") /\ big[h[K].r][2] = token[2]
    BY <1>2, <1>3, <2>1, <2>2 DEF Bracket, Is
  <2>4. e = <<IF Is(big, h[K].r, "[]") THEN "ARY" ELSE "FCN", big[h[K].r][2]>>
    BY <2>3 DEF e
  <2>5. h[K].r + 1 = Len(text) + 2
    BY <1>1, <2>1
  <2>6. t = [l |-> h[K].l, r |-> h[K].r + 1,
             read |-> Append(h[K].read, <<IF Is(big, h[K].r, "[]") THEN "ARY" ELSE "FCN", big[h[K].r][2]>>)]
    <3> HIDE DEF h
    <3> QED
      BY <2>1, <2>4, <2>5
  <2> HIDE DEF h, t
  <2> QED
    BY <2>3, <2>6, Zenon DEF Reads, ReadsBracket
<1>13. Trail(big, p, g, K + 1)
  <2>1. K < Len(big)
    BY <1>1, <1>3
  <2>2. Trail(big, p, h, K)
    BY <1>7, <1>8
  <2> HIDE DEF h, t
  <2> QED
    BY <1>3, <1>11, <1>12, <2>1, <2>2, TrailOn
<1>14. g[K + 1] = t
  BY <1>1
<1>15. Closed(big, g, K + 1)
  <2>5. (K + 1) - 1 = K
    BY <1>1
  <2> SUFFICES ASSUME NEW x \in 0 .. K PROVE g[x].r \in DOMAIN big
    <3> HIDE DEF g
    <3> QED
      BY <2>5 DEF Closed
  <2>1. g[x] = h[x] /\ h[x] = Shift(f[x], 0) /\ x \in 0 .. K
    BY <1>1
  <2>2. f[x].r \in 1 .. Len(text) + 1
    BY <1>1, TrailBounded
  <2>3. g[x].r = f[x].r + 0
    BY <2>1 DEF Shift
  <2> QED
    BY <1>1, <1>3, <2>2, <2>3
<1>16. Path(big, p, g, K + 1)
  BY <1>11, <1>13, <1>14 DEF Path
<1>17. g[K + 1].read = Append(f[K].read, e)
  BY <1>11, <1>14
<1> QED
  BY <1>15, <1>16, <1>17, Zenon DEF big, e, IsReadClosed

(* A star before a text is read last.                                      *)
LEMMA StarIsRead ==
  ASSUME NEW text \in Texts, NEW p, NEW f, NEW K, Path(text, p, f, K)
  PROVE  IsRead(<<Token("*")>> \o text, p + 1, K + 1, Append(f[K].read, <<"PTR", 0>>))
<1> DEFINE big == <<Token("*")>> \o text
           h == [x \in 0 .. K |-> Shift(f[x], 1)]
           t == [l |-> 0, r |-> Len(text) + 2, read |-> Append(f[K].read, <<"PTR", 0>>)]
           g == [x \in 0 .. K + 1 |-> IF x <= K THEN h[x] ELSE t]
<1>1. /\ Trail(text, p, f, K) /\ f[K].l = 0 /\ f[K].r = Len(text) + 1 /\ Len(text) \in Nat
      /\ K \in Nat /\ K <= Len(text) /\ f \in [0 .. K -> Cursors] /\ DOMAIN text = 1 .. Len(text)
      /\ (\A x \in DOMAIN text : text[x][1] = "name" <=> x = p) /\ p \in DOMAIN text
  BY DEF Path, Trail, Texts
<1>2. Token("*") \in Tokens /\ Token("*")[1] = "*"
  BY DEF Tokens, Token
<1>3. /\ big \in Texts /\ Len(big) = Len(text) + 1 /\ big[1] = Token("*")
      /\ \A x \in DOMAIN text : x + 1 \in DOMAIN big /\ big[x + 1] = text[x]
      /\ DOMAIN big = 1 .. Len(text) + 1
  BY <1>1, <1>2 DEF Texts
<1> HIDE DEF big
<1>4. Within(text, big, 1)
  BY <1>3 DEF Within
<1>5. \A x \in DOMAIN big : big[x][1] = "name" <=> x = p + 1
  <2> SUFFICES ASSUME NEW x \in DOMAIN big PROVE big[x][1] = "name" <=> x = p + 1
    OBVIOUS
  <2>1. CASE x = 1
    BY <1>1, <1>2, <1>3, <2>1
  <2>2. CASE x # 1
    <3>1. x - 1 \in DOMAIN text /\ (x - 1) + 1 = x
      BY <1>1, <1>3, <2>2
    <3>2. big[x] = text[x - 1] /\ (x - 1 = p <=> x = p + 1)
      BY <1>1, <1>3, <3>1
    <3> QED
      BY <1>1, <3>1, <3>2
  <2> QED
    BY <2>1, <2>2
<1>6. \A x \in 0 .. K - 1 : f[x].r \in DOMAIN text \/ ~ Bracket(big, f[x].r + 1)
  <2> SUFFICES ASSUME NEW x \in 0 .. K - 1, f[x].r \notin DOMAIN text
               PROVE  ~ Bracket(big, f[x].r + 1)
    OBVIOUS
  <2>1. f[x].r \in 1 .. Len(text) + 1
    BY <1>1, TrailBounded
  <2>2. f[x].r + 1 \notin DOMAIN big
    BY <1>1, <1>3, <2>1
  <2> QED
    BY <2>2 DEF Bracket, Is
<1>7. Trail(big, p + 1, h, K)
  <2>1. K <= Len(big) /\ 1 \in Nat /\ Trail(text, p, f, K)
    BY <1>1, <1>3
  <2>2. h = [x \in 0 .. K |-> Shift(f[x], 1)]
    OBVIOUS
  <2> HIDE DEF h
  <2> QED
    BY <1>3, <1>4, <1>5, <1>6, <2>1, <2>2, TrailShifted
<1>8. h[K].l = 1 /\ h[K].r = Len(text) + 2 /\ h[K].read = f[K].read /\ f[K] \in Cursors
  BY <1>1 DEF Shift
<1>9. t \in Cursors /\ t.l = 0 /\ t.r = Len(big) + 1 /\ t.read = Append(f[K].read, <<"PTR", 0>>)
  <2>1. Append(f[K].read, <<"PTR", 0>>) \in Seq(Mods3)
    BY <1>8 DEF Cursors, Mods3
  <2>2. Len(text) + 2 \in Nat \ {0} /\ 0 \in Nat /\ Len(big) + 1 = Len(text) + 2
    BY <1>1, <1>3
  <2> QED
    BY <2>1, <2>2 DEF Cursors
<1>10. Reads(big, h[K], t)
  <2>1. h[K].r \notin DOMAIN big /\ h[K].l \in DOMAIN big
    BY <1>1, <1>3, <1>8
  <2>2. ~ Bracket(big, h[K].r) /\ Is(big, h[K].l, "*")
    BY <1>2, <1>3, <1>8, <2>1 DEF Bracket, Is
  <2>3. t = [l |-> h[K].l - 1, r |-> h[K].r, read |-> Append(h[K].read, <<"PTR", 0>>)]
    <3> HIDE DEF h
    <3> QED
      BY <1>8
  <2> HIDE DEF h, t
  <2> QED
    BY <2>2, <2>3, Zenon DEF Reads, ReadsStar
<1>11. Trail(big, p + 1, g, K + 1)
  <2>1. K < Len(big)
    BY <1>1, <1>3
  <2> HIDE DEF h, t
  <2> QED
    BY <1>3, <1>7, <1>9, <1>10, <2>1, TrailOn
<1>12. g[K + 1] = t
  BY <1>1
<1>13. Path(big, p + 1, g, K + 1)
  BY <1>9, <1>11, <1>12 DEF Path
<1>14. g[K + 1].read = Append(f[K].read, <<"PTR", 0>>)
  BY <1>9, <1>12
<1> QED
  BY <1>13, <1>14, Zenon DEF big, IsRead

(* So is one in parentheses, and what is around the text is closed.        *)
LEMMA GroupIsRead ==
  ASSUME NEW text \in Texts, NEW p, NEW f, NEW K, Path(text, p, f, K)
  PROVE  IsReadClosed(<<Token("("), Token("*")>> \o text \o <<Token(")")>>, p + 2, K + 2,
                      Append(f[K].read, <<"PTR", 0>>))
<1> DEFINE big == <<Token("("), Token("*")>> \o text \o <<Token(")")>>
           h == [x \in 0 .. K |-> Shift(f[x], 2)]
           s == [l |-> 1, r |-> Len(text) + 3, read |-> Append(f[K].read, <<"PTR", 0>>)]
           t == [l |-> 0, r |-> Len(text) + 4, read |-> Append(f[K].read, <<"PTR", 0>>)]
           hs == [x \in 0 .. K + 1 |-> IF x <= K THEN h[x] ELSE s]
           g == [x \in 0 .. (K + 1) + 1 |-> IF x <= K + 1 THEN hs[x] ELSE t]
<1>1. /\ Trail(text, p, f, K) /\ f[K].l = 0 /\ f[K].r = Len(text) + 1 /\ Len(text) \in Nat
      /\ K \in Nat /\ K <= Len(text) /\ f \in [0 .. K -> Cursors] /\ DOMAIN text = 1 .. Len(text)
      /\ (\A x \in DOMAIN text : text[x][1] = "name" <=> x = p) /\ p \in DOMAIN text
  BY DEF Path, Trail, Texts
<1>0. Len(text) \in Nat /\ DOMAIN text = 1 .. Len(text)
  BY <1>1
<1>2. /\ Token("*") \in Tokens /\ Token("*")[1] = "*" /\ Token("(") \in Tokens /\ Token("(")[1] = "("
      /\ Token(")") \in Tokens /\ Token(")")[1] = ")"
  BY DEF Tokens, Token
<1>3. /\ big \in Texts /\ Len(big) = Len(text) + 3 /\ big[1] = Token("(") /\ big[2] = Token("*")
      /\ big[Len(text) + 3] = Token(")")
      /\ \A x \in DOMAIN text : x + 2 \in DOMAIN big /\ big[x + 2] = text[x]
      /\ DOMAIN big = 1 .. Len(text) + 3
  <2> DEFINE front == <<Token("("), Token("*")>> \o text
  <2>1. /\ front \in Seq(Tokens) /\ Len(front) = Len(text) + 2
        /\ front[1] = Token("(") /\ front[2] = Token("*")
        /\ \A x \in DOMAIN text : x + 2 \in DOMAIN front /\ front[x + 2] = text[x]
    BY <1>1, <1>2 DEF Texts
  <2>2. big = front \o <<Token(")")>>
    OBVIOUS
  <2> HIDE DEF front, big
  <2>3. /\ big \in Seq(Tokens) /\ Len(big) = Len(text) + 3 /\ big[Len(text) + 3] = Token(")")
        /\ \A x \in 1 .. Len(text) + 2 : big[x] = front[x]
    BY <1>1, <1>2, <2>1, <2>2
  <2> QED
    BY <1>1, <2>1, <2>3 DEF Texts
<1> HIDE DEF big
<1>4. Within(text, big, 2)
  BY <1>3 DEF Within
<1>5. \A x \in DOMAIN big : big[x][1] = "name" <=> x = p + 2
  <2> SUFFICES ASSUME NEW x \in DOMAIN big PROVE big[x][1] = "name" <=> x = p + 2
    OBVIOUS
  <2>1. CASE x = 1 \/ x = 2 \/ x = Len(text) + 3
    BY <1>1, <1>2, <1>3, <2>1
  <2>2. CASE ~ (x = 1 \/ x = 2 \/ x = Len(text) + 3)
    <3>1. x - 2 \in DOMAIN text /\ (x - 2) + 2 = x
      BY <1>1, <1>3, <2>2
    <3>2. big[x] = text[x - 2] /\ (x - 2 = p <=> x = p + 2)
      BY <1>1, <1>3, <3>1
    <3> QED
      BY <1>1, <3>1, <3>2
  <2> QED
    BY <2>1, <2>2
<1>6. \A x \in 0 .. K - 1 : f[x].r \in DOMAIN text \/ ~ Bracket(big, f[x].r + 2)
  <2> SUFFICES ASSUME NEW x \in 0 .. K - 1, f[x].r \notin DOMAIN text
               PROVE  ~ Bracket(big, f[x].r + 2)
    OBVIOUS
  <2>1. f[x].r \in 1 .. Len(text) + 1
    BY <1>1, TrailBounded
  <2>2. f[x].r + 2 = Len(text) + 3
    BY <1>0, <2>1
  <2> QED
    BY <1>2, <1>3, <2>2 DEF Bracket, Is
<1>7. Trail(big, p + 2, h, K)
  <2>1. K <= Len(big) /\ 2 \in Nat /\ Trail(text, p, f, K)
    BY <1>1, <1>3
  <2>2. h = [x \in 0 .. K |-> Shift(f[x], 2)]
    OBVIOUS
  <2> HIDE DEF h
  <2> QED
    BY <1>3, <1>4, <1>5, <1>6, <2>1, <2>2, TrailShifted
<1>8. h[K].l = 2 /\ h[K].r = Len(text) + 3 /\ h[K].read = f[K].read /\ f[K] \in Cursors
  BY <1>1 DEF Shift
<1>9. /\ t \in Cursors /\ t.l = 0 /\ t.r = Len(big) + 1 /\ t.read = Append(f[K].read, <<"PTR", 0>>)
      /\ s \in Cursors /\ s.l = 1 /\ s.r = Len(text) + 3 /\ s.read = t.read
  <2>1. Append(f[K].read, <<"PTR", 0>>) \in Seq(Mods3)
    BY <1>8 DEF Cursors, Mods3
  <2>2. t.l = 0 /\ t.r = Len(text) + 4 /\ t.read = Append(f[K].read, <<"PTR", 0>>)
        /\ s.l = 1 /\ s.r = Len(text) + 3 /\ s.read = t.read
    OBVIOUS
  <2>3. Len(text) + 4 = Len(big) + 1 /\ Len(text) + 4 \in Nat \ {0} /\ Len(text) + 3 \in Nat \ {0}
    BY <1>0, <1>3
  <2>4. t \in Cursors /\ s \in Cursors
    BY <2>1, <2>3 DEF Cursors
  <2> HIDE DEF t, s
  <2> QED
    BY <2>2, <2>3, <2>4
<1>10. Reads(big, h[K], s)
  <2>1. h[K].l \in DOMAIN big
    BY <1>1, <1>3, <1>8
  <2>2. ~ Bracket(big, h[K].r) /\ Is(big, h[K].l, "*")
    BY <1>2, <1>3, <1>8, <2>1 DEF Bracket, Is
  <2>3. s = [l |-> h[K].l - 1, r |-> h[K].r, read |-> Append(h[K].read, <<"PTR", 0>>)]
    <3> HIDE DEF h
    <3> QED
      BY <1>8
  <2> HIDE DEF h, s
  <2> QED
    BY <2>2, <2>3, Zenon DEF Reads, ReadsStar
<1>11. Trail(big, p + 2, hs, K + 1)
  <2>1. K < Len(big)
    BY <1>1, <1>3
  <2> HIDE DEF h, s
  <2> QED
    BY <1>3, <1>7, <1>9, <1>10, <2>1, TrailOn
<1>12. hs[K + 1] = s
  BY <1>1
<1>13. Reads(big, hs[K + 1], t)
  <2>1. Is(big, s.l, "(") /\ Is(big, s.r, ")")
    BY <1>1, <1>2, <1>3, <1>9 DEF Is
  <2>2. t = [l |-> s.l - 1, r |-> s.r + 1, read |-> s.read]
    BY <1>1
  <2> HIDE DEF s, t, hs
  <2> QED
    BY <1>12, <2>1, <2>2, Zenon DEF Reads, ReadsGroup
<1>14. Trail(big, p + 2, g, (K + 1) + 1)
  <2>1. K + 1 < Len(big)
    BY <1>1, <1>3
  <2> HIDE DEF hs, t
  <2> QED
    BY <1>3, <1>9, <1>11, <1>13, <2>1, TrailOn
<1>15. g[K + 2] = t /\ (K + 1) + 1 = K + 2
  BY <1>1
<1>16. Closed(big, g, K + 2)
  <2>5. (K + 2) - 1 = K + 1
    BY <1>1
  <2> SUFFICES ASSUME NEW x \in 0 .. K + 1 PROVE g[x].r \in DOMAIN big
    <3> HIDE DEF g
    <3> QED
      BY <2>5 DEF Closed
  <2>1. CASE x <= K
    <3>1. g[x] = h[x] /\ h[x] = Shift(f[x], 2) /\ x \in 0 .. K
      BY <1>1, <2>1
    <3>2. f[x].r \in 1 .. Len(text) + 1
      BY <1>1, <3>1, TrailBounded
    <3>3. g[x].r = f[x].r + 2
      BY <3>1 DEF Shift
    <3>4. g[x].r \in 1 .. Len(text) + 3
      <4> HIDE DEF g
      <4> QED
        BY <1>1, <3>2, <3>3
    <3> QED
      BY <1>3, <3>4
  <2>2. CASE ~ (x <= K)
    <3>1. x = K + 1
      BY <1>1, <2>2
    <3>2. g[x] = s
      BY <1>1, <1>12, <3>1
    <3>3. g[x].r = Len(text) + 3
      BY <1>9, <3>2
    <3> HIDE DEF g
    <3> QED
      BY <1>0, <1>3, <3>3
  <2> QED
    BY <2>1, <2>2
<1>17. Path(big, p + 2, g, K + 2)
  BY <1>9, <1>14, <1>15 DEF Path
<1>18. g[K + 2].read = Append(f[K].read, <<"PTR", 0>>)
  BY <1>9, <1>15
<1> QED
  BY <1>16, <1>17, <1>18, Zenon DEF big, IsReadClosed

-----------------------------------------------------------------------------
(* Printing.                                                               *)

(* A path through the text reads what was printed, and if it is not closed *)
(* then no bracket comes next.                                             *)
Printed ==
  \E p, f, K : /\ Path(name, p, f, K) /\ f[K].read \o type = Meaning
               /\ Closed(name, f, K) \/ type = <<>> \/ Head(type)[1] = "PTR"

PrintInv ==
  /\ pc \in {"mods", "parse"} => name = << <<"name", 0>> >>
  /\ pc \in {"print", "done"} => name \in Texts /\ Printed

LEMMA MeaningIsFixed ==
  ASSUME UNCHANGED <<code, dims>>
  PROVE  Meaning' = Meaning
BY DEF Meaning, Modifier, Before, ArraysFrom, Fields, Bits, ModNames

LEMMA NothingIsPrinted ==
  ASSUME ParseInv, PrintInv, EndParse
  PROVE  PrintInv'
<1>1. pc = "parse" /\ pc' = "print" /\ name' = name /\ name = << <<"name", 0>> >> /\ type' = Meaning'
  BY EndParseStep DEF EndParse, PrintInv
<1> DEFINE start == [l |-> 0, r |-> 2, read |-> <<>>]
           f == [x \in 0 .. 0 |-> start]
<1>2. name \in Texts /\ Len(name) = 1 /\ DOMAIN name = {1} /\ name[1][1] = "name"
  BY <1>1 DEF Texts, Tokens
<1>3. start \in Cursors
  BY DEF Cursors
<1>4. Trail(name, 1, f, 0)
  <2>1. f \in [0 .. 0 -> Cursors] /\ f[0] = [l |-> 1 - 1, r |-> 1 + 1, read |-> <<>>]
    BY <1>3
  <2>2. \A x \in 1 .. 0 : Reads(name, f[x - 1], f[x])
    OBVIOUS
  <2> HIDE DEF f
  <2> QED
    BY <1>2, <2>1, <2>2 DEF Trail
<1>5. Path(name, 1, f, 0) /\ f[0].read = <<>>
  BY <1>2, <1>4 DEF Path
<1>6. Closed(name, f, 0)
  BY DEF Closed
<1>7. type' \in Seq(Mods3)
  BY <1>1, EndParseStep DEF ParseInv, Wrapped6
<1>8. <<>> \o type' = Meaning'
  BY <1>1, <1>7
<1>9. Printed'
  <2> HIDE DEF f
  <2>1. /\ Path(name, 1, f, 0)' /\ f[0].read \o type' = Meaning' /\ Closed(name, f, 0)'
    BY <1>1, <1>5, <1>6, <1>8
  <2> QED
    BY <1>1, <1>5, <1>6, <1>8 DEF Printed
<1> QED
  BY <1>1, <1>2, <1>9 DEF PrintInv

LEMMA OneMoreIsRead ==
  ASSUME NEW read \in Seq(Mods3), type \in Seq(Mods3), type # <<>>
  PROVE  /\ Append(read, Head(type)) \o Tail(type) = read \o type
         /\ Head(type) \in Mods3 /\ Tail(type) \in Seq(Mods3)
<1>1. Head(type) \in Mods3 /\ Tail(type) \in Seq(Mods3) /\ Len(type) \in Nat /\ Len(type) > 0
      /\ Len(Tail(type)) = Len(type) - 1 /\ Head(type) = type[1]
      /\ \A x \in 1 .. Len(type) - 1 : Tail(type)[x] = type[x + 1]
  OBVIOUS
<1> DEFINE one == Append(read, Head(type)) \o Tail(type)
           two == read \o type
<1>2. /\ one \in Seq(Mods3) /\ two \in Seq(Mods3)
      /\ Len(one) = Len(two) /\ Len(two) = Len(read) + Len(type) /\ Len(read) \in Nat
  BY <1>1
<1>3. ASSUME NEW x \in 1 .. Len(two) PROVE one[x] = two[x]
  <2>1. CASE x <= Len(read)
    BY <1>1, <1>2, <2>1
  <2>2. CASE x = Len(read) + 1
    BY <1>1, <1>2, <2>2
  <2>3. CASE x > Len(read) + 1
    <3>1. one[x] = Tail(type)[x - (Len(read) + 1)] /\ two[x] = type[x - Len(read)]
      BY <1>1, <1>2, <2>3
    <3>2. x - (Len(read) + 1) \in 1 .. Len(type) - 1 /\ (x - (Len(read) + 1)) + 1 = x - Len(read)
      BY <1>1, <1>2, <2>3
    <3> QED
      BY <1>1, <3>1, <3>2
  <2> QED
    BY <1>2, <2>1, <2>2, <2>3
<1>4. one = [x \in 1 .. Len(two) |-> one[x]] /\ two = [x \in 1 .. Len(two) |-> two[x]]
  <2> HIDE DEF one, two
  <2> QED
    BY <1>2
<1>5. one = two
  <2> HIDE DEF one, two
  <2> QED
    BY <1>3, <1>4
<1> QED
  BY <1>1, <1>5

LEMMA PrintedOn ==
  ASSUME type \in Seq(Mods3), type # <<>>, UNCHANGED <<code, dims>>, type' = Tail(type),
         NEW p, NEW f, NEW K, Path(name, p, f, K), f[K].read \o type = Meaning,
         NEW q, NEW g, NEW L, Path(name', q, g, L), g[L].read = Append(f[K].read, Head(type)),
         Closed(name', g, L) \/ type' = <<>> \/ Head(type')[1] = "PTR"
  PROVE  Printed'
<1>1. f[K].read \in Seq(Mods3)
  <2>1. f[K] \in Cursors
    <3>1. K \in Nat /\ f \in [0 .. K -> Cursors]
      BY DEF Path, Trail
    <3> QED
      BY <3>1
  <2> QED
    BY <2>1 DEF Cursors
<1>2. g[L].read \o type' = Meaning'
  BY <1>1, OneMoreIsRead, MeaningIsFixed
<1> QED
  BY <1>2 DEF Printed

LEMMA PeelStep ==
  ASSUME ParseInv, PrintInv, PrintPointer \/ PrintArray \/ PrintFunc
  PROVE  ParseInv' /\ PrintInv'
<1>1. /\ pc = "print" /\ type # <<>> /\ type' = Tail(type)
      /\ UNCHANGED <<code, dims, i, j, mods, pc>>
  BY DEF PrintPointer, PrintArray, PrintFunc, AtType, Peel
<1>2. type \in Seq(Mods3) /\ name \in Texts /\ Printed /\ ArraysFrom(0) <= Len(dims) /\ Given
  BY <1>1 DEF ParseInv, PrintInv, Wrapped6
<1>3. PICK p, f, K : /\ Path(name, p, f, K) /\ f[K].read \o type = Meaning
                     /\ Closed(name, f, K) \/ type = <<>> \/ Head(type)[1] = "PTR"
  BY <1>2 DEF Printed
<1>4. Head(type) \in Mods3 /\ Tail(type) \in Seq(Mods3) /\ Head(type) = type[1] /\ Len(type) \in Nat
  BY <1>1, <1>2
<1>5. \A s \in Mods3 : /\ s[1] \in Names3 /\ (s[1] = "PTR" => s = <<"PTR", 0>>)
                       /\ (s[1] = "FCN" => s = <<"FCN", 0>>)
                       /\ (s[1] = "ARY" => s[2] \in Nat /\ s = <<"ARY", s[2]>>)
  BY DEF Mods3, Names3
<1>6. ParseInv'
  <2>1. ArraysFrom(0)' = ArraysFrom(0)
    BY <1>1, FieldsKept
  <2> QED
    BY <1>1, <1>2, <1>4, <2>1 DEF ParseInv, Given, Decoding, Wrapping, Wrapped6
<1>7. CASE PrintArray \/ PrintFunc
  <2> DEFINE token == IF PrintArray THEN <<"[]", Head(type)[2]>> ELSE <<"()", 0>>
             e == <<IF token[1] = "[]" THEN "ARY" ELSE "FCN", token[2]>>
  <2>1. name' = Append(name, token) /\ token \in ({"[]"} \X Nat) \cup {<<"()", 0>>} /\ e = Head(type)
    <3>1. CASE PrintArray
      <4>1. Head(type)[1] = "ARY" /\ name' = Append(name, <<"[]", Head(type)[2]>>)
        BY <3>1 DEF PrintArray, AtType, Peel
      <4>2. Head(type)[2] \in Nat /\ Head(type) = <<"ARY", Head(type)[2]>>
        BY <1>4, <1>5, <4>1
      <4>3. token = <<"[]", Head(type)[2]>>
        BY <3>1
      <4> QED
        BY <4>1, <4>2, <4>3
    <3>2. CASE ~ PrintArray
      <4>1. Head(type)[1] = "FCN" /\ name' = Append(name, <<"()", 0>>)
        BY <1>7, <3>2 DEF PrintFunc, AtType, Peel, Token
      <4>2. Head(type) = <<"FCN", 0>>
        BY <1>4, <1>5, <4>1
      <4>3. token = <<"()", 0>>
        BY <3>2
      <4> QED
        BY <4>1, <4>2, <4>3
    <3> QED
      BY <3>1, <3>2
  <2>2. Head(type)[1] # "PTR"
    BY <1>7 DEF PrintArray, PrintFunc, AtType
  <2> HIDE DEF token
  <2>3. PICK g : /\ Path(Append(name, token), p, g, K + 1) /\ Closed(Append(name, token), g, K + 1)
                 /\ g[K + 1].read = Append(f[K].read, e)
    <3>1. IsReadClosed(Append(name, token), p, K + 1, Append(f[K].read, e))
      BY <1>1, <1>2, <1>3, <2>1, <2>2, BracketIsRead
    <3> QED
      BY <3>1 DEF IsReadClosed
  <2>4. Printed'
    BY <1>1, <1>2, <1>3, <2>1, <2>3, PrintedOn
  <2>5. name' \in Texts
    <3>1. token \in Tokens
      BY <2>1 DEF Tokens
    <3> QED
      BY <1>2, <2>1, <3>1 DEF Texts
  <2> QED
    BY <1>1, <1>6, <2>4, <2>5 DEF PrintInv
<1>8. CASE PrintPointer
  <2>1. Head(type) = <<"PTR", 0>>
    BY <1>4, <1>5, <1>8 DEF PrintPointer, AtType
  <2>2. Token("*") \in Tokens /\ Token("(") \in Tokens /\ Token(")") \in Tokens
    BY DEF Tokens, Token
  <2>3. CASE NeedsGroup
    <3> DEFINE big == <<Token("("), Token("*")>> \o name \o <<Token(")")>>
    <3>1. name' = big
      BY <1>8, <2>3 DEF PrintPointer, Peel
    <3>2. big \in Texts
      <4>1. <<Token("("), Token("*")>> \in Seq(Tokens) /\ <<Token(")")>> \in Seq(Tokens)
        BY <2>2
      <4> QED
        BY <1>2, <4>1 DEF Texts
    <3> HIDE DEF big
    <3>3. PICK g : /\ Path(big, p + 2, g, K + 2) /\ Closed(big, g, K + 2)
                   /\ g[K + 2].read = Append(f[K].read, <<"PTR", 0>>)
      <4>1. name \in Texts /\ Path(name, p, f, K)
        BY <1>2, <1>3
      <4>2. IsReadClosed(big, p + 2, K + 2, Append(f[K].read, <<"PTR", 0>>))
        BY <4>1, GroupIsRead DEF big
      <4> QED
        BY <4>2 DEF IsReadClosed
    <3>4. Printed'
      BY <1>1, <1>2, <1>3, <2>1, <3>1, <3>3, PrintedOn
    <3> QED
      BY <1>1, <1>6, <3>1, <3>2, <3>4 DEF PrintInv
  <2>4. CASE ~ NeedsGroup
    <3> DEFINE big == <<Token("*")>> \o name
    <3>1. name' = big
      BY <1>8, <2>4 DEF PrintPointer, Peel
    <3>2. big \in Texts
      <4>1. <<Token("*")>> \in Seq(Tokens)
        BY <2>2
      <4> QED
        BY <1>2, <4>1 DEF Texts
    <3> HIDE DEF big
    <3>3. PICK g : Path(big, p + 1, g, K + 1) /\ g[K + 1].read = Append(f[K].read, <<"PTR", 0>>)
      <4>1. name \in Texts /\ Path(name, p, f, K)
        BY <1>2, <1>3
      <4>2. IsRead(big, p + 1, K + 1, Append(f[K].read, <<"PTR", 0>>))
        BY <4>1, StarIsRead DEF big
      <4> QED
        BY <4>2 DEF IsRead
    <3>4. type' = <<>> \/ Head(type')[1] = "PTR"
      <4>1. ASSUME type' # <<>> PROVE Head(type')[1] = "PTR"
        <5>1. Len(type) > 1 /\ Head(type') = type[2] /\ type[2] \in Mods3
          BY <1>1, <1>2, <1>4, <4>1
        <5>2. type[2][1] \notin {"FCN", "ARY"} /\ type[2][1] \in Names3
          BY <1>5, <2>4, <5>1 DEF NeedsGroup
        <5> QED
          BY <5>1, <5>2 DEF Names3
      <4> QED
        BY <4>1
    <3>5. Printed'
      BY <1>1, <1>2, <1>3, <2>1, <3>1, <3>3, <3>4, PrintedOn
    <3> QED
      BY <1>1, <1>6, <3>1, <3>2, <3>5 DEF PrintInv
  <2> QED
    BY <2>3, <2>4
<1> QED
  BY <1>7, <1>8

LEMMA PrintBaseStep ==
  ASSUME ParseInv, PrintInv, PrintBase
  PROVE  ParseInv' /\ PrintInv'
<1>1. pc = "print" /\ pc' = "done" /\ UNCHANGED <<code, dims, i, j, mods, type, name>>
  BY DEF PrintBase
<1>2. Meaning' = Meaning /\ ArraysFrom(0)' = ArraysFrom(0)
  BY <1>1, MeaningIsFixed, FieldsKept
<1>3. ParseInv'
  BY <1>1, <1>2 DEF ParseInv, Given, Decoding, Wrapping, Wrapped6
<1>4. name' \in Texts /\ Printed'
  BY <1>1, <1>2 DEF PrintInv, Printed
<1> QED
  BY <1>1, <1>3, <1>4 DEF PrintInv

LEMMA StutterStep ==
  ASSUME ParseInv, PrintInv, UNCHANGED vars
  PROVE  ParseInv' /\ PrintInv'
<1>1. UNCHANGED <<code, dims, i, j, mods, type, name, pc>>
  BY DEF vars
<1>2. /\ Meaning' = Meaning /\ Fields' = Fields
      /\ \A n : Before(n)' = Before(n) /\ ArraysFrom(n)' = ArraysFrom(n) /\ Modifier(n)' = Modifier(n)
      /\ \A n : Bits(n)' = Bits(n)
  BY <1>1, MeaningIsFixed, FieldsKept
<1>3. \A n : (ModsAre(n)' <=> ModsAre(n)) /\ (Wrapped(n)' <=> Wrapped(n))
  BY <1>1, <1>2 DEF ModsAre, Wrapped, ModNames
<1>4. Wrapping'
  BY <1>1, <1>2, <1>3 DEF Wrapping, ParseInv
<1>5. Decoding' /\ Given' /\ Wrapped6'
  BY <1>1, <1>2, <1>3 DEF Decoding, Given, Wrapped6, ParseInv
<1>6. ParseInv'
  BY <1>1, <1>2, <1>4, <1>5 DEF ParseInv
<1>7. PrintInv'
  BY <1>1, <1>2 DEF PrintInv, Printed
<1> QED
  BY <1>6, <1>7

LEMMA TypeCodeStarts ==
  ASSUME Init
  PROVE  ParseInv /\ PrintInv
<1>1. /\ pc = "mods" /\ i = 0 /\ j = 1 /\ mods = <<>> /\ type = <<>>
      /\ name = << <<"name", 0>> >> /\ code \in Codes /\ dims \in DimLists
  BY DEF Init
<1>2. Given
  BY <1>1, TypeCodeAssumption DEF Given
<1>3. Before(0) = 0 /\ \A n \in Fields : ~ (n < 0)
  BY <1>2, BeforeCounts DEF Given, Fields
<1>4. ModsAre(0)
  BY <1>1, <1>3 DEF ModsAre
<1> QED
  BY <1>1, <1>2, <1>4 DEF ParseInv, PrintInv, Decoding, Wrapping, Wrapped6

LEMMA TypeCodeInvariant ==
  Spec => [](ParseInv /\ PrintInv)
<1>1. ASSUME ParseInv, PrintInv, [Next]_vars
      PROVE  ParseInv' /\ PrintInv'
  <2> USE <1>1
  <2>1. CASE DecodeMod
    <3>1. pc = "mods" /\ pc' = "mods" /\ name' = name
      BY <2>1 DEF DecodeMod
    <3> QED
      BY <2>1, <3>1, DecodeStep DEF PrintInv
  <2>2. CASE EndMods
    <3>1. pc = "mods" /\ pc' = "parse" /\ name' = name
      BY <2>2 DEF EndMods
    <3> QED
      BY <2>2, <3>1, EndModsStep DEF PrintInv
  <2>3. CASE WrapPointer \/ WrapFunc \/ WrapArray
    <3>1. pc = "parse" /\ pc' = "parse" /\ name' = name
      BY <2>3 DEF WrapPointer, WrapFunc, WrapArray, AtMod, Wrap
    <3> QED
      BY <2>3, <3>1, WrapStep DEF PrintInv
  <2>4. CASE NoDim
    <3>1. pc' = "panic"
      BY <2>4 DEF NoDim
    <3> QED
      BY <2>4, <3>1, NoDimStep DEF PrintInv
  <2>5. CASE EndParse
    BY <2>5, EndParseStep, NothingIsPrinted
  <2>6. CASE PrintPointer \/ PrintArray \/ PrintFunc
    BY <2>6, PeelStep
  <2>7. CASE PrintBase
    BY <2>7, PrintBaseStep
  <2>8. CASE UNCHANGED vars
    BY <2>8, StutterStep
  <2> QED
    BY <2>1, <2>2, <2>3, <2>4, <2>5, <2>6, <2>7, <2>8 DEF Next, ModsStep, ParseStep, PrintStep
<1> QED
  BY <1>1, TypeCodeStarts, PTL DEF Spec

(* PanicForWantOfDims, for every type of 16 bits and every list of         *)
(* dimensions: parseMods takes the dimensions of the arrays from the       *)
(* innermost on, and runs out of them exactly if there are more arrays.    *)
THEOREM PanicsAreForDims == Spec => []PanicForWantOfDims
<1>1. ParseInv => PanicForWantOfDims
  BY DEF ParseInv, Wrapped6, PanicForWantOfDims
<1> QED
  BY <1>1, TypeCodeInvariant, PTL

(* DeclarationReadsBack, for every type of 16 bits and every list of       *)
(* dimensions: while Var.String writes the modifiers around the name, C    *)
(* reads from the text those that are written, and in the end what the     *)
(* type of the definition means.                                           *)
THEOREM DeclarationsReadBack == Spec => []DeclarationReadsBack
<1>1. ASSUME PrintInv, pc \in {"print", "done"}
      PROVE  Reading(name) \o type = Meaning
  <2>1. name \in Texts /\ Printed
    BY <1>1 DEF PrintInv
  <2>2. PICK p, f, K : Path(name, p, f, K) /\ f[K].read \o type = Meaning
    BY <2>1 DEF Printed
  <2>3. Reading(name) = f[K].read
    BY <2>1, <2>2, PathIsRead
  <2> QED
    BY <2>2, <2>3
<1>2. PrintInv => DeclarationReadsBack
  BY <1>1 DEF DeclarationReadsBack
<1> QED
  BY <1>2, TypeCodeInvariant, PTL
=============================================================================
