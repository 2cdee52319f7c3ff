------------------------- MODULE HeaderCodec_proofs -------------------------
(***************************************************************************)
(* What holds of HeaderCodec for any parameters, texts and realms.         *)
(***************************************************************************)
EXTENDS HeaderCodec, TLAPS, FiniteSetTheorems, SequenceTheorems, WellFoundedInduction
-----------------------------------------------------------------------------
(* A set of numbers has a least one, hence induction over numbers as a     *)
(* fact about sets: the least number outside would follow one inside.      *)
LEMMA LeastNumber ==
    ASSUME NEW T \in SUBSET Nat, T # {}
    PROVE  \E n \in T : \A m \in T : n <= m
<1>1. PICK n \in T : \A m \in T : <<m, n>> \notin OpToRel(<, Nat)
  <2>1. IsWellFoundedOn(OpToRel(<, Nat), Nat)
    BY NatLessThanWellFounded
  <2>2. T \subseteq Nat
    OBVIOUS
  <2> QED BY <2>1, <2>2, WFMin
<1>2. \A m \in Nat : m \in T => ~(m < n)
  BY <1>1 DEF OpToRel
<1> QED BY <1>2

LEMMA Induction ==
    ASSUME NEW T \in SUBSET Nat, 0 \in T, \A n \in T : n + 1 \in T
    PROVE  T = Nat
<1> SUFFICES ASSUME Nat \ T # {} PROVE FALSE
  OBVIOUS
<1>1. PICK n \in Nat \ T : \A m \in Nat \ T : n <= m
  <2>1. Nat \ T \in SUBSET Nat
    OBVIOUS
  <2> QED BY <2>1, LeastNumber
<1>2. n # 0 /\ n - 1 \in Nat /\ ~(n <= n - 1)
  OBVIOUS
<1>3. n - 1 \in T
  BY <1>1, <1>2
<1>4. (n - 1) + 1 \in T
  BY <1>3
<1> QED BY <1>4
-----------------------------------------------------------------------------
(* FlattenSeq: each part has its place in the whole.                       *)

(* The function by which FlattenSeq is defined.                            *)
Flattens(f, parts, n) ==
    f = [i \in 1 .. n |-> IF i = 1 THEN parts[i] ELSE f[i-1] \o parts[i]]

LEMMA FlattenDefined ==
    ASSUME NEW N \in Nat, NEW parts
    PROVE  \E f : Flattens(f, parts, N)
<1> DEFINE T == {n \in Nat : \E f : Flattens(f, parts, n)}
<1>1. \E f : Flattens(f, parts, 0)
  <2>1. PICK f : f = [i \in 1 .. 0 |-> 0]
    OBVIOUS
  <2>2. Flattens(f, parts, 0)
    BY <2>1 DEF Flattens
  <2> QED BY <2>2
<1>2. ASSUME NEW n \in Nat, \E f : Flattens(f, parts, n)
      PROVE  \E f : Flattens(f, parts, n + 1)
  <2>1. PICK f : Flattens(f, parts, n)
    BY <1>2
  <2>2. PICK next : next = IF n = 0 THEN parts[1] ELSE f[n] \o parts[n + 1]
    OBVIOUS
  <2>3. PICK g : g = [i \in 1 .. n + 1 |-> IF i = n + 1 THEN next ELSE f[i]]
    OBVIOUS
  <2>4. ASSUME NEW i \in 1 .. n + 1
        PROVE  g[i] = IF i = 1 THEN parts[i] ELSE g[i-1] \o parts[i]
    <3>1. CASE i = n + 1
      <4>1. g[i] = next /\ (n # 0 => g[i-1] = f[n])
        BY <2>3, <3>1
      <4> QED BY <2>2, <3>1, <4>1
    <3>2. CASE i # n + 1
      <4>1. i \in 1 .. n /\ g[i] = f[i] /\ (i # 1 => g[i-1] = f[i-1])
        BY <2>3, <3>2
      <4>2. f[i] = IF i = 1 THEN parts[i] ELSE f[i-1] \o parts[i]
        BY <2>1, <4>1 DEF Flattens
      <4> QED BY <4>1, <4>2
    <3> QED BY <3>1, <3>2
  <2>5. g = [i \in 1 .. n + 1 |-> IF i = 1 THEN parts[i] ELSE g[i-1] \o parts[i]]
    BY <2>3, <2>4
  <2> QED BY <2>5 DEF Flattens
<1>3. T \in SUBSET Nat /\ 0 \in T /\ \A n \in T : n + 1 \in T
  BY <1>1, <1>2
<1>4. T = Nat
  BY <1>3, Induction
<1> QED BY <1>4

LEMMA FlattenIs ==
    ASSUME NEW parts, Len(parts) \in Nat
    PROVE  \E f : /\ Flattens(f, parts, Len(parts))
                  /\ FlattenSeq(parts) = IF Len(parts) = 0 THEN parts ELSE f[Len(parts)]
<1>1. \E f : f = [i \in 1 .. Len(parts) |-> IF i = 1 THEN parts[i] ELSE f[i-1] \o parts[i]]
  BY FlattenDefined DEF Flattens
<1>2. PICK f : f = CHOOSE g :
                     g = [i \in 1 .. Len(parts) |-> IF i = 1 THEN parts[i] ELSE g[i-1] \o parts[i]]
  OBVIOUS
<1>3. f = [i \in 1 .. Len(parts) |-> IF i = 1 THEN parts[i] ELSE f[i-1] \o parts[i]]
  BY <1>1, <1>2
<1>4. FlattenSeq(parts) = IF Len(parts) = 0 THEN parts ELSE f[Len(parts)]
  BY <1>2 DEF FlattenSeq
<1> QED BY <1>3, <1>4 DEF Flattens

(* Part i begins behind ends[i-1] and ends at ends[i].                     *)
Placed(parts, whole, ends) ==
    /\ ends \in [0 .. Len(parts) -> Nat]
    /\ ends[0] = 0 /\ ends[Len(parts)] = Len(whole)
    /\ \A i \in 1 .. Len(parts) :
         /\ ends[i] = ends[i-1] + Len(parts[i]) /\ ends[i] <= Len(whole)
         /\ \A p \in 1 .. Len(parts[i]) : whole[ends[i-1] + p] = parts[i][p]

LEMMA FlattenPlaces ==
    ASSUME NEW S, NEW parts \in Seq(Seq(S))
    PROVE  /\ FlattenSeq(parts) \in Seq(S)
           /\ \E ends : Placed(parts, FlattenSeq(parts), ends)
<1>1. PICK N \in Nat : N = Len(parts)
  BY LenProperties
<1>2. \A i \in 1 .. N : parts[i] \in Seq(S) /\ Len(parts[i]) \in Nat
  BY <1>1, ElementOfSeq, LenProperties
<1>3. PICK f : /\ Flattens(f, parts, N)
               /\ FlattenSeq(parts) = IF N = 0 THEN parts ELSE f[N]
  BY <1>1, FlattenIs
<1>4. \A i \in 1 .. N : f[i] = IF i = 1 THEN parts[i] ELSE f[i-1] \o parts[i]
  BY <1>3 DEF Flattens
<1>5. CASE N = 0
  <2>1. parts = <<>> /\ FlattenSeq(parts) = <<>>
    BY <1>1, <1>3, <1>5, EmptySeq
  <2>2. PICK whole : whole = <<>>
    OBVIOUS
  <2>3. whole \in Seq(S) /\ Len(whole) = 0 /\ FlattenSeq(parts) = whole
    BY <2>1, <2>2, EmptySeq
  <2>4. PICK ends : ends = [i \in 0 .. 0 |-> 0]
    OBVIOUS
  <2>5. Placed(parts, whole, ends)
    BY <1>1, <1>5, <2>3, <2>4 DEF Placed
  <2> QED BY <2>3, <2>5
<1>6. CASE N # 0
  <2> DEFINE Holds(n) ==
        /\ f[n] \in Seq(S)
        /\ \A j \in 1 .. n : /\ f[j] \in Seq(S) /\ Len(f[j]) <= Len(f[n])
                             /\ \A p \in 1 .. Len(f[j]) : f[n][p] = f[j][p]
  <2> DEFINE T == {n \in Nat : n + 1 <= N => Holds(n + 1)}
  <2>1. Holds(1)
    BY <1>2, <1>4, <1>6
  <2>2. ASSUME NEW n \in Nat, n + 2 <= N, Holds(n + 1)
        PROVE  Holds(n + 2)
    <3>1. PICK a, b \in Seq(S) : a = f[n + 1] /\ b = parts[n + 2]
      BY <1>2, <2>2
    <3>2. f[n + 2] = a \o b
      <4>1. PICK m : m = n + 2
        OBVIOUS
      <4>2. m \in 1 .. N /\ m # 1 /\ m - 1 = n + 1
        BY <2>2, <4>1
      <4>3. f[m] = f[m - 1] \o parts[m]
        BY <1>4, <4>2
      <4> QED BY <3>1, <4>1, <4>2, <4>3
    <3>3. PICK c : c = f[n + 2]
      OBVIOUS
    <3>4. /\ c \in Seq(S) /\ Len(c) = Len(a) + Len(b) /\ Len(a) \in Nat /\ Len(b) \in Nat
          /\ \A p \in 1 .. Len(a) : c[p] = a[p]
      <4>1. c \in Seq(S) /\ Len(c) = Len(a) + Len(b)
        BY <3>2, <3>3, ConcatProperties
      <4>2. Len(a) \in Nat /\ Len(b) \in Nat
        BY LenProperties
      <4>3. \A p \in 1 .. Len(a) + Len(b) : c[p] = IF p <= Len(a) THEN a[p] ELSE b[p - Len(a)]
        BY <3>2, <3>3, ConcatProperties
      <4> QED BY <4>1, <4>2, <4>3
    <3>5. ASSUME NEW j \in 1 .. n + 2
          PROVE  /\ f[j] \in Seq(S) /\ Len(f[j]) <= Len(c)
                 /\ \A p \in 1 .. Len(f[j]) : c[p] = f[j][p]
      <4>1. CASE j = n + 2
        BY <3>3, <3>4, <4>1
      <4>2. CASE j # n + 2
        <5>1. j \in 1 .. n + 1
          BY <4>2
        <5>2. /\ f[j] \in Seq(S) /\ Len(f[j]) <= Len(a)
              /\ \A p \in 1 .. Len(f[j]) : a[p] = f[j][p]
          BY <2>2, <3>1, <5>1
        <5>3. Len(f[j]) \in Nat
          BY <5>2, LenProperties
        <5> QED BY <3>4, <5>2, <5>3
      <4> QED BY <4>1, <4>2
    <3> QED BY <3>3, <3>4, <3>5
  <2>3. T \in SUBSET Nat /\ 0 \in T /\ \A n \in T : n + 1 \in T
    <3> HIDE DEF Holds
    <3> QED BY <2>1, <2>2
  <2>4. Holds(N)
    <3>1. T = Nat
      BY <2>3, Induction
    <3>2. N - 1 \in Nat /\ (N - 1) + 1 = N
      BY <1>6
    <3> HIDE DEF Holds
    <3>3. \A n \in Nat : n + 1 <= N => Holds(n + 1)
      BY <3>1
    <3> QED BY <3>2, <3>3
  <2>5. PICK whole : whole = f[N]
    OBVIOUS
  <2>6. FlattenSeq(parts) = whole /\ whole \in Seq(S)
    BY <1>3, <1>6, <2>4, <2>5
  <2>7. PICK ends : ends = [i \in 0 .. N |-> IF i = 0 THEN 0 ELSE Len(f[i])]
    OBVIOUS
  <2>8. ends \in [0 .. N -> Nat]
    <3>1. \A i \in 1 .. N : f[i] \in Seq(S)
      BY <2>4
    <3>2. \A i \in 1 .. N : Len(f[i]) \in Nat
      BY <3>1, LenProperties
    <3> QED BY <2>7, <3>2
  <2>9. ASSUME NEW i \in 1 .. N
        PROVE  /\ ends[i] = ends[i-1] + Len(parts[i]) /\ ends[i] <= Len(whole)
               /\ \A p \in 1 .. Len(parts[i]) : whole[ends[i-1] + p] = parts[i][p]
    <3>1. f[i] \in Seq(S) /\ ends[i] = Len(f[i]) /\ ends[i] <= Len(whole)
      BY <2>4, <2>5, <2>7
    <3>2. \A p \in 1 .. Len(f[i]) : whole[p] = f[i][p]
      BY <2>4, <2>5
    <3>3. CASE i = 1
      <4>1. f[i] = parts[i] /\ ends[i-1] = 0
        BY <1>4, <2>7, <3>3
      <4>2. Len(parts[i]) \in Nat
        BY <1>2
      <4> QED BY <3>1, <3>2, <4>1, <4>2
    <3>4. CASE i # 1
      <4>1. PICK a, b \in Seq(S) : a = f[i-1] /\ b = parts[i]
        BY <1>2, <2>4, <3>4
      <4>2. f[i] = a \o b /\ ends[i-1] = Len(a)
        <5>1. f[i] = f[i-1] \o parts[i]
          BY <1>4, <3>4
        <5>2. i - 1 \in 0 .. N /\ i - 1 # 0
          BY <3>4
        <5>3. ends[i-1] = Len(f[i-1])
          BY <2>7, <5>2
        <5> QED BY <4>1, <5>1, <5>3
      <4>3. Len(a) \in Nat /\ Len(b) \in Nat /\ Len(a \o b) = Len(a) + Len(b)
        BY LenProperties, ConcatProperties
      <4>4. \A p \in 1 .. Len(a) + Len(b) :
              (a \o b)[p] = IF p <= Len(a) THEN a[p] ELSE b[p - Len(a)]
        BY ConcatProperties
      <4>5. ASSUME NEW p \in 1 .. Len(b) PROVE whole[Len(a) + p] = b[p]
        <5>1. Len(a) + p \in 1 .. Len(a) + Len(b) /\ ~(Len(a) + p <= Len(a))
          BY <4>3
        <5>2. (a \o b)[Len(a) + p] = b[p]
          BY <4>3, <4>4, <5>1
        <5> QED BY <3>2, <4>2, <4>3, <5>1, <5>2
      <4> QED BY <3>1, <4>1, <4>2, <4>3, <4>5
    <3> QED BY <3>3, <3>4
  <2>10. ends[0] = 0 /\ ends[N] = Len(whole)
    BY <1>6, <2>5, <2>7
  <2>11. Placed(parts, whole, ends)
    BY <1>1, <2>8, <2>9, <2>10 DEF Placed
  <2> QED BY <2>6, <2>11
<1> QED BY <1>5, <1>6
-----------------------------------------------------------------------------
(* Counting characters from the left.                                      *)
CountTo(text, chars, n) == Cardinality({i \in 1 .. n : text[i] \in chars})

LEMMA CountToStep ==
    ASSUME NEW text, NEW chars, NEW n \in Nat
    PROVE  /\ CountTo(text, chars, n) \in Nat
           /\ CountTo(text, chars, 0) = 0
           /\ CountTo(text, chars, n + 1) =
                CountTo(text, chars, n) + (IF text[n+1] \in chars THEN 1 ELSE 0)
<1>1. PICK P : P = {i \in 1 .. n : text[i] \in chars}
  OBVIOUS
<1>2. PICK Q : Q = {i \in 1 .. n + 1 : text[i] \in chars}
  OBVIOUS
<1>3. IsFiniteSet(P)
  <2>1. IsFiniteSet(1 .. n)
    BY FS_Interval
  <2>2. P \in SUBSET (1 .. n)
    BY <1>1
  <2> QED BY <2>1, <2>2, FS_Subset
<1>4. Cardinality(P) \in Nat
  BY <1>3, FS_CardinalityType
<1>5. CASE text[n+1] \in chars
  <2>1. Q = P \cup {n + 1} /\ n + 1 \notin P
    BY <1>1, <1>2, <1>5
  <2>2. Cardinality(Q) = Cardinality(P) + 1
    BY <1>3, <2>1, FS_AddElement
  <2>3. {i \in 1 .. 0 : text[i] \in chars} = {}
    OBVIOUS
  <2> QED BY <1>1, <1>2, <1>4, <1>5, <2>2, <2>3, FS_EmptySet DEF CountTo
<1>6. CASE text[n+1] \notin chars
  <2>1. Q = P
    BY <1>1, <1>2, <1>6
  <2>2. {i \in 1 .. 0 : text[i] \in chars} = {}
    OBVIOUS
  <2> QED BY <1>1, <1>2, <1>4, <1>6, <2>1, <2>2, FS_EmptySet DEF CountTo
<1> QED BY <1>5, <1>6

LEMMA CountToNext ==
    \A text, chars : \A n \in Nat :
      CountTo(text, chars, n + 1) =
        CountTo(text, chars, n) + (IF text[n+1] \in chars THEN 1 ELSE 0)
BY CountToStep

LEMMA CountIs ==
    ASSUME NEW S, NEW text \in Seq(S), NEW chars
    PROVE  Count(text, chars) = CountTo(text, chars, Len(text)) /\ Count(text, chars) \in Nat
<1>1. DOMAIN text = 1 .. Len(text) /\ Len(text) \in Nat
  BY LenProperties
<1>2. Count(text, chars) = CountTo(text, chars, Len(text))
  BY <1>1 DEF Count, CountTo
<1> QED BY <1>1, <1>2, CountToStep

(* A part counts in the whole what it counts by itself.                    *)
LEMMA CountPart ==
    ASSUME NEW whole, NEW part, NEW chars, NEW from \in Nat, NEW n \in Nat,
           \A p \in 1 .. n : whole[from + p] = part[p]
    PROVE  CountTo(whole, chars, from + n) =
             CountTo(whole, chars, from) + CountTo(part, chars, n)
<1> DEFINE Same(k) == CountTo(whole, chars, from + k) =
                        CountTo(whole, chars, from) + CountTo(part, chars, k)
<1> DEFINE T == {k \in Nat : k <= n => Same(k)}
<1>1. Same(0)
  BY CountToStep
<1>2. ASSUME NEW k \in Nat, k + 1 <= n, Same(k) PROVE Same(k + 1)
  <2>1. PICK to : to = from + k
    OBVIOUS
  <2>2. to \in Nat /\ to + 1 = from + (k + 1)
    BY <2>1
  <2>3. CountTo(whole, chars, to + 1) =
          CountTo(whole, chars, to) + (IF whole[to + 1] \in chars THEN 1 ELSE 0)
    BY <2>2, CountToStep
  <2>4. CountTo(part, chars, k + 1) =
          CountTo(part, chars, k) + (IF part[k + 1] \in chars THEN 1 ELSE 0)
    BY CountToStep
  <2>5. whole[to + 1] = part[k + 1]
    BY <1>2, <2>2
  <2>6. /\ CountTo(whole, chars, from) \in Nat /\ CountTo(part, chars, k) \in Nat
        /\ CountTo(whole, chars, to) = CountTo(whole, chars, from) + CountTo(part, chars, k)
    BY <1>2, <2>1, CountToStep
  <2> QED BY <2>2, <2>3, <2>4, <2>5, <2>6
<1>3. T \in SUBSET Nat /\ 0 \in T /\ \A k \in T : k + 1 \in T
  <2> HIDE DEF Same
  <2> QED BY <1>1, <1>2
<1>4. n \in T
  <2> HIDE DEF T
  <2> QED BY <1>3, Induction
<1> QED BY <1>4

LEMMA NoneCounted ==
    ASSUME NEW text, NEW chars, NEW n \in Nat, \A i \in 1 .. n : text[i] \notin chars
    PROVE  CountTo(text, chars, n) = 0
<1>1. {i \in 1 .. n : text[i] \in chars} = {}
  OBVIOUS
<1> QED BY <1>1, FS_EmptySet DEF CountTo
-----------------------------------------------------------------------------
(* Codes: a reserved character has a code of its own, without another      *)
(* reserved one behind the percent sign.                                   *)
Code(char) ==
    IF \E sp \in Special : sp[1] = char
    THEN LET sp == CHOOSE sp \in Special : sp[1] = char IN <<"%", sp[2], sp[3]>>
    ELSE <<char>>

LEMMA SpecialCodes ==
    \A sp \in Special :
      /\ sp[2] \in Digits /\ sp[3] \in Digits
      /\ sp[1] \notin Digits
      /\ \A other \in Special : sp[1] = other[1] \/ (sp[2] = other[2] /\ sp[3] = other[3])
                                  => sp = other
<1>1. ASSUME NEW sp, NEW a, NEW b, NEW c, sp = <<a, b, c>>
      PROVE  sp[1] = a /\ sp[2] = b /\ sp[3] = c /\ sp = <<sp[1], sp[2], sp[3]>>
  BY <1>1
<1>2. ASSUME NEW sp \in Special
      PROVE  /\ sp = <<sp[1], sp[2], sp[3]>>
             /\ \/ sp[1] = "%" /\ sp[2] = "2" /\ sp[3] = "5"
                \/ sp[1] = "+" /\ sp[2] = "2" /\ sp[3] = "B"
                \/ sp[1] = "\"" /\ sp[2] = "2" /\ sp[3] = "2"
                \/ sp[1] = "," /\ sp[2] = "2" /\ sp[3] = "C"
                \/ sp[1] = "=" /\ sp[2] = "3" /\ sp[3] = "D"
                \/ sp[1] = "&" /\ sp[2] = "2" /\ sp[3] = "6"
                \/ sp[1] = " " /\ sp[2] = "2" /\ sp[3] = "0"
                \/ sp[1] = "\n" /\ sp[2] = "0" /\ sp[3] = "A"
  <2>1. \/ sp = <<"%", "2", "5">> \/ sp = <<"+", "2", "B">> \/ sp = <<"\"", "2", "2">>
        \/ sp = <<",", "2", "C">> \/ sp = <<"=", "3", "D">> \/ sp = <<"&", "2", "6">>
        \/ sp = <<" ", "2", "0">> \/ sp = <<"\n", "0", "A">>
    BY DEF Special, Quote, Newline
  <2> QED BY <1>1, <2>1
<1>3. ASSUME NEW sp \in Special
      PROVE  sp[2] \in Digits /\ sp[3] \in Digits /\ sp[1] \notin Digits
  BY <1>2 DEF Digits
<1>4. ASSUME NEW sp \in Special, NEW other \in Special,
             sp[1] = other[1] \/ (sp[2] = other[2] /\ sp[3] = other[3])
      PROVE  sp = other
  <2>1. sp[1] = other[1] /\ sp[2] = other[2] /\ sp[3] = other[3]
    BY <1>2, <1>4
  <2> QED BY <1>2, <2>1
<1> QED BY <1>3, <1>4

LEMMA CodeShape ==
    ASSUME NEW char
    PROVE  \/ \E sp \in Special : sp[1] = char /\ Code(char) = <<"%", sp[2], sp[3]>>
                                  /\ Byte(sp[2], sp[3]) = char
           \/ /\ \A sp \in Special : sp[1] # char
              /\ Code(char) = <<char>> /\ char # "%" /\ char # "+" /\ char \notin Separators
<1>1. CASE \E sp \in Special : sp[1] = char
  <2>1. PICK sp : sp = CHOOSE other \in Special : other[1] = char
    OBVIOUS
  <2>2. sp \in Special /\ sp[1] = char
    BY <1>1, <2>1
  <2>3. Code(char) = <<"%", sp[2], sp[3]>>
    BY <1>1, <2>1 DEF Code
  <2>4. PICK back : back = CHOOSE other \in Special : other[2] = sp[2] /\ other[3] = sp[3]
    OBVIOUS
  <2>5. back \in Special /\ back[2] = sp[2] /\ back[3] = sp[3]
    BY <2>2, <2>4
  <2>6. back = sp
    BY <2>2, <2>5, SpecialCodes
  <2>7. Byte(sp[2], sp[3]) = back[1]
    BY <2>2, <2>4 DEF Byte
  <2> QED BY <2>2, <2>3, <2>6, <2>7
<1>2. CASE \A sp \in Special : sp[1] # char
  <2>1. Code(char) = <<char>>
    BY <1>2 DEF Code
  <2>2. char # "%" /\ char # "+" /\ char \notin Separators
    BY <1>2 DEF Special, Separators
  <2> QED BY <1>2, <2>1, <2>2
<1> QED BY <1>1, <1>2

LEMMA EscapeIs ==
    ASSUME NEW text
    PROVE  Escape(text) = FlattenSeq([i \in DOMAIN text |-> Code(text[i])])
BY DEF Escape, EscapeAll, Code
-----------------------------------------------------------------------------
(* Escaping leaves no plus and no separator.                               *)
Escaped(S) == (S \cup {"%"} \cup Digits) \ ({"+"} \cup Separators)

LEMMA CodesEscaped ==
    ASSUME NEW S, NEW text \in Seq(S), NEW codes,
           codes = [i \in DOMAIN text |-> Code(text[i])]
    PROVE  /\ codes \in Seq(Seq(Escaped(S))) /\ Len(codes) = Len(text)
           /\ \A i \in 1 .. Len(text) : codes[i] = Code(text[i])
<1>1. PICK n \in Nat : n = Len(text) /\ DOMAIN text = 1 .. n
  BY LenProperties
<1>2. ASSUME NEW char \in S PROVE Code(char) \in Seq(Escaped(S))
  <2>1. CASE \E sp \in Special : Code(char) = <<"%", sp[2], sp[3]>>
    <3>1. PICK sp \in Special : Code(char) = <<"%", sp[2], sp[3]>>
      BY <2>1
    <3>2. PICK h, l \in Digits : h = sp[2] /\ l = sp[3]
      BY SpecialCodes
    <3>3. h \in Escaped(S) /\ l \in Escaped(S) /\ "%" \in Escaped(S)
      BY <3>2 DEF Escaped, Digits, Separators
    <3>4. <<"%", h, l>> \in Seq(Escaped(S))
      BY <3>3
    <3> QED BY <3>1, <3>2, <3>4
  <2>2. CASE Code(char) = <<char>> /\ char # "+" /\ char \notin Separators
    <3>1. char \in Escaped(S)
      BY <2>2 DEF Escaped
    <3> QED BY <2>2, <3>1
  <2> QED BY <2>1, <2>2, CodeShape
<1>3. \A i \in 1 .. n : text[i] \in S
  BY <1>1, ElementOfSeq
<1>4. codes \in [1 .. n -> Seq(Escaped(S))]
  BY <1>1, <1>2, <1>3
<1>5. codes \in Seq(Seq(Escaped(S))) /\ Len(codes) = n
  BY <1>4
<1> QED BY <1>1, <1>5

LEMMA EscapePlaced ==
    ASSUME NEW S, NEW text \in Seq(S)
    PROVE  /\ Escape(text) \in Seq(Escaped(S))
           /\ \E codes, ends :
                /\ Placed(codes, Escape(text), ends) /\ Len(codes) = Len(text)
                /\ \A i \in 1 .. Len(text) : codes[i] = Code(text[i])
<1>1. PICK codes : codes = [i \in DOMAIN text |-> Code(text[i])]
  OBVIOUS
<1>2. /\ codes \in Seq(Seq(Escaped(S))) /\ Len(codes) = Len(text)
      /\ \A i \in 1 .. Len(text) : codes[i] = Code(text[i])
  BY <1>1, CodesEscaped
<1>3. Escape(text) = FlattenSeq(codes)
  BY <1>1, EscapeIs
<1>4. PICK whole : whole = Escape(text) /\ whole = FlattenSeq(codes)
  BY <1>3
<1>5. whole \in Seq(Escaped(S)) /\ \E ends : Placed(codes, whole, ends)
  BY <1>2, <1>4, FlattenPlaces
<1> QED BY <1>2, <1>4, <1>5

(* A text without a plus is the concatenation of its characters.           *)
LEMMA PlusesDecoded ==
    ASSUME NEW S, "+" \notin S, NEW text \in Seq(S)
    PROVE  Unescape(text) = Decode(text)
<1>1. PICK n \in Nat : n = Len(text) /\ DOMAIN text = 1 .. n
  BY LenProperties
<1>2. PICK parts : parts = [i \in DOMAIN text |->
                              IF text[i] = "+" THEN <<"%", "2", "B">> ELSE <<text[i]>>]
  OBVIOUS
<1>3. \A i \in 1 .. n : text[i] \in S
  BY <1>1, ElementOfSeq
<1>4. \A i \in 1 .. n : parts[i] = <<text[i]>>
  BY <1>1, <1>2, <1>3
<1>5. parts \in Seq(Seq(S)) /\ Len(parts) = n
  <2>1. \A x \in S : <<x>> \in Seq(S)
    OBVIOUS
  <2>2. parts \in [1 .. n -> Seq(S)]
    BY <1>1, <1>2, <1>3, <1>4, <2>1
  <2> QED BY <2>2
<1>6. PICK whole : whole = FlattenSeq(parts)
  OBVIOUS
<1>7. whole \in Seq(S)
  BY <1>5, <1>6, FlattenPlaces
<1>8. PICK ends : Placed(parts, whole, ends)
  BY <1>5, <1>6, FlattenPlaces
<1>9. ASSUME NEW i \in 1 .. n
      PROVE  ends[i] = ends[i-1] + 1 /\ whole[ends[i-1] + 1] = text[i]
  <2>1. PICK part, char : part = parts[i] /\ char = text[i]
    OBVIOUS
  <2>2. part = <<char>>
    BY <1>4, <2>1
  <2>3. Len(part) = 1 /\ part[1] = char
    BY <2>2
  <2>4. /\ ends[i] = ends[i-1] + Len(part)
        /\ \A p \in 1 .. Len(part) : whole[ends[i-1] + p] = part[p]
    BY <1>5, <1>8, <2>1 DEF Placed
  <2> QED BY <2>1, <2>3, <2>4
<1>10. \A i \in Nat : i <= n => ends[i] = i
  <2> DEFINE T == {i \in Nat : i <= n => ends[i] = i}
  <2>1. 0 \in T
    BY <1>5, <1>8 DEF Placed
  <2>2. ASSUME NEW i \in T PROVE i + 1 \in T
    <3>1. CASE i + 1 <= n
      <4>1. i + 1 \in 1 .. n /\ (i + 1) - 1 = i
        BY <3>1
      <4>2. ends[i+1] = ends[i] + 1
        BY <1>9, <4>1
      <4> QED BY <3>1, <4>2
    <3> QED BY <3>1
  <2>3. T = Nat
    BY <2>1, <2>2, Induction
  <2> QED BY <2>3
<1>11. Len(whole) = n
  BY <1>5, <1>8, <1>10 DEF Placed
<1>12. ASSUME NEW i \in 1 .. n PROVE whole[i] = text[i]
  <2>1. i - 1 \in Nat /\ i - 1 <= n /\ (i - 1) + 1 = i
    OBVIOUS
  <2>2. ends[i-1] = i - 1
    BY <1>10, <2>1
  <2> QED BY <1>9, <2>1, <2>2
<1>13. whole = text
  BY <1>1, <1>7, <1>11, <1>12, SeqEqual
<1>14. Unescape(text) = Decode(whole)
  BY <1>2, <1>6 DEF Unescape
<1> QED BY <1>13, <1>14
-----------------------------------------------------------------------------
(* Decode: what is decoded from place i on, given the places behind it.    *)
IsCode(text, i) ==
    /\ text[i] = "%" /\ i + 2 <= Len(text)
    /\ text[i+1] \in Digits /\ text[i+2] \in Digits

DecodedFrom(f, text, i) ==
    IF i > Len(text) THEN <<>>
    ELSE IF IsCode(text, i) THEN <<Byte(text[i+1], text[i+2])>> \o f[i+3]
    ELSE <<text[i]>> \o f[i+1]

LEMMA DecodeDefined ==
    ASSUME NEW text, Len(text) \in Nat
    PROVE  \E f : f = [i \in 1 .. Len(text) + 1 |-> DecodedFrom(f, text, i)]
<1>1. PICK n \in Nat : n = Len(text)
  OBVIOUS
<1> DEFINE Defined(k) == \E f : f = [i \in (n + 1) - k .. n + 1 |-> DecodedFrom(f, text, i)]
<1> DEFINE T == {k \in Nat : k <= n => Defined(k)}
<1>2. Defined(0)
  <2>1. PICK f : f = [i \in n + 1 .. n + 1 |-> <<>>]
    OBVIOUS
  <2>2. \A i \in n + 1 .. n + 1 : DecodedFrom(f, text, i) = <<>>
    BY <1>1 DEF DecodedFrom
  <2>3. (n + 1) - 0 .. n + 1 = n + 1 .. n + 1
    OBVIOUS
  <2>4. f = [i \in (n + 1) - 0 .. n + 1 |-> DecodedFrom(f, text, i)]
    BY <2>1, <2>2, <2>3
  <2> QED BY <2>4
<1>3. ASSUME NEW k \in Nat, k + 1 <= n, Defined(k) PROVE Defined(k + 1)
  <2>1. PICK f : f = [i \in (n + 1) - k .. n + 1 |-> DecodedFrom(f, text, i)]
    BY <1>3
  <2>2. PICK m : m = n - k
    OBVIOUS
  <2>3. m \in 1 .. n /\ m = (n + 1) - (k + 1) /\ m + 1 = (n + 1) - k
    BY <1>3, <2>2
  <2>4. PICK first : first = DecodedFrom(f, text, m)
    OBVIOUS
  <2>5. PICK g : g = [i \in m .. n + 1 |-> IF i = m THEN first ELSE f[i]]
    OBVIOUS
  <2>6. \A i \in m + 1 .. n + 1 : g[i] = f[i]
    BY <2>3, <2>5
  <2>7. ASSUME NEW i \in m .. n + 1 PROVE DecodedFrom(g, text, i) = DecodedFrom(f, text, i)
    <3>1. i <= n => g[i+1] = f[i+1]
      BY <2>3, <2>6
    <3>2. i + 2 <= n => g[i+3] = f[i+3]
      BY <2>3, <2>6
    <3> QED BY <1>1, <2>3, <3>1, <3>2 DEF DecodedFrom, IsCode
  <2>8. ASSUME NEW i \in m .. n + 1 PROVE g[i] = DecodedFrom(g, text, i)
    <3>1. CASE i = m
      BY <2>3, <2>4, <2>5, <2>7, <3>1
    <3>2. CASE i # m
      <4>1. i \in m + 1 .. n + 1
        BY <2>3, <3>2
      <4>2. f[i] = DecodedFrom(f, text, i)
        BY <2>1, <2>3, <4>1
      <4> QED BY <2>6, <2>7, <4>1, <4>2
    <3> QED BY <3>1, <3>2
  <2>9. g = [i \in m .. n + 1 |-> DecodedFrom(g, text, i)]
    BY <2>5, <2>8
  <2> QED BY <2>3, <2>9
<1>4. T = Nat
  <2>1. T \in SUBSET Nat /\ 0 \in T /\ \A k \in T : k + 1 \in T
    <3> HIDE DEF Defined
    <3> QED BY <1>2, <1>3
  <2> QED BY <2>1, Induction
<1>5. Defined(n)
  <2> HIDE DEF Defined
  <2> QED BY <1>4
<1>6. (n + 1) - n .. n + 1 = 1 .. n + 1
  OBVIOUS
<1> QED BY <1>1, <1>5, <1>6

LEMMA DecodeIs ==
    ASSUME NEW text, Len(text) \in Nat
    PROVE  \E f : /\ \A i \in 1 .. Len(text) + 1 : f[i] = DecodedFrom(f, text, i)
                  /\ Decode(text) = f[1]
<1>1. PICK f : f = CHOOSE g : g = [i \in 1 .. Len(text) + 1 |-> DecodedFrom(g, text, i)]
  OBVIOUS
<1>2. f = [i \in 1 .. Len(text) + 1 |-> DecodedFrom(f, text, i)]
  BY <1>1, DecodeDefined
<1>3. Decode(text) = f[1]
  BY <1>1 DEF Decode, DecodedFrom, IsCode
<1> QED BY <1>2, <1>3

(* What is left of a text.                                                 *)
Suffix(text, j) == [p \in 1 .. Len(text) - j |-> text[j + p]]

LEMMA SuffixIs ==
    ASSUME NEW S, NEW text \in Seq(S)
    PROVE  /\ Suffix(text, 0) = text /\ Suffix(text, Len(text)) = <<>>
           /\ \A j \in 1 .. Len(text) : Suffix(text, j - 1) = <<text[j]>> \o Suffix(text, j)
<1>1. PICK n \in Nat : n = Len(text)
  BY LenProperties
<1>2. \A j \in 0 .. n : Suffix(text, j) \in Seq(S) /\ Len(Suffix(text, j)) = n - j
  <2> TAKE j \in 0 .. n
  <2>1. \A p \in 1 .. n - j : text[j + p] \in S
    BY <1>1, ElementOfSeq
  <2>2. Suffix(text, j) \in [1 .. n - j -> S] /\ n - j \in Nat
    BY <1>1, <2>1 DEF Suffix
  <2> QED BY <2>2
<1>3. Suffix(text, 0) = text
  <2>1. \A p \in 1 .. n : Suffix(text, 0)[p] = text[p]
    BY <1>1 DEF Suffix
  <2>2. Suffix(text, 0) \in Seq(S) /\ Len(Suffix(text, 0)) = n
    BY <1>2
  <2> QED BY <1>1, <2>1, <2>2, SeqEqual
<1>4. Suffix(text, n) = <<>>
  <2>1. Suffix(text, n) \in Seq(S) /\ Len(Suffix(text, n)) = 0
    BY <1>2
  <2> QED BY <2>1, EmptySeq
<1>5. ASSUME NEW j \in 1 .. n
      PROVE  Suffix(text, j - 1) = <<text[j]>> \o Suffix(text, j)
  <2>1. PICK rest, char, one : rest = Suffix(text, j) /\ char = text[j] /\ one = <<char>>
    OBVIOUS
  <2>2. char \in S
    BY <1>1, <2>1, ElementOfSeq
  <2>3. one \in Seq(S) /\ Len(one) = 1 /\ one[1] = char
    BY <2>1, <2>2
  <2>0. j \in 0 .. n /\ j - 1 \in 0 .. n
    BY <1>1
  <2>4. rest \in Seq(S) /\ Len(rest) = n - j
    BY <1>2, <2>0, <2>1
  <2>5. PICK all : all = one \o rest
    OBVIOUS
  <2>6. /\ all \in Seq(S) /\ Len(all) = Len(one) + Len(rest)
        /\ \A p \in 1 .. Len(one) + Len(rest) : all[p] = IF p <= Len(one) THEN one[p] ELSE rest[p - Len(one)]
    BY <2>3, <2>4, <2>5, ConcatProperties
  <2>7. PICK longer : longer = Suffix(text, j - 1)
    OBVIOUS
  <2>8. longer \in Seq(S) /\ Len(longer) = n - (j - 1)
    BY <1>2, <2>0, <2>7
  <2>9. ASSUME NEW p \in 1 .. n - (j - 1) PROVE longer[p] = all[p]
    <3>1. longer[p] = text[(j - 1) + p]
      BY <1>1, <2>7 DEF Suffix
    <3>2. CASE p = 1
      BY <2>1, <2>3, <2>4, <2>6, <3>1, <3>2
    <3>3. CASE p # 1
      <4>1. PICK q : q = p - 1
        OBVIOUS
      <4>2. q \in 1 .. n - j /\ j + q = (j - 1) + p
        BY <3>3, <4>1
      <4>3. rest[q] = text[j + q]
        BY <1>1, <2>1, <4>2 DEF Suffix
      <4>4. all[p] = rest[q]
        BY <2>3, <2>4, <2>6, <3>3, <4>1
      <4> QED BY <3>1, <4>2, <4>3, <4>4
    <3> QED BY <3>2, <3>3
  <2>10. longer = all
    <3>1. Len(all) = n - (j - 1)
      BY <2>3, <2>4, <2>6
    <3> QED BY <2>6, <2>8, <2>9, <3>1, SeqEqual
  <2> QED BY <2>1, <2>5, <2>7, <2>10
<1> QED BY <1>1, <1>3, <1>4, <1>5

(* A code, or a character that needs none.                                 *)
Coded(part, char) ==
    \/ \E sp \in Special : sp[1] = char /\ part = <<"%", sp[2], sp[3]>>
    \/ char # "%" /\ part = <<char>>

LEMMA ByteOfCode == ASSUME NEW sp \in Special PROVE Byte(sp[2], sp[3]) = sp[1]
<1>1. PICK back : back = CHOOSE other \in Special : other[2] = sp[2] /\ other[3] = sp[3]
  OBVIOUS
<1>2. back \in Special /\ back[2] = sp[2] /\ back[3] = sp[3]
  BY <1>1
<1>3. back = sp
  BY <1>2, SpecialCodes
<1> QED BY <1>1, <1>3 DEF Byte

(* Decoding finds each character where its code is.                        *)
LEMMA DecodeCodes ==
    ASSUME NEW C, NEW whole \in Seq(C), NEW S, NEW text \in Seq(S), NEW parts, NEW ends,
           Placed(parts, whole, ends), Len(parts) = Len(text),
           \A i \in 1 .. Len(text) : Coded(parts[i], text[i])
    PROVE  Decode(whole) = text
<1>1. PICK n, N \in Nat : n = Len(whole) /\ N = Len(text)
  BY LenProperties
<1>2. PICK f : /\ \A i \in 1 .. n + 1 : f[i] = DecodedFrom(f, whole, i)
               /\ Decode(whole) = f[1]
  BY <1>1, DecodeIs
<1>3. ends[0] = 0 /\ ends[N] = n /\ \A j \in 0 .. N : ends[j] \in Nat
  BY <1>1 DEF Placed
<1> DEFINE Follows(j) == f[ends[j] + 1] = Suffix(text, j)
<1>4. Follows(N)
  <2>1. f[n + 1] = <<>>
    <3>1. PICK m : m = n + 1
      OBVIOUS
    <3>2. m \in 1 .. n + 1 /\ m > Len(whole)
      BY <1>1, <3>1
    <3>3. f[m] = DecodedFrom(f, whole, m)
      BY <1>2, <3>2
    <3> QED BY <3>1, <3>2, <3>3 DEF DecodedFrom
  <2> QED BY <1>1, <1>3, <2>1, SuffixIs
<1>5. ASSUME NEW j \in 1 .. N, Follows(j) PROVE Follows(j - 1)
  <2>1. PICK part, char, i : part = parts[j] /\ char = text[j] /\ i = ends[j-1] + 1
    OBVIOUS
  <2>2. /\ ends[j] = ends[j-1] + Len(part) /\ ends[j] <= n
        /\ \A p \in 1 .. Len(part) : whole[ends[j-1] + p] = part[p]
        /\ ends[j] \in Nat /\ ends[j-1] \in Nat
    BY <1>1, <1>3, <2>1 DEF Placed
  <2>3. f[i] = <<char>> \o f[ends[j] + 1]
    <3>1. ASSUME NEW sp \in Special, sp[1] = char, part = <<"%", sp[2], sp[3]>>
          PROVE  f[i] = <<char>> \o f[ends[j] + 1]
      <4>1. PICK h, l \in Digits : h = sp[2] /\ l = sp[3]
        BY SpecialCodes
      <4>2. part = <<"%", h, l>>
        BY <3>1, <4>1
      <4>3. Len(part) = 3 /\ part[1] = "%" /\ part[2] = h /\ part[3] = l
        BY <4>2
      <4>4. ends[j] + 1 = i + 3 /\ i \in 1 .. n + 1 /\ i + 2 <= n /\ ~(i > n)
        <5>1. PICK a, b \in Nat : a = ends[j-1] /\ b = ends[j]
          BY <2>2
        <5>2. b = a + 3 /\ b <= n /\ i = a + 1
          BY <2>1, <2>2, <4>3, <5>1
        <5> HIDE DEF Follows
        <5>3. b + 1 = i + 3 /\ i \in 1 .. n + 1 /\ i + 2 <= n /\ ~(i > n)
          BY <5>2
        <5> QED BY <5>1, <5>3
      <4>5. whole[i] = "%" /\ whole[i+1] = h /\ whole[i+2] = l
        <5>1. whole[ends[j-1] + 1] = part[1]
          BY <2>2, <4>3
        <5>2. whole[ends[j-1] + 2] = part[2] /\ ends[j-1] + 2 = i + 1
          BY <2>1, <2>2, <4>3
        <5>3. whole[ends[j-1] + 3] = part[3] /\ ends[j-1] + 3 = i + 2
          BY <2>1, <2>2, <4>3
        <5> QED BY <2>1, <4>3, <5>1, <5>2, <5>3
      <4>6. IsCode(whole, i)
        BY <1>1, <4>4, <4>5 DEF IsCode
      <4>7. f[i] = <<Byte(h, l)>> \o f[i+3]
        BY <1>1, <1>2, <4>4, <4>5, <4>6 DEF DecodedFrom
      <4>8. Byte(h, l) = char
        BY <3>1, <4>1, ByteOfCode
      <4> QED BY <4>4, <4>7, <4>8
    <3>2. ASSUME char # "%", part = <<char>>
          PROVE  f[i] = <<char>> \o f[ends[j] + 1]
      <4>1. Len(part) = 1 /\ part[1] = char
        BY <3>2
      <4>2. ends[j] + 1 = i + 1 /\ i \in 1 .. n + 1 /\ ~(i > n)
        BY <2>1, <2>2, <4>1
      <4>3. whole[i] = char
        BY <2>1, <2>2, <4>1
      <4>4. ~IsCode(whole, i)
        BY <3>2, <4>3 DEF IsCode
      <4> QED BY <1>1, <1>2, <4>2, <4>3, <4>4 DEF DecodedFrom
    <3>3. Coded(part, char)
      BY <1>1, <2>1
    <3> QED BY <3>1, <3>2, <3>3 DEF Coded
  <2>4. Suffix(text, j - 1) = <<char>> \o Suffix(text, j)
    BY <1>1, <2>1, SuffixIs
  <2> QED BY <1>5, <2>1, <2>3, <2>4
<1>6. Follows(0)
  <2> DEFINE T == {k \in Nat : k <= N => Follows(N - k)}
  <2> HIDE DEF Follows
  <2>1. 0 \in T
    BY <1>4
  <2>2. ASSUME NEW k \in Nat, k + 1 <= N, Follows(N - k) PROVE Follows(N - (k + 1))
    <3>1. N - k \in 1 .. N /\ (N - k) - 1 = N - (k + 1)
      BY <2>2
    <3>2. Follows((N - k) - 1)
      BY <1>5, <2>2, <3>1
    <3> QED BY <3>1, <3>2
  <2>3. \A k \in T : k + 1 \in T
    BY <2>2
  <2>4. T = Nat
    BY <2>1, <2>3, Induction
  <2>5. N \in Nat /\ N <= N /\ N - N = 0
    BY <1>1
  <2>6. \A k \in Nat : k <= N => Follows(N - k)
    BY <2>4
  <2>7. Follows(N - N)
    BY <2>5, <2>6
  <2> QED BY <2>5, <2>7
<1>7. f[1] = Suffix(text, 0)
  BY <1>3, <1>6
<1> QED BY <1>2, <1>7, SuffixIs

-----------------------------------------------------------------------------
(* Escaping loses nothing: for any text, Unescape undoes Escape.           *)
LEMMA UnescapeEscape ==
    ASSUME NEW S, NEW text \in Seq(S)
    PROVE  Unescape(Escape(text)) = text
<1>1. PICK whole : whole = Escape(text)
  OBVIOUS
<1>2. whole \in Seq(Escaped(S))
  BY <1>1, EscapePlaced
<1>3. PICK codes, ends :
        /\ Placed(codes, whole, ends) /\ Len(codes) = Len(text)
        /\ \A i \in 1 .. Len(text) : codes[i] = Code(text[i])
  BY <1>1, EscapePlaced
<1>4. ASSUME NEW char PROVE Coded(Code(char), char)
  BY CodeShape DEF Coded
<1>5. \A i \in 1 .. Len(text) : Coded(codes[i], text[i])
  BY <1>3, <1>4
<1>6. "+" \notin Escaped(S)
  BY DEF Escaped
<1>7. Unescape(whole) = Decode(whole)
  BY <1>2, <1>6, PlusesDecoded
<1>8. Decode(whole) = text
  BY <1>2, <1>3, <1>5, DecodeCodes
<1> QED BY <1>1, <1>7, <1>8
-----------------------------------------------------------------------------
(* What is sent does not change, and the header is what was written.       *)
Sends ==
    /\ sent \in [Range(Key) -> Text] /\ realm \in Realm
    /\ stage \in {"new", "written", "read", "raised"}
    /\ stage # "new" => header = Written
    /\ stage = "raised" => Malformed(header)
    /\ stage = "read" => ~Malformed(header) /\ parsed = ParseHeader(header)

(* Reading and writing a header changes nothing of what it is made from.   *)
THEOREM SendsInvariance == Spec => []Sends
<1>1. Init => Sends
  BY DEF Init, Sends
<1>2. Sends /\ [Next]_vars => Sends'
  <2> SUFFICES ASSUME Sends, [Next]_vars PROVE Sends'
    OBVIOUS
  <2>1. CASE Write
    <3>1. header' = Written /\ stage' = "written" /\ sent' = sent /\ realm' = realm
      BY <2>1 DEF Write
    <3>2. Written' = Written
      BY <3>1 DEF Written, Assignments
    <3> QED BY <3>1, <3>2 DEF Sends
  <2>2. CASE Parse
    <3>1. /\ stage = "written" /\ ~Malformed(header) /\ stage' = "read"
          /\ parsed' = ParseHeader(header) /\ header' = header /\ sent' = sent /\ realm' = realm
      BY <2>2 DEF Parse
    <3>2. Written' = Written
      BY <3>1 DEF Written, Assignments
    <3> QED BY <3>1, <3>2 DEF Sends
  <2>3. CASE ParseRaises
    <3>1. /\ stage = "written" /\ Malformed(header) /\ stage' = "raised"
          /\ header' = header /\ sent' = sent /\ realm' = realm
      BY <2>3 DEF ParseRaises
    <3>2. Written' = Written
      BY <3>1 DEF Written, Assignments
    <3> QED BY <3>1, <3>2 DEF Sends
  <2>4. CASE UNCHANGED vars
    <3>1. header' = header /\ stage' = stage /\ sent' = sent /\ realm' = realm /\ parsed' = parsed
      BY <2>4 DEF vars
    <3>2. Written' = Written
      BY <3>1 DEF Written, Assignments
    <3> QED BY <3>1, <3>2 DEF Sends
  <2> QED BY <2>1, <2>2, <2>3, <2>4 DEF Next
<1> QED BY <1>1, <1>2, PTL DEF Spec

(* For any parameters and values, helper.rb's unescape gives back exactly  *)
(* what its escape was given.                                              *)
THEOREM EscapeUndone == Spec => []EscapeIsUndone
<1>1. Sends => EscapeIsUndone
  <2> SUFFICES ASSUME Sends, NEW k \in Range(Key)
               PROVE  Unescape(Escape(sent[k])) = sent[k]
    BY DEF EscapeIsUndone
  <2>1. sent[k] \in Text
    BY DEF Sends
  <2>2. sent[k] \in Seq(Range(sent[k]))
    BY <2>1, TextsFit
  <2> QED BY <2>2, UnescapeEscape
<1> QED BY <1>1, SendsInvariance, PTL
-----------------------------------------------------------------------------
(* The text of the header: where each assignment stands in it.             *)
Texts == UNION {Range(text) : text \in Text \cup Realm}
Chars == Texts \cup Escaped(Texts) \cup Range(Key) \cup {"realm", "=", Quote, ",", " "}

LEMMA SeqWidens == ASSUME NEW S, NEW T, S \subseteq T, NEW s \in Seq(S) PROVE s \in Seq(T)
<1>1. PICK n \in Nat : n = Len(s) /\ s \in [1 .. n -> S]
  BY LenProperties
<1>2. s \in [1 .. n -> T]
  BY <1>1
<1> QED BY <1>2

LEMMA TextsAreTexts ==
    ASSUME NEW text \in Text \cup Realm
    PROVE  /\ text \in Seq(Texts) /\ text \in Seq(Chars)
           /\ Escape(text) \in Seq(Escaped(Texts)) /\ Escape(text) \in Seq(Chars)
<1>1. text \in Seq(Range(text)) /\ Range(text) \subseteq Texts
  BY TextsFit DEF Texts
<1>2. text \in Seq(Texts)
  BY <1>1, SeqWidens
<1>3. Escape(text) \in Seq(Escaped(Texts))
  BY <1>2, EscapePlaced
<1>4. Texts \subseteq Chars /\ Escaped(Texts) \subseteq Chars
  BY DEF Chars
<1> QED BY <1>2, <1>3, <1>4, SeqWidens

LEMMA KeysFit ==
    /\ Len(Key) \in Nat \ {0} /\ DOMAIN Key = 1 .. Len(Key)
    /\ \A i \in 1 .. Len(Key) : Key[i] \in Range(Key)
    /\ \A k \in Range(Key) : \E i \in 1 .. Len(Key) : k = Key[i]
    /\ \A i, j \in 1 .. Len(Key) : Key[i] = Key[j] => i = j
<1>1. Key \in Seq(Range(Key)) /\ Key # <<>> /\ IsInjective(Key)
  BY TextsFit
<1>2. Len(Key) \in Nat /\ DOMAIN Key = 1 .. Len(Key)
  BY <1>1, LenProperties
<1>3. Len(Key) # 0
  BY <1>1, EmptySeq
<1> QED BY <1>1, <1>2, <1>3 DEF Range, IsInjective

LEMMA NamesFit ==
    \A k \in Range(Key) \cup {"realm"} :
      /\ k \in Chars /\ k \notin Separators
      /\ k \notin {" ", Newline, "%", "+", Quote}
BY TextsFit DEF Chars, Separators, Special, Quote, Newline

(* The assignment with the given key and text.                             *)
Assigns(assigned, key, text) ==
    /\ assigned \in Seq(Chars) /\ Len(assigned) = Len(text) + 4
    /\ assigned[1] = key /\ assigned[2] = "=" /\ assigned[3] = Quote
    /\ \A p \in 1 .. Len(text) : assigned[3 + p] = text[p]
    /\ assigned[Len(text) + 4] = Quote

LEMMA AssignIs ==
    ASSUME NEW key \in Chars, NEW text \in Seq(Chars)
    PROVE  Assigns(Assign(key, text), key, text)
<1>0. PICK assigned : assigned = Assign(key, text)
  OBVIOUS
<1>1. PICK n \in Nat : n = Len(text)
  BY LenProperties
<1>2. PICK head : head = <<key, "=", Quote>>
  OBVIOUS
<1>3. PICK tail : tail = <<Quote>>
  OBVIOUS
<1>4. "=" \in Chars /\ Quote \in Chars
  BY DEF Chars
<1>5. /\ head \in Seq(Chars) /\ Len(head) = 3
      /\ head[1] = key /\ head[2] = "=" /\ head[3] = Quote
  BY <1>2, <1>4
<1>6. tail \in Seq(Chars) /\ Len(tail) = 1 /\ tail[1] = Quote
  BY <1>3, <1>4
<1>7. PICK front : front = head \o text
  OBVIOUS
<1>8. /\ front \in Seq(Chars) /\ Len(front) = n + 3
      /\ \A p \in 1 .. n + 3 : front[p] = IF p <= 3 THEN head[p] ELSE text[p - 3]
  <2>1. front \in Seq(Chars) /\ Len(front) = Len(head) + Len(text)
    BY <1>5, <1>7, ConcatProperties
  <2>2. \A p \in 1 .. Len(head) + Len(text) :
          front[p] = IF p <= Len(head) THEN head[p] ELSE text[p - Len(head)]
    BY <1>5, <1>7, ConcatProperties
  <2>3. Len(head) + Len(text) = n + 3
    BY <1>1, <1>5
  <2> QED BY <1>5, <2>1, <2>2, <2>3
<1>9. assigned = front \o tail
  BY <1>0, <1>2, <1>3, <1>7 DEF Assign
<1>10. /\ assigned \in Seq(Chars) /\ Len(assigned) = n + 4
       /\ \A p \in 1 .. n + 4 : assigned[p] = IF p <= n + 3 THEN front[p] ELSE tail[p - (n + 3)]
  <2>1. assigned \in Seq(Chars) /\ Len(assigned) = Len(front) + Len(tail)
    BY <1>6, <1>8, <1>9, ConcatProperties
  <2>2. \A p \in 1 .. Len(front) + Len(tail) :
          assigned[p] = IF p <= Len(front) THEN front[p] ELSE tail[p - Len(front)]
    BY <1>6, <1>8, <1>9, ConcatProperties
  <2>3. Len(front) + Len(tail) = n + 4
    BY <1>6, <1>8
  <2> QED BY <1>8, <2>1, <2>2, <2>3
<1>11. assigned[1] = key /\ assigned[2] = "=" /\ assigned[3] = Quote
  <2>1. \A p \in {1, 2, 3} : p \in 1 .. n + 4 /\ p \in 1 .. n + 3 /\ p <= n + 3 /\ p <= 3
    OBVIOUS
  <2>2. \A p \in {1, 2, 3} : assigned[p] = head[p]
    BY <1>8, <1>10, <2>1
  <2> QED BY <1>5, <2>2
<1>12. ASSUME NEW p \in 1 .. n PROVE assigned[3 + p] = text[p]
  <2>1. 3 + p \in 1 .. n + 4 /\ 3 + p \in 1 .. n + 3 /\ 3 + p <= n + 3 /\ ~(3 + p <= 3)
        /\ (3 + p) - 3 = p
    OBVIOUS
  <2> QED BY <1>8, <1>10, <2>1
<1>13. assigned[n + 4] = Quote
  <2>1. n + 4 \in 1 .. n + 4 /\ ~(n + 4 <= n + 3) /\ (n + 4) - (n + 3) = 1
    OBVIOUS
  <2> QED BY <1>6, <1>10, <2>1
<1> QED BY <1>0, <1>1, <1>10, <1>11, <1>12, <1>13 DEF Assigns

(* An assignment brings its own separator and those of its text.           *)
LEMMA AssignCounts ==
    ASSUME NEW key \in Range(Key) \cup {"realm"}, NEW text \in Seq(Chars)
    PROVE  Count(Assign(key, text), Separators) = 1 + Count(text, Separators)
<1>1. PICK n \in Nat : n = Len(text)
  BY LenProperties
<1>2. PICK assigned, seps : assigned = Assign(key, text) /\ seps = Separators
  OBVIOUS
<1>3. key \in Chars /\ key \notin seps /\ "=" \in seps /\ Quote \notin seps
  <2>1. key \in Chars /\ key \notin Separators
    BY NamesFit
  <2>2. "=" \in Separators /\ Quote \notin Separators
    BY DEF Separators, Quote
  <2> QED BY <1>2, <2>1, <2>2
<1>4. /\ assigned \in Seq(Chars) /\ Len(assigned) = n + 4
      /\ assigned[1] = key /\ assigned[2] = "=" /\ assigned[3] = Quote
      /\ \A p \in 1 .. n : assigned[3 + p] = text[p]
      /\ assigned[n + 4] = Quote
  <2>1. Assigns(assigned, key, text)
    BY <1>2, <1>3, AssignIs
  <2> QED BY <1>1, <2>1 DEF Assigns
<1> DEFINE To(m) == CountTo(assigned, seps, m)
<1>5. To(0) = 0 /\ \A m \in Nat : /\ To(m) \in Nat
                                 /\ To(m + 1) = To(m) + (IF assigned[m+1] \in seps THEN 1 ELSE 0)
  BY CountToStep
<1>6. To(3 + n) = To(3) + CountTo(text, seps, n)
  BY <1>4, CountPart
<1>7. CountTo(text, seps, n) \in Nat
  BY CountToStep
<1> HIDE DEF To
<1>8. To(1) = 0
  BY <1>3, <1>4, <1>5
<1>9. To(2) = 1
  BY <1>3, <1>4, <1>5, <1>8
<1>10. To(3) = 1
  BY <1>3, <1>4, <1>5, <1>9
<1>11. To(n + 4) = To(n + 3)
  <2>1. n + 3 \in Nat /\ (n + 3) + 1 = n + 4
    OBVIOUS
  <2> QED BY <1>3, <1>4, <1>5, <2>1
<1>12. To(n + 4) = 1 + CountTo(text, seps, n)
  BY <1>6, <1>7, <1>10, <1>11
<1>13. Count(assigned, seps) = To(Len(assigned)) /\ Count(text, seps) = CountTo(text, seps, n)
  BY <1>1, <1>4, CountIs DEF To
<1> QED BY <1>2, <1>4, <1>12, <1>13

(* The assignments: the realm's first, when there is one.                  *)
Shift == IF realm = <<>> THEN 0 ELSE 1

Sending == sent \in [Range(Key) -> Text] /\ realm \in Realm

LEMMA AssignmentsAre ==
    ASSUME Sending
    PROVE  /\ Assignments \in Seq(Seq(Chars)) /\ Len(Assignments) = Len(Key) + Shift
           /\ \A i \in 1 .. Len(Key) :
                Assignments[i + Shift] = Assign(Key[i], Escape(sent[Key[i]]))
           /\ Shift = 1 => Assignments[1] = Assign("realm", realm)
<1>1. PICK n \in Nat \ {0} : n = Len(Key) /\ DOMAIN Key = 1 .. n
  BY KeysFit
<1>2. PICK pairs : pairs = [i \in DOMAIN Key |-> Assign(Key[i], Escape(sent[Key[i]]))]
  OBVIOUS
<1>3. ASSUME NEW key \in Range(Key) \cup {"realm"}, NEW text \in Seq(Chars)
      PROVE  Assign(key, text) \in Seq(Chars)
  <2>1. key \in Chars
    BY NamesFit
  <2> QED BY <2>1, AssignIs DEF Assigns
<1>4. \A i \in 1 .. n : pairs[i] \in Seq(Chars)
  <2> SUFFICES ASSUME NEW i \in 1 .. n PROVE pairs[i] \in Seq(Chars)
    OBVIOUS
  <2>1. Key[i] \in Range(Key)
    BY <1>1, KeysFit
  <2>2. sent[Key[i]] \in Text
    BY <2>1 DEF Sending
  <2>3. Escape(sent[Key[i]]) \in Seq(Chars)
    BY <2>2, TextsAreTexts
  <2>4. pairs[i] = Assign(Key[i], Escape(sent[Key[i]]))
    BY <1>1, <1>2
  <2> QED BY <1>3, <2>1, <2>3, <2>4
<1>5. pairs \in Seq(Seq(Chars)) /\ Len(pairs) = n
  <2>1. pairs \in [1 .. n -> Seq(Chars)]
    BY <1>1, <1>2, <1>4
  <2> QED BY <2>1
<1>6. CASE realm = <<>>
  <2>1. Assignments = pairs /\ Shift = 0
    BY <1>2, <1>6 DEF Assignments, Shift
  <2>2. \A i \in 1 .. n : pairs[i + 0] = Assign(Key[i], Escape(sent[Key[i]]))
    BY <1>1, <1>2
  <2> QED BY <1>1, <1>5, <2>1, <2>2
<1>7. CASE realm # <<>>
  <2>1. PICK mine : mine = Assign("realm", realm)
    OBVIOUS
  <2>2. mine \in Seq(Chars)
    <3>1. realm \in Seq(Chars)
      BY TextsAreTexts DEF Sending
    <3> QED BY <1>3, <2>1, <3>1
  <2>3. PICK first : first = <<mine>>
    OBVIOUS
  <2>4. first \in Seq(Seq(Chars)) /\ Len(first) = 1 /\ first[1] = mine
    BY <2>2, <2>3
  <2>5. Assignments = first \o pairs /\ Shift = 1
    BY <1>2, <1>7, <2>1, <2>3 DEF Assignments, Shift
  <2>6. PICK all : all = first \o pairs
    OBVIOUS
  <2>7. all \in Seq(Seq(Chars)) /\ Len(all) = Len(first) + Len(pairs)
    BY <1>5, <2>4, <2>6, ConcatProperties
  <2>8. \A p \in 1 .. Len(first) + Len(pairs) :
          all[p] = IF p <= Len(first) THEN first[p] ELSE pairs[p - Len(first)]
    BY <1>5, <2>4, <2>6, ConcatProperties
  <2>9. all[1] = mine
    BY <1>5, <2>4, <2>8
  <2>10. ASSUME NEW i \in 1 .. n PROVE all[i + 1] = Assign(Key[i], Escape(sent[Key[i]]))
    <3>1. i + 1 \in 1 .. 1 + n /\ ~(i + 1 <= 1) /\ (i + 1) - 1 = i
      OBVIOUS
    <3>2. all[i + 1] = pairs[i]
      BY <1>5, <2>4, <2>8, <3>1
    <3> QED BY <1>1, <1>2, <3>2
  <2>11. Len(all) = n + 1
    BY <1>5, <2>4, <2>7
  <2> QED BY <1>1, <2>1, <2>5, <2>6, <2>7, <2>9, <2>10, <2>11
<1> QED BY <1>6, <1>7

(* Part i of the header is assignment i, glued to the one before it.       *)
Glued(part, assigned) ==
    /\ Len(part) = Len(assigned) + 2 /\ part[1] = "," /\ part[2] = " "
    /\ \A p \in 1 .. Len(assigned) : part[2 + p] = assigned[p]

Layout(parts, ends) ==
    /\ Placed(parts, Written, ends)
    /\ parts \in Seq(Seq(Chars)) /\ Len(parts) = Len(Key) + Shift
    /\ parts[1] = Assignments[1]
    /\ \A i \in 2 .. Len(Key) + Shift : Glued(parts[i], Assignments[i])

LEMMA WrittenParts ==
    ASSUME Sending
    PROVE  Written \in Seq(Chars) /\ \E parts, ends : Layout(parts, ends)
<1>1. PICK A : A = Assignments
  OBVIOUS
<1>2. PICK n \in Nat \ {0} : n = Len(Key) + Shift
  <2>1. Len(Key) \in Nat \ {0} /\ Shift \in {0, 1}
    BY KeysFit DEF Shift
  <2> QED BY <2>1
<1>3. A \in Seq(Seq(Chars)) /\ Len(A) = n
  BY <1>1, <1>2, AssignmentsAre
<1>4. \A i \in 1 .. n : A[i] \in Seq(Chars)
  BY <1>3, ElementOfSeq
<1>5. PICK glue : glue = <<",", " ">>
  OBVIOUS
<1>6. glue \in Seq(Chars) /\ Len(glue) = 2 /\ glue[1] = "," /\ glue[2] = " "
  <2>1. PICK comma, space \in Chars : comma = "," /\ space = " "
    BY DEF Chars
  <2>2. glue = <<comma, space>>
    BY <1>5, <2>1
  <2>3. glue \in Seq(Chars) /\ Len(glue) = 2 /\ glue[1] = comma /\ glue[2] = space
    BY <2>2
  <2> QED BY <2>1, <2>3
<1>7. PICK parts : parts = [i \in DOMAIN A |-> IF i = 1 THEN A[i] ELSE glue \o A[i]]
  OBVIOUS
<1>8. DOMAIN A = 1 .. n
  BY <1>3, LenProperties
<1>9. ASSUME NEW i \in 2 .. n PROVE parts[i] \in Seq(Chars) /\ Glued(parts[i], A[i])
  <2>1. PICK a \in Seq(Chars) : a = A[i]
    BY <1>4
  <2>2. PICK part : part = glue \o a
    OBVIOUS
  <2>3. parts[i] = part
    BY <1>7, <1>8, <2>1, <2>2
  <2>4. PICK m \in Nat : m = Len(a)
    BY LenProperties
  <2>5. part \in Seq(Chars) /\ Len(part) = 2 + m
    <3>1. part \in Seq(Chars) /\ Len(part) = Len(glue) + Len(a)
      BY <1>6, <2>2, ConcatProperties
    <3> QED BY <1>6, <2>4, <3>1
  <2>6. \A p \in 1 .. 2 + m : part[p] = IF p <= 2 THEN glue[p] ELSE a[p - 2]
    <3>1. \A p \in 1 .. Len(glue) + Len(a) :
            part[p] = IF p <= Len(glue) THEN glue[p] ELSE a[p - Len(glue)]
      BY <1>6, <2>2, ConcatProperties
    <3> QED BY <1>6, <2>4, <3>1
  <2>7. part[1] = "," /\ part[2] = " "
    <3>1. 1 \in 1 .. 2 + m /\ 2 \in 1 .. 2 + m /\ 1 <= 2 /\ 2 <= 2
      OBVIOUS
    <3>2. part[1] = glue[1] /\ part[2] = glue[2]
      BY <2>6, <3>1
    <3> QED BY <1>6, <3>2
  <2>8. ASSUME NEW p \in 1 .. m PROVE part[2 + p] = a[p]
    <3>1. 2 + p \in 1 .. 2 + m /\ ~(2 + p <= 2) /\ (2 + p) - 2 = p
      OBVIOUS
    <3> QED BY <2>6, <3>1
  <2>9. Glued(part, a)
    <3>1. Len(part) = Len(a) + 2
      BY <2>4, <2>5
    <3> QED BY <2>4, <2>7, <2>8, <3>1 DEF Glued
  <2> QED BY <2>1, <2>3, <2>5, <2>9
<1>10. parts \in Seq(Seq(Chars)) /\ Len(parts) = n /\ parts[1] = A[1]
  <2>1. parts \in [1 .. n -> Seq(Chars)]
    <3>1. \A i \in 1 .. n : i = 1 \/ i \in 2 .. n
      OBVIOUS
    <3>2. \A i \in 1 .. n : parts[i] \in Seq(Chars)
      BY <1>4, <1>7, <1>8, <1>9, <3>1
    <3> QED BY <1>7, <1>8, <3>2
  <2>2. parts[1] = A[1]
    BY <1>7, <1>8
  <2> QED BY <2>1, <2>2
<1>11. Written = FlattenSeq(parts)
  BY <1>1, <1>5, <1>7 DEF Written, Join
<1>12. PICK whole : whole = FlattenSeq(parts)
  OBVIOUS
<1>13. whole \in Seq(Chars) /\ \E ends : Placed(parts, whole, ends)
  BY <1>10, <1>12, FlattenPlaces
<1> QED BY <1>1, <1>2, <1>9, <1>10, <1>11, <1>12, <1>13 DEF Layout


LEMMA AssignmentCounts ==
    ASSUME Sending
    PROVE  /\ Count(realm, Separators) \in Nat
           /\ \A i \in 1 .. Len(Key) + Shift :
                /\ Assignments[i] \in Seq(Chars)
                /\ Count(Assignments[i], Separators) =
                     IF i = 1 THEN 1 + Count(realm, Separators) ELSE 1
<1>1. PICK n \in Nat \ {0} : n = Len(Key)
  BY KeysFit
<1>2. PICK seps : seps = Separators
  OBVIOUS
<1>3. realm \in Seq(Chars)
  BY TextsAreTexts DEF Sending
<1>4. Count(realm, seps) \in Nat
  BY <1>3, CountIs
<1>5. realm = <<>> => Count(realm, seps) = 0
  <2> HAVE realm = <<>>
  <2>1. Len(realm) = 0
    BY <1>3, EmptySeq
  <2>2. Count(realm, seps) = CountTo(realm, seps, Len(realm))
    BY <1>3, CountIs
  <2>3. CountTo(realm, seps, 0) = 0
    BY CountToStep
  <2> QED BY <2>1, <2>2, <2>3
<1>6. ASSUME NEW text \in Text PROVE Count(Escape(text), seps) = 0
  <2>1. PICK escaped \in Seq(Chars), m \in Nat : escaped = Escape(text) /\ m = Len(escaped)
    <3>1. Escape(text) \in Seq(Chars)
      BY TextsAreTexts
    <3>2. Len(Escape(text)) \in Nat
      BY <3>1, LenProperties
    <3> QED BY <3>1, <3>2
  <2>2. escaped \in Seq(Escaped(Texts))
    BY <2>1, TextsAreTexts
  <2>3. \A p \in 1 .. m : escaped[p] \in Escaped(Texts)
    BY <2>1, <2>2, ElementOfSeq
  <2>4. \A p \in 1 .. m : escaped[p] \notin seps
    BY <1>2, <2>3 DEF Escaped
  <2>5. CountTo(escaped, seps, m) = 0
    BY <2>4, NoneCounted
  <2> QED BY <2>1, <2>2, <2>5, CountIs
<1>7. ASSUME NEW i \in 1 .. n
      PROVE  /\ Assignments[i + Shift] \in Seq(Chars)
             /\ Count(Assignments[i + Shift], seps) = 1
  <2>1. PICK key \in Range(Key) : key = Key[i]
    BY <1>1, KeysFit
  <2>2. PICK text \in Text : text = sent[key]
    BY <2>1 DEF Sending
  <2>3. PICK escaped \in Seq(Chars) : escaped = Escape(text)
    BY <2>2, TextsAreTexts
  <2>4. Assignments[i + Shift] = Assign(key, escaped)
    BY <1>1, <2>1, <2>2, <2>3, AssignmentsAre
  <2>5. Count(Assign(key, escaped), seps) = 1 + Count(escaped, seps)
    BY <1>2, AssignCounts
  <2>6. Assign(key, escaped) \in Seq(Chars)
    <3>1. key \in Chars
      BY NamesFit
    <3> QED BY <3>1, AssignIs DEF Assigns
  <2>7. Count(escaped, seps) = 0
    BY <1>6, <2>3
  <2> QED BY <2>4, <2>5, <2>6, <2>7
<1>8. Shift = 1 => /\ Assignments[1] \in Seq(Chars)
                   /\ Count(Assignments[1], seps) = 1 + Count(realm, seps)
  <2> HAVE Shift = 1
  <2>1. Assignments[1] = Assign("realm", realm)
    BY AssignmentsAre
  <2>2. PICK key : key = "realm"
    OBVIOUS
  <2>3. Count(Assign(key, realm), seps) = 1 + Count(realm, seps)
    BY <1>2, <1>3, <2>2, AssignCounts
  <2>4. Assign(key, realm) \in Seq(Chars)
    <3>1. key \in Chars
      BY <2>2, NamesFit
    <3> QED BY <1>3, <3>1, AssignIs DEF Assigns
  <2> QED BY <2>1, <2>2, <2>3, <2>4
<1>9. ASSUME NEW i \in 1 .. n + Shift
      PROVE  /\ Assignments[i] \in Seq(Chars)
             /\ Count(Assignments[i], seps) = IF i = 1 THEN 1 + Count(realm, seps) ELSE 1
  <2>1. CASE Shift = 0
    <3>1. i \in 1 .. n /\ i + Shift = i
      BY <2>1
    <3>2. realm = <<>>
      BY <2>1 DEF Shift
    <3>3. Assignments[i] \in Seq(Chars) /\ Count(Assignments[i], seps) = 1
      BY <1>7, <3>1
    <3>4. 1 + Count(realm, seps) = 1
      BY <1>5, <3>2
    <3> QED BY <3>3, <3>4
  <2>2. CASE Shift = 1 /\ i = 1
    BY <1>8, <2>2
  <2>3. CASE Shift = 1 /\ i # 1
    <3>1. i - 1 \in 1 .. n /\ (i - 1) + Shift = i
      BY <2>3
    <3>2. Assignments[i] \in Seq(Chars) /\ Count(Assignments[i], seps) = 1
      BY <1>7, <3>1
    <3> QED BY <2>3, <3>2
  <2>4. Shift \in {0, 1}
    BY DEF Shift
  <2> QED BY <2>1, <2>2, <2>3, <2>4
<1> QED BY <1>1, <1>2, <1>4, <1>9

(* Up to the end of the i-th assignment the header has two separators for  *)
(* each but the first, and the realm's.                                    *)
LEMMA WrittenCounts ==
    ASSUME Sending, NEW parts, NEW ends, Layout(parts, ends)
    PROVE  \A i \in 1 .. Len(Key) + Shift :
             CountTo(Written, Separators, ends[i]) = (2 * i - 1) + Count(realm, Separators)
<1>1. PICK n \in Nat \ {0} : n = Len(Key) + Shift
  <2>1. Len(Key) \in Nat \ {0} /\ Shift \in {0, 1}
    BY KeysFit DEF Shift
  <2> QED BY <2>1
<1>2. PICK A, seps, whole : A = Assignments /\ seps = Separators /\ whole = Written
  OBVIOUS
<1>3. PICK r \in Nat : r = Count(realm, seps)
  BY <1>2, AssignmentCounts
<1>4. \A i \in 1 .. n : A[i] \in Seq(Chars) /\ Count(A[i], seps) = IF i = 1 THEN 1 + r ELSE 1
  BY <1>1, <1>2, <1>3, AssignmentCounts
<1>5. /\ \A i \in 0 .. n : ends[i] \in Nat
      /\ ends[0] = 0
      /\ \A i \in 1 .. n : /\ ends[i] = ends[i-1] + Len(parts[i])
                           /\ \A p \in 1 .. Len(parts[i]) : whole[ends[i-1] + p] = parts[i][p]
  BY <1>1, <1>2 DEF Layout, Placed
<1>6. parts[1] = A[1] /\ \A i \in 2 .. n : Glued(parts[i], A[i])
  BY <1>1, <1>2 DEF Layout
<1> DEFINE Counted(i) == CountTo(whole, seps, ends[i]) = (2 * i - 1) + r
<1>7. Counted(1)
  <2>1. PICK part \in Seq(Chars), m \in Nat : part = A[1] /\ m = Len(part)
    BY <1>4, LenProperties
  <2>2. CountTo(part, seps, m) = 1 + r
    <3>1. Count(part, seps) = 1 + r
      BY <1>4, <2>1
    <3> QED BY <2>1, <3>1, CountIs
  <2>3. ends[1] = m /\ \A p \in 1 .. m : whole[0 + p] = part[p]
    <3>1. 1 \in 1 .. n /\ 1 - 1 = 0 /\ parts[1] = part
      BY <1>6, <2>1
    <3>2. ends[1] = ends[0] + Len(parts[1])
      BY <1>5, <3>1
    <3>3. \A p \in 1 .. Len(parts[1]) : whole[ends[0] + p] = parts[1][p]
      BY <1>5, <3>1
    <3> QED BY <1>5, <2>1, <3>1, <3>2, <3>3
  <2>4. CountTo(whole, seps, 0 + m) = CountTo(whole, seps, 0) + CountTo(part, seps, m)
    BY <2>3, CountPart
  <2>5. CountTo(whole, seps, 0) = 0
    BY CountToStep
  <2> QED BY <2>2, <2>3, <2>4, <2>5
<1>8. ASSUME NEW i \in 1 .. n - 1, Counted(i) PROVE Counted(i + 1)
  <2>1. PICK j \in 2 .. n : j = i + 1 /\ j - 1 = i
    OBVIOUS
  <2>0. j \in 1 .. n /\ i \in 0 .. n /\ j \in 0 .. n
    OBVIOUS
  <2>13. PICK part : part = parts[j]
    OBVIOUS
  <2>2. PICK a \in Seq(Chars), m \in Nat : part = parts[j] /\ a = A[j] /\ m = Len(a)
    <3>1. A[j] \in Seq(Chars)
      BY <1>4, <2>0
    <3>2. Len(A[j]) \in Nat
      BY <3>1, LenProperties
    <3> QED BY <2>13, <3>1, <3>2
  <2>3. /\ Len(part) = m + 2 /\ part[1] = "," /\ part[2] = " "
        /\ \A p \in 1 .. m : part[2 + p] = a[p]
    BY <1>6, <2>2 DEF Glued
  <2>4. PICK from, to \in Nat : from = ends[i] /\ to = ends[j]
    BY <1>5, <2>0
  <2>5. to = from + (m + 2) /\ \A p \in 1 .. m + 2 : whole[from + p] = part[p]
    <3>1. j \in 1 .. n
      OBVIOUS
    <3>2. ends[j] = ends[j-1] + Len(parts[j])
      BY <1>5, <3>1
    <3>3. \A p \in 1 .. Len(parts[j]) : whole[ends[j-1] + p] = parts[j][p]
      BY <1>5, <3>1
    <3> QED BY <2>1, <2>2, <2>3, <2>4, <3>2, <3>3
  <2>6. CountTo(a, seps, m) = 1
    <3>1. Count(a, seps) = 1
      BY <1>4, <2>1, <2>2
    <3> QED BY <2>2, <3>1, CountIs
  <2>7. /\ CountTo(part, seps, 0) = 0
        /\ CountTo(part, seps, 1) = 1 /\ CountTo(part, seps, 2) = 1
    <3>0. PICK comma, space : comma = "," /\ space = " "
      OBVIOUS
    <3>1. comma \in seps /\ space \notin seps
      BY <1>2, <3>0 DEF Separators
    <3>5. part[1] = comma /\ part[2] = space
      BY <2>3, <3>0
    <3> DEFINE To(p) == CountTo(part, seps, p)
    <3>2. To(0) = 0 /\ \A p \in Nat : /\ To(p) \in Nat
                                       /\ To(p + 1) = To(p) + (IF part[p+1] \in seps THEN 1 ELSE 0)
      BY CountToStep
    <3> HIDE DEF To
    <3>3. To(1) = 1
      <4>1. To(0 + 1) = To(0) + (IF part[0+1] \in seps THEN 1 ELSE 0)
        BY <3>2
      <4>2. 0 + 1 = 1
        OBVIOUS
      <4> QED BY <3>1, <3>2, <3>5, <4>1, <4>2
    <3>4. To(2) = 1
      <4>1. To(1 + 1) = To(1) + (IF part[1+1] \in seps THEN 1 ELSE 0)
        BY <3>2
      <4>2. 1 + 1 = 2
        OBVIOUS
      <4> QED BY <3>1, <3>3, <3>5, <4>1, <4>2
    <3> QED BY <3>2, <3>3, <3>4 DEF To
  <2>8. CountTo(part, seps, 2 + m) = CountTo(part, seps, 2) + CountTo(a, seps, m)
    <3>1. PICK two \in Nat : two = 2
      OBVIOUS
    <3>2. \A p \in 1 .. m : part[two + p] = a[p]
      BY <2>3, <3>1
    <3>3. CountTo(part, seps, two + m) = CountTo(part, seps, two) + CountTo(a, seps, m)
      BY <3>2, CountPart
    <3> QED BY <3>1, <3>3
  <2>9. CountTo(whole, seps, from + (m + 2)) = CountTo(whole, seps, from) + CountTo(part, seps, m + 2)
    BY <2>5, CountPart
  <2>10. CountTo(whole, seps, from) = (2 * i - 1) + r
    BY <1>8, <2>4
  <2>11. CountTo(whole, seps, to) = ((2 * i - 1) + r) + 2
    BY <2>5, <2>6, <2>7, <2>8, <2>9, <2>10
  <2>12. ((2 * i - 1) + r) + 2 = (2 * (i + 1) - 1) + r
    OBVIOUS
  <2> QED BY <2>1, <2>4, <2>11, <2>12
<1>9. \A i \in 1 .. n : Counted(i)
  <2> DEFINE T == {k \in Nat : k + 1 <= n => Counted(k + 1)}
  <2> HIDE DEF Counted
  <2>1. 0 \in T
    BY <1>7
  <2>2. ASSUME NEW k \in T PROVE k + 1 \in T
    <3>1. CASE k + 2 <= n
      <4>1. k + 1 \in 1 .. n - 1 /\ Counted(k + 1)
        BY <3>1
      <4>2. Counted((k + 1) + 1)
        BY <1>8, <4>1
      <4> QED BY <4>2
    <3> QED BY <3>1
  <2>3. T = Nat
    BY <2>1, <2>2, Induction
  <2>4. \A k \in Nat : k + 1 <= n => Counted(k + 1)
    BY <2>3
  <2>5. ASSUME NEW i \in 1 .. n PROVE Counted(i)
    <3>1. i - 1 \in Nat /\ (i - 1) + 1 = i
      OBVIOUS
    <3> QED BY <2>4, <3>1
  <2> QED BY <2>5
<1> QED BY <1>1, <1>2, <1>3, <1>9

(* For any parameters, the header has the separators it needs and the      *)
(* realm's, no others.                                                     *)
THEOREM TypeCorrect == Spec => []TypeOK
<1>1. Sends => TypeOK
  <2> SUFFICES ASSUME Sends PROVE TypeOK
    OBVIOUS
  <2>1. Sending
    BY DEF Sends, Sending
  <2>2. PICK n \in Nat \ {0} : n = Len(Key) + Shift
    <3>1. Len(Key) \in Nat \ {0} /\ Shift \in {0, 1}
      BY KeysFit DEF Shift
    <3> QED BY <3>1
  <2>3. Count(Written, Separators) = (2 * n - 1) + Count(realm, Separators)
    <3>1. PICK parts, ends : Layout(parts, ends)
      BY <2>1, WrittenParts
    <3>2. PICK whole : whole = Written /\ whole \in Seq(Chars)
      BY <2>1, WrittenParts
    <3>3. ends[n] = Len(whole)
      BY <2>2, <3>1, <3>2 DEF Layout, Placed
    <3>4. n \in 1 .. Len(Key) + Shift
      BY <2>2
    <3>5. CountTo(whole, Separators, ends[n]) = (2 * n - 1) + Count(realm, Separators)
      BY <2>1, <3>1, <3>2, <3>4, WrittenCounts
    <3>6. Count(whole, Separators) = CountTo(whole, Separators, Len(whole))
      BY <3>2, CountIs
    <3> QED BY <3>2, <3>3, <3>5, <3>6
  <2>4. stage # "new" => Count(header, Separators) = (2 * n - 1) + Count(realm, Separators)
    BY <2>3 DEF Sends
  <2>5. n = Len(Key) + (IF realm = <<>> THEN 0 ELSE 1)
    BY <2>2 DEF Shift
  <2> QED BY <2>4, <2>5 DEF TypeOK, Sends
<1> QED BY <1>1, SendsInvariance, PTL
-----------------------------------------------------------------------------
(* Split: the pieces of a text, cut character by character.                *)
Cuts(f, text, n) ==
    f = [i \in 0 .. n |-> IF i = 0 THEN << <<>> >> ELSE Cut(f[i-1], text[i])]

LEMMA CutsDefined ==
    ASSUME NEW N \in Nat, NEW text
    PROVE  \E f : Cuts(f, text, N)
<1> DEFINE T == {n \in Nat : \E f : Cuts(f, text, n)}
<1>1. \E f : Cuts(f, text, 0)
  <2>1. PICK f : f = [i \in 0 .. 0 |-> << <<>> >>]
    OBVIOUS
  <2>2. Cuts(f, text, 0)
    BY <2>1 DEF Cuts
  <2> QED BY <2>2
<1>2. ASSUME NEW n \in Nat, \E f : Cuts(f, text, n)
      PROVE  \E f : Cuts(f, text, n + 1)
  <2>1. PICK f : Cuts(f, text, n)
    BY <1>2
  <2>2. PICK next : next = Cut(f[n], text[n + 1])
    OBVIOUS
  <2>3. PICK g : g = [i \in 0 .. n + 1 |-> IF i = n + 1 THEN next ELSE f[i]]
    OBVIOUS
  <2>4. ASSUME NEW i \in 0 .. n + 1
        PROVE  g[i] = IF i = 0 THEN << <<>> >> ELSE Cut(g[i-1], text[i])
    <3>1. CASE i = n + 1
      <4>1. g[i] = next /\ g[i-1] = f[n]
        BY <2>3, <3>1
      <4> QED BY <2>2, <3>1, <4>1
    <3>2. CASE i # n + 1
      <4>1. i \in 0 .. n /\ g[i] = f[i] /\ (i # 0 => g[i-1] = f[i-1])
        BY <2>3, <3>2
      <4>2. f[i] = IF i = 0 THEN << <<>> >> ELSE Cut(f[i-1], text[i])
        BY <2>1, <4>1 DEF Cuts
      <4> QED BY <4>1, <4>2
    <3> QED BY <3>1, <3>2
  <2>5. g = [i \in 0 .. n + 1 |-> IF i = 0 THEN << <<>> >> ELSE Cut(g[i-1], text[i])]
    BY <2>3, <2>4
  <2> QED BY <2>5 DEF Cuts
<1>3. T \in SUBSET Nat /\ 0 \in T /\ \A n \in T : n + 1 \in T
  BY <1>1, <1>2
<1>4. T = Nat
  BY <1>3, Induction
<1> QED BY <1>4

LEMMA PiecesIs ==
    ASSUME NEW text, Len(text) \in Nat
    PROVE  \E f : /\ f[0] = << <<>> >>
                  /\ \A i \in 1 .. Len(text) : f[i] = Cut(f[i-1], text[i])
                  /\ Pieces(text) = f[Len(text)]
<1>1. \E f : f = [i \in 0 .. Len(text) |-> IF i = 0 THEN << <<>> >> ELSE Cut(f[i-1], text[i])]
  BY CutsDefined DEF Cuts
<1>2. PICK f : f = CHOOSE g :
                     g = [i \in 0 .. Len(text) |-> IF i = 0 THEN << <<>> >> ELSE Cut(g[i-1], text[i])]
  OBVIOUS
<1>3. f = [i \in 0 .. Len(text) |-> IF i = 0 THEN << <<>> >> ELSE Cut(f[i-1], text[i])]
  BY <1>1, <1>2
<1>4. Pieces(text) = f[Len(text)]
  BY <1>2 DEF Pieces
<1>5. PICK n \in Nat : n = Len(text)
  OBVIOUS
<1>6. f = [i \in 0 .. n |-> IF i = 0 THEN << <<>> >> ELSE Cut(f[i-1], text[i])]
  BY <1>3, <1>5
<1>7. f[0] = << <<>> >>
  BY <1>6
<1>8. \A i \in 1 .. n : f[i] = Cut(f[i-1], text[i])
  BY <1>6
<1> QED BY <1>4, <1>5, <1>7, <1>8

(* A cut opens a piece at a separator, and lengthens the last elsewhere.   *)
CutAt(next, pieces, char) ==
    /\ char \in Separators =>
         /\ Len(next) = Len(pieces) + 1
         /\ next[Len(pieces) + 1] = <<>>
         /\ \A c \in 1 .. Len(pieces) : next[c] = pieces[c]
    /\ char \notin Separators =>
         /\ Len(next) = Len(pieces)
         /\ next[Len(pieces)] = Append(pieces[Len(pieces)], char)
         /\ \A c \in 1 .. Len(pieces) - 1 : next[c] = pieces[c]

LEMMA CutIs ==
    ASSUME NEW S, NEW pieces \in Seq(Seq(S)), Len(pieces) \in Nat \ {0}, NEW char \in S
    PROVE  /\ Cut(pieces, char) \in Seq(Seq(S))
           /\ CutAt(Cut(pieces, char), pieces, char)
<1>1. PICK n \in Nat \ {0} : n = Len(pieces)
  OBVIOUS
<1>2. CASE char \in Separators
  <2>1. PICK none \in Seq(S) : none = <<>>
    BY EmptySeq
  <2>2. Cut(pieces, char) = Append(pieces, none)
    BY <1>2, <2>1 DEF Cut
  <2>3. PICK next : next = Append(pieces, none)
    OBVIOUS
  <2>4. next \in Seq(Seq(S)) /\ Len(next) = n + 1 /\ next[n + 1] = none
        /\ \A c \in 1 .. n : next[c] = pieces[c]
    BY <1>1, <2>3, AppendProperties
  <2> QED BY <1>1, <1>2, <2>1, <2>2, <2>3, <2>4 DEF CutAt
<1>3. CASE char \notin Separators
  <2>1. PICK longer : longer = Append(pieces[n], char)
    OBVIOUS
  <2>2. longer \in Seq(S)
    <3>1. pieces[n] \in Seq(S)
      BY <1>1, ElementOfSeq
    <3> QED BY <2>1, <3>1, AppendProperties
  <2>3. Cut(pieces, char) = [pieces EXCEPT ![n] = longer]
    BY <1>1, <1>3, <2>1 DEF Cut
  <2>4. PICK next : next = [pieces EXCEPT ![n] = longer]
    OBVIOUS
  <2>5. next \in Seq(Seq(S)) /\ Len(next) = n /\ next[n] = longer
        /\ \A c \in 1 .. n - 1 : next[c] = pieces[c]
    BY <1>1, <2>2, <2>4
  <2> QED BY <1>1, <1>3, <2>1, <2>3, <2>4, <2>5 DEF CutAt
<1> QED BY <1>2, <1>3

(* Up to each place, there is one piece more than separators.              *)
LEMMA PiecesCount ==
    ASSUME NEW S, NEW text \in Seq(S), NEW f, f[0] = << <<>> >>,
           \A i \in 1 .. Len(text) : f[i] = Cut(f[i-1], text[i])
    PROVE  \A i \in 0 .. Len(text) :
             f[i] \in Seq(Seq(S)) /\ Len(f[i]) = 1 + CountTo(text, Separators, i)
<1>1. PICK n \in Nat : n = Len(text)
  BY LenProperties
<1> DEFINE Holds(i) == f[i] \in Seq(Seq(S)) /\ Len(f[i]) = 1 + CountTo(text, Separators, i)
<1>2. Holds(0)
  <2>1. PICK none \in Seq(S) : none = <<>>
    BY EmptySeq
  <2>2. PICK one : one = <<none>>
    OBVIOUS
  <2>3. one \in Seq(Seq(S)) /\ Len(one) = 1
    BY <2>2
  <2>4. CountTo(text, Separators, 0) = 0
    BY CountToStep
  <2> QED BY <2>1, <2>2, <2>3, <2>4
<1>3. ASSUME NEW i \in Nat, i + 1 <= n, Holds(i) PROVE Holds(i + 1)
  <2>1. PICK pieces \in Seq(Seq(S)) : pieces = f[i]
    BY <1>3
  <2>2. PICK seps : seps = Separators
    OBVIOUS
  <2>3. PICK char \in S : char = text[i + 1]
    BY <1>1, <1>3, ElementOfSeq
  <2>4. Len(pieces) = 1 + CountTo(text, seps, i) /\ CountTo(text, seps, i) \in Nat
    BY <1>3, <2>1, <2>2, CountToStep
  <2>5. CountTo(text, seps, i + 1) = CountTo(text, seps, i) + (IF text[i+1] \in seps THEN 1 ELSE 0)
    BY CountToNext, Zenon
  <2>6. PICK next : next = Cut(pieces, char)
    OBVIOUS
  <2>7. /\ next \in Seq(Seq(S))
        /\ char \in seps => Len(next) = Len(pieces) + 1
        /\ char \notin seps => Len(next) = Len(pieces)
    <3>1. Len(pieces) \in Nat \ {0}
      BY <2>4
    <3>2. next \in Seq(Seq(S)) /\ CutAt(next, pieces, char)
      BY <2>6, <3>1, CutIs
    <3> QED BY <2>2, <3>2 DEF CutAt
  <2>8. f[i + 1] = next
    <3>1. PICK j : j = i + 1
      OBVIOUS
    <3>2. j \in 1 .. n /\ j - 1 = i
      BY <1>3, <3>1
    <3>3. f[j] = Cut(f[j-1], text[j])
      BY <1>1, <3>2
    <3> QED BY <2>1, <2>3, <2>6, <3>1, <3>2, <3>3
  <2>9. Len(next) = 1 + CountTo(text, seps, i + 1)
    BY <2>3, <2>4, <2>5, <2>7
  <2> QED BY <2>2, <2>7, <2>8, <2>9
<1>4. \A i \in Nat : i <= n => Holds(i)
  <2> DEFINE T == {i \in Nat : i <= n => Holds(i)}
  <2> HIDE DEF Holds
  <2>1. 0 \in T /\ \A i \in T : i + 1 \in T
    BY <1>2, <1>3
  <2>2. T = Nat
    BY <2>1, Induction
  <2> QED BY <2>2
<1> QED BY <1>1, <1>4


(* No piece is dropped from a text whose last character is no separator.   *)
LEMMA SplitCounts ==
    ASSUME NEW S, NEW text \in Seq(S), Len(text) # 0, text[Len(text)] \notin Separators
    PROVE  /\ Split(text) = Pieces(text)
           /\ Split(text) \in Seq(Seq(S))
           /\ Len(Split(text)) = 1 + Count(text, Separators)
<1>1. PICK n \in Nat \ {0} : n = Len(text)
  BY LenProperties
<1>2. PICK f : /\ f[0] = << <<>> >>
               /\ \A i \in 1 .. n : f[i] = Cut(f[i-1], text[i])
               /\ Pieces(text) = f[n]
  BY <1>1, PiecesIs
<1>3. \A i \in 0 .. n : f[i] \in Seq(Seq(S)) /\ Len(f[i]) = 1 + CountTo(text, Separators, i)
  BY <1>1, <1>2, PiecesCount
<1>4. n \in 0 .. n /\ n - 1 \in 0 .. n /\ n \in 1 .. n
  OBVIOUS
<1>5. PICK all, before \in Seq(Seq(S)) : all = f[n] /\ before = f[n-1]
  BY <1>3, <1>4
<1>6. PICK char \in S : char = text[n] /\ char \notin Separators
  BY <1>1, <1>4, ElementOfSeq
<1>7. PICK m \in Nat \ {0} : m = Len(before)
  <2>1. Len(before) = 1 + CountTo(text, Separators, n - 1)
    BY <1>3, <1>4, <1>5
  <2>2. CountTo(text, Separators, n - 1) \in Nat
    BY CountToStep
  <2> QED BY <2>1, <2>2
<1>8. all = Cut(before, char)
  BY <1>2, <1>4, <1>5, <1>6
<1>9. Len(all) = m /\ all[m] = Append(before[m], char)
  <2>1. Len(before) \in Nat \ {0}
    BY <1>7
  <2>2. CutAt(all, before, char)
    BY <1>8, <2>1, CutIs
  <2> QED BY <1>6, <1>7, <2>2 DEF CutAt
<1>10. all[m] # <<>>
  <2>1. PICK piece \in Seq(S) : piece = before[m]
    BY <1>7, ElementOfSeq
  <2>2. Append(piece, char) # <<>>
    BY AppendProperties
  <2> QED BY <1>9, <2>1, <2>2
<1>11. DOMAIN all = 1 .. m
  BY <1>9, LenProperties
<1>12. PICK full : full = {i \in DOMAIN all : all[i] # <<>>}
  OBVIOUS
<1>13. m \in full /\ full \subseteq 1 .. m
  BY <1>10, <1>11, <1>12
<1>14. Max(full) = m
  <2>1. PICK top : top = Max(full)
    OBVIOUS
  <2>2. top = CHOOSE x \in full : \A y \in full : x >= y
    BY <2>1 DEF Max
  <2>3. m \in full /\ \A y \in full : m >= y
    BY <1>13
  <2>4. top \in full /\ \A y \in full : top >= y
    BY <2>2, <2>3
  <2>5. top \in 1 .. m /\ top >= m
    BY <1>13, <2>4
  <2>6. top = m
    BY <2>5
  <2> QED BY <2>1, <2>6
<1>15. Split(text) = SubSeq(all, 1, m)
  <2>1. Pieces(text) = all
    BY <1>2, <1>5
  <2>2. full # {}
    BY <1>13
  <2> QED BY <1>12, <1>14, <2>1, <2>2 DEF Split
<1>16. SubSeq(all, 1, m) = all
  <2>1. PICK sub : sub = SubSeq(all, 1, m)
    OBVIOUS
  <2>2. sub = [i \in 1 .. m |-> all[i]]
    BY <2>1
  <2>3. all = [i \in 1 .. m |-> all[i]]
    BY <1>9
  <2> QED BY <2>1, <2>2, <2>3
<1>17. Len(all) = 1 + Count(text, Separators)
  <2>1. Len(all) = 1 + CountTo(text, Separators, n)
    BY <1>3, <1>4, <1>5
  <2>2. Count(text, Separators) = CountTo(text, Separators, n)
    BY <1>1, CountIs
  <2> QED BY <2>1, <2>2
<1> QED BY <1>2, <1>5, <1>15, <1>16, <1>17

(* The header ends in a quote.                                             *)
LEMMA WrittenEnds ==
    ASSUME Sending
    PROVE  Len(Written) # 0 /\ Written[Len(Written)] = Quote
<1>1. PICK n \in Nat \ {0} : n = Len(Key) + Shift
  <2>1. Len(Key) \in Nat \ {0} /\ Shift \in {0, 1}
    BY KeysFit DEF Shift
  <2> QED BY <2>1
<1>2. PICK parts, ends : Layout(parts, ends)
  BY WrittenParts
<1>3. PICK whole : whole = Written
  OBVIOUS
<1>4. PICK a, m : a = Assignments[n] /\ m = Len(a)
  OBVIOUS
<1>5. m \in Nat \ {0} /\ a[m] = Quote
  <2>1. PICK k \in Nat \ {0} : k = Len(Key)
    BY KeysFit
  <2>2. a = Assign(Key[k], Escape(sent[Key[k]]))
    <3>1. k \in 1 .. Len(Key) /\ k + Shift = n
      BY <1>1, <2>1
    <3> QED BY <1>4, <2>1, <3>1, AssignmentsAre
  <2>3. PICK key \in Range(Key) : key = Key[k]
    BY <2>1, KeysFit
  <2>4. PICK escaped \in Seq(Chars) : escaped = Escape(sent[key])
    <3>1. sent[key] \in Text
      BY DEF Sending
    <3> QED BY <3>1, TextsAreTexts
  <2>5. Assigns(a, key, escaped)
    <3>1. key \in Chars
      BY NamesFit
    <3> QED BY <2>2, <2>3, <2>4, <3>1, AssignIs
  <2>6. PICK l \in Nat : l = Len(escaped)
    BY LenProperties
  <2>7. m = l + 4 /\ a[l + 4] = Quote
    BY <1>4, <2>5, <2>6 DEF Assigns
  <2> QED BY <2>6, <2>7
<1>6. PICK part, l : part = parts[n] /\ l = Len(part)
  OBVIOUS
<1>7. l \in Nat \ {0} /\ part[l] = Quote
  <2>1. CASE n = 1
    BY <1>2, <1>4, <1>5, <1>6, <2>1 DEF Layout
  <2>2. CASE n # 1
    <3>1. n \in 2 .. n
      BY <2>2
    <3>2. Glued(part, a)
      BY <1>1, <1>2, <1>4, <1>6, <3>1 DEF Layout
    <3>3. l = m + 2 /\ part[2 + m] = a[m]
      <4>1. Len(part) = Len(a) + 2 /\ \A p \in 1 .. Len(a) : part[2 + p] = a[p]
        BY <3>2 DEF Glued
      <4>2. m \in 1 .. Len(a)
        BY <1>4, <1>5
      <4> QED BY <1>4, <1>6, <4>1, <4>2
    <3> QED BY <1>5, <3>3
  <2> QED BY <2>1, <2>2
<1>8. /\ ends[n] = ends[n-1] + l /\ ends[n] = Len(whole) /\ ends[n-1] \in Nat
      /\ whole[ends[n-1] + l] = part[l]
  <2>1. Placed(parts, whole, ends) /\ Len(parts) = n
    BY <1>1, <1>2, <1>3 DEF Layout
  <2>2. n \in 1 .. n /\ n - 1 \in 0 .. n
    OBVIOUS
  <2>3. ends[n] = ends[n-1] + l /\ \A p \in 1 .. l : whole[ends[n-1] + p] = part[p]
    BY <1>6, <2>1, <2>2 DEF Placed
  <2>4. ends[n] = Len(whole) /\ ends[n-1] \in Nat
    BY <2>1, <2>2 DEF Placed
  <2> QED BY <1>7, <2>3, <2>4
<1>9. PICK from \in Nat : from = ends[n-1]
  BY <1>8
<1>10. Len(whole) = from + l /\ whole[from + l] = Quote
  BY <1>7, <1>8, <1>9
<1> QED BY <1>3, <1>7, <1>10

(* The server finds two pieces for each assignment, and one more for each  *)
(* separator in the realm.                                                 *)
LEMMA WrittenSplit ==
    ASSUME Sending
    PROVE  /\ Split(Written) = Pieces(Written) /\ Split(Written) \in Seq(Seq(Chars))
           /\ Len(Split(Written)) =
                2 * (Len(Key) + Shift) + Count(realm, Separators)
<1>1. PICK n \in Nat \ {0} : n = Len(Key) + Shift
  <2>1. Len(Key) \in Nat \ {0} /\ Shift \in {0, 1}
    BY KeysFit DEF Shift
  <2> QED BY <2>1
<1>2. PICK whole \in Seq(Chars) : whole = Written
  BY WrittenParts
<1>3. Len(whole) # 0 /\ whole[Len(whole)] \notin Separators
  <2>1. Quote \notin Separators
    BY DEF Quote, Separators
  <2> QED BY <1>2, <2>1, WrittenEnds
<1>4. /\ Split(whole) = Pieces(whole) /\ Split(whole) \in Seq(Seq(Chars))
      /\ Len(Split(whole)) = 1 + Count(whole, Separators)
  BY <1>3, SplitCounts
<1>5. Count(whole, Separators) = (2 * n - 1) + Count(realm, Separators)
  <2>1. PICK parts, ends : Layout(parts, ends)
    BY WrittenParts
  <2>2. ends[n] = Len(whole)
    BY <1>1, <1>2, <2>1 DEF Layout, Placed
  <2>3. n \in 1 .. Len(Key) + Shift
    BY <1>1
  <2>4. CountTo(whole, Separators, ends[n]) = (2 * n - 1) + Count(realm, Separators)
    BY <1>2, <2>1, <2>3, WrittenCounts
  <2> QED BY <2>2, <2>4, CountIs
<1>6. Count(realm, Separators) \in Nat
  BY AssignmentCounts
<1>7. Len(Split(whole)) = 2 * n + Count(realm, Separators)
  BY <1>4, <1>5, <1>6
<1> QED BY <1>1, <1>2, <1>4, <1>7

(* Whatever the values, parse_header raises exactly when the realm brings  *)
(* an odd number of separators.                                            *)
THEOREM OddRealmRaises == Spec => []RaisesOnOddRealm
<1>1. Sends => RaisesOnOddRealm
  <2> SUFFICES ASSUME Sends PROVE RaisesOnOddRealm
    OBVIOUS
  <2>1. Sending
    BY DEF Sends, Sending
  <2>2. PICK n \in Nat : n = Len(Key) + Shift
    <3>1. Len(Key) \in Nat \ {0} /\ Shift \in {0, 1}
      BY KeysFit DEF Shift
    <3> QED BY <3>1
  <2>3. PICK r \in Nat : r = Count(realm, Separators)
    BY <2>1, AssignmentCounts
  <2>4. Len(Split(Written)) = 2 * n + r
    BY <2>1, <2>2, <2>3, WrittenSplit
  <2>5. (2 * n + r) % 2 = r % 2 /\ r % 2 \in {0, 1}
    OBVIOUS
  <2>6. stage = "raised" => header = Written /\ Malformed(header)
    BY DEF Sends
  <2>7. stage = "read" => header = Written /\ ~Malformed(header)
    BY DEF Sends
  <2> QED BY <2>3, <2>4, <2>5, <2>6, <2>7 DEF RaisesOnOddRealm, Malformed
<1> QED BY <1>1, SendsInvariance, PTL

-----------------------------------------------------------------------------
(* What stands between two separators is a piece.                          *)
Part(text, from, m) == [p \in 1 .. m |-> text[from + p]]

LEMMA PartGrows ==
    ASSUME NEW S, NEW text \in Seq(S), NEW from \in Nat, NEW m \in Nat, from + m < Len(text)
    PROVE  /\ Part(text, from, m) \in Seq(S)
           /\ Append(Part(text, from, m), text[from + (m + 1)]) = Part(text, from, m + 1)
<1>1. PICK n \in Nat : n = Len(text) /\ \A p \in 1 .. n : text[p] \in S
  BY LenProperties, ElementOfSeq
<1>2. PICK part, longer : part = Part(text, from, m) /\ longer = Part(text, from, m + 1)
  OBVIOUS
<1>3. part \in Seq(S) /\ Len(part) = m /\ \A p \in 1 .. m : part[p] = text[from + p]
  <2>1. \A p \in 1 .. m : text[from + p] \in S
    BY <1>1
  <2>2. part = [p \in 1 .. m |-> text[from + p]]
    BY <1>2 DEF Part
  <2> QED BY <2>1, <2>2
<1>4. longer \in Seq(S) /\ Len(longer) = m + 1
      /\ \A p \in 1 .. m + 1 : longer[p] = text[from + p]
  <2>1. \A p \in 1 .. m + 1 : text[from + p] \in S
    BY <1>1
  <2>2. longer = [p \in 1 .. m + 1 |-> text[from + p]]
    BY <1>2 DEF Part
  <2> QED BY <2>1, <2>2
<1>5. PICK char \in S : char = text[from + (m + 1)]
  BY <1>1
<1>6. PICK all : all = Append(part, char)
  OBVIOUS
<1>7. /\ all \in Seq(S) /\ Len(all) = m + 1 /\ all[m + 1] = char
      /\ \A p \in 1 .. m : all[p] = part[p]
  BY <1>3, <1>6, AppendProperties
<1>8. \A p \in 1 .. m + 1 : all[p] = longer[p]
  BY <1>3, <1>4, <1>5, <1>7
<1>9. all = longer
  BY <1>4, <1>7, <1>8, SeqEqual
<1> QED BY <1>2, <1>3, <1>5, <1>6, <1>9

LEMMA PieceFound ==
    ASSUME NEW S, NEW text \in Seq(S), NEW from \in Nat, NEW m \in Nat, from + m <= Len(text),
           from = 0 \/ text[from] \in Separators,
           \A p \in 1 .. m : text[from + p] \notin Separators,
           from + m = Len(text) \/ text[(from + m) + 1] \in Separators
    PROVE  Pieces(text)[1 + CountTo(text, Separators, from)] = Part(text, from, m)
<1>1. PICK n \in Nat : n = Len(text)
  BY LenProperties
<1>2. PICK f : /\ f[0] = << <<>> >>
               /\ \A i \in 1 .. n : f[i] = Cut(f[i-1], text[i])
               /\ Pieces(text) = f[n]
  BY <1>1, PiecesIs
<1>3. \A i \in 0 .. n : f[i] \in Seq(Seq(S)) /\ Len(f[i]) = 1 + CountTo(text, Separators, i)
  BY <1>1, <1>2, PiecesCount
<1>4. PICK c \in Nat \ {0} : c = 1 + CountTo(text, Separators, from)
  <2>1. CountTo(text, Separators, from) \in Nat
    BY CountToStep
  <2> QED BY <2>1
<1>5. \A i \in 1 .. n : text[i] \in S
  BY <1>1, ElementOfSeq
<1>6. \A i \in 0 .. n : f[i] \in Seq(Seq(S)) /\ Len(f[i]) \in Nat \ {0}
  <2> TAKE i \in 0 .. n
  <2>1. CountTo(text, Separators, i) \in Nat
    BY CountToStep
  <2> QED BY <1>3, <2>1
<1>7. ASSUME NEW i \in 1 .. n PROVE CutAt(f[i], f[i-1], text[i])
  <2>1. i - 1 \in 0 .. n
    OBVIOUS
  <2>2. PICK pieces \in Seq(Seq(S)) : pieces = f[i-1] /\ Len(pieces) \in Nat \ {0}
    BY <1>6, <2>1
  <2>3. PICK char \in S : char = text[i]
    BY <1>5
  <2>4. f[i] = Cut(pieces, char)
    BY <1>2, <2>2, <2>3
  <2>5. CutAt(Cut(pieces, char), pieces, char)
    BY <2>2, CutIs
  <2> QED BY <2>2, <2>3, <2>4, <2>5
<1> DEFINE Grows(k) == Len(f[from + k]) = c /\ f[from + k][c] = Part(text, from, k)
<1>8. Grows(0)
  <2>1. Part(text, from, 0) = <<>>
    BY DEF Part
  <2>2. from \in 0 .. n /\ from + 0 = from
    BY <1>1
  <2>3. Len(f[from]) = c
    BY <1>3, <1>4, <2>2
  <2>4. CASE from = 0
    <3>1. c = 1
      <4>1. CountTo(text, Separators, 0) = 0
        BY CountToStep
      <4> QED BY <1>4, <2>4, <4>1
    <3>2. f[0][1] = <<>>
      BY <1>2
    <3> QED BY <2>1, <2>2, <2>3, <2>4, <3>1, <3>2
  <2>5. CASE from # 0
    <3>1. from \in 1 .. n /\ text[from] \in Separators
      BY <2>2, <2>5
    <3>2. PICK l \in Nat : l = Len(f[from - 1])
      <4>1. from - 1 \in 0 .. n
        BY <3>1
      <4> QED BY <1>6, <4>1
    <3>3. Len(f[from]) = l + 1 /\ f[from][l + 1] = <<>>
      BY <1>7, <3>1, <3>2 DEF CutAt
    <3> QED BY <2>1, <2>2, <2>3, <3>3
  <2> QED BY <2>4, <2>5
<1>9. ASSUME NEW k \in Nat, k + 1 <= m, Grows(k) PROVE Grows(k + 1)
  <2>1. PICK i : i = from + (k + 1)
    OBVIOUS
  <2>2. i \in 1 .. n /\ i - 1 = from + k /\ from + k < Len(text)
    BY <1>1, <1>9, <2>1
  <2>3. text[i] \notin Separators
    <3>1. k + 1 \in 1 .. m
      BY <1>9
    <3> QED BY <2>1, <3>1
  <2>4. Len(f[i-1]) = c /\ f[i-1][c] = Part(text, from, k)
    BY <1>9, <2>2
  <2>5. Len(f[i]) = c /\ f[i][c] = Append(f[i-1][c], text[i])
    BY <1>7, <2>2, <2>3, <2>4 DEF CutAt
  <2>6. Append(Part(text, from, k), text[i]) = Part(text, from, k + 1)
    BY <2>1, <2>2, PartGrows
  <2> QED BY <2>1, <2>4, <2>5, <2>6
<1>10. Grows(m)
  <2> DEFINE T == {k \in Nat : k <= m => Grows(k)}
  <2> HIDE DEF Grows
  <2>1. 0 \in T /\ \A k \in T : k + 1 \in T
    BY <1>8, <1>9
  <2>2. T = Nat
    BY <2>1, Induction
  <2> QED BY <2>2
<1> DEFINE to == from + m
<1> DEFINE Stays(k) ==
      /\ f[to + k][c] = Part(text, from, m)
      /\ Len(f[to + k]) >= c /\ (k > 0 => Len(f[to + k]) > c)
<1>11. Stays(0)
  BY <1>4, <1>10
<1>12. ASSUME NEW k \in Nat, to + (k + 1) <= n, Stays(k) PROVE Stays(k + 1)
  <2>1. PICK i : i = to + (k + 1)
    OBVIOUS
  <2>2. i \in 1 .. n /\ i - 1 = to + k /\ i - 1 \in 0 .. n
    BY <1>12, <2>1
  <2>3. PICK l \in Nat : l = Len(f[i-1])
    BY <1>6, <2>2
  <2>4. f[i-1][c] = Part(text, from, m) /\ l >= c /\ (k > 0 => l > c)
    BY <1>12, <2>2, <2>3
  <2>5. CASE text[i] \in Separators
    <3>1. Len(f[i]) = l + 1 /\ \A p \in 1 .. l : f[i][p] = f[i-1][p]
      BY <1>7, <2>2, <2>3, <2>5 DEF CutAt
    <3>2. c \in 1 .. l /\ l + 1 > c /\ l + 1 >= c
      BY <2>4
    <3> QED BY <2>1, <2>4, <3>1, <3>2
  <2>6. CASE text[i] \notin Separators
    <3>1. k > 0
      <4>1. k = 0 => i = to + 1 /\ to # n
        BY <1>12, <2>1
      <4> QED BY <1>1, <2>6, <4>1
    <3>2. Len(f[i]) = l /\ \A p \in 1 .. l - 1 : f[i][p] = f[i-1][p]
      BY <1>7, <2>2, <2>3, <2>6 DEF CutAt
    <3>3. c \in 1 .. l - 1 /\ l > c
      BY <2>4, <3>1
    <3> QED BY <2>1, <2>4, <3>2, <3>3
  <2> QED BY <2>5, <2>6
<1>13. f[n][c] = Part(text, from, m)
  <2> DEFINE T == {k \in Nat : to + k <= n => Stays(k)}
  <2> HIDE DEF Stays
  <2>1. \A k \in Nat : to + k <= n => Stays(k)
    <3>1. 0 \in T
      BY <1>11
    <3>2. ASSUME NEW k \in T PROVE k + 1 \in T
      <4>1. to \in Nat /\ (to + (k + 1) <= n => to + k <= n)
        BY <1>1
      <4> HIDE DEF to
      <4> QED BY <1>12, <4>1
    <3>3. T = Nat
      BY <3>1, <3>2, Induction
    <3> QED BY <3>3
  <2>2. n - to \in Nat /\ to + (n - to) = n
    BY <1>1
  <2>3. Stays(n - to)
    <3> HIDE DEF to
    <3> QED BY <2>1, <2>2
  <2> QED BY <2>2, <2>3 DEF Stays
<1> QED BY <1>2, <1>4, <1>13


(* The text, in quotes.                                                    *)
Quotes(quoted, text) ==
    /\ Len(quoted) = Len(text) + 2 /\ quoted[1] = Quote
    /\ \A p \in 1 .. Len(text) : quoted[1 + p] = text[p]
    /\ quoted[Len(text) + 2] = Quote

(* A separator counts one, any other character nothing.                    *)
NextCounted(text, n) ==
    /\ text[n+1] \in Separators =>
         CountTo(text, Separators, n + 1) = CountTo(text, Separators, n) + 1
    /\ text[n+1] \notin Separators =>
         CountTo(text, Separators, n + 1) = CountTo(text, Separators, n)

LEMMA SeparatorNext == \A text : \A n \in Nat : NextCounted(text, n)
<1> SUFFICES ASSUME NEW text, NEW n \in Nat PROVE NextCounted(text, n)
  OBVIOUS
<1>1. PICK seps : seps = Separators
  OBVIOUS
<1>2. CountTo(text, seps, n) \in Nat
  BY CountToStep
<1>3. CountTo(text, seps, n + 1) = CountTo(text, seps, n) + (IF text[n+1] \in seps THEN 1 ELSE 0)
  BY CountToNext, Zenon
<1> QED BY <1>1, <1>2, <1>3 DEF NextCounted

(* Assignment j stands behind place b, with the comma and the space that   *)
(* glue it to the one before it, if there is one.                          *)
Stands(whole, j, b, assigned) ==
    /\ b \in Nat
    /\ \A p \in 1 .. Len(assigned) : whole[b + p] = assigned[p]
    /\ j = 1 => b = 0
    /\ j # 1 => b >= 2 /\ whole[b - 1] = "," /\ whole[b] = " "
    /\ CountTo(whole, Separators, b) = (2 * j - 2) + (IF j = 1 THEN 0 ELSE Count(realm, Separators))
    /\ j # 1 => CountTo(whole, Separators, b - 1) = (2 * j - 2) + Count(realm, Separators)
    /\ b + Len(assigned) <= Len(whole)
    /\ \/ b + Len(assigned) = Len(whole)
       \/ whole[(b + Len(assigned)) + 1] = ","

LEMMA AssignmentStands ==
    ASSUME Sending, NEW j \in 1 .. Len(Key) + Shift
    PROVE  \E b : Stands(Written, j, b, Assignments[j])
<1>1. PICK n \in Nat \ {0} : n = Len(Key) + Shift
  <2>1. Len(Key) \in Nat \ {0} /\ Shift \in {0, 1}
    BY KeysFit DEF Shift
  <2> QED BY <2>1
<1>2. PICK parts, ends : Layout(parts, ends)
  BY WrittenParts
<1>3. PICK whole, A : whole = Written /\ A = Assignments
  OBVIOUS
<1>4. PICK r \in Nat : r = Count(realm, Separators)
  BY AssignmentCounts
<1>5. /\ \A i \in 0 .. n : ends[i] \in Nat
      /\ ends[0] = 0 /\ ends[n] = Len(whole)
      /\ \A i \in 1 .. n : /\ ends[i] = ends[i-1] + Len(parts[i]) /\ ends[i] <= Len(whole)
                           /\ \A p \in 1 .. Len(parts[i]) : whole[ends[i-1] + p] = parts[i][p]
  BY <1>1, <1>2, <1>3 DEF Layout, Placed
<1>6. parts[1] = A[1] /\ \A i \in 2 .. n : Glued(parts[i], A[i])
  BY <1>1, <1>2, <1>3 DEF Layout
<1>7. \A i \in 1 .. n : CountTo(whole, Separators, ends[i]) = (2 * i - 1) + r
  BY <1>1, <1>2, <1>3, <1>4, WrittenCounts
<1>8. PICK comma, space : /\ comma = "," /\ space = " "
                          /\ comma \in Separators /\ space \notin Separators
  <2>1. "," \in Separators /\ " " \notin Separators
    BY DEF Separators
  <2> QED BY <2>1
<1>9. PICK a \in Seq(Chars), m \in Nat : a = A[j] /\ m = Len(a)
  <2>1. A[j] \in Seq(Chars)
    BY <1>3, AssignmentCounts
  <2>2. Len(A[j]) \in Nat
    BY <2>1, LenProperties
  <2> QED BY <2>1, <2>2
<1>10. j \in 1 .. n /\ j \in 0 .. n /\ j - 1 \in 0 .. n
  BY <1>1
<1>11. PICK from, to \in Nat : from = ends[j-1] /\ to = ends[j] /\ to <= Len(whole)
  BY <1>5, <1>10
<1>12. to = Len(whole) \/ whole[to + 1] = comma
  <2>1. CASE j = n
    BY <1>5, <1>11, <2>1
  <2>2. CASE j # n
    <3>1. PICK i \in 2 .. n : i = j + 1 /\ i - 1 = j
      BY <1>10, <2>2
    <3>2. PICK part : part = parts[i]
      OBVIOUS
    <3>3. Len(part) = Len(A[i]) + 2 /\ part[1] = comma
      BY <1>6, <1>8, <3>2 DEF Glued
    <3>4. Len(A[i]) \in Nat
      <4>1. A[i] \in Seq(Chars)
        BY <1>1, <1>3, AssignmentCounts
      <4> QED BY <4>1, LenProperties
    <3>5. 1 \in 1 .. Len(part) /\ i \in 1 .. n
      BY <3>3, <3>4
    <3>6. whole[ends[i-1] + 1] = part[1]
      BY <1>5, <3>2, <3>5
    <3> QED BY <1>11, <3>1, <3>3, <3>6
  <2> QED BY <2>1, <2>2
<1>13. CASE j = 1
  <2>1. from = 0 /\ to = m /\ \A p \in 1 .. m : whole[0 + p] = a[p]
    BY <1>5, <1>6, <1>9, <1>10, <1>11, <1>13
  <2>2. CountTo(whole, Separators, 0) = 0
    BY CountToStep
  <2>4. PICK b \in Nat : b = 0
    OBVIOUS
  <2>5. /\ \A p \in 1 .. Len(a) : whole[b + p] = a[p]
        /\ CountTo(whole, Separators, b) = 0
        /\ b + Len(a) = to /\ to <= Len(whole)
    BY <1>9, <1>11, <2>1, <2>2, <2>4
  <2>6. to = Len(whole) \/ whole[to + 1] = ","
    BY <1>8, <1>12
  <2>3. Stands(whole, j, b, a)
    <3>1. 2 * j - 2 = 0
      BY <1>13
    <3>2. CountTo(whole, Separators, b) =
            (2 * j - 2) + (IF j = 1 THEN 0 ELSE Count(realm, Separators))
      BY <1>13, <2>5, <3>1
    <3>3. b + Len(a) <= Len(whole)
      BY <2>5
    <3>4. b + Len(a) = Len(whole) \/ whole[(b + Len(a)) + 1] = ","
      BY <2>5, <2>6
    <3> QED BY <1>13, <2>4, <2>5, <3>2, <3>3, <3>4 DEF Stands
  <2> QED BY <1>3, <1>9, <2>3
<1>14. CASE j # 1
  <2>1. PICK part : part = parts[j]
    OBVIOUS
  <2>2. /\ Len(part) = m + 2 /\ part[1] = comma /\ part[2] = space
        /\ \A p \in 1 .. m : part[2 + p] = a[p]
    <3>1. j \in 2 .. n
      BY <1>10, <1>14
    <3>2. Glued(part, a)
      BY <1>6, <1>9, <2>1, <3>1
    <3> QED BY <1>8, <1>9, <3>2 DEF Glued
  <2>3. to = from + (m + 2) /\ \A p \in 1 .. m + 2 : whole[from + p] = part[p]
    BY <1>5, <1>10, <1>11, <2>1, <2>2
  <2>4. PICK b \in Nat : b = from + 2
    OBVIOUS
  <2>5. ASSUME NEW p \in 1 .. m PROVE whole[b + p] = a[p]
    <3>1. 2 + p \in 1 .. m + 2 /\ b + p = from + (2 + p)
      BY <2>4
    <3> QED BY <2>2, <2>3, <3>1
  <2>6. whole[b - 1] = comma /\ whole[b] = space
    <3>1. 1 \in 1 .. m + 2 /\ 2 \in 1 .. m + 2 /\ b - 1 = from + 1 /\ b = from + 2
      BY <2>4
    <3> QED BY <2>2, <2>3, <3>1
  <2>7. CountTo(whole, Separators, from) = (2 * j - 3) + r
    <3>1. j - 1 \in 1 .. n
      BY <1>10, <1>14
    <3>2. CountTo(whole, Separators, from) = (2 * (j - 1) - 1) + r
      BY <1>7, <1>11, <3>1
    <3> QED BY <3>2
  <2>8. CountTo(whole, Separators, b - 1) = (2 * j - 2) + r
    <3>1. NextCounted(whole, from)
      BY SeparatorNext
    <3>3. from + 1 = b - 1
      BY <2>4
    <3>2. whole[from + 1] \in Separators /\ from + 1 = b - 1
      BY <1>8, <2>6, <3>3
    <3> QED BY <2>7, <3>1, <3>2 DEF NextCounted
  <2>9. CountTo(whole, Separators, b) = (2 * j - 2) + r
    <3>1. PICK k \in Nat : k = b - 1 /\ k + 1 = b
      BY <2>4
    <3>2. NextCounted(whole, k)
      BY SeparatorNext
    <3>3. whole[k + 1] \notin Separators
      BY <1>8, <2>6, <3>1
    <3> QED BY <2>8, <3>1, <3>2, <3>3 DEF NextCounted
  <2>10. b + m = to
    BY <2>3, <2>4
  <2>11. Stands(whole, j, b, a)
    <3>1. /\ \A p \in 1 .. Len(a) : whole[b + p] = a[p]
          /\ b >= 2 /\ b + Len(a) = to /\ to <= Len(whole)
      BY <1>9, <1>11, <2>4, <2>5, <2>10
    <3>2. whole[b - 1] = "," /\ whole[b] = " " /\ (to = Len(whole) \/ whole[to + 1] = ",")
      BY <1>8, <1>12, <2>6
    <3> QED BY <1>4, <1>14, <2>8, <2>9, <3>1, <3>2 DEF Stands
  <2> QED BY <1>3, <1>9, <2>11
<1> QED BY <1>13, <1>14

(* The name and the value of a parameter are pieces of the header; behind  *)
(* the realm's, names have odd places when the realm's are even in number. *)
LEMMA WrittenPieces ==
    ASSUME Sending, NEW i \in 1 .. Len(Key), NEW j, j = i + Shift
    PROVE  LET name  == Pieces(Written)[(2 * j - 1) + Count(realm, Separators)]
               value == Pieces(Written)[2 * j + Count(realm, Separators)]
           IN /\ name = <<Key[i]>> \/ name = <<" ", Key[i]>>
              /\ value \in Seq(Chars) /\ Quotes(value, Escape(sent[Key[i]]))
<1>1. PICK n \in Nat \ {0} : n = Len(Key)
  BY KeysFit
<1>2. j \in 1 .. Len(Key) + Shift /\ j \in Nat \ {0} /\ Shift \in {0, 1}
  BY <1>1 DEF Shift
<1>3. PICK whole \in Seq(Chars) : whole = Written
  BY WrittenParts
<1>4. PICK r \in Nat : r = Count(realm, Separators)
  BY AssignmentCounts
<1>5. j = 1 => r = 0
  <2> HAVE j = 1
  <2>1. realm = <<>>
    BY <1>2 DEF Shift
  <2>2. PICK text \in Seq(Chars) : text = realm
    BY TextsAreTexts DEF Sending
  <2>3. Len(text) = 0
    BY <2>1, <2>2, EmptySeq
  <2>4. Count(text, Separators) = CountTo(text, Separators, Len(text))
    BY CountIs
  <2>5. CountTo(text, Separators, 0) = 0
    BY CountToStep
  <2> QED BY <1>4, <2>2, <2>3, <2>4, <2>5
<1>6. PICK key \in Range(Key) : key = Key[i] /\ key \in Chars /\ key \notin Separators
  BY KeysFit, NamesFit
<1>7. PICK escaped \in Seq(Chars), l \in Nat : /\ escaped = Escape(sent[key]) /\ l = Len(escaped)
                                               /\ \A p \in 1 .. l : escaped[p] \notin Separators
  <2>1. sent[key] \in Text
    BY DEF Sending
  <2>2. PICK escaped : escaped = Escape(sent[key])
    OBVIOUS
  <2>3. escaped \in Seq(Chars) /\ escaped \in Seq(Escaped(Texts))
    BY <2>1, <2>2, TextsAreTexts
  <2>4. PICK l \in Nat : l = Len(escaped)
    BY <2>3, LenProperties
  <2>5. \A p \in 1 .. l : escaped[p] \in Escaped(Texts)
    BY <2>3, <2>4, ElementOfSeq
  <2>6. \A p \in 1 .. l : escaped[p] \notin Separators
    BY <2>5 DEF Escaped
  <2> QED BY <2>2, <2>3, <2>4, <2>6
<1>8. PICK a : a = Assignments[j]
  OBVIOUS
<1>9. /\ Len(a) = l + 4 /\ a[1] = key /\ a[2] = "=" /\ a[3] = Quote
      /\ \A p \in 1 .. l : a[3 + p] = escaped[p]
      /\ a[l + 4] = Quote
  <2>1. a = Assign(key, escaped)
    BY <1>6, <1>7, <1>8, AssignmentsAre
  <2>2. Assigns(a, key, escaped)
    BY <1>6, <2>1, AssignIs
  <2> QED BY <1>7, <2>2 DEF Assigns
<1>10. PICK equals, comma, space :
         /\ equals = "=" /\ comma = "," /\ space = " "
         /\ equals \in Separators /\ comma \in Separators /\ space \notin Separators
         /\ Quote \notin Separators
  <2>1. "=" \in Separators /\ "," \in Separators /\ " " \notin Separators /\ Quote \notin Separators
    BY DEF Separators, Quote
  <2> QED BY <2>1
<1>11. PICK b \in Nat : Stands(whole, j, b, a)
  <2>1. \E b : Stands(whole, j, b, a)
    BY <1>2, <1>3, <1>8, AssignmentStands
  <2> QED BY <2>1 DEF Stands
<1>12. /\ \A p \in 1 .. l + 4 : whole[b + p] = a[p]
       /\ b + (l + 4) <= Len(whole)
       /\ b + (l + 4) = Len(whole) \/ whole[(b + (l + 4)) + 1] = comma
       /\ CountTo(whole, Separators, b) = (2 * j - 2) + r
  BY <1>2, <1>4, <1>5, <1>9, <1>10, <1>11 DEF Stands
<1>13. whole[b + 1] = key /\ whole[b + 2] = equals
  <2>1. 1 \in 1 .. l + 4 /\ 2 \in 1 .. l + 4
    OBVIOUS
  <2> QED BY <1>9, <1>10, <1>12, <2>1
<1>14. PICK N \in Nat : N = Len(whole)
  BY LenProperties
<1>15. /\ Pieces(whole)[(2 * j - 1) + r] = <<key>> \/ Pieces(whole)[(2 * j - 1) + r] = <<space, key>>
  <2>1. CASE j = 1
    <3>1. b = 0 /\ CountTo(whole, Separators, 0) = 0
      BY <1>11, <2>1, CountToStep DEF Stands
    <3>2. \A p \in 1 .. 1 : whole[0 + p] \notin Separators
      <4>1. \A p \in 1 .. 1 : 0 + p = b + 1
        BY <3>1
      <4> QED BY <1>6, <1>13, <4>1
    <3>3. whole[(0 + 1) + 1] \in Separators /\ 0 + 1 <= Len(whole)
      <4>1. (0 + 1) + 1 = b + 2 /\ 0 + 1 <= b + (l + 4)
        BY <3>1
      <4>2. whole[(0 + 1) + 1] \in Separators
        BY <1>10, <1>13, <4>1
      <4>3. 0 + 1 <= N
        BY <1>12, <1>14, <4>1
      <4> QED BY <1>14, <4>2, <4>3
    <3>4. Pieces(whole)[1 + CountTo(whole, Separators, 0)] = Part(whole, 0, 1)
      BY <3>2, <3>3, PieceFound
    <3>5. Part(whole, 0, 1) = <<key>>
      <4>1. whole[0 + 1] = key
        BY <1>13, <3>1
      <4> QED BY <4>1 DEF Part
    <3>6. 1 + CountTo(whole, Separators, 0) = (2 * j - 1) + r
      BY <1>5, <2>1, <3>1
    <3> QED BY <3>4, <3>5, <3>6
  <2>2. CASE j # 1
    <3>1. PICK from \in Nat : from = b - 1 /\ whole[from] = comma /\ whole[from + 1] = space
      <4>1. b >= 2 /\ whole[b - 1] = comma /\ whole[b] = space
        BY <1>10, <1>11, <2>2 DEF Stands
      <4>2. b - 1 \in Nat /\ (b - 1) + 1 = b
        BY <4>1
      <4> QED BY <4>1, <4>2
    <3>2. from + 2 = b + 1 /\ (from + 2) + 1 = b + 2 /\ from + 2 <= Len(whole)
      BY <1>12, <1>14, <3>1
    <3>3. whole[from + 2] = key /\ whole[(from + 2) + 1] = equals
      BY <1>13, <3>2
    <3>4. \A p \in 1 .. 2 : whole[from + p] \notin Separators
      <4>1. \A p \in 1 .. 2 : p = 1 \/ p = 2
        OBVIOUS
      <4> QED BY <1>6, <1>10, <3>1, <3>3, <4>1
    <3>5. Pieces(whole)[1 + CountTo(whole, Separators, from)] = Part(whole, from, 2)
      BY <1>10, <3>1, <3>2, <3>3, <3>4, PieceFound
    <3>6. Part(whole, from, 2) = <<space, key>>
      BY <3>1, <3>3 DEF Part
    <3>7. CountTo(whole, Separators, from) = (2 * j - 2) + r
      BY <1>4, <1>11, <2>2, <3>1 DEF Stands
    <3>8. 1 + CountTo(whole, Separators, from) = (2 * j - 1) + r
      BY <1>2, <3>7
    <3> QED BY <3>5, <3>6, <3>8
  <2> QED BY <2>1, <2>2
<1>16. PICK value : value = Part(whole, b + 2, l + 2)
  OBVIOUS
<1>17. Pieces(whole)[2 * j + r] = value
  <2>1. PICK from, m \in Nat : from = b + 2 /\ m = l + 2
    OBVIOUS
  <2>2. whole[from] \in Separators
    BY <1>10, <1>13, <2>1
  <2>3. ASSUME NEW p \in 1 .. m PROVE whole[from + p] \notin Separators
    <3>1. PICK q : q = 2 + p
      OBVIOUS
    <3>2. q \in 3 .. l + 4 /\ from + p = b + q /\ q \in 1 .. l + 4
      BY <2>1, <3>1
    <3>3. whole[from + p] = a[q]
      BY <1>12, <3>2
    <3>4. CASE q = 3 \/ q = l + 4
      BY <1>9, <1>10, <3>3, <3>4
    <3>5. CASE q # 3 /\ q # l + 4
      <4>1. PICK o : o = q - 3
        OBVIOUS
      <4>2. o \in 1 .. l /\ q = 3 + o
        BY <3>2, <3>5, <4>1
      <4> QED BY <1>7, <1>9, <3>3, <4>2
    <3> QED BY <3>4, <3>5
  <2>4. from + m = b + (l + 4)
    BY <2>1
  <2>5. from + m <= Len(whole) /\ (from + m = Len(whole) \/ whole[(from + m) + 1] \in Separators)
    BY <1>10, <1>12, <2>4
  <2>6. Pieces(whole)[1 + CountTo(whole, Separators, from)] = Part(whole, from, m)
    BY <2>2, <2>3, <2>5, PieceFound
  <2>7. CountTo(whole, Separators, b + 1) = (2 * j - 2) + r
    <3>1. NextCounted(whole, b)
      BY SeparatorNext
    <3> QED BY <1>2, <1>6, <1>12, <1>13, <3>1 DEF NextCounted
  <2>8. CountTo(whole, Separators, from) = (2 * j - 1) + r
    <3>1. PICK k \in Nat : k = b + 1 /\ k + 1 = from
      BY <2>1
    <3>2. NextCounted(whole, k)
      BY SeparatorNext
    <3> QED BY <1>2, <1>4, <2>2, <2>7, <3>1, <3>2 DEF NextCounted
  <2>9. 1 + CountTo(whole, Separators, from) = 2 * j + r
    BY <1>2, <2>8
  <2> QED BY <1>16, <2>1, <2>6, <2>9
<1>18. value \in Seq(Chars) /\ Len(value) = l + 2 /\ \A p \in 1 .. l + 2 : value[p] = a[2 + p]
  <2>1. ASSUME NEW p \in 1 .. l + 2
        PROVE  whole[(b + 2) + p] = a[2 + p] /\ whole[(b + 2) + p] \in Chars
    <3>1. 2 + p \in 1 .. l + 4 /\ (b + 2) + p = b + (2 + p) /\ (b + 2) + p \in 1 .. N
      BY <1>12, <1>14
    <3> QED BY <1>12, <1>14, <3>1, ElementOfSeq
  <2>2. value = [p \in 1 .. l + 2 |-> whole[(b + 2) + p]]
    BY <1>16 DEF Part
  <2>3. \A p \in 1 .. l + 2 : value[p] = a[2 + p] /\ value[p] \in Chars
    BY <2>1, <2>2
  <2>4. PICK m \in Nat : m = l + 2
    OBVIOUS
  <2>5. value = [p \in 1 .. m |-> whole[(b + 2) + p]] /\ \A p \in 1 .. m : whole[(b + 2) + p] \in Chars
    BY <2>1, <2>2, <2>4
  <2>6. value \in Seq(Chars) /\ Len(value) = m
    BY <2>5
  <2> QED BY <2>3, <2>4, <2>6
<1>19. Quotes(value, escaped)
  <2>1. value[1] = Quote /\ value[l + 2] = Quote
    <3>1. 1 \in 1 .. l + 2 /\ l + 2 \in 1 .. l + 2 /\ 2 + (l + 2) = l + 4 /\ 2 + 1 = 3
      OBVIOUS
    <3> QED BY <1>9, <1>18, <3>1
  <2>2. ASSUME NEW p \in 1 .. l PROVE value[1 + p] = escaped[p]
    <3>1. 1 + p \in 1 .. l + 2 /\ 2 + (1 + p) = 3 + p
      OBVIOUS
    <3> QED BY <1>9, <1>18, <3>1
  <2> QED BY <1>7, <1>18, <2>1, <2>2 DEF Quotes
<1> QED BY <1>3, <1>4, <1>6, <1>7, <1>10, <1>15, <1>17, <1>18, <1>19

-----------------------------------------------------------------------------
(* What parse_header makes of a piece.                                     *)
Ink(char) == char \notin {" ", Newline}

LEMMA StripIs ==
    ASSUME NEW S, NEW text \in Seq(S), NEW first \in 1 .. Len(text),
           Ink(text[first]), Ink(text[Len(text)]), \A p \in 1 .. first - 1 : ~Ink(text[p])
    PROVE  Strip(text) = SubSeq(text, first, Len(text))
<1>1. PICK n \in Nat : n = Len(text) /\ DOMAIN text = 1 .. n
  BY LenProperties
<1>2. PICK ink : ink = {i \in DOMAIN text : text[i] \notin {" ", Newline}}
  OBVIOUS
<1>3. ink = {i \in 1 .. n : Ink(text[i])}
  BY <1>1, <1>2 DEF Ink
<1>4. first \in ink /\ n \in ink /\ ink \subseteq 1 .. n /\ \A i \in ink : first <= i
  <2>1. first \in 1 .. n /\ n \in 1 .. n
    BY <1>1
  <2>2. ASSUME NEW i \in 1 .. n, Ink(text[i]) PROVE first <= i
    BY <2>1, <2>2
  <2> QED BY <1>1, <1>3, <2>1, <2>2
<1>5. Min(ink) = first
  <2>1. PICK low : low = CHOOSE x \in ink : \A y \in ink : x =< y
    OBVIOUS
  <2>2. low \in ink /\ \A y \in ink : low =< y
    BY <1>4, <2>1
  <2>3. low \in 1 .. n /\ low <= first /\ first <= low
    BY <1>4, <2>2
  <2>4. low = first
    BY <2>3
  <2> QED BY <2>1, <2>4 DEF Min
<1>6. Max(ink) = n
  <2>1. PICK high : high = CHOOSE x \in ink : \A y \in ink : x >= y
    OBVIOUS
  <2>2. \A y \in ink : n >= y
    BY <1>4
  <2>3. high \in ink /\ \A y \in ink : high >= y
    BY <1>4, <2>1, <2>2
  <2>4. high \in 1 .. n /\ high >= n
    BY <1>4, <2>3
  <2>5. high = n
    BY <2>4
  <2> QED BY <2>1, <2>5 DEF Max
<1>7. ink # {}
  BY <1>4
<1> QED BY <1>1, <1>2, <1>5, <1>6, <1>7 DEF Strip

LEMMA OneCharacter == \A char : <<char>> \in Seq({char}) /\ Len(<<char>>) = 1 /\ <<char>>[1] = char
  OBVIOUS

LEMMA TwoCharacters ==
    \A a, b : /\ <<a, b>> \in Seq({a, b}) /\ Len(<<a, b>>) = 2
              /\ <<a, b>>[1] = a /\ <<a, b>>[2] = b
              /\ SubSeq(<<a, b>>, 2, 2) = <<b>>
<1> TAKE a, b
<1>1. PICK text : text = <<a, b>>
  OBVIOUS
<1>2. text \in Seq({a, b}) /\ Len(text) = 2 /\ text[1] = a /\ text[2] = b
  BY <1>1
<1>3. PICK n \in Int : n = 2
  OBVIOUS
<1>4. PICK sub : sub = SubSeq(text, n, n)
  OBVIOUS
<1>5. \A i \in n .. n : text[i] \in {b}
  BY <1>2, <1>3
<1>6. sub \in Seq({b}) /\ Len(sub) = (IF n <= n THEN n-n+1 ELSE 0)
      /\ \A i \in 1 .. n-n+1 : sub[i] = text[n+i-1]
  BY <1>4, <1>5, SubSeqProperties
<1>7. Len(sub) = 1 /\ sub[1] = b
  BY <1>2, <1>3, <1>6
<1>8. sub = <<b>>
  BY <1>6, <1>7
<1> QED BY <1>1, <1>2, <1>3, <1>4, <1>8

(* A name has nothing to decode and no quotes.                             *)
LEMMA NameDecoded ==
    ASSUME NEW key, key # "%", key # "+"
    PROVE  Unescape(<<key>>) = <<key>>
<1>1. PICK S : S = {key}
  OBVIOUS
<1>2. PICK text : text = <<key>>
  OBVIOUS
<1>3. text \in Seq(S) /\ Len(text) = 1 /\ text[1] = key
  BY <1>1, <1>2, OneCharacter
<1>4. Unescape(text) = Decode(text)
  BY <1>1, <1>3, PlusesDecoded
<1>5. PICK parts : parts = <<text>>
  OBVIOUS
<1>6. Len(parts) = 1 /\ parts[1] = text
  BY <1>5, OneCharacter
<1>7. PICK ends : ends = [i \in 0 .. 1 |-> i]
  OBVIOUS
<1>8. Placed(parts, text, ends)
  <2>1. ends \in [0 .. 1 -> Nat] /\ ends[0] = 0 /\ ends[1] = 1
    BY <1>7
  <2>2. /\ ends[1] = ends[1-1] + Len(parts[1]) /\ ends[1] <= Len(text)
        /\ \A p \in 1 .. Len(parts[1]) : text[ends[1-1] + p] = parts[1][p]
    <3>1. \A p \in 1 .. 1 : text[0 + p] = text[p]
      OBVIOUS
    <3>2. 1 - 1 = 0 /\ 1 = 0 + 1 /\ 1 <= 1
      OBVIOUS
    <3> QED BY <1>3, <1>6, <2>1, <3>1, <3>2
  <2>3. \A i \in 1 .. 1 : i = 1
    OBVIOUS
  <2> QED BY <1>3, <1>6, <2>1, <2>2, <2>3 DEF Placed
<1>9. Coded(text, key)
  BY <1>2 DEF Coded
<1>10. Len(parts) = Len(text) /\ \A i \in 1 .. Len(text) : Coded(parts[i], text[i])
  <2>1. \A i \in 1 .. 1 : i = 1
    OBVIOUS
  <2> QED BY <1>3, <1>6, <1>9, <2>1
<1>11. Decode(text) = text
  BY <1>3, <1>8, <1>10, DecodeCodes
<1> QED BY <1>2, <1>4, <1>11

LEMMA NameStripped ==
    ASSUME NEW key, Ink(key)
    PROVE  Strip(<<key>>) = <<key>> /\ Strip(<<" ", key>>) = <<key>>
<1>1. Strip(<<key>>) = <<key>>
  <2>1. PICK text : text = <<key>>
    OBVIOUS
  <2>2. text \in Seq({key}) /\ Len(text) = 1 /\ text[1] = key
    BY <2>1, OneCharacter
  <2>3. 1 \in 1 .. Len(text) /\ \A p \in 1 .. 1 - 1 : ~Ink(text[p])
    BY <2>2
  <2>4. Strip(text) = SubSeq(text, 1, Len(text))
    BY <2>2, <2>3, StripIs
  <2>5. SubSeq(text, 1, Len(text)) = text
    BY <2>2, SubSeqFull
  <2> QED BY <2>1, <2>4, <2>5
<1>2. Strip(<<" ", key>>) = <<key>>
  <2>1. PICK space : space = " "
    OBVIOUS
  <2>2. ~Ink(space)
    BY <2>1 DEF Ink
  <2>3. PICK text : text = <<space, key>>
    OBVIOUS
  <2>4. /\ text \in Seq({space, key}) /\ Len(text) = 2 /\ text[1] = space /\ text[2] = key
        /\ SubSeq(text, 2, 2) = <<key>>
    BY <2>3, TwoCharacters
  <2>5. \A p \in 1 .. 2 - 1 : p = 1
    OBVIOUS
  <2>6. 2 \in 1 .. Len(text) /\ \A p \in 1 .. 2 - 1 : ~Ink(text[p])
    BY <2>2, <2>4, <2>5
  <2>7. Strip(text) = SubSeq(text, 2, Len(text))
    BY <2>4, <2>6, StripIs
  <2> QED BY <2>1, <2>3, <2>4, <2>7
<1> QED BY <1>1, <1>2

Clean(text) == Unquote(Unescape(Strip(text)))

LEMMA NameCleaned ==
    ASSUME NEW key \in Range(Key)
    PROVE  Clean(<<key>>) = <<key>> /\ Clean(<<" ", key>>) = <<key>>
<1>1. Ink(key) /\ key # "%" /\ key # "+"
  BY NamesFit DEF Ink
<1>2. Strip(<<key>>) = <<key>> /\ Strip(<<" ", key>>) = <<key>>
  BY <1>1, NameStripped
<1>3. Unescape(<<key>>) = <<key>>
  BY <1>1, NameDecoded
<1>4. PICK name : name = <<key>>
  OBVIOUS
<1>5. Unquote(name) = name
  <2>1. DOMAIN name = {1}
    BY <1>4
  <2>2. \A ij \in {1} \X {1} : ~(ij[1] < ij[2])
    OBVIOUS
  <2>3. \A ij \in (DOMAIN name) \X (DOMAIN name) : ~(ij[1] < ij[2])
    BY <2>1, <2>2
  <2>4. QuotedLines(name) = {}
    BY <2>3 DEF QuotedLines
  <2> QED BY <2>4 DEF Unquote
<1> QED BY <1>2, <1>3, <1>4, <1>5 DEF Clean

(* A value is decoded between its quotes.                                  *)
LEMMA QuotedDecoded ==
    ASSUME NEW S, NEW text \in Seq(S), NEW C, NEW quoted \in Seq(C), Quotes(quoted, Escape(text))
    PROVE  \E back \in Seq(S \cup {Quote}) : Unescape(quoted) = back /\ Quotes(back, text)
<1>1. PICK n \in Nat : n = Len(text)
  BY LenProperties
<1>2. PICK escaped \in Seq(Escaped(S)) : escaped = Escape(text)
  BY EscapePlaced
<1>3. PICK codes, ends :
        /\ Placed(codes, escaped, ends) /\ Len(codes) = n
        /\ \A i \in 1 .. n : codes[i] = Code(text[i])
  BY <1>1, <1>2, EscapePlaced
<1>4. PICK l \in Nat : l = Len(escaped)
  BY LenProperties
<1>5. /\ Len(quoted) = l + 2 /\ quoted[1] = Quote /\ quoted[l + 2] = Quote
      /\ \A p \in 1 .. l : quoted[1 + p] = escaped[p]
  BY <1>2, <1>4 DEF Quotes
<1>6. PICK D : D = Escaped(S) \cup {Quote}
  OBVIOUS
<1>7. quoted \in Seq(D)
  <2>1. ASSUME NEW p \in 1 .. l + 2 PROVE quoted[p] \in D
    <3>1. CASE p = 1 \/ p = l + 2
      BY <1>5, <1>6, <3>1
    <3>2. CASE p # 1 /\ p # l + 2
      <4>1. PICK q : q = p - 1
        OBVIOUS
      <4>2. q \in 1 .. l /\ p = 1 + q
        BY <3>2, <4>1
      <4>3. escaped[q] \in Escaped(S)
        BY <1>4, <4>2, ElementOfSeq
      <4> QED BY <1>5, <1>6, <4>2, <4>3
    <3> QED BY <3>1, <3>2
  <2>2. PICK N \in Nat : N = l + 2
    OBVIOUS
  <2>3. quoted \in [1 .. N -> C]
    BY <1>5, <2>2, LenProperties
  <2>4. quoted \in [1 .. N -> D]
    BY <2>1, <2>2, <2>3
  <2> QED BY <2>4
<1>8. "+" \notin D
  BY <1>6 DEF Escaped, Quote
<1>9. Unescape(quoted) = Decode(quoted)
  BY <1>7, <1>8, PlusesDecoded
<1>10. PICK N \in Nat : N = n + 2
  OBVIOUS
<1>11. PICK back : back = [p \in 1 .. N |-> IF p = 1 \/ p = N THEN Quote ELSE text[p - 1]]
  OBVIOUS
<1>12. back \in Seq(S \cup {Quote}) /\ Len(back) = N
  <2>1. ASSUME NEW p \in 1 .. N PROVE back[p] \in S \cup {Quote}
    <3>1. CASE p = 1 \/ p = N
      BY <1>11, <3>1
    <3>2. CASE p # 1 /\ p # N
      <4>1. p - 1 \in 1 .. n
        BY <1>10, <3>2
      <4>2. text[p - 1] \in S
        BY <1>1, <4>1, ElementOfSeq
      <4> QED BY <1>11, <3>2, <4>2
    <3> QED BY <3>1, <3>2
  <2>2. back \in [1 .. N -> S \cup {Quote}]
    BY <1>11, <2>1
  <2> QED BY <2>2
<1>13. Quotes(back, text)
  <2>1. back[1] = Quote /\ back[n + 2] = Quote
    BY <1>10, <1>11
  <2>2. ASSUME NEW p \in 1 .. n PROVE back[1 + p] = text[p]
    <3>1. 1 + p \in 1 .. N /\ 1 + p # 1 /\ 1 + p # N /\ (1 + p) - 1 = p
      BY <1>10
    <3> QED BY <1>11, <3>1
  <2> QED BY <1>1, <1>10, <1>12, <2>1, <2>2 DEF Quotes
<1>14. PICK mark : mark = <<Quote>>
  OBVIOUS
<1>15. Len(mark) = 1 /\ mark[1] = Quote
  BY <1>14
<1>16. Coded(mark, Quote)
  <2>1. Quote # "%"
    BY DEF Quote
  <2> QED BY <1>14, <2>1 DEF Coded
<1>17. PICK parts : parts = [i \in 1 .. N |-> IF i = 1 \/ i = N THEN mark ELSE codes[i - 1]]
  OBVIOUS
<1>18. PICK places : places = [i \in 0 .. N |-> IF i = 0 THEN 0 ELSE IF i = N THEN l + 2
                                               ELSE 1 + ends[i - 1]]
  OBVIOUS
<1>19. /\ \A i \in 0 .. n : ends[i] \in Nat
       /\ ends[0] = 0 /\ ends[n] = l
       /\ \A i \in 1 .. n : /\ ends[i] = ends[i-1] + Len(codes[i]) /\ ends[i] <= l
                            /\ \A p \in 1 .. Len(codes[i]) : escaped[ends[i-1] + p] = codes[i][p]
  BY <1>3, <1>4 DEF Placed
<1>20. places[0] = 0 /\ places[N] = l + 2
  BY <1>10, <1>18
<1>21. \A i \in 0 .. n : places[i + 1] = 1 + ends[i]
  <2> TAKE i \in 0 .. n
  <2>1. PICK j : j = i + 1
    OBVIOUS
  <2>2. j \in 0 .. N /\ j # 0 /\ j # N /\ j - 1 = i
    BY <1>10, <2>1
  <2> QED BY <1>18, <2>1, <2>2
<1>22. places \in [0 .. N -> Nat]
  <2>1. ASSUME NEW i \in 0 .. N PROVE places[i] \in Nat
    <3>1. CASE i = 0 \/ i = N
      BY <1>18, <3>1
    <3>2. CASE i # 0 /\ i # N
      <4>1. i - 1 \in 0 .. n
        BY <1>10, <3>2
      <4> QED BY <1>18, <1>19, <3>2, <4>1
    <3> QED BY <3>1, <3>2
  <2> QED BY <1>18, <2>1
<1>23. ASSUME NEW i \in 1 .. N
       PROVE  /\ places[i] = places[i-1] + Len(parts[i]) /\ places[i] <= Len(quoted)
              /\ \A p \in 1 .. Len(parts[i]) : quoted[places[i-1] + p] = parts[i][p]
              /\ Coded(parts[i], back[i])
  <2>1. CASE i = 1
    <3>1. places[1] = 1 /\ places[0] = 0 /\ parts[1] = mark /\ back[1] = Quote
      <4>1. 0 \in 0 .. n /\ 0 + 1 = 1
        OBVIOUS
      <4> QED BY <1>10, <1>11, <1>17, <1>19, <1>20, <1>21, <4>1
    <3>2. Coded(mark, Quote)
      BY <1>16
    <3>3. \A p \in 1 .. Len(mark) : 0 + p = 1 /\ mark[p] = Quote
      BY <1>15
    <3>4. 1 = 0 + 1 /\ 1 <= l + 2 /\ i - 1 = 0
      BY <2>1
    <3> QED BY <1>5, <1>15, <2>1, <3>1, <3>2, <3>3, <3>4
  <2>2. CASE i = N
    <3>1. places[i] = l + 2 /\ places[i-1] = l + 1 /\ parts[i] = mark /\ back[i] = Quote
      <4>1. n \in 0 .. n /\ n + 1 = i - 1
        BY <1>10, <2>2
      <4>2. places[n + 1] = 1 + l
        BY <1>19, <1>21, <4>1
      <4> QED BY <1>11, <1>17, <1>20, <2>2, <4>1, <4>2
    <3>2. Coded(mark, Quote)
      BY <1>16
    <3>3. \A p \in 1 .. Len(mark) : (l + 1) + p = l + 2 /\ mark[p] = Quote
      BY <1>15
    <3>4. l + 2 = (l + 1) + 1 /\ l + 2 <= l + 2
      OBVIOUS
    <3>5. \A p \in 1 .. Len(mark) : quoted[(l + 1) + p] = mark[p]
      BY <1>5, <3>3
    <3> QED BY <1>5, <1>15, <3>1, <3>2, <3>4, <3>5
  <2>3. CASE i # 1 /\ i # N
    <3>1. PICK j \in 1 .. n : j = i - 1 /\ j + 1 = i
      BY <1>10, <2>3
    <3>2. PICK code : code = codes[j]
      OBVIOUS
    <3>3. parts[i] = code /\ back[i] = text[j] /\ code = Code(text[j])
      BY <1>3, <1>11, <1>17, <2>3, <3>1, <3>2
    <3>4. j \in 0 .. n /\ j - 1 \in 0 .. n
      OBVIOUS
    <3>5. PICK from, to \in Nat : from = ends[j-1] /\ to = ends[j]
      BY <1>19, <3>4
    <3>6. places[i] = 1 + to /\ places[i-1] = 1 + from
      <4>1. places[(j - 1) + 1] = 1 + ends[j-1] /\ places[j + 1] = 1 + ends[j]
        BY <1>21, <3>4
      <4>2. (j - 1) + 1 = i - 1
        BY <3>1
      <4> QED BY <3>1, <3>5, <4>1, <4>2
    <3>7. PICK m \in Nat : m = Len(code) /\ to = from + m /\ to <= l
      <4>1. ends[j] = ends[j-1] + Len(code) /\ ends[j] <= l
        BY <1>19, <3>2
      <4>2. Len(code) \in Nat
        <5>1. \/ \E sp \in Special : code = <<"%", sp[2], sp[3]>>
              \/ code = <<text[j]>>
          BY <3>3 DEF Code
        <5> QED BY <5>1
      <4> QED BY <3>5, <4>1, <4>2
    <3>8. ASSUME NEW p \in 1 .. m PROVE quoted[(1 + from) + p] = code[p]
      <4>1. escaped[from + p] = code[p]
        BY <1>19, <3>2, <3>5, <3>7
      <4>2. from + p \in 1 .. l /\ 1 + (from + p) = (1 + from) + p
        BY <3>7
      <4> QED BY <1>5, <4>1, <4>2
    <3>9. Coded(code, text[j])
      BY <3>3, CodeShape DEF Coded
    <3>10. 1 + to = (1 + from) + m /\ 1 + to <= l + 2
      BY <3>7
    <3> QED BY <1>5, <3>3, <3>6, <3>7, <3>8, <3>9, <3>10
  <2> QED BY <2>1, <2>2, <2>3
<1>24. Len(parts) = N
  BY <1>17
<1>25. Placed(parts, quoted, places)
  BY <1>5, <1>20, <1>22, <1>23, <1>24 DEF Placed
<1>26. Decode(quoted) = back
  <2>1. Len(parts) = Len(back) /\ \A i \in 1 .. Len(back) : Coded(parts[i], back[i])
    BY <1>12, <1>23, <1>24
  <2> QED BY <1>7, <1>12, <1>25, <2>1, DecodeCodes
<1> QED BY <1>9, <1>12, <1>13, <1>26


(* Two characters taken out of a text.                                     *)
LEMMA TakenOut ==
    ASSUME NEW S, NEW text \in Seq(S), NEW i \in 1 .. Len(text), NEW j \in i + 1 .. Len(text)
    PROVE  LET rest == SubSeq(text, 1, i - 1) \o SubSeq(text, i + 1, j - 1)
                         \o SubSeq(text, j + 1, Len(text))
           IN /\ rest \in Seq(S) /\ Len(rest) = Len(text) - 2
              /\ \A p \in 1 .. i - 1 : rest[p] = text[p]
              /\ \A p \in i .. j - 2 : rest[p] = text[p + 1]
              /\ \A p \in j - 1 .. Len(text) - 2 : rest[p] = text[p + 2]
<1>1. PICK n \in Nat : n = Len(text) /\ \A p \in 1 .. n : text[p] \in S
  BY LenProperties, ElementOfSeq
<1>2. i \in 1 .. n /\ j \in i + 1 .. n /\ i \in Int /\ j \in Int /\ j \in 1 .. n
  BY <1>1
<1>3. PICK a, b, c : /\ a = SubSeq(text, 1, i - 1) /\ b = SubSeq(text, i + 1, j - 1)
                     /\ c = SubSeq(text, j + 1, n)
  OBVIOUS
<1>4. ASSUME NEW from \in 1 .. n + 1, NEW m \in Nat, from + m <= n + 1, NEW sub,
             sub = SubSeq(text, from, from + m - 1)
      PROVE  sub \in Seq(S) /\ Len(sub) = m /\ \A p \in 1 .. m : sub[p] = text[(from - 1) + p]
  <2>1. PICK to \in Int : to = from + m - 1
    OBVIOUS
  <2>2. from \in Int /\ \A p \in from .. to : text[p] \in S
    BY <1>1, <1>4, <2>1
  <2>3. /\ sub \in Seq(S) /\ Len(sub) = (IF from <= to THEN to - from + 1 ELSE 0)
        /\ \A p \in 1 .. to - from + 1 : sub[p] = text[from + p - 1]
    BY <1>4, <2>1, <2>2, SubSeqProperties
  <2>4. Len(sub) = m /\ to - from + 1 = m
    BY <2>1, <2>3
  <2>5. \A p \in 1 .. m : from + p - 1 = (from - 1) + p
    OBVIOUS
  <2> QED BY <2>3, <2>4, <2>5
<1>5. a \in Seq(S) /\ Len(a) = i - 1 /\ \A p \in 1 .. i - 1 : a[p] = text[p]
  <2>1. PICK m \in Nat : m = i - 1 /\ 1 + m - 1 = i - 1 /\ 1 + m <= n + 1 /\ 1 \in 1 .. n + 1
    BY <1>2
  <2>2. a = SubSeq(text, 1, 1 + m - 1)
    BY <1>3, <2>1
  <2>3. a \in Seq(S) /\ Len(a) = m /\ \A p \in 1 .. m : a[p] = text[(1 - 1) + p]
    BY <1>4, <2>1, <2>2
  <2>4. \A p \in 1 .. m : (1 - 1) + p = p
    OBVIOUS
  <2> QED BY <2>1, <2>3, <2>4
<1>6. b \in Seq(S) /\ Len(b) = (j - i) - 1 /\ \A p \in 1 .. (j - i) - 1 : b[p] = text[i + p]
  <2>1. PICK from \in 1 .. n + 1, m \in Nat :
          from = i + 1 /\ m = (j - i) - 1 /\ from + m - 1 = j - 1 /\ from + m <= n + 1
    BY <1>2
  <2>2. b = SubSeq(text, from, from + m - 1)
    BY <1>3, <2>1
  <2>3. b \in Seq(S) /\ Len(b) = m /\ \A p \in 1 .. m : b[p] = text[(from - 1) + p]
    BY <1>4, <2>1, <2>2
  <2>4. from - 1 = i
    BY <2>1
  <2> QED BY <2>1, <2>3, <2>4
<1>7. c \in Seq(S) /\ Len(c) = n - j /\ \A p \in 1 .. n - j : c[p] = text[j + p]
  <2>1. PICK from \in 1 .. n + 1, m \in Nat :
          from = j + 1 /\ m = n - j /\ from + m - 1 = n /\ from + m <= n + 1
    BY <1>2
  <2>2. c = SubSeq(text, from, from + m - 1)
    BY <1>3, <2>1
  <2>3. c \in Seq(S) /\ Len(c) = m /\ \A p \in 1 .. m : c[p] = text[(from - 1) + p]
    BY <1>4, <2>1, <2>2
  <2>4. from - 1 = j
    BY <2>1
  <2> QED BY <2>1, <2>3, <2>4
<1>8. PICK ab : ab = a \o b
  OBVIOUS
<1>9. /\ ab \in Seq(S) /\ Len(ab) = j - 2
      /\ \A p \in 1 .. i - 1 : ab[p] = text[p]
      /\ \A p \in i .. j - 2 : ab[p] = text[p + 1]
  <2>1. ab \in Seq(S) /\ Len(ab) = Len(a) + Len(b)
    BY <1>5, <1>6, <1>8, ConcatProperties
  <2>2. \A p \in 1 .. Len(a) + Len(b) : ab[p] = IF p <= Len(a) THEN a[p] ELSE b[p - Len(a)]
    BY <1>5, <1>6, <1>8, ConcatProperties
  <2>3. Len(a) + Len(b) = j - 2
    BY <1>2, <1>5, <1>6
  <2>4. \A p \in 1 .. i - 1 : p \in 1 .. j - 2 /\ p <= i - 1
    BY <1>2
  <2>5. ASSUME NEW p \in i .. j - 2 PROVE ab[p] = text[p + 1]
    <3>1. PICK q : q = p - (i - 1)
      OBVIOUS
    <3>2. p \in 1 .. j - 2 /\ ~(p <= i - 1) /\ q \in 1 .. (j - i) - 1 /\ i + q = p + 1
      BY <1>2, <3>1
    <3> QED BY <1>5, <1>6, <2>2, <2>3, <3>1, <3>2
  <2> QED BY <1>5, <2>1, <2>2, <2>3, <2>4, <2>5
<1>10. PICK rest : rest = ab \o c
  OBVIOUS
<1>11. /\ rest \in Seq(S) /\ Len(rest) = n - 2
       /\ \A p \in 1 .. j - 2 : rest[p] = ab[p]
       /\ \A p \in j - 1 .. n - 2 : rest[p] = text[p + 2]
  <2>1. rest \in Seq(S) /\ Len(rest) = Len(ab) + Len(c)
    BY <1>7, <1>9, <1>10, ConcatProperties
  <2>2. \A p \in 1 .. Len(ab) + Len(c) : rest[p] = IF p <= Len(ab) THEN ab[p] ELSE c[p - Len(ab)]
    BY <1>7, <1>9, <1>10, ConcatProperties
  <2>3. Len(ab) + Len(c) = n - 2
    BY <1>2, <1>7, <1>9
  <2>4. \A p \in 1 .. j - 2 : p \in 1 .. n - 2 /\ p <= j - 2
    BY <1>2
  <2>5. ASSUME NEW p \in j - 1 .. n - 2 PROVE rest[p] = text[p + 2]
    <3>1. PICK q : q = p - (j - 2)
      OBVIOUS
    <3>2. p \in 1 .. n - 2 /\ ~(p <= j - 2) /\ q \in 1 .. n - j /\ j + q = p + 2
      BY <1>2, <3>1
    <3> QED BY <1>7, <1>9, <2>2, <2>3, <3>1, <3>2
  <2> QED BY <1>9, <2>1, <2>2, <2>3, <2>4, <2>5
<1>12. \A p \in 1 .. i - 1 : rest[p] = text[p]
  <2>1. \A p \in 1 .. i - 1 : p \in 1 .. j - 2
    BY <1>2
  <2> QED BY <1>9, <1>11, <2>1
<1>13. \A p \in i .. j - 2 : rest[p] = text[p + 1]
  <2>1. \A p \in i .. j - 2 : p \in 1 .. j - 2
    BY <1>2
  <2> QED BY <1>9, <1>11, <2>1
<1> QED BY <1>1, <1>3, <1>8, <1>10, <1>11, <1>12, <1>13

(* The sub takes away the quotes of a value, and nothing else, exactly     *)
(* when the value has no newline.                                          *)
LEMMA QuotesTaken ==
    ASSUME NEW S, NEW text \in Seq(S), NEW C, NEW quoted \in Seq(C), Quotes(quoted, text)
    PROVE  Unquote(quoted) = text <=> Count(text, {Newline}) = 0
<1>1. PICK n \in Nat : n = Len(text) /\ DOMAIN text = 1 .. n
  BY LenProperties
<1>2. PICK N \in Nat : N = n + 2
  OBVIOUS
<1>3. /\ Len(quoted) = N /\ quoted[1] = Quote /\ quoted[N] = Quote
      /\ \A p \in 1 .. n : quoted[1 + p] = text[p]
      /\ DOMAIN quoted = 1 .. N
  <2>1. Len(quoted) = N /\ quoted[1] = Quote /\ quoted[N] = Quote
        /\ \A p \in 1 .. n : quoted[1 + p] = text[p]
    BY <1>1, <1>2 DEF Quotes
  <2> QED BY <2>1, LenProperties
<1>4. Quote # Newline
  BY DEF Quote, Newline
<1>5. Count(text, {Newline}) = 0 <=> \A p \in 1 .. n : text[p] # Newline
  <2>1. PICK found : found = {p \in DOMAIN text : text[p] \in {Newline}}
    OBVIOUS
  <2>2. IsFiniteSet(found)
    <3>1. IsFiniteSet(1 .. n)
      BY FS_Interval
    <3>2. found \in SUBSET (1 .. n)
      BY <1>1, <2>1
    <3> QED BY <3>1, <3>2, FS_Subset
  <2>3. Cardinality(found) = 0 <=> found = {}
    BY <2>2, FS_EmptySet
  <2>4. found = {} <=> \A p \in 1 .. n : text[p] # Newline
    BY <1>1, <2>1
  <2> QED BY <2>1, <2>3, <2>4 DEF Count
<1>6. ASSUME NEW ij \in QuotedLines(quoted)
      PROVE  /\ ij[1] \in 1 .. N /\ ij[2] \in ij[1] + 1 .. N
             /\ ij[1] = 1 \/ quoted[ij[1] - 1] = Newline
             /\ ij[2] = N \/ quoted[ij[2] + 1] = Newline
             /\ quoted[ij[1]] = Quote /\ quoted[ij[2]] = Quote
             /\ \A k \in ij[1] .. ij[2] : quoted[k] # Newline
  <2>1. /\ ij \in (DOMAIN quoted) \X (DOMAIN quoted)
        /\ ij[1] < ij[2] /\ Starts(quoted, ij[1]) /\ Ends(quoted, ij[2])
        /\ quoted[ij[1]] = Quote /\ quoted[ij[2]] = Quote
        /\ \A k \in ij[1] .. ij[2] : quoted[k] # Newline
    BY DEF QuotedLines
  <2>2. PICK a, b \in 1 .. N : a = ij[1] /\ b = ij[2]
    BY <1>3, <2>1
  <2>3. a < b
    BY <2>1, <2>2
  <2>4. b \in a + 1 .. N
    BY <2>3
  <2>5. (a = 1 \/ quoted[a - 1] = Newline) /\ (b = N \/ quoted[b + 1] = Newline)
    BY <1>3, <2>1, <2>2 DEF Starts, Ends
  <2> QED BY <2>1, <2>2, <2>4, <2>5
<1> DEFINE Without(line) == SubSeq(quoted, 1, line[1] - 1) \o SubSeq(quoted, line[1] + 1, line[2] - 1)
                              \o SubSeq(quoted, line[2] + 1, Len(quoted))
<1> DEFINE Taken(rest, a, b) ==
      /\ rest \in Seq(C) /\ Len(rest) = n
      /\ \A p \in 1 .. a - 1 : rest[p] = quoted[p]
      /\ \A p \in a .. b - 2 : rest[p] = quoted[p + 1]
      /\ \A p \in b - 1 .. n : rest[p] = quoted[p + 2]
<1>7. ASSUME NEW ij \in QuotedLines(quoted) PROVE Taken(Without(ij), ij[1], ij[2])
  <2>1. PICK a, b : a = ij[1] /\ b = ij[2]
    OBVIOUS
  <2>2. a \in 1 .. Len(quoted) /\ b \in a + 1 .. Len(quoted)
    BY <1>3, <1>6, <2>1
  <2>3. PICK rest : rest = SubSeq(quoted, 1, a - 1) \o SubSeq(quoted, a + 1, b - 1)
                             \o SubSeq(quoted, b + 1, Len(quoted))
    OBVIOUS
  <2>4. /\ rest \in Seq(C) /\ Len(rest) = Len(quoted) - 2
        /\ \A p \in 1 .. a - 1 : rest[p] = quoted[p]
        /\ \A p \in a .. b - 2 : rest[p] = quoted[p + 1]
        /\ \A p \in b - 1 .. Len(quoted) - 2 : rest[p] = quoted[p + 2]
    BY <2>2, <2>3, TakenOut
  <2>5. Len(quoted) - 2 = n
    BY <1>2, <1>3
  <2>6. Taken(rest, a, b)
    BY <2>4, <2>5
  <2> QED BY <2>1, <2>3, <2>6
<1>8. QuotedLines(quoted) # {} =>
        \E ij \in QuotedLines(quoted) : Unquote(quoted) = Without(ij)
  <2> HAVE QuotedLines(quoted) # {}
  <2>1. PICK line : line = CHOOSE ij \in QuotedLines(quoted) :
                             \A other \in QuotedLines(quoted) : ij[1] <= other[1]
    OBVIOUS
  <2>2. Unquote(quoted) = Without(line)
    BY <2>1 DEF Unquote
  <2>3. \E ij \in QuotedLines(quoted) : \A other \in QuotedLines(quoted) : ij[1] <= other[1]
    <3>1. PICK T : T = {ij[1] : ij \in QuotedLines(quoted)}
      OBVIOUS
    <3>2. T # {} /\ T \subseteq Nat
      BY <1>6, <3>1
    <3>3. PICK low \in T : \A m \in T : low <= m
      BY <3>2, LeastNumber
    <3> QED BY <3>1, <3>3
  <2>4. line \in QuotedLines(quoted)
    BY <2>1, <2>3
  <2> QED BY <2>2, <2>4
<1>9. ASSUME \A p \in 1 .. n : text[p] # Newline PROVE Unquote(quoted) = text
  <2>1. ASSUME NEW p \in 1 .. N PROVE quoted[p] # Newline
    <3>1. CASE p = 1 \/ p = N
      BY <1>3, <1>4, <3>1
    <3>2. CASE p # 1 /\ p # N
      <4>1. PICK q : q = p - 1
        OBVIOUS
      <4>2. q \in 1 .. n /\ p = 1 + q
        BY <1>2, <3>2, <4>1
      <4> QED BY <1>3, <1>9, <4>2
    <3> QED BY <3>1, <3>2
  <2>2. QuotedLines(quoted) # {}
    <3>1. PICK ij : ij = <<1, N>>
      OBVIOUS
    <3>2. ij[1] = 1 /\ ij[2] = N /\ 1 \in 1 .. N /\ N \in 1 .. N /\ 1 < N
      BY <1>2, <3>1
    <3>3. ij \in (DOMAIN quoted) \X (DOMAIN quoted)
      BY <1>3, <3>1, <3>2
    <3>4. Starts(quoted, ij[1]) /\ Ends(quoted, ij[2])
      BY <1>3, <3>2 DEF Starts, Ends
    <3>5. ij \in QuotedLines(quoted)
      BY <1>3, <2>1, <3>2, <3>3, <3>4 DEF QuotedLines
    <3> QED BY <3>5
  <2>3. PICK ij \in QuotedLines(quoted) : Unquote(quoted) = Without(ij)
    BY <1>8, <2>2
  <2>4. ij[1] = 1 /\ ij[2] = N
    <3>1. PICK a, b : a = ij[1] /\ b = ij[2]
      OBVIOUS
    <3>2. /\ a \in 1 .. N /\ b \in a + 1 .. N
          /\ a = 1 \/ quoted[a - 1] = Newline
          /\ b = N \/ quoted[b + 1] = Newline
      BY <1>6, <3>1
    <3>3. a # 1 => a - 1 \in 1 .. N
      BY <3>2
    <3>4. b # N => b + 1 \in 1 .. N
      BY <3>2
    <3> QED BY <2>1, <3>1, <3>2, <3>3, <3>4
  <2>5. PICK rest : rest = Without(ij)
    OBVIOUS
  <2>6. /\ rest \in Seq(C) /\ Len(rest) = n
        /\ \A p \in 1 .. N - 2 : rest[p] = quoted[p + 1]
    <3>1. Taken(rest, 1, N)
      <4> HIDE DEF Taken, Without
      <4> QED BY <1>7, <2>4, <2>5
    <3> QED BY <3>1
  <2>7. \A p \in 1 .. n : rest[p] = text[p]
    <3>1. \A p \in 1 .. n : p \in 1 .. N - 2 /\ p + 1 = 1 + p
      BY <1>2
    <3> QED BY <1>3, <2>6, <3>1
  <2>8. rest = text
    BY <1>1, <2>6, <2>7, SeqEqual
  <2> QED BY <2>3, <2>5, <2>8
<1>10. ASSUME NEW q \in 1 .. n, text[q] = Newline PROVE Unquote(quoted) # text
  <2>1. quoted[1 + q] = Newline /\ 1 + q \in 1 .. N
    BY <1>2, <1>3, <1>10
  <2>2. CASE QuotedLines(quoted) = {}
    <3>1. Unquote(quoted) = quoted
      BY <2>2 DEF Unquote
    <3>2. N # n
      BY <1>2
    <3> QED BY <1>1, <1>3, <3>1, <3>2
  <2>3. CASE QuotedLines(quoted) # {}
    <3>1. PICK ij \in QuotedLines(quoted) : Unquote(quoted) = Without(ij)
      BY <1>8, <2>3
    <3>2. PICK a, b, rest : a = ij[1] /\ b = ij[2] /\ rest = Without(ij)
      OBVIOUS
    <3>3. /\ a \in 1 .. N /\ b \in a + 1 .. N
          /\ a = 1 \/ quoted[a - 1] = Newline
          /\ b = N \/ quoted[b + 1] = Newline
          /\ quoted[a] = Quote /\ quoted[b] = Quote
          /\ \A k \in a .. b : quoted[k] # Newline
      BY <1>6, <3>2
    <3>4. /\ \A p \in 1 .. a - 1 : rest[p] = quoted[p]
          /\ \A p \in b - 1 .. n : rest[p] = quoted[p + 2]
      <4>1. Taken(rest, a, b)
        <5> HIDE DEF Taken, Without
        <5> QED BY <1>7, <3>2
      <4> QED BY <4>1
    <3>5. CASE a # 1
      <4>1. PICK p : p = a - 1
        OBVIOUS
      <4>2. p \in 1 .. n /\ p \in 1 .. a - 1 /\ 1 + p = a
        BY <1>2, <3>3, <3>5, <4>1
      <4>3. rest[p] = Newline
        BY <3>3, <3>4, <3>5, <4>1, <4>2
      <4>4. text[p] = Quote
        BY <1>3, <3>3, <4>2
      <4> QED BY <1>4, <3>1, <3>2, <4>3, <4>4
    <3>6. CASE a = 1
      <4>1. b # N
        <5>1. 1 + q \in 1 .. N
          BY <2>1
        <5> QED BY <2>1, <3>3, <3>6, <5>1
      <4>2. PICK p : p = b - 1
        OBVIOUS
      <4>3. p \in 1 .. n /\ p \in b - 1 .. n /\ 1 + p = b /\ p + 2 = b + 1
        BY <1>2, <3>3, <4>1, <4>2
      <4>4. rest[p] = Newline
        BY <3>3, <3>4, <4>1, <4>3
      <4>5. text[p] = Quote
        BY <1>3, <3>3, <4>3
      <4> QED BY <1>4, <3>1, <3>2, <4>4, <4>5
    <3> QED BY <3>5, <3>6
  <2> QED BY <2>2, <2>3
<1> QED BY <1>5, <1>9, <1>10


LEMMA ValueCleaned ==
    ASSUME NEW S, NEW text \in Seq(S), NEW C, NEW quoted \in Seq(C), Quotes(quoted, Escape(text))
    PROVE  Clean(quoted) = text <=> Count(text, {Newline}) = 0
<1>1. PICK n \in Nat \ {0, 1} : n = Len(quoted) /\ quoted[1] = Quote /\ quoted[n] = Quote
  <2>1. PICK l \in Nat : l = Len(Escape(text))
    <3>1. Escape(text) \in Seq(Escaped(S))
      BY EscapePlaced
    <3> QED BY <3>1, LenProperties
  <2>2. Len(quoted) = l + 2 /\ quoted[1] = Quote /\ quoted[l + 2] = Quote
    BY <2>1 DEF Quotes
  <2>3. l + 2 \in Nat \ {0, 1}
    OBVIOUS
  <2> QED BY <2>2, <2>3
<1>2. Strip(quoted) = quoted
  <2>1. Ink(Quote)
    BY DEF Ink, Quote, Newline
  <2>2. 1 \in 1 .. Len(quoted) /\ \A p \in 1 .. 1 - 1 : ~Ink(quoted[p])
    BY <1>1
  <2>3. Ink(quoted[1]) /\ Ink(quoted[Len(quoted)])
    BY <1>1, <2>1
  <2>4. Strip(quoted) = SubSeq(quoted, 1, Len(quoted))
    BY <2>2, <2>3, StripIs
  <2>5. SubSeq(quoted, 1, Len(quoted)) = quoted
    BY SubSeqFull
  <2> QED BY <2>4, <2>5
<1>3. PICK back \in Seq(S \cup {Quote}) : Unescape(quoted) = back /\ Quotes(back, text)
  BY QuotedDecoded
<1>4. Unquote(back) = text <=> Count(text, {Newline}) = 0
  BY <1>3, QuotesTaken
<1> QED BY <1>2, <1>3, <1>4 DEF Clean

LEMMA Odd == \A q \in Nat : q % 2 = 1 => \E d \in Nat : q = 2 * d + 1
<1> SUFFICES ASSUME NEW q \in Nat, q % 2 = 1 PROVE \E d \in Nat : q = 2 * d + 1
  OBVIOUS
<1>1. PICK d : d = q \div 2
  OBVIOUS
<1>2. d \in Nat /\ q = 2 * d + 1
  BY <1>1
<1> QED BY <1>2

(* The place of the piece that ends with a name is odd, when the pieces of  *)
(* the realm are paired.                                                    *)
LEMMA NamesAtOddPlaces ==
    ASSUME NEW d \in Nat, NEW r \in Nat, r % 2 = 0
    PROVE  (2 * d + (r + 1)) % 2 = 1
<1>1. PICK h \in Nat : r = 2 * h
  OBVIOUS
<1>2. 2 * d + (r + 1) = 2 * (d + h) + 1
  BY <1>1
<1>3. PICK e \in Nat : e = d + h
  OBVIOUS
<1>4. (2 * e + 1) % 2 = 1
  OBVIOUS
<1> QED BY <1>2, <1>3, <1>4

(* The header parse_header reads maps a name to what stands behind the     *)
(* last piece of that name: behind the realm's pieces, the parameter's.    *)
LEMMA ParsedIs ==
    ASSUME Sending, Count(realm, Separators) % 2 = 0, NEW k \in Range(Key)
    PROVE  /\ <<k>> \in DOMAIN ParseHeader(Written)
           /\ \E quoted \in Seq(Chars) :
                /\ Quotes(quoted, Escape(sent[k]))
                /\ ParseHeader(Written)[<<k>>] = Clean(quoted)
<1>1. PICK l \in Nat \ {0} : /\ l = Len(Key) /\ \A i \in 1 .. l : Key[i] \in Range(Key)
                             /\ \A i, m \in 1 .. l : Key[i] = Key[m] => i = m
  BY KeysFit
<1>2. PICK shift \in {0, 1} : shift = Shift
  BY DEF Shift
<1>3. PICK n \in Nat \ {0} : n = l + shift
  OBVIOUS
<1>4. PICK r \in Nat : r = Count(realm, Separators) /\ r % 2 = 0
  BY AssignmentCounts
<1>5. PICK pieces \in Seq(Seq(Chars)) :
        pieces = Split(Written) /\ pieces = Pieces(Written) /\ Len(pieces) = 2 * n + r
  BY <1>1, <1>2, <1>3, <1>4, WrittenSplit
<1>6. PICK N \in Nat : N = 2 * n + r /\ DOMAIN pieces = 1 .. N
  <2>1. DOMAIN pieces = 1 .. Len(pieces) /\ 2 * n + r \in Nat
    BY LenProperties
  <2> QED BY <1>5, <2>1
<1>7. PICK clean : clean = [p \in DOMAIN pieces |-> Unquote(Unescape(Strip(pieces[p])))]
  OBVIOUS
<1>8. DOMAIN clean = 1 .. N /\ \A p \in 1 .. N : clean[p] = Clean(pieces[p])
  BY <1>6, <1>7 DEF Clean
<1>9. PICK names : names = {p \in DOMAIN clean : p % 2 = 1}
  OBVIOUS
<1>10. names = {p \in 1 .. N : p % 2 = 1}
  BY <1>8, <1>9
<1>11. ParseHeader(Written) =
         [name \in {clean[p] : p \in names} |-> clean[Max({p \in names : clean[p] = name}) + 1]]
  BY <1>5, <1>7, <1>9 DEF ParseHeader
<1>12. ASSUME NEW i \in 1 .. l, NEW c, c = (2 * (i + shift) - 1) + r
       PROVE  /\ c \in 1 .. N /\ c + 1 \in 1 .. N /\ c % 2 = 1
              /\ clean[c] = <<Key[i]>>
              /\ \E quoted \in Seq(Chars) : /\ Quotes(quoted, Escape(sent[Key[i]]))
                                            /\ clean[c + 1] = Clean(quoted)
  <2>1. c \in 1 .. N /\ c + 1 \in 1 .. N /\ c % 2 = 1
    <3>1. PICK m \in Nat \ {0} : m = i + shift /\ m <= n
      BY <1>3
    <3>2. c = (2 * m - 1) + r /\ N = 2 * n + r
      BY <1>6, <1>12, <3>1
    <3>3. c \in 1 .. N /\ c + 1 \in 1 .. N
      BY <3>1, <3>2
    <3>4. PICK d \in Nat : d = m - 1 /\ c = 2 * d + (r + 1)
      BY <3>1, <3>2
    <3>5. c % 2 = 1
      BY <1>4, <3>4, NamesAtOddPlaces
    <3> QED BY <3>3, <3>5
  <2>2. PICK j : j = i + Shift
    OBVIOUS
  <2>3. PICK name, quoted : name = pieces[c] /\ quoted = pieces[c + 1]
    OBVIOUS
  <2>4. c = (2 * j - 1) + r /\ c + 1 = 2 * j + r
    BY <1>2, <1>12, <2>2
  <2>5. i \in 1 .. Len(Key)
    BY <1>1
  <2>6. /\ Pieces(Written)[(2 * j - 1) + r] = <<Key[i]>>
             \/ Pieces(Written)[(2 * j - 1) + r] = <<" ", Key[i]>>
        /\ Pieces(Written)[2 * j + r] \in Seq(Chars)
        /\ Quotes(Pieces(Written)[2 * j + r], Escape(sent[Key[i]]))
    BY <1>4, <2>2, <2>5, WrittenPieces
  <2>7. name = <<Key[i]>> \/ name = <<" ", Key[i]>>
    BY <1>5, <2>3, <2>4, <2>6
  <2>8. quoted \in Seq(Chars) /\ Quotes(quoted, Escape(sent[Key[i]]))
    BY <1>5, <2>3, <2>4, <2>6
  <2>9. Clean(name) = <<Key[i]>>
    <3>1. Key[i] \in Range(Key)
      BY <1>1
    <3> QED BY <2>7, <3>1, NameCleaned
  <2>10. clean[c] = <<Key[i]>> /\ clean[c + 1] = Clean(quoted)
    BY <1>8, <2>1, <2>3, <2>9
  <2> QED BY <2>1, <2>8, <2>10
<1>13. PICK i \in 1 .. l : Key[i] = k
  BY <1>1, KeysFit
<1>14. PICK c : c = (2 * (i + shift) - 1) + r
  OBVIOUS
<1>15. /\ c \in 1 .. N /\ c + 1 \in 1 .. N /\ c % 2 = 1 /\ clean[c] = <<k>>
       /\ \E quoted \in Seq(Chars) : Quotes(quoted, Escape(sent[k])) /\ clean[c + 1] = Clean(quoted)
  BY <1>12, <1>13, <1>14
<1>16. PICK mine : mine = {p \in names : clean[p] = <<k>>}
  OBVIOUS
<1>17. c \in mine
  BY <1>10, <1>15, <1>16
<1>18. ASSUME NEW p \in mine PROVE c >= p
  <2>1. p \in 1 .. N /\ p % 2 = 1 /\ clean[p] = <<k>>
    BY <1>10, <1>16
  <2>2. SUFFICES ASSUME p > c PROVE FALSE
    BY <1>15, <2>1
  <2>3. PICK a, b \in Nat : p = 2 * a + 1 /\ c = 2 * b + 1
    <3>1. p \in Nat /\ c \in Nat
      BY <1>15, <2>1
    <3>2. (\E d \in Nat : p = 2 * d + 1) /\ (\E d \in Nat : c = 2 * d + 1)
      BY <1>15, <2>1, <3>1, Odd
    <3> QED BY <3>2
  <2>4. PICK m \in Int : m = i + (a - b)
    OBVIOUS
  <2>5. m \in 1 .. l /\ m # i /\ p = (2 * (m + shift) - 1) + r
    BY <1>3, <1>6, <1>14, <2>1, <2>2, <2>3, <2>4
  <2>6. clean[p] = <<Key[m]>>
    BY <1>12, <2>5
  <2>7. Key[m] = k
    BY <2>1, <2>6
  <2> QED BY <1>1, <1>13, <2>5, <2>7
<1>19. Max(mine) = c
  <2>1. PICK top : top = CHOOSE x \in mine : \A y \in mine : x >= y
    OBVIOUS
  <2>2. top \in mine /\ \A y \in mine : top >= y
    BY <1>17, <1>18, <2>1
  <2>3. top \in Nat /\ c \in Nat /\ top >= c /\ c >= top
    BY <1>10, <1>15, <1>16, <1>17, <1>18, <2>2
  <2>4. top = c
    BY <2>3
  <2> QED BY <2>1, <2>4 DEF Max
<1>20. <<k>> \in {clean[p] : p \in names}
  BY <1>10, <1>15
<1>21. ParseHeader(Written)[<<k>>] = clean[c + 1]
  BY <1>11, <1>16, <1>19, <1>20
<1> QED BY <1>11, <1>15, <1>20, <1>21

(* For any parameters: when the server reads the header, it has the value  *)
(* of every parameter exactly if that value has no newline.                *)
THEOREM EveryParameterArrives == Spec => []ParametersArrive
<1>1. Sends => ParametersArrive
  <2> SUFFICES ASSUME Sends, stage = "read", NEW k \in Range(Key)
               PROVE  (<<k>> \in DOMAIN parsed /\ parsed[<<k>>] = sent[k])
                        <=> Count(sent[k], {Newline}) = 0
    BY DEF ParametersArrive
  <2>1. Sending
    BY DEF Sends, Sending
  <2>2. parsed = ParseHeader(Written) /\ ~Malformed(Written)
    BY DEF Sends
  <2>3. Count(realm, Separators) % 2 = 0
    <3>1. PICK n \in Nat : n = Len(Key) + Shift
      <4>1. Len(Key) \in Nat \ {0} /\ Shift \in {0, 1}
        BY KeysFit DEF Shift
      <4> QED BY <4>1
    <3>2. PICK r \in Nat : r = Count(realm, Separators)
      BY <2>1, AssignmentCounts
    <3>3. Len(Split(Written)) = 2 * n + r
      BY <2>1, <3>1, <3>2, WrittenSplit
    <3>4. (2 * n + r) % 2 # 1 => r % 2 = 0
      OBVIOUS
    <3> QED BY <2>2, <3>2, <3>3, <3>4 DEF Malformed
  <2>4. PICK quoted \in Seq(Chars) :
          /\ <<k>> \in DOMAIN parsed /\ parsed[<<k>>] = Clean(quoted)
          /\ Quotes(quoted, Escape(sent[k]))
    BY <2>1, <2>2, <2>3, ParsedIs
  <2>5. sent[k] \in Seq(Texts)
    <3>1. sent[k] \in Text
      BY <2>1 DEF Sending
    <3> QED BY <3>1, TextsAreTexts
  <2>6. Clean(quoted) = sent[k] <=> Count(sent[k], {Newline}) = 0
    BY <2>4, <2>5, ValueCleaned
  <2> QED BY <2>4, <2>6
<1> QED BY <1>1, SendsInvariance, PTL
=============================================================================
