---------------------------- MODULE FramingProofs ----------------------------
(****************************************************************************)
(* Safety of Framing, for bytes of any base, length fields of any width and *)
(* any ceilings that such a field can write.                                *)
(****************************************************************************)
EXTENDS Framing, SequenceTheorems, WellFoundedInduction, TLAPS

-----------------------------------------------------------------------------
(* Digits.  The functions of Framing that are defined by recursion exist by *)
(* the least-number principle: there is no least length they fail at.       *)

\* A set of naturals that is not empty has a least element.
LEMMA Least ==
    ASSUME NEW S, S \subseteq Nat, S # {}
    PROVE  \E n \in S : \A m \in S : n <= m
<1> DEFINE Below == {pair \in Nat \X Nat : pair[1] < pair[2]}
<1>1. IsWellFoundedOn(Below, Nat)
  BY NatLessThanWellFounded DEF OpToRel
<1>2. PICK n \in S : \A m \in S : ~(<<m, n>> \in Below)
  <2> HIDE DEF Below
  <2> QED
    BY <1>1, WFMin
<1>3. \A m \in S : ~(m < n)
  BY <1>2
<1> QED
  BY <1>3

LEMMA Products ==
    /\ \A a, b \in Nat : a * b \in Nat
    /\ \A a, b \in Nat \ {0} : a * b \in Nat \ {0}
OBVIOUS

\* Horner's scheme, up to the digit n.
Sums(start, base, digits, n) ==
    {h \in [0 .. n -> Nat] : h[0] = start /\ \A k \in 1 .. n : h[k] = h[k - 1] * base + digits[k]}

LEMMA SumsExist ==
    ASSUME NEW n \in Nat, NEW start \in Nat, NEW base \in Nat, NEW digits,
           \A k \in 1 .. n : digits[k] \in Nat
    PROVE  \E h : h \in Sums(start, base, digits, n)
<1> DEFINE Missing == {m \in 0 .. n : Sums(start, base, digits, m) = {}}
<1>1. Missing = {}
  <2> SUFFICES ASSUME Missing # {} PROVE FALSE
    OBVIOUS
  <2>1. PICK m \in Missing : \A j \in Missing : m <= j
    <3>1. Missing \subseteq Nat
      OBVIOUS
    <3> HIDE DEF Missing
    <3> QED
      BY <3>1, Least
  <2>2. m # 0
    <3>1. [k \in {0} |-> start] \in Sums(start, base, digits, 0)
      BY DEF Sums
    <3> QED
      BY <3>1
  <2>3. m \in 1 .. n /\ m - 1 \in 0 .. n /\ ~(m <= m - 1)
    BY <2>2
  <2>4. PICK h \in Sums(start, base, digits, m - 1) : TRUE
    BY <2>1, <2>3
  <2> DEFINE g == [k \in 0 .. m |-> IF k = m THEN h[m - 1] * base + digits[m] ELSE h[k]]
  <2>5. h \in [0 .. m - 1 -> Nat] /\ h[0] = start
        /\ \A k \in 1 .. m - 1 : h[k] = h[k - 1] * base + digits[k]
    BY <2>4 DEF Sums
  <2>6. h[m - 1] * base + digits[m] \in Nat
    <3>1. h[m - 1] \in Nat /\ digits[m] \in Nat
      BY <2>3, <2>5
    <3> QED
      BY <3>1
  <2>7. g \in [0 .. m -> Nat] /\ g[0] = start
    BY <2>3, <2>5, <2>6
  <2>8. \A k \in 1 .. m : g[k] = g[k - 1] * base + digits[k]
    BY <2>3, <2>5
  <2>9. g \in Sums(start, base, digits, m)
    BY <2>7, <2>8 DEF Sums
  <2> QED
    BY <2>1, <2>9
<1> QED
  BY <1>1

\* The recursion that defines Place has a solution, and it is positive.
LEMMA Places ==
    /\ Place \in [0 .. LenDigits -> Nat \ {0}]
    /\ Place[0] = 1
    /\ \A k \in 1 .. LenDigits : Place[k] = Place[k - 1] * Base
<1> DEFINE zeros == [k \in 1 .. LenDigits |-> 0]
<1>0. LenDigits \in Nat /\ Base \in Nat \ {0}
  BY FramingAssumption
<1>1. PICK h : h \in Sums(1, Base, zeros, LenDigits)
  <2>1. \A k \in 1 .. LenDigits : zeros[k] \in Nat
    OBVIOUS
  <2>2. 1 \in Nat
    OBVIOUS
  <2> HIDE DEF zeros
  <2> QED
    BY <1>0, <2>1, <2>2, SumsExist
<1>2. /\ h \in [0 .. LenDigits -> Nat] /\ h[0] = 1
      /\ \A k \in 1 .. LenDigits : h[k] = h[k - 1] * Base + zeros[k]
  BY <1>1 DEF Sums
<1>3. h = [k \in 0 .. LenDigits |-> IF k = 0 THEN 1 ELSE h[k - 1] * Base]
  <2>1. ASSUME NEW k \in 1 .. LenDigits PROVE h[k] = h[k - 1] * Base
    <3>1. h[k - 1] \in Nat /\ zeros[k] = 0
      BY <1>0, <1>2
    <3>2. h[k - 1] * Base \in Nat
      BY <1>0, <3>1, Products
    <3> QED
      BY <1>2, <3>1, <3>2
  <2>2. \A k \in 0 .. LenDigits : h[k] = IF k = 0 THEN 1 ELSE h[k - 1] * Base
    BY <1>0, <1>2, <2>1
  <2> QED
    BY <1>2, <2>2
<1>4. Place = [k \in 0 .. LenDigits |-> IF k = 0 THEN 1 ELSE Place[k - 1] * Base]
  BY <1>3 DEF Place
<1>5. Place[0] = 1 /\ \A k \in 1 .. LenDigits : Place[k] = Place[k - 1] * Base
  BY <1>0, <1>4
<1>6. \A k \in 0 .. LenDigits : Place[k] \in Nat \ {0}
  <2> DEFINE Not == {k \in 0 .. LenDigits : Place[k] \notin Nat \ {0}}
  <2> SUFFICES ASSUME Not # {} PROVE FALSE
    OBVIOUS
  <2>1. PICK k \in Not : \A j \in Not : k <= j
    <3>1. Not \subseteq Nat
      BY <1>0
    <3> HIDE DEF Not
    <3> QED
      BY <3>1, Least
  <2>2. k \in 1 .. LenDigits /\ k - 1 \in 0 .. LenDigits /\ ~(k <= k - 1)
    BY <1>0, <1>5, <2>1
  <2>3. Place[k - 1] \in Nat \ {0} /\ Place[k] = Place[k - 1] * Base
    BY <1>5, <2>1, <2>2
  <2>4. Place[k] \in Nat \ {0}
    BY <1>0, <2>3, Products
  <2> QED
    BY <2>1, <2>4
<1> QED
  BY <1>4, <1>5, <1>6

-----------------------------------------------------------------------------
(* The length field.                                                        *)

\* The recursion of FromBytes has a solution for any bytes there are enough of.
ValueOf(bytes, value) ==
    /\ value \in [0 .. LenDigits -> Nat] /\ value[0] = 0
    /\ \A k \in 1 .. LenDigits : value[k] = value[k - 1] * Base + bytes[k]
    /\ FromBytes(bytes) = value[LenDigits]

LEMMA Values ==
    ASSUME NEW bytes, \A k \in 1 .. LenDigits : bytes[k] \in Byte
    PROVE  \E value : ValueOf(bytes, value)
<1>0. LenDigits \in Nat /\ Base \in Nat \ {0} /\ 0 \in Nat
  BY FramingAssumption
<1>1. \A k \in 1 .. LenDigits : bytes[k] \in Nat
  BY <1>0 DEF Byte
<1> DEFINE F(h) == [k \in 0 .. LenDigits |-> IF k = 0 THEN 0 ELSE h[k - 1] * Base + bytes[k]]
           value == CHOOSE h : h = F(h)
<1>2. \E h : h = F(h)
  <2>1. PICK h : h \in Sums(0, Base, bytes, LenDigits)
    BY <1>0, <1>1, SumsExist
  <2>2. /\ h \in [0 .. LenDigits -> Nat] /\ h[0] = 0
        /\ \A k \in 1 .. LenDigits : h[k] = h[k - 1] * Base + bytes[k]
    BY <2>1 DEF Sums
  <2>3. \A k \in 0 .. LenDigits : h[k] = IF k = 0 THEN 0 ELSE h[k - 1] * Base + bytes[k]
    BY <1>0, <2>2
  <2>4. h = F(h)
    BY <2>2, <2>3
  <2> QED
    BY <2>4
<1>3. value = F(value)
  BY <1>2
<1>4. FromBytes(bytes) = value[LenDigits]
  BY DEF FromBytes
<1> HIDE DEF value
<1>5. value[0] = 0 /\ \A k \in 1 .. LenDigits : value[k] = value[k - 1] * Base + bytes[k]
  BY <1>0, <1>3
<1>6. \A k \in 0 .. LenDigits : value[k] \in Nat
  <2> DEFINE Not == {k \in 0 .. LenDigits : value[k] \notin Nat}
  <2> SUFFICES ASSUME Not # {} PROVE FALSE
    OBVIOUS
  <2>1. PICK k \in Not : \A j \in Not : k <= j
    <3>1. Not \subseteq Nat
      BY <1>0
    <3> HIDE DEF Not
    <3> QED
      BY <3>1, Least
  <2>2. k \in 1 .. LenDigits /\ k - 1 \in 0 .. LenDigits /\ ~(k <= k - 1)
    BY <1>0, <1>5, <2>1
  <2>3. value[k - 1] \in Nat /\ bytes[k] \in Nat /\ value[k] = value[k - 1] * Base + bytes[k]
    BY <1>1, <1>5, <2>1, <2>2
  <2>4. value[k - 1] * Base \in Nat
    BY <1>0, <2>3, Products
  <2>5. value[k] \in Nat
    BY <2>3, <2>4
  <2> QED
    BY <2>1, <2>5
<1>7. value \in [0 .. LenDigits -> Nat]
  <2>1. DOMAIN value = 0 .. LenDigits /\ value = [k \in 0 .. LenDigits |-> value[k]]
    BY <1>3
  <2> QED
    BY <1>6, <2>1
<1> QED
  BY <1>4, <1>5, <1>7 DEF ValueOf

LEMMA FromBytesType ==
    ASSUME NEW bytes, \A k \in 1 .. LenDigits : bytes[k] \in Byte
    PROVE  FromBytes(bytes) \in Nat
<1>1. PICK value : ValueOf(bytes, value)
  BY Values
<1>2. LenDigits \in 0 .. LenDigits
  BY FramingAssumption
<1> QED
  BY <1>1, <1>2 DEF ValueOf

LEMMA Division ==
    /\ \A n \in Nat : n \div 1 = n
    /\ \A n \in Nat, p \in Nat \ {0} : n \div p \in Nat /\ (n < p => n \div p = 0)
    /\ \A n \in Nat, b \in Nat \ {0} : n % b \in 0 .. b - 1 /\ ((n \div b) * b) + (n % b) = n
    /\ \A n \in Nat, b, p \in Nat \ {0} : (n \div p) \div b = n \div (p * b)
<1>1. ASSUME NEW n \in Nat PROVE n \div 1 = n
  OBVIOUS
<1>2. ASSUME NEW n \in Nat, NEW p \in Nat \ {0} PROVE n \div p \in Nat /\ (n < p => n \div p = 0)
  OBVIOUS
<1>3. ASSUME NEW n \in Nat, NEW b \in Nat \ {0} PROVE n % b \in 0 .. b - 1
  OBVIOUS
<1>4. ASSUME NEW n \in Nat, NEW b \in Nat \ {0} PROVE ((n \div b) * b) + (n % b) = n
  OBVIOUS
<1>5. ASSUME NEW n \in Nat, NEW b \in Nat \ {0}, NEW p \in Nat \ {0}
      PROVE (n \div p) \div b = n \div (p * b)
  OBVIOUS
<1> QED
  BY <1>1, <1>2, <1>3, <1>4, <1>5

LEMMA ToBytesType ==
    ASSUME NEW n \in Nat
    PROVE  ToBytes(n) \in Seq(Byte) /\ Len(ToBytes(n)) = LenDigits
<1>0. LenDigits \in Nat /\ Base \in Nat \ {0}
  BY FramingAssumption
<1>1. \A i \in 1 .. LenDigits : (n \div Place[LenDigits - i]) % Base \in Byte
  <2> SUFFICES ASSUME NEW i \in 1 .. LenDigits PROVE (n \div Place[LenDigits - i]) % Base \in Byte
    OBVIOUS
  <2>1. Place[LenDigits - i] \in Nat \ {0}
    BY <1>0, Places
  <2>2. n \div Place[LenDigits - i] \in Nat
    BY <1>0, <2>1, Division
  <2> QED
    BY <1>0, <2>2, Division DEF Byte
<1> QED
  BY <1>0, <1>1 DEF ToBytes

\* A length below the ceiling of the field is read as it was written.
LEMMA LengthSurvives ==
    ASSUME NEW n \in 0 .. Place[LenDigits] - 1
    PROVE  FromBytes(ToBytes(n)) = n
<1>0. LenDigits \in Nat /\ Base \in Nat \ {0} /\ Place[LenDigits] \in Nat
  BY FramingAssumption, Places
<1>1. n \in Nat /\ n < Place[LenDigits]
  BY <1>0
<1> DEFINE bytes == ToBytes(n)
           Q(k) == n \div Place[LenDigits - k]
<1>2. \A k \in 1 .. LenDigits : bytes[k] = Q(k) % Base
  BY DEF ToBytes
<1>3. \A k \in 1 .. LenDigits : bytes[k] \in Byte
  BY <1>0, <1>1, ToBytesType
<1>4. PICK value : ValueOf(bytes, value)
  <2> HIDE DEF bytes
  <2> QED
    BY <1>3, Values
<1>5. \A k \in 0 .. LenDigits : Place[LenDigits - k] \in Nat \ {0}
  BY <1>0, Places
<1>6. Q(0) = 0
  <2>1. LenDigits - 0 = LenDigits /\ Place[LenDigits] \in Nat \ {0}
    BY <1>0, Places
  <2>2. n \div Place[LenDigits] = 0
    BY <1>1, <2>1, Division
  <2> QED
    BY <2>1, <2>2
<1>7. \A k \in 1 .. LenDigits : Q(k - 1) = Q(k) \div Base /\ Q(k) \in Nat
  <2> SUFFICES ASSUME NEW k \in 1 .. LenDigits PROVE Q(k - 1) = Q(k) \div Base /\ Q(k) \in Nat
    OBVIOUS
  <2> DEFINE p == Place[LenDigits - k]
  <2>1. p \in Nat \ {0}
    BY <1>5
  <2>2. Place[LenDigits - (k - 1)] = p * Base
    <3>1. LenDigits - (k - 1) \in 1 .. LenDigits /\ LenDigits - (k - 1) - 1 = LenDigits - k
      BY <1>0
    <3>2. Place[LenDigits - (k - 1)] = Place[LenDigits - (k - 1) - 1] * Base
      BY <3>1, Places
    <3> QED
      BY <3>1, <3>2
  <2> HIDE DEF p
  <2>3. n \div p \in Nat /\ (n \div p) \div Base = n \div (p * Base)
    BY <1>0, <1>1, <2>1, Division
  <2> QED
    BY <2>2, <2>3 DEF p
<1>8. \A k \in 1 .. LenDigits : Q(k - 1) * Base + bytes[k] = Q(k)
  <2> SUFFICES ASSUME NEW k \in 1 .. LenDigits PROVE Q(k - 1) * Base + bytes[k] = Q(k)
    OBVIOUS
  <2>1. bytes[k] = Q(k) % Base /\ Q(k - 1) = Q(k) \div Base /\ Q(k) \in Nat
    BY <1>2, <1>7
  <2> HIDE DEF Q, bytes
  <2>2. ((Q(k) \div Base) * Base) + (Q(k) % Base) = Q(k)
    BY <1>0, <2>1, Division
  <2> QED
    BY <2>1, <2>2
<1>9. \A k \in 0 .. LenDigits : value[k] = Q(k)
  <2> DEFINE Not == {k \in 0 .. LenDigits : value[k] # Q(k)}
  <2> HIDE DEF Q, bytes
  <2> SUFFICES ASSUME Not # {} PROVE FALSE
    OBVIOUS
  <2>1. PICK k \in Not : \A j \in Not : k <= j
    <3>1. Not \subseteq Nat
      BY <1>0
    <3> HIDE DEF Not
    <3> QED
      BY <3>1, Least
  <2>2. k \in 1 .. LenDigits /\ k - 1 \in 0 .. LenDigits /\ ~(k <= k - 1)
    BY <1>0, <1>4, <1>6, <2>1 DEF ValueOf
  <2>3. value[k - 1] = Q(k - 1)
    BY <2>1, <2>2
  <2>4. value[k] = Q(k)
    BY <1>4, <1>8, <2>2, <2>3 DEF ValueOf
  <2> QED
    BY <2>1, <2>4
<1>10. Q(LenDigits) = n
  <2>1. LenDigits - LenDigits = 0 /\ Place[0] = 1
    BY <1>0, Places
  <2>2. n \div 1 = n
    BY <1>1, Division
  <2> QED
    BY <2>1, <2>2
<1> QED
  BY <1>0, <1>4, <1>9, <1>10 DEF ValueOf

-----------------------------------------------------------------------------
(* Sequences.                                                               *)

LEMMA Concat ==
    ASSUME NEW S
    PROVE  /\ <<>> \in Seq(S)
           /\ \A a, b \in Seq(S) : a \o b \in Seq(S) /\ Len(a \o b) = Len(a) + Len(b)
           /\ \A a, b, c \in Seq(S) : (a \o b) \o c = a \o (b \o c)
           /\ \A a \in Seq(S) : a \o <<>> = a /\ <<>> \o a = a
BY EmptySeq, ConcatProperties, ConcatAssociative, ConcatEmptySeq

LEMMA ConcatAt ==
    ASSUME NEW S, NEW a \in Seq(S), NEW b \in Seq(S)
    PROVE  \A i \in 1 .. Len(a \o b) : (a \o b)[i] = IF i <= Len(a) THEN a[i] ELSE b[i - Len(a)]
BY ConcatProperties

\* What is equal and cut at the same place is equal on both sides of it.
LEMMA Cut ==
    ASSUME NEW S, NEW a \in Seq(S), NEW b \in Seq(S), NEW x \in Seq(S), NEW y \in Seq(S),
           Len(a) = Len(b), a \o x = b \o y
    PROVE  a = b /\ x = y
<1>1. \A i \in 1 .. Len(a) : a[i] = b[i]
  <2>1. \A i \in 1 .. Len(a) : (a \o x)[i] = a[i] /\ (b \o y)[i] = b[i]
    <3>1. Len(a) \in Nat /\ Len(x) \in Nat /\ Len(y) \in Nat
      BY LenProperties
    <3>2. \A i \in 1 .. Len(a) : i \in 1 .. Len(a) + Len(x) /\ i \in 1 .. Len(b) + Len(y) /\ i <= Len(a)
      BY <3>1
    <3> QED
      BY <3>2, ConcatProperties
  <2> QED
    BY <2>1
<1>2. a = b
  BY <1>1, SeqEqual
<1> QED
  BY <1>2, ConcatSimplifications

\* A byte that moves from the head of one to the end of the other stays where
\* it is in the whole.
LEMMA Shift ==
    ASSUME NEW S, NEW p \in Seq(S), NEW w \in Seq(S), NEW l \in Seq(S), w # <<>>
    PROVE  /\ Append(p, Head(w)) \in Seq(S) /\ Tail(w) \in Seq(S)
           /\ Append(p, Head(w)) \o (Tail(w) \o l) = p \o (w \o l)
<1> DEFINE h == <<Head(w)>>
<1>1. Head(w) \in S /\ Tail(w) \in Seq(S)
  BY HeadTailProperties
<1>2. h \in Seq(S)
  BY <1>1
<1>3. w = h \o Tail(w)
  <2>1. Len(w) \in Nat /\ Len(w) >= 1
    BY EmptySeq, LenProperties
  <2>2. /\ h \o Tail(w) \in Seq(S) /\ Len(h \o Tail(w)) = Len(w)
        /\ \A i \in 1 .. Len(w) : (h \o Tail(w))[i] = IF i <= 1 THEN h[i] ELSE Tail(w)[i - 1]
    <3>1. Len(h) = 1 /\ Len(Tail(w)) = Len(w) - 1
      BY HeadTailProperties
    <3> DEFINE t == Tail(w)
    <3>2. t \in Seq(S) /\ Len(t) = Len(w) - 1
      BY <1>1, <3>1
    <3> HIDE DEF h, t
    <3>3. h \o t \in Seq(S) /\ Len(h \o t) = Len(w)
      <4>1. h \o t \in Seq(S) /\ Len(h \o t) = Len(h) + Len(t)
        BY <1>2, <3>2, ConcatProperties
      <4> QED
        BY <2>1, <3>1, <3>2, <4>1
    <3>4. \A i \in 1 .. Len(h \o t) : (h \o t)[i] = IF i <= Len(h) THEN h[i] ELSE t[i - Len(h)]
      BY <1>2, <3>2, ConcatAt
    <3> QED
      BY <3>1, <3>3, <3>4 DEF t
  <2>3. \A i \in 1 .. Len(w) : w[i] = IF i <= 1 THEN h[i] ELSE Tail(w)[i - 1]
    <3>1. h[1] = w[1]
      OBVIOUS
    <3>2. \A i \in 1 .. Len(w) : ~(i <= 1) => Tail(w)[i - 1] = w[i]
      <4>1. \A j \in 1 .. Len(w) - 1 : Tail(w)[j] = w[j + 1]
        BY HeadTailProperties
      <4> QED
        BY <2>1, <4>1
    <3> HIDE DEF h
    <3> QED
      BY <2>1, <3>1, <3>2
  <2> HIDE DEF h
  <2> QED
    BY <2>2, <2>3, SeqEqual
<1>4. Append(p, Head(w)) = p \o h
  BY <1>1, AppendIsConcat
<1> HIDE DEF h
<1>5. (p \o h) \o (Tail(w) \o l) = p \o (h \o (Tail(w) \o l))
  <2> DEFINE t == Tail(w)
             u == t \o l
  <2>1. t \in Seq(S)
    BY <1>1
  <2> HIDE DEF t
  <2>2. u \in Seq(S)
    BY <2>1, ConcatProperties
  <2> HIDE DEF u
  <2>3. (p \o h) \o u = p \o (h \o u)
    BY <1>2, <2>2, ConcatAssociative
  <2> QED
    BY <2>3 DEF u, t
<1>6. h \o (Tail(w) \o l) = w \o l
  <2> DEFINE t == Tail(w)
  <2>1. t \in Seq(S)
    BY <1>1
  <2> HIDE DEF t
  <2>2. (h \o t) \o l = h \o (t \o l)
    BY <1>2, <2>1, ConcatAssociative, SMTT(30)
  <2> QED
    BY <1>3, <2>2 DEF t
<1>7. Append(p, Head(w)) \in Seq(S)
  BY <1>1, AppendProperties
<1> QED
  BY <1>1, <1>4, <1>5, <1>6, <1>7

-----------------------------------------------------------------------------
(* A frame's bytes.                                                         *)

Frame == [tag : KnownTags, payload : Seq(Byte)]

Header(t, n) == <<FRAME_VERSION, t>> \o ToBytes(n)

LEMMA Constants ==
    /\ LenDigits \in Nat \ {0} /\ HEADER_LEN \in Nat /\ HEADER_LEN >= 3
    /\ \A t : MaxPayload(t) \in Nat /\ MaxPayload(t) \in 0 .. Place[LenDigits] - 1
    /\ FRAME_VERSION \in Byte /\ KnownTags \subseteq Byte
<1>1. Place[LenDigits] \in Nat
  BY FramingAssumption, Places
<1>2. \A t : MaxPayload(t) \in 0 .. Place[LenDigits] - 1
  BY FramingAssumption DEF MaxPayload
<1>3. \A t : MaxPayload(t) \in Nat
  BY <1>1, <1>2
<1> QED
  BY <1>2, <1>3, FramingAssumption DEF HEADER_LEN

LEMMA Headers ==
    ASSUME NEW t \in KnownTags, NEW n \in Nat
    PROVE  /\ Header(t, n) \in Seq(Byte) /\ Len(Header(t, n)) = HEADER_LEN
           /\ Header(t, n)[1] = FRAME_VERSION /\ Header(t, n)[2] = t
           /\ SubSeq(Header(t, n), 3, HEADER_LEN) = ToBytes(n)
<1> DEFINE vt == <<FRAME_VERSION, t>>
           len == ToBytes(n)
<1>1. vt \in Seq(Byte) /\ Len(vt) = 2 /\ vt[1] = FRAME_VERSION /\ vt[2] = t
  BY Constants
<1>2. len \in Seq(Byte) /\ Len(len) = LenDigits
  BY ToBytesType
<1>3. Header(t, n) = vt \o len
  BY DEF Header
<1> HIDE DEF vt, len
<1>4. LenDigits \in Nat \ {0} /\ HEADER_LEN = 2 + LenDigits
  BY Constants DEF HEADER_LEN
<1>5. Header(t, n) \in Seq(Byte) /\ Len(Header(t, n)) = HEADER_LEN
  BY <1>1, <1>2, <1>3, <1>4, ConcatProperties, SMTT(30)
<1>6. \A i \in 1 .. HEADER_LEN : Header(t, n)[i] = IF i <= 2 THEN vt[i] ELSE len[i - 2]
  <2>1. \A i \in 1 .. Len(vt \o len) : (vt \o len)[i] = IF i <= Len(vt) THEN vt[i] ELSE len[i - Len(vt)]
    BY <1>1, <1>2, ConcatAt
  <2> QED
    BY <1>1, <1>3, <1>5, <2>1
<1>7. Header(t, n)[1] = FRAME_VERSION /\ Header(t, n)[2] = t
  BY <1>1, <1>4, <1>6
<1>8. SubSeq(Header(t, n), 3, HEADER_LEN) = len
  <2> DEFINE s == SubSeq(Header(t, n), 3, HEADER_LEN)
  <2>1. /\ s \in Seq(Byte) /\ Len(s) = LenDigits
        /\ \A i \in 1 .. LenDigits : s[i] = Header(t, n)[i + 2]
    <3>1. \A i \in 3 .. HEADER_LEN : Header(t, n)[i] \in Byte
      BY <1>4, <1>5, ElementOfSeq
    <3>2. 3 \in Int /\ HEADER_LEN \in Int /\ 3 <= HEADER_LEN /\ HEADER_LEN - 3 + 1 = LenDigits
      BY <1>4
    <3>3. \A i \in 1 .. LenDigits : 3 + i - 1 = i + 2
      BY <1>4
    <3> QED
      BY <3>1, <3>2, <3>3, SubSeqProperties
  <2>2. \A i \in 1 .. LenDigits : s[i] = len[i]
    <3> HIDE DEF s
    <3> TAKE i \in 1 .. LenDigits
    <3>1. i + 2 \in 1 .. HEADER_LEN /\ ~(i + 2 <= 2) /\ (i + 2) - 2 = i
      BY <1>4
    <3> QED
      BY <1>6, <2>1, <3>1
  <2> HIDE DEF s
  <2> QED
    BY <1>2, <2>1, <2>2, SeqEqual DEF s
<1> QED
  BY <1>5, <1>7, <1>8 DEF len

LEMMA Encoded ==
    ASSUME NEW f \in Frame
    PROVE  /\ Encode(f.tag, f.payload) = Header(f.tag, Len(f.payload)) \o f.payload
           /\ Encode(f.tag, f.payload) \in Seq(Byte)
<1>1. Encode(f.tag, f.payload) = Header(f.tag, Len(f.payload)) \o f.payload
  BY DEF Encode, Header
<1>2. f.tag \in KnownTags /\ f.payload \in Seq(Byte)
  BY DEF Frame
<1>3. Len(f.payload) \in Nat
  BY <1>2, LenProperties
<1>4. Header(f.tag, Len(f.payload)) \in Seq(Byte)
  BY <1>2, <1>3, Headers
<1> QED
  BY <1>1, <1>2, <1>4, Concat

-----------------------------------------------------------------------------
(* The invariant.                                                           *)

\* What encode let through is inside its tag's ceiling.
Fits == \A k \in 1 .. Len(sent) : Len(sent[k].payload) <= MaxPayload(sent[k].tag)

\* The buffer that is being filled is not full.
Filling == reader # "down" =>
    /\ Len(part) < need
    /\ reader = "head" => need = HEADER_LEN
    /\ reader = "payload" => tag \in KnownTags

\* What was returned are the first of the frames that were written.
Returned == foreign = 0 =>
    /\ Len(got) <= Len(sent)
    /\ \A k \in 1 .. Len(got) : got[k] = sent[k]

\* What a stream that carries the frames of sent has after each of them.
Streams ==
    {after \in [0 .. Len(sent) -> Seq(Byte)] :
        /\ after[Len(sent)] = <<>>
        /\ \A k \in 1 .. Len(sent) :
              after[k - 1] = Encode(sent[k].tag, sent[k].payload) \o after[k]}

\* The head that was read of the frame that is being read.
Taken == IF reader = "payload" THEN Header(tag, need) ELSE <<>>

\* That frame is the first that was not returned.
Current == reader = "payload" =>
    /\ Len(got) < Len(sent)
    /\ tag = sent[Len(got) + 1].tag
    /\ need = Len(sent[Len(got) + 1].payload)

\* What was taken and what is on its way, with what a failed write lost, is all
\* that comes after the frames that were returned.
Continues(after, lost) ==
    /\ writer = "up" => lost = <<>>
    /\ Taken \o (part \o (pipe \o (writing \o lost))) = after[Len(got)]

InPipe == foreign = 0 /\ reader # "down" =>
    /\ Current
    /\ \E after \in Streams, lost \in Seq(Byte) : Continues(after, lost)

IInv == TypeOK /\ Fits /\ Filling /\ Returned /\ InPipe

LEMMA OfBytes ==
    /\ <<>> \in Seq(Byte)
    /\ \A a, b \in Seq(Byte) : a \o b \in Seq(Byte) /\ Len(a \o b) = Len(a) + Len(b)
    /\ \A a, b, c \in Seq(Byte) : (a \o b) \o c = a \o (b \o c)
    /\ \A a \in Seq(Byte) : a \o <<>> = a /\ <<>> \o a = a
BY Concat

LEMMA CutBytes ==
    \A a, b, x, y \in Seq(Byte) : Len(a) = Len(b) /\ a \o x = b \o y => a = b /\ x = y
BY Cut

LEMMA Typed ==
    ASSUME TypeOK
    PROVE  /\ writing \in Seq(Byte) /\ pipe \in Seq(Byte) /\ part \in Seq(Byte)
           /\ sent \in Seq(Frame) /\ got \in Seq(Frame)
           /\ Len(sent) \in Nat /\ Len(got) \in Nat /\ Len(part) \in Nat
           /\ \A k \in 1 .. Len(sent) : sent[k] \in Frame
           /\ need \in Nat
<1>1. /\ writing \in Seq(Byte) /\ pipe \in Seq(Byte) /\ part \in Seq(Byte)
      /\ sent \in Seq(Frame) /\ got \in Seq(Frame)
  BY DEF TypeOK, Frame
<1>2. need \in Nat
  BY Constants DEF TypeOK
<1>3. Len(sent) \in Nat /\ Len(got) \in Nat /\ Len(part) \in Nat
  BY <1>1, LenProperties
<1>4. \A k \in 1 .. Len(sent) : sent[k] \in Frame
  <2> HIDE DEF Frame
  <2> QED
    BY <1>1, ElementOfSeq
<1> QED
  BY <1>1, <1>2, <1>3, <1>4

LEMMA TakenType ==
    ASSUME TypeOK, Filling
    PROVE  Taken \in Seq(Byte)
BY Typed, Headers, OfBytes DEF Filling, Taken

LEMMA InitInv == Init => IInv
<1> SUFFICES ASSUME Init PROVE IInv
  OBVIOUS
<1>1. TypeOK
  <2>1. 0 \in 0 .. MaxForeign
    BY FramingAssumption
  <2>2. need \in IF reader = "payload" THEN 1 .. MaxPayload(tag) ELSE Nat
    BY Constants DEF Init
  <2>3. <<>> \in Seq(Byte) /\ <<>> \in Seq([tag : KnownTags, payload : Seq(Byte)])
    BY EmptySeq
  <2> QED
    BY <2>1, <2>2, <2>3 DEF Init, TypeOK
<1>2. Len(sent) = 0 /\ Len(got) = 0 /\ Len(part) = 0
  BY DEF Init
<1>3. Fits /\ Returned
  BY <1>2 DEF Fits, Returned
<1>4. Filling
  BY <1>2, Constants DEF Filling, Init
<1>5. InPipe
  <2> DEFINE after == [k \in 0 .. 0 |-> <<>>]
  <2>1. after \in Streams
    BY <1>2, OfBytes DEF Streams
  <2>2. Continues(after, <<>>)
    <3>1. after[0] = <<>>
      OBVIOUS
    <3>2. Taken = <<>> /\ part = <<>> /\ pipe = <<>> /\ writing = <<>>
      BY DEF Init, Taken
    <3>3. <<>> \o <<>> = <<>>
      BY OfBytes
    <3> QED
      BY <1>2, <3>1, <3>2, <3>3 DEF Continues
  <2>3. Current
    BY DEF Init, Current
  <2> HIDE DEF after
  <2> QED
    BY <2>1, <2>2, <2>3, OfBytes DEF InPipe
<1> QED
  BY <1>1, <1>3, <1>4, <1>5 DEF IInv

LEMMA Stutter == IInv /\ UNCHANGED vars => IInv'
BY ZenonT(60) DEF vars, IInv, TypeOK, MaxPayload, Fits, Filling, HEADER_LEN, Returned, InPipe, Current, Streams,
       Continues, Taken, Header, ToBytes, Encode

-----------------------------------------------------------------------------
(* The steps of the writer.                                                 *)

\* A frame that is written comes after all that was.
LEMMA StreamGrows ==
    ASSUME TypeOK, NEW f \in Frame, sent' = Append(sent, f), NEW after \in Streams
    PROVE  \E then \in Streams' :
              \A k \in 0 .. Len(sent) : then[k] = after[k] \o Encode(f.tag, f.payload)
<1> DEFINE n == Len(sent)
           e == Encode(f.tag, f.payload)
           then == [k \in 0 .. n + 1 |-> IF k = n + 1 THEN <<>> ELSE after[k] \o e]
<1>1. n \in Nat /\ sent \in Seq(Frame) /\ \A k \in 1 .. n : sent[k] \in Frame
  BY Typed
<1>2. /\ Len(sent') = n + 1 /\ sent'[n + 1] = f
      /\ \A k \in 1 .. n : sent'[k] = sent[k]
  <2> HIDE DEF Frame
  <2> QED
    BY <1>1, AppendProperties
<1>3. /\ after \in [0 .. n -> Seq(Byte)] /\ after[n] = <<>>
      /\ \A k \in 1 .. n : after[k - 1] = Encode(sent[k].tag, sent[k].payload) \o after[k]
  BY DEF Streams
<1>4. e \in Seq(Byte)
  BY Encoded
<1> HIDE DEF n, e
<1>5. \A k \in 0 .. n : after[k] \in Seq(Byte) /\ then[k] = after[k] \o e
  <2>1. \A k \in 0 .. n : k \in 0 .. n + 1 /\ k # n + 1
    BY <1>1
  <2> QED
    BY <1>3, <2>1
<1>6. then \in [0 .. n + 1 -> Seq(Byte)] /\ then[n + 1] = <<>>
  <2>1. n + 1 \in 0 .. n + 1 /\ \A k \in 0 .. n + 1 : k # n + 1 => k \in 0 .. n
    BY <1>1
  <2>2. then[n + 1] = <<>>
    BY <2>1
  <2>3. \A k \in 0 .. n : after[k] \o e \in Seq(Byte)
    BY <1>4, <1>5, OfBytes
  <2>4. <<>> \in Seq(Byte)
    BY OfBytes
  <2> QED
    BY <2>1, <2>2, <2>3, <2>4
<1> HIDE DEF then
<1>7. ASSUME NEW k \in 1 .. n + 1
      PROVE  then[k - 1] = Encode(sent'[k].tag, sent'[k].payload) \o then[k]
  <2>1. CASE k = n + 1
    <3>0. k - 1 = n /\ n \in 0 .. n
      BY <1>1, <2>1
    <3>1. then[k - 1] = <<>> \o e /\ then[k] = <<>>
      BY <1>3, <1>5, <1>6, <2>1, <3>0
    <3>2. Encode(sent'[k].tag, sent'[k].payload) = e
      BY <1>2, <2>1 DEF e
    <3>3. <<>> \o e = e /\ e \o <<>> = e
      BY <1>4, OfBytes
    <3> QED
      BY <3>1, <3>2, <3>3
  <2>2. CASE k \in 1 .. n
    <3> DEFINE ek == Encode(sent[k].tag, sent[k].payload)
    <3>1. k - 1 \in 0 .. n /\ k \in 0 .. n /\ sent[k] \in Frame
      BY <1>1, <2>2
    <3>2. ek \in Seq(Byte)
      BY <3>1, Encoded
    <3>3. Encode(sent'[k].tag, sent'[k].payload) = ek
      BY <1>2, <2>2
    <3>4. after[k - 1] = ek \o after[k]
      BY <1>3, <2>2
    <3> HIDE DEF ek
    <3>5. after[k] \in Seq(Byte) /\ then[k - 1] = after[k - 1] \o e /\ then[k] = after[k] \o e
      BY <1>5, <3>1
    <3>6. (ek \o after[k]) \o e = ek \o (after[k] \o e)
      BY <1>4, <3>2, <3>5, OfBytes
    <3> QED
      BY <3>3, <3>4, <3>5, <3>6
  <2>3. k = n + 1 \/ k \in 1 .. n
    BY <1>1
  <2> QED
    BY <2>1, <2>2, <2>3
<1>8. then \in Streams'
  BY <1>2, <1>6, <1>7 DEF Streams
<1> QED
  BY <1>5, <1>8 DEF n, e

LEMMA WriteFrameInv ==
    ASSUME IInv, NEW t \in KnownTags, NEW payload \in Seq(Byte), WriteFrame(t, payload)
    PROVE  IInv'
<1> DEFINE f == [tag |-> t, payload |-> payload]
<1>0. /\ writer = "up" /\ writing = <<>>
      /\ UNCHANGED <<writer, pipe, foreign, reader, part, tag, need, got>>
  BY DEF WriteFrame
<1>1. CASE Len(payload) <= MaxPayload(t)
  <2>1. writing' = Encode(t, payload) /\ sent' = Append(sent, f)
    BY <1>1 DEF WriteFrame
  <2>2. f \in Frame /\ f.tag = t /\ f.payload = payload
    BY DEF Frame
  <2> HIDE DEF f
  <2>3. sent \in Seq(Frame) /\ Len(sent) \in Nat /\ got \in Seq(Frame) /\ Len(got) \in Nat
    BY Typed DEF IInv
  <2>4. /\ sent' \in Seq(Frame) /\ Len(sent') = Len(sent) + 1 /\ sent'[Len(sent) + 1] = f
        /\ \A k \in 1 .. Len(sent) : sent'[k] = sent[k]
    <3> HIDE DEF Frame
    <3> QED
      BY <2>1, <2>2, <2>3, AppendProperties
  <2>5. Encode(t, payload) \in Seq(Byte)
    BY <2>2, Encoded
  <2>6. TypeOK'
    BY <1>0, <2>1, <2>4, <2>5 DEF IInv, TypeOK, Frame, MaxPayload
  <2>7. Fits'
    <3> SUFFICES ASSUME NEW k \in 1 .. Len(sent) + 1
                 PROVE  Len(sent'[k].payload) <= MaxPayload(sent'[k].tag)
      BY <2>4 DEF Fits, MaxPayload
    <3>1. CASE k = Len(sent) + 1
      BY <1>1, <2>2, <2>4, <3>1
    <3>2. CASE k \in 1 .. Len(sent)
      BY <2>4, <3>2 DEF IInv, Fits
    <3> QED
      BY <2>3, <3>1, <3>2
  <2>8. Filling'
    BY <1>0 DEF IInv, Filling, HEADER_LEN
  <2>9. Returned'
    <3> SUFFICES ASSUME foreign = 0 PROVE Len(got) <= Len(sent') /\ \A k \in 1 .. Len(got) : got[k] = sent'[k]
      BY <1>0 DEF Returned
    <3>1. Len(got) <= Len(sent) /\ \A k \in 1 .. Len(got) : got[k] = sent[k]
      BY DEF IInv, Returned
    <3> QED
      BY <2>3, <2>4, <3>1
  <2>10. InPipe'
    <3> SUFFICES ASSUME foreign = 0, reader # "down" PROVE InPipe'
      BY <1>0 DEF InPipe
    <3>1. PICK after \in Streams, lost \in Seq(Byte) : Continues(after, lost)
      BY DEF IInv, InPipe
    <3>2. PICK then \in Streams' : \A k \in 0 .. Len(sent) : then[k] = after[k] \o Encode(f.tag, f.payload)
      BY <2>1, <2>2, StreamGrows DEF IInv
    <3>3. Len(got) \in 0 .. Len(sent)
      BY <2>3 DEF IInv, Returned
    <3> DEFINE e == Encode(t, payload)
    <3>4. then[Len(got)] = after[Len(got)] \o e
      BY <2>2, <3>2, <3>3
    <3>5. Taken' = Taken /\ Taken \in Seq(Byte)
      BY <1>0, TakenType DEF IInv, Taken, Header, ToBytes
    <3>6. lost = <<>> /\ part \in Seq(Byte) /\ pipe \in Seq(Byte) /\ e \in Seq(Byte)
      BY <1>0, <2>5, <3>1, Typed DEF IInv, Continues
    <3> HIDE DEF e
    <3>7. after[Len(got)] = Taken \o (part \o pipe)
      <4>1. after[Len(got)] = Taken \o (part \o (pipe \o (<<>> \o <<>>)))
        BY <1>0, <3>1, <3>6 DEF Continues
      <4> QED
        BY <3>6, <4>1, OfBytes
    <3>8. (Taken \o (part \o pipe)) \o e = Taken \o (part \o (pipe \o (e \o <<>>)))
      <4>1. (Taken \o (part \o pipe)) \o e = Taken \o ((part \o pipe) \o e)
        <5> DEFINE both == part \o pipe
        <5>1. both \in Seq(Byte)
          BY <3>6, OfBytes
        <5> HIDE DEF both
        <5>2. (Taken \o both) \o e = Taken \o (both \o e)
          BY <3>5, <3>6, <5>1, OfBytes, SMTT(30)
        <5> QED
          BY <5>2 DEF both
      <4>2. (part \o pipe) \o e = part \o (pipe \o e)
        BY <3>6, OfBytes
      <4>3. e \o <<>> = e
        BY <3>6, OfBytes
      <4> QED
        BY <4>1, <4>2, <4>3
    <3>9. Continues(then, <<>>)'
      <4>1. writing' = e /\ part' = part /\ pipe' = pipe /\ got' = got
        BY <1>0, <2>1 DEF e
      <4>2. Taken' \o (part' \o (pipe' \o (writing' \o <<>>))) = then[Len(got')]
        BY <3>4, <3>5, <3>7, <3>8, <4>1
      <4> QED
        BY <4>2 DEF Continues
    <3>10. Current'
      <4> SUFFICES ASSUME reader = "payload"
                   PROVE  /\ Len(got) < Len(sent')
                          /\ tag = sent'[Len(got) + 1].tag /\ need = Len(sent'[Len(got) + 1].payload)
        BY <1>0 DEF Current
      <4>1. /\ Len(got) < Len(sent)
            /\ tag = sent[Len(got) + 1].tag /\ need = Len(sent[Len(got) + 1].payload)
        BY DEF IInv, InPipe, Current
      <4>2. Len(got) + 1 \in 1 .. Len(sent) /\ Len(got) < Len(sent')
        BY <2>3, <2>4, <4>1
      <4> QED
        BY <2>4, <4>1, <4>2
    <3> QED
      BY <3>9, <3>10, OfBytes DEF InPipe
  <2> QED
    BY <2>6, <2>7, <2>8, <2>9, <2>10 DEF IInv
<1>2. CASE ~(Len(payload) <= MaxPayload(t))
  <2>1. UNCHANGED vars
    BY <1>0, <1>2 DEF WriteFrame, vars
  <2> QED
    BY <2>1, Stutter
<1> QED
  BY <1>1, <1>2

LEMMA PushInv == IInv /\ Push => IInv'
<1> SUFFICES ASSUME IInv, Push PROVE IInv'
  OBVIOUS
<1>0. /\ writing # <<>> /\ pipe' = Append(pipe, Head(writing)) /\ writing' = Tail(writing)
      /\ UNCHANGED <<writer, foreign, reader, part, tag, need, sent, got>>
  BY DEF Push
<1>1. writing \in Seq(Byte) /\ pipe \in Seq(Byte) /\ part \in Seq(Byte)
  BY Typed DEF IInv
<1>2. /\ pipe' \in Seq(Byte) /\ writing' \in Seq(Byte)
      /\ \A lost \in Seq(Byte) : pipe' \o (writing' \o lost) = pipe \o (writing \o lost)
  <2>1. \A lost \in Seq(Byte) :
           /\ Append(pipe, Head(writing)) \in Seq(Byte) /\ Tail(writing) \in Seq(Byte)
           /\ Append(pipe, Head(writing)) \o (Tail(writing) \o lost) = pipe \o (writing \o lost)
    <3> SUFFICES ASSUME NEW lost \in Seq(Byte)
                 PROVE  /\ Append(pipe, Head(writing)) \in Seq(Byte) /\ Tail(writing) \in Seq(Byte)
                        /\ Append(pipe, Head(writing)) \o (Tail(writing) \o lost) = pipe \o (writing \o lost)
      OBVIOUS
    <3>1. writing # <<>>
      BY <1>0
    <3> QED
      BY <1>1, <3>1, Shift, SMTT(30)
  <2> QED
    BY <1>0, <2>1, OfBytes
<1>3. TypeOK'
  BY <1>0, <1>2 DEF IInv, TypeOK, MaxPayload
<1>4. Fits' /\ Filling' /\ Returned'
  BY <1>0 DEF IInv, Fits, Filling, Returned, HEADER_LEN, MaxPayload
<1>5. Streams' = Streams /\ Taken' = Taken /\ Current' = Current
  BY <1>0 DEF Streams, Taken, Header, ToBytes, Current, Encode
<1>6. \A after, lost : lost \in Seq(Byte) /\ Continues(after, lost) => Continues(after, lost)'
  BY <1>0, <1>2, <1>5 DEF Continues
<1>7. InPipe'
  BY <1>0, <1>5, <1>6 DEF IInv, InPipe
<1> QED
  BY <1>3, <1>4, <1>7 DEF IInv

LEMMA WriteFailsInv == IInv /\ WriteFails => IInv'
<1> SUFFICES ASSUME IInv, WriteFails PROVE IInv'
  OBVIOUS
<1>0. /\ writer' = "down" /\ writing' = <<>>
      /\ UNCHANGED <<pipe, foreign, reader, part, tag, need, sent, got>>
  BY DEF WriteFails
<1>1. writing \in Seq(Byte) /\ <<>> \in Seq(Byte)
  BY Typed, OfBytes DEF IInv
<1>3. TypeOK'
  BY <1>0, <1>1 DEF IInv, TypeOK, MaxPayload
<1>4. Fits' /\ Filling' /\ Returned'
  BY <1>0 DEF IInv, Fits, Filling, Returned, HEADER_LEN, MaxPayload
<1>5. Streams' = Streams /\ Taken' = Taken /\ Current' = Current
  BY <1>0 DEF Streams, Taken, Header, ToBytes, Current, Encode
<1>6. ASSUME NEW after, NEW lost \in Seq(Byte), Continues(after, lost)
      PROVE  \E more \in Seq(Byte) : Continues(after, more)'
  <2>1. PICK more \in Seq(Byte) : more = writing \o lost
    BY <1>1, OfBytes
  <2>2. Taken \o (part \o (pipe \o more)) = after[Len(got)]
    BY <1>6, <2>1 DEF Continues
  <2>3. <<>> \o more = more
    BY OfBytes
  <2>4. Continues(after, more)'
    BY <1>0, <1>5, <2>2, <2>3 DEF Continues
  <2> QED
    BY <2>4
<1>7. InPipe'
  <2> SUFFICES ASSUME foreign = 0, reader # "down" PROVE InPipe'
    BY <1>0 DEF InPipe
  <2>1. PICK after \in Streams, lost \in Seq(Byte) : Continues(after, lost)
    BY DEF IInv, InPipe
  <2>2. PICK more \in Seq(Byte) : Continues(after, more)'
    BY <1>6, <2>1
  <2>3. Current'
    BY <1>5 DEF IInv, InPipe
  <2> QED
    BY <1>5, <2>1, <2>2, <2>3 DEF InPipe
<1> QED
  BY <1>3, <1>4, <1>7 DEF IInv

LEMMA ForeignByteInv ==
    ASSUME IInv, NEW b \in Byte, ForeignByte(b)
    PROVE  IInv'
<1>0. /\ foreign < MaxForeign /\ foreign' = foreign + 1 /\ pipe' = Append(pipe, b)
      /\ UNCHANGED <<writer, writing, reader, part, tag, need, sent, got>>
  BY DEF ForeignByte
<1>1. pipe' \in Seq(Byte)
  BY <1>0, Typed, AppendProperties DEF IInv
<1>2. foreign' \in 0 .. MaxForeign /\ foreign' # 0
  BY <1>0, FramingAssumption DEF IInv, TypeOK
<1>3. TypeOK'
  BY <1>0, <1>1, <1>2 DEF IInv, TypeOK, MaxPayload
<1>4. Fits' /\ Filling'
  BY <1>0 DEF IInv, Fits, Filling, HEADER_LEN, MaxPayload
<1>5. Returned' /\ InPipe'
  BY <1>2 DEF Returned, InPipe
<1> QED
  BY <1>3, <1>4, <1>5 DEF IInv

-----------------------------------------------------------------------------
(* The steps of the reader.                                                 *)

\* A reader that is down stays what it is.
LEMMA FailInv ==
    ASSUME IInv, Fail, pipe' \in Seq(Byte), UNCHANGED <<writer, writing, foreign, sent>>
    PROVE  IInv'
<1>0. reader' = "down" /\ part' = <<>> /\ tag' = 0 /\ need' = 0 /\ got' = got
  BY DEF Fail
<1>1. TypeOK'
  BY <1>0, OfBytes DEF IInv, TypeOK
<1>2. Fits' /\ Returned'
  BY <1>0 DEF IInv, Fits, Returned, MaxPayload
<1> QED
  BY <1>0, <1>1, <1>2 DEF IInv, Filling, InPipe

LEMMA ReadFailsInv == IInv /\ ReadFails => IInv'
<1>1. IInv => pipe \in Seq(Byte)
  BY Typed DEF IInv
<1> QED
  BY <1>1, FailInv DEF ReadFails

\* A byte that is read and is not the last the buffer lacks.
LEMMA ReadOnInv ==
    ASSUME IInv, pipe # <<>>, pipe' = Tail(pipe), part' = Append(part, Head(pipe)), Len(part') < need,
           UNCHANGED <<writer, writing, foreign, sent, reader, tag, need, got>>
    PROVE  IInv'
<1>1. writing \in Seq(Byte) /\ pipe \in Seq(Byte) /\ part \in Seq(Byte)
  BY Typed DEF IInv
<1>2. \A rest \in Seq(Byte) :
         /\ Append(part, Head(pipe)) \in Seq(Byte) /\ Tail(pipe) \in Seq(Byte)
         /\ Append(part, Head(pipe)) \o (Tail(pipe) \o rest) = part \o (pipe \o rest)
  BY <1>1, Shift, SMTT(30)
<1>3. part' \in Seq(Byte) /\ pipe' \in Seq(Byte)
  BY <1>2, OfBytes
<1>4. TypeOK'
  BY <1>3 DEF IInv, TypeOK, MaxPayload
<1>5. Fits' /\ Filling' /\ Returned'
  BY DEF IInv, Fits, Filling, Returned, HEADER_LEN, MaxPayload
<1>6. Streams' = Streams /\ Taken' = Taken /\ Current' = Current
  BY DEF Streams, Taken, Header, ToBytes, Current, Encode
<1>7. ASSUME NEW after, NEW lost \in Seq(Byte), Continues(after, lost)
      PROVE  Continues(after, lost)'
  <2>1. PICK rest \in Seq(Byte) : rest = writing \o lost
    BY <1>1, OfBytes
  <2>2. part' \o (pipe' \o rest) = part \o (pipe \o rest)
    BY <1>2
  <2> QED
    BY <1>6, <1>7, <2>1, <2>2 DEF Continues
<1>8. InPipe'
  BY <1>6, <1>7 DEF IInv, InPipe
<1> QED
  BY <1>4, <1>5, <1>8 DEF IInv

\* The first frame that was not returned, what comes after it, and how the
\* bytes the reader has so far continue.
LEMMA NextFrame ==
    ASSUME IInv, foreign = 0, reader # "down",
           NEW now \in Seq(Byte), NEW rest \in Seq(Byte), Len(now) > 0,
           NEW after \in Streams, Taken \o (now \o rest) = after[Len(got)]
    PROVE  /\ Len(got) + 1 \in 1 .. Len(sent)
           /\ after[Len(got) + 1] \in Seq(Byte)
           /\ LET f == sent[Len(got) + 1]
              IN  Taken \o (now \o rest)
                     = Header(f.tag, Len(f.payload)) \o (f.payload \o after[Len(got) + 1])
<1>1. /\ Len(got) \in Nat /\ Len(sent) \in Nat /\ Len(got) <= Len(sent)
      /\ \A k \in 1 .. Len(sent) : sent[k] \in Frame
  BY Typed DEF IInv, Returned
<1>2. /\ after \in [0 .. Len(sent) -> Seq(Byte)] /\ after[Len(sent)] = <<>>
      /\ \A k \in 1 .. Len(sent) : after[k - 1] = Encode(sent[k].tag, sent[k].payload) \o after[k]
  BY DEF Streams
<1>3. Taken \in Seq(Byte) /\ Len(Taken) \in Nat
  BY TakenType, LenProperties DEF IInv
<1>4. Len(got) # Len(sent)
  <2> SUFFICES ASSUME Len(got) = Len(sent) PROVE FALSE
    OBVIOUS
  <2>1. now \o rest \in Seq(Byte) /\ Len(now \o rest) = Len(now) + Len(rest)
    BY OfBytes
  <2>2. Len(Taken \o (now \o rest)) = Len(Taken) + (Len(now) + Len(rest))
    <3>1. PICK both \in Seq(Byte) : both = now \o rest /\ Len(both) = Len(now) + Len(rest)
      BY <2>1
    <3>2. Len(Taken \o both) = Len(Taken) + Len(both)
      BY <1>3, OfBytes
    <3> QED
      BY <3>1, <3>2
  <2>3. Len(Taken \o (now \o rest)) = 0
    BY <1>2
  <2>4. Len(now) \in Nat /\ Len(rest) \in Nat
    BY LenProperties
  <2> QED
    BY <1>3, <2>2, <2>3, <2>4
<1> DEFINE k == Len(got) + 1
           f == sent[k]
<1>5. k \in 1 .. Len(sent) /\ k - 1 = Len(got) /\ k \in 0 .. Len(sent)
  BY <1>1, <1>4
<1>6. f \in Frame /\ after[k] \in Seq(Byte) /\ after[Len(got)] = Encode(f.tag, f.payload) \o after[k]
  BY <1>1, <1>2, <1>5
<1> HIDE DEF k, f
<1>7. f.tag \in KnownTags /\ f.payload \in Seq(Byte) /\ Len(f.payload) \in Nat
  BY <1>6, LenProperties DEF Frame
<1>8. /\ Encode(f.tag, f.payload) = Header(f.tag, Len(f.payload)) \o f.payload
      /\ Header(f.tag, Len(f.payload)) \in Seq(Byte)
  BY <1>6, <1>7, Encoded, Headers
<1>9. (Header(f.tag, Len(f.payload)) \o f.payload) \o after[k]
        = Header(f.tag, Len(f.payload)) \o (f.payload \o after[k])
  BY <1>6, <1>7, <1>8, OfBytes, ZenonT(60)
<1>10. Taken \o (now \o rest) = Header(f.tag, Len(f.payload)) \o (f.payload \o after[k])
  BY <1>6, <1>8, <1>9
<1> QED
  BY <1>5, <1>6, <1>10 DEF k, f

\* A frame is returned, and it is the next of those that were written.
LEMMA ReturnInv ==
    ASSUME IInv, NEW t \in KnownTags, NEW payload \in Seq(Byte), Return(t, payload),
           pipe' \in Seq(Byte), UNCHANGED <<writer, writing, foreign, sent>>,
           foreign = 0 =>
              /\ Len(got) + 1 \in 1 .. Len(sent)
              /\ sent[Len(got) + 1] = [tag |-> t, payload |-> payload]
              /\ \E after \in Streams, lost \in Seq(Byte) :
                    /\ writer = "up" => lost = <<>>
                    /\ pipe' \o (writing \o lost) = after[Len(got) + 1]
    PROVE  IInv'
<1> DEFINE f == [tag |-> t, payload |-> payload]
<1>0. /\ got' = Append(got, f) /\ reader' = "head" /\ part' = <<>>
      /\ tag' = 0 /\ need' = HEADER_LEN
  BY DEF Return
<1>1. f \in Frame /\ got \in Seq(Frame) /\ Len(got) \in Nat
  BY Typed DEF IInv, Frame
<1> HIDE DEF f
<1>2. /\ got' \in Seq(Frame) /\ Len(got') = Len(got) + 1 /\ got'[Len(got) + 1] = f
      /\ \A k \in 1 .. Len(got) : got'[k] = got[k]
  <2> HIDE DEF Frame
  <2> QED
    BY <1>0, <1>1, AppendProperties
<1>3. TypeOK'
  BY <1>0, <1>2, OfBytes, Constants DEF IInv, TypeOK, Frame
<1>4. Fits'
  BY DEF IInv, Fits, MaxPayload
<1>5. Filling'
  <2>1. Len(part') = 0 /\ HEADER_LEN > 0
    BY <1>0, Constants
  <2> QED
    BY <1>0, <2>1 DEF Filling, HEADER_LEN
<1>6. Returned'
  <2> SUFFICES ASSUME foreign = 0
               PROVE  Len(got') <= Len(sent) /\ \A k \in 1 .. Len(got') : got'[k] = sent[k]
    BY DEF Returned
  <2>1. Len(got) + 1 \in 1 .. Len(sent) /\ sent[Len(got) + 1] = f
    BY DEF f
  <2>2. ASSUME NEW k \in 1 .. Len(got) + 1 PROVE got'[k] = sent[k]
    <3>1. k = Len(got) + 1 \/ k \in 1 .. Len(got)
      BY <1>1
    <3>2. \A j \in 1 .. Len(got) : got[j] = sent[j]
      BY DEF IInv, Returned
    <3> QED
      BY <1>2, <2>1, <3>1, <3>2
  <2> QED
    BY <1>2, <2>1, <2>2
<1>7. InPipe'
  <2> SUFFICES ASSUME foreign = 0 PROVE InPipe'
    BY DEF InPipe
  <2>1. PICK after \in Streams, lost \in Seq(Byte) :
           /\ writer = "up" => lost = <<>>
           /\ pipe' \o (writing \o lost) = after[Len(got) + 1]
    OBVIOUS
  <2>2. Streams' = Streams
    BY DEF Streams, Encode, ToBytes
  <2>3. Taken' = <<>> /\ Current'
    BY <1>0 DEF Taken, Current
  <2>4. writing \in Seq(Byte)
    BY Typed DEF IInv
  <2>5. <<>> \o (<<>> \o (pipe' \o (writing \o lost))) = pipe' \o (writing \o lost)
    <3>1. PICK rest \in Seq(Byte) : rest = writing \o lost
      BY <2>4, OfBytes
    <3>2. PICK all \in Seq(Byte) : all = pipe' \o rest
      BY OfBytes
    <3>3. <<>> \o all = all
      BY OfBytes
    <3> QED
      BY <3>1, <3>2, <3>3
  <2>6. Continues(after, lost)'
    BY <1>0, <1>2, <2>1, <2>3, <2>5 DEF Continues
  <2> QED
    BY <2>1, <2>2, <2>3, <2>6 DEF InPipe
<1> QED
  BY <1>3, <1>4, <1>5, <1>6, <1>7 DEF IInv

\* What is left of the stream when the buffer is full of now.
LEMMA Filled ==
    ASSUME IInv, reader # "down", pipe # <<>>, NEW now, now = Append(part, Head(pipe)), ~(Len(now) < need)
    PROVE  /\ now \in Seq(Byte) /\ Tail(pipe) \in Seq(Byte)
           /\ Len(now) = need /\ Len(now) > 0
           /\ \A after, lost : lost \in Seq(Byte) /\ Continues(after, lost)
                 => Taken \o (now \o (Tail(pipe) \o (writing \o lost))) = after[Len(got)]
<1>1. /\ writing \in Seq(Byte) /\ pipe \in Seq(Byte) /\ part \in Seq(Byte) /\ Len(part) \in Nat
      /\ need \in Nat /\ Len(part) < need
  BY Typed DEF IInv, Filling
<1>2. \A rest \in Seq(Byte) :
         /\ now \in Seq(Byte) /\ Tail(pipe) \in Seq(Byte)
         /\ now \o (Tail(pipe) \o rest) = part \o (pipe \o rest)
  <2>1. \A rest \in Seq(Byte) :
           /\ Append(part, Head(pipe)) \in Seq(Byte) /\ Tail(pipe) \in Seq(Byte)
           /\ Append(part, Head(pipe)) \o (Tail(pipe) \o rest) = part \o (pipe \o rest)
    <3>1. part \in Seq(Byte) /\ pipe \in Seq(Byte)
      BY <1>1
    <3> QED
      BY <3>1, Shift, SMTT(30)
  <2> QED
    BY <2>1
<1>3. now \in Seq(Byte) /\ Tail(pipe) \in Seq(Byte)
  BY <1>2, OfBytes
<1>4. Len(now) = Len(part) + 1
  BY <1>1, HeadTailProperties, AppendProperties
<1>5. Len(now) = need /\ Len(now) > 0
  BY <1>1, <1>4
<1>6. ASSUME NEW after, NEW lost \in Seq(Byte), Continues(after, lost)
      PROVE  Taken \o (now \o (Tail(pipe) \o (writing \o lost))) = after[Len(got)]
  <2>1. PICK rest \in Seq(Byte) : rest = writing \o lost
    BY <1>1, OfBytes
  <2>2. now \o (Tail(pipe) \o rest) = part \o (pipe \o rest)
    BY <1>2
  <2> QED
    BY <1>6, <2>1, <2>2 DEF Continues
<1> QED
  BY <1>3, <1>5, <1>6

\* The payload is complete.
LEMMA PayloadInv ==
    ASSUME IInv, reader = "payload", pipe # <<>>, NEW now, now = Append(part, Head(pipe)),
           ~(Len(now) < need), Return(tag, now), pipe' = Tail(pipe),
           UNCHANGED <<writer, writing, foreign, sent>>
    PROVE  IInv'
<1>1. /\ now \in Seq(Byte) /\ Tail(pipe) \in Seq(Byte) /\ Len(now) = need /\ Len(now) > 0
      /\ \A after, lost : lost \in Seq(Byte) /\ Continues(after, lost)
            => Taken \o (now \o (Tail(pipe) \o (writing \o lost))) = after[Len(got)]
  BY Filled
<1>2. tag \in KnownTags
  BY DEF IInv, Filling
<1>3. ASSUME foreign = 0
      PROVE  /\ Len(got) + 1 \in 1 .. Len(sent)
             /\ sent[Len(got) + 1] = [tag |-> tag, payload |-> now]
             /\ \E after \in Streams, lost \in Seq(Byte) :
                   /\ writer = "up" => lost = <<>>
                   /\ pipe' \o (writing \o lost) = after[Len(got) + 1]
  <2>1. PICK after \in Streams, lost \in Seq(Byte) : Continues(after, lost)
    BY <1>3 DEF IInv, InPipe
  <2>2. PICK rest \in Seq(Byte) : rest = Tail(pipe) \o (writing \o lost)
    <3>1. PICK more \in Seq(Byte) : more = writing \o lost
      BY Typed, OfBytes DEF IInv
    <3> QED
      BY <1>1, <3>1, OfBytes
  <2>3. Taken \o (now \o rest) = after[Len(got)]
    BY <1>1, <2>1, <2>2
  <2> DEFINE f == sent[Len(got) + 1]
             h == Header(f.tag, Len(f.payload))
  <2>4. /\ Len(got) + 1 \in 1 .. Len(sent) /\ after[Len(got) + 1] \in Seq(Byte)
        /\ Taken \o (now \o rest) = h \o (f.payload \o after[Len(got) + 1])
    BY <1>1, <1>3, <2>1, <2>3, NextFrame
  <2>5. f \in Frame /\ f.tag \in KnownTags /\ f.payload \in Seq(Byte)
    BY <2>4, Typed DEF IInv, Frame
  <2>6. tag = f.tag /\ need = Len(f.payload)
    BY <1>3 DEF IInv, InPipe, Current
  <2>7. Taken = h
    BY <2>6 DEF Taken
  <2>8. h \in Seq(Byte)
    BY <2>7, TakenType DEF IInv
  <2> HIDE DEF f, h
  <2>9. now \o rest = f.payload \o after[Len(got) + 1]
    <3>1. PICK x \in Seq(Byte), y \in Seq(Byte) : x = now \o rest /\ y = f.payload \o after[Len(got) + 1]
      BY <1>1, <2>4, <2>5, OfBytes
    <3>2. h \o x = h \o y
      BY <2>4, <2>7, <3>1
    <3>3. x = y
      BY <2>8, <3>2, CutBytes
    <3> QED
      BY <3>1, <3>3
  <2>10. now = f.payload /\ rest = after[Len(got) + 1]
    <3>1. Len(now) = Len(f.payload)
      BY <1>1, <2>6
    <3>2. now \in Seq(Byte) /\ f.payload \in Seq(Byte) /\ after[Len(got) + 1] \in Seq(Byte)
      BY <1>1, <2>4, <2>5
    <3> QED
      BY <2>9, <3>1, <3>2, CutBytes, ZenonT(60)
  <2>11. f = [tag |-> tag, payload |-> now]
    BY <2>5, <2>6, <2>10 DEF Frame
  <2>12. writer = "up" => lost = <<>>
    BY <2>1 DEF Continues
  <2> QED
    BY <2>2, <2>4, <2>10, <2>11, <2>12 DEF f
<1> QED
  BY <1>1, <1>2, <1>3, ReturnInv

\* The head is complete: if there never was a peer that speaks no frames, it is
\* the head of the next frame.
LEMMA HeadIs ==
    ASSUME IInv, foreign = 0, reader = "head", pipe # <<>>, NEW now, now = Append(part, Head(pipe)),
           ~(Len(now) < need), pipe' = Tail(pipe), writing' = writing, writer' = writer
    PROVE  LET f == sent[Len(got) + 1]
           IN  /\ Len(got) + 1 \in 1 .. Len(sent) /\ f \in Frame
               /\ now = Header(f.tag, Len(f.payload))
               /\ \E after \in Streams, lost \in Seq(Byte) :
                     /\ writer = "up" => lost = <<>>
                     /\ after[Len(got) + 1] \in Seq(Byte)
                     /\ now \o (f.payload \o after[Len(got) + 1]) = after[Len(got)]
                     /\ pipe' \o (writing \o lost) = f.payload \o after[Len(got) + 1]
<1>1. /\ now \in Seq(Byte) /\ Tail(pipe) \in Seq(Byte) /\ Len(now) = need /\ Len(now) > 0
      /\ \A after, lost : lost \in Seq(Byte) /\ Continues(after, lost)
            => Taken \o (now \o (Tail(pipe) \o (writing \o lost))) = after[Len(got)]
  BY Filled
<1>2. PICK after \in Streams, lost \in Seq(Byte) : Continues(after, lost)
  BY DEF IInv, InPipe
<1>3. PICK rest \in Seq(Byte) : rest = Tail(pipe) \o (writing \o lost)
  <2>1. PICK more \in Seq(Byte) : more = writing \o lost
    BY Typed, OfBytes DEF IInv
  <2> QED
    BY <1>1, <2>1, OfBytes
<1>4. Taken \o (now \o rest) = after[Len(got)]
  BY <1>1, <1>2, <1>3
<1> DEFINE f == sent[Len(got) + 1]
           h == Header(f.tag, Len(f.payload))
<1>5. /\ Len(got) + 1 \in 1 .. Len(sent) /\ after[Len(got) + 1] \in Seq(Byte)
      /\ Taken \o (now \o rest) = h \o (f.payload \o after[Len(got) + 1])
  BY <1>1, <1>2, <1>4, NextFrame
<1>6. f \in Frame /\ f.tag \in KnownTags /\ f.payload \in Seq(Byte) /\ Len(f.payload) \in Nat
  <2>1. f \in Frame
    BY <1>5, Typed DEF IInv
  <2> HIDE DEF f
  <2> QED
    BY <2>1, LenProperties DEF Frame
<1>7. h \in Seq(Byte) /\ Len(h) = HEADER_LEN
  BY <1>6, Headers
<1>8. Len(now) = HEADER_LEN
  BY <1>1 DEF IInv, Filling
<1> HIDE DEF f, h
<1>9. now = h /\ rest = f.payload \o after[Len(got) + 1]
  <2>1. PICK x \in Seq(Byte), y \in Seq(Byte) : x = now \o rest /\ y = f.payload \o after[Len(got) + 1]
    BY <1>1, <1>5, <1>6, OfBytes
  <2>2. <<>> \o x = x /\ Taken = <<>>
    BY OfBytes DEF Taken
  <2>3. now \o rest = h \o y
    BY <1>5, <2>1, <2>2
  <2>4. now = h /\ rest = y
    BY <1>1, <1>7, <1>8, <2>3, CutBytes, ZenonT(60)
  <2> QED
    BY <2>1, <2>4
<1>10. writer = "up" => lost = <<>>
  BY <1>2 DEF Continues
<1>11. now \o (f.payload \o after[Len(got) + 1]) = after[Len(got)]
  BY <1>4, <1>5, <1>9
<1> QED
  BY <1>2, <1>3, <1>5, <1>6, <1>9, <1>10, <1>11 DEF f, h

\* What read_frame makes of a complete head keeps the invariant, and is not a
\* failure where only frames were written.
LEMMA HeadedInv ==
    ASSUME IInv, reader = "head", pipe # <<>>, NEW now, now = Append(part, Head(pipe)),
           ~(Len(now) < need), Headed(now), pipe' = Tail(pipe),
           UNCHANGED <<writer, writing, foreign, sent>>
    PROVE  IInv' /\ (foreign = 0 => reader' # "down")
<1> DEFINE t == now[2]
           size == FromBytes(SubSeq(now, 3, HEADER_LEN))
           refused == now[1] > FRAME_VERSION \/ t \notin KnownTags \/ size > MaxPayload(t)
           f == sent[Len(got) + 1]
<1>1. now \in Seq(Byte) /\ pipe' \in Seq(Byte) /\ Len(now) = HEADER_LEN
  <2>1. now \in Seq(Byte) /\ Tail(pipe) \in Seq(Byte) /\ Len(now) = need
    BY Filled
  <2> QED
    BY <2>1 DEF IInv, Filling
<1>2. size \in Nat
  <2> DEFINE digits == SubSeq(now, 3, HEADER_LEN)
  <2>1. \A i \in 3 .. HEADER_LEN : now[i] \in Byte
    <3>1. \A i \in 1 .. Len(now) : now[i] \in Byte
      BY <1>1, ElementOfSeq
    <3> QED
      BY <1>1, <3>1, Constants
  <2>2. 3 \in Int /\ HEADER_LEN \in Int /\ HEADER_LEN - 3 + 1 = LenDigits /\ 3 <= HEADER_LEN
    BY Constants DEF HEADER_LEN
  <2>3. digits \in Seq(Byte) /\ Len(digits) = LenDigits
    BY <2>1, <2>2, SubSeqProperties, ZenonT(60)
  <2> HIDE DEF digits
  <2>4. \A k \in 1 .. LenDigits : digits[k] \in Byte
    BY <2>3, ElementOfSeq
  <2>5. FromBytes(digits) \in Nat
    BY <2>4, FromBytesType
  <2> QED
    BY <2>5 DEF digits
<1>3. \/ refused /\ Fail
      \/ ~refused /\ size = 0 /\ Return(t, <<>>)
      \/ /\ ~refused /\ size # 0
         /\ reader' = "payload" /\ part' = <<>> /\ tag' = t /\ need' = size /\ got' = got
  BY DEF Headed
<1>4. ASSUME foreign = 0
      PROVE  /\ Len(got) + 1 \in 1 .. Len(sent) /\ f \in Frame
             /\ now = Header(f.tag, Len(f.payload))
             /\ t = f.tag /\ size = Len(f.payload) /\ ~refused
  <2>1. /\ Len(got) + 1 \in 1 .. Len(sent) /\ f \in Frame
        /\ now = Header(f.tag, Len(f.payload))
    BY <1>4, HeadIs
  <2>2. f.tag \in KnownTags /\ Len(f.payload) \in Nat
    <3>1. f.tag \in KnownTags /\ f.payload \in Seq(Byte)
      BY <2>1 DEF Frame
    <3> QED
      BY <3>1, LenProperties
  <2>3. /\ now[1] = FRAME_VERSION /\ t = f.tag
        /\ SubSeq(now, 3, HEADER_LEN) = ToBytes(Len(f.payload))
    <3> HIDE DEF f
    <3>1. /\ Header(f.tag, Len(f.payload))[1] = FRAME_VERSION
          /\ Header(f.tag, Len(f.payload))[2] = f.tag
          /\ SubSeq(Header(f.tag, Len(f.payload)), 3, HEADER_LEN) = ToBytes(Len(f.payload))
      BY <2>2, Headers
    <3> QED
      BY <2>1, <3>1
  <2>4. Len(f.payload) <= MaxPayload(f.tag)
    BY <2>1 DEF IInv, Fits
  <2>5. Len(f.payload) \in 0 .. Place[LenDigits] - 1
    <3>1. MaxPayload(f.tag) \in 0 .. Place[LenDigits] - 1 /\ Place[LenDigits] \in Nat
      BY Constants, FramingAssumption, Places, SMTT(30)
    <3> QED
      BY <2>2, <2>4, <3>1
  <2>6. size = Len(f.payload)
    BY <2>3, <2>5, LengthSurvives
  <2>7. ~(FRAME_VERSION > FRAME_VERSION) /\ ~(Len(f.payload) > MaxPayload(f.tag))
    BY <2>2, <2>4, Constants, FramingAssumption DEF Byte
  <2> QED
    BY <2>1, <2>2, <2>3, <2>6, <2>7
<1>5. CASE refused /\ Fail
  BY <1>1, <1>4, <1>5, FailInv
<1>6. CASE ~refused /\ size = 0 /\ Return(t, <<>>)
  <2>1. ASSUME foreign = 0
        PROVE  /\ Len(got) + 1 \in 1 .. Len(sent)
               /\ f = [tag |-> t, payload |-> <<>>]
               /\ \E after \in Streams, lost \in Seq(Byte) :
                     /\ writer = "up" => lost = <<>>
                     /\ pipe' \o (writing \o lost) = after[Len(got) + 1]
    <3>1. PICK after \in Streams, lost \in Seq(Byte) :
             /\ writer = "up" => lost = <<>>
             /\ after[Len(got) + 1] \in Seq(Byte)
             /\ pipe' \o (writing \o lost) = f.payload \o after[Len(got) + 1]
      BY <2>1, HeadIs
    <3>2. f \in Frame /\ t = f.tag /\ Len(f.payload) = 0 /\ Len(got) + 1 \in 1 .. Len(sent)
      BY <1>4, <1>6, <2>1
    <3> HIDE DEF f, t
    <3>3. f.payload = <<>>
      <4>1. f.payload \in Seq(Byte)
        BY <3>2 DEF Frame
      <4> QED
        BY <3>2, <4>1, EmptySeq
    <3>4. f = [tag |-> t, payload |-> <<>>]
      BY <3>2, <3>3 DEF Frame
    <3>5. <<>> \o after[Len(got) + 1] = after[Len(got) + 1]
      BY <3>1, OfBytes
    <3> QED
      BY <3>1, <3>2, <3>3, <3>4, <3>5
  <2>2. t \in KnownTags /\ <<>> \in Seq(Byte) /\ Return(t, <<>>)
    BY <1>6, OfBytes
  <2>3. reader' = "head"
    BY <2>2 DEF Return
  <2> HIDE DEF t
  <2> QED
    BY <1>1, <2>1, <2>2, <2>3, ReturnInv DEF f
<1>7. CASE /\ ~refused /\ size # 0
           /\ reader' = "payload" /\ part' = <<>> /\ tag' = t /\ need' = size /\ got' = got
  <2> HIDE DEF t, size
  <2>1. t \in KnownTags /\ MaxPayload(t) \in Nat /\ size \in 1 .. MaxPayload(t)
    <3>1. MaxPayload(t) \in Nat
      BY Constants
    <3>2. t \in KnownTags /\ ~(size > MaxPayload(t)) /\ size # 0
      BY <1>7
    <3> QED
      BY <1>2, <3>1, <3>2
  <2> HIDE DEF refused
  <2>2. TypeOK'
    <3>1. need' \in 1 .. MaxPayload(tag')
      BY <1>7, <2>1
    <3> QED
      BY <1>1, <1>7, <2>1, <3>1, OfBytes DEF IInv, TypeOK, MaxPayload
  <2>3. Fits' /\ Returned'
    BY <1>7 DEF IInv, Fits, Returned, MaxPayload
  <2>4. Filling'
    <3>1. Len(part') = 0 /\ 0 < size
      BY <1>7, <2>1
    <3> QED
      BY <1>7, <2>1, <3>1 DEF Filling
  <2>5. InPipe'
    <3> SUFFICES ASSUME foreign = 0 PROVE InPipe'
      BY DEF InPipe
    <3>1. /\ Len(got) + 1 \in 1 .. Len(sent) /\ f \in Frame
          /\ now = Header(f.tag, Len(f.payload)) /\ t = f.tag /\ size = Len(f.payload)
      BY <1>4
    <3>2. PICK after \in Streams, lost \in Seq(Byte) :
             /\ writer = "up" => lost = <<>>
             /\ after[Len(got) + 1] \in Seq(Byte)
             /\ now \o (f.payload \o after[Len(got) + 1]) = after[Len(got)]
             /\ pipe' \o (writing \o lost) = f.payload \o after[Len(got) + 1]
      BY HeadIs
    <3>3. Streams' = Streams
      BY DEF Streams, Encode, ToBytes
    <3>4. Taken' = now
      BY <1>7, <3>1 DEF Taken, Header, ToBytes
    <3>5. Current'
      <4>1. Len(got) < Len(sent)
        BY <3>1, Typed DEF IInv
      <4> QED
        BY <1>7, <3>1, <4>1 DEF Current, f
    <3> HIDE DEF f
    <3>6. Continues(after, lost)'
      <4>1. PICK x \in Seq(Byte) : x = f.payload \o after[Len(got) + 1]
        <5>1. f.payload \in Seq(Byte)
          BY <3>1 DEF Frame
        <5> QED
          BY <3>2, <5>1, OfBytes
      <4>2. <<>> \o x = x
        BY OfBytes
      <4>3. now \o (<<>> \o (pipe' \o (writing \o lost))) = after[Len(got)]
        BY <3>2, <4>1, <4>2
      <4> QED
        BY <1>7, <3>2, <3>4, <4>3 DEF Continues
    <3> QED
      BY <3>2, <3>3, <3>5, <3>6 DEF InPipe
  <2> QED
    BY <1>7, <2>2, <2>3, <2>4, <2>5 DEF IInv
<1> QED
  BY <1>3, <1>5, <1>6, <1>7

\* A byte is read: the reader does not fail where only frames were written.
LEMMA ReadInv ==
    ASSUME IInv, Read
    PROVE  IInv' /\ (foreign = 0 => reader' # "down")
<1> DEFINE now == Append(part, Head(pipe))
<1>0. /\ reader # "down" /\ pipe # <<>> /\ pipe' = Tail(pipe)
      /\ UNCHANGED <<writer, writing, foreign, sent>>
  BY DEF Read
<1>1. CASE Len(now) < need
  <2>1. part' = now /\ UNCHANGED <<reader, tag, need, got>>
    BY <1>1 DEF Read
  <2>2. IInv'
    BY <1>0, <1>1, <2>1, ReadOnInv
  <2> QED
    BY <1>0, <2>1, <2>2
<1>2. CASE ~(Len(now) < need) /\ reader = "head"
  <2>1. Headed(now)
    BY <1>2 DEF Read
  <2> QED
    BY <1>0, <1>2, <2>1, HeadedInv
<1>3. CASE ~(Len(now) < need) /\ reader # "head"
  <2>1. Return(tag, now) /\ reader = "payload"
    BY <1>0, <1>3 DEF Read, IInv, TypeOK
  <2>2. IInv'
    BY <1>0, <1>3, <2>1, PayloadInv
  <2>3. reader' = "head"
    BY <2>1 DEF Return
  <2> QED
    BY <2>2, <2>3
<1> QED
  BY <1>1, <1>2, <1>3

LEMMA NextInv == IInv /\ [Next]_vars => IInv'
<1> SUFFICES ASSUME IInv, [Next]_vars PROVE IInv'
  OBVIOUS
<1>1. ASSUME NEW t \in KnownTags, NEW payload \in Payloads, WriteFrame(t, payload)
      PROVE  IInv'
  <2>1. payload \in Seq(Byte)
    <3>1. PICK n \in PayloadLengths, b \in {0, Base - 1} : payload = [i \in 1 .. n |-> b]
      BY DEF Payloads
    <3>2. n \in Nat /\ b \in Byte
      BY FramingAssumption DEF Byte
    <3> QED
      BY <3>1, <3>2
  <2> QED
    BY <1>1, <2>1, WriteFrameInv
<1>2. CASE Push
  BY <1>2, PushInv
<1>3. CASE WriteFails
  BY <1>3, WriteFailsInv
<1>4. ASSUME NEW b \in Byte, ForeignByte(b)
      PROVE  IInv'
  BY <1>4, ForeignByteInv
<1>5. CASE Read
  BY <1>5, ReadInv
<1>6. CASE ReadFails
  BY <1>6, ReadFailsInv
<1>7. CASE UNCHANGED vars
  BY <1>7, Stutter
<1> QED
  BY <1>1, <1>2, <1>3, <1>4, <1>5, <1>6, <1>7 DEF Next

LEMMA Invariance == Spec => []IInv
  BY InitInv, NextInv, PTL DEF Spec

\* Every variable keeps its type; in particular the buffer read_frame makes is
\* never larger than the ceiling of the frame's tag, whatever a peer sends.
THEOREM FramingTypes == Spec => []TypeOK
<1>1. IInv => TypeOK
  BY DEF IInv
<1> QED
  BY <1>1, Invariance, PTL

\* What read_frame returned is at any time a prefix of what write_frame was
\* given: no frame is torn, skipped, repeated or made up.
THEOREM FramingInStep == Spec => []InStep
<1>1. IInv => InStep
  <2> SUFFICES ASSUME IInv, foreign = 0 PROVE IsPrefix(got, sent)
    BY DEF InStep
  <2>1. /\ Len(got) \in Nat /\ Len(sent) \in Nat /\ got \in Seq(Frame) /\ sent \in Seq(Frame)
        /\ Len(got) <= Len(sent) /\ \A k \in 1 .. Len(got) : got[k] = sent[k]
    BY Typed DEF IInv, Returned
  <2> DEFINE n == Len(got)
             first == SubSeq(sent, 1, n)
  <2>2. SubSeq(got, 1, n) = got
    <3> HIDE DEF Frame
    <3> QED
      BY <2>1, SubSeqFull
  <2>3. /\ first \in Seq(Frame) /\ Len(first) = n
        /\ \A k \in 1 .. n : first[k] = sent[k]
    <3> HIDE DEF Frame
    <3>1. \A k \in 1 .. n : sent[k] \in Frame
      BY <2>1, ElementOfSeq
    <3>2. n \in Int /\ 1 \in Int /\ n - 1 + 1 = n /\ (~(1 <= n) => n = 0)
      BY <2>1
    <3>3. \A k \in 1 .. n : 1 + k - 1 = k
      BY <2>1
    <3> QED
      BY <3>1, <3>2, <3>3, SubSeqProperties
  <2>4. first = got
    <3> HIDE DEF Frame, first
    <3> QED
      BY <2>1, <2>3, SeqEqual
  <2> QED
    BY <2>1, <2>2, <2>4 DEF IsPrefix
<1> QED
  BY <1>1, Invariance, PTL

\* read_frame refuses nothing that write_frame wrote: what encode lets through
\* is a head the reader takes for what it is, whatever the width of the length.
THEOREM FramingNeverRefused == Spec => NeverRefused
<1>1. IInv /\ [Next]_vars => [foreign = 0 /\ Read => reader' # "down"]_vars
  BY ReadInv
<1> QED
  BY <1>1, Invariance, PTL DEF Spec, NeverRefused
=============================================================================
