--------------------------- MODULE ArgumentsProofs ---------------------------
(****************************************************************************)
(* What becomes of lifetimes, waits, decimals and scripts, for durations of *)
(* any length, any unit and any ceiling, for texts of any length and for    *)
(* any number of statements.                                                *)
(****************************************************************************)
EXTENDS Arguments, FiniteSetTheorems, SequenceTheorems, WellFoundedInduction, TLAPS

-----------------------------------------------------------------------------
(* Durations *)

\* What a division leaves over is less than the divisor.
LEMMA Quotient ==
    ASSUME NEW d \in Nat, NEW p \in Nat \ {0}
    PROVE  /\ d \div p \in Nat
           /\ (d \div p) * p <= d
           /\ d < ((d \div p) + 1) * p
OBVIOUS

\* A multiple grows with what is multiplied.
LEMMA Multiples ==
    ASSUME NEW a \in Nat, NEW b \in Nat, NEW p \in Nat \ {0}, a <= b
    PROVE  a * p <= b * p
OBVIOUS

\* A longer duration has no fewer milliseconds.
LEMMA QuotientKeepsOrder ==
    ASSUME NEW d \in Nat, NEW e \in Nat, NEW p \in Nat \ {0}, d <= e
    PROVE  d \div p <= e \div p
<1> DEFINE m == d \div p
           n == e \div p
<1>1. m \in Nat /\ n \in Nat /\ m * p <= d /\ e < (n + 1) * p
  BY Quotient
<1> HIDE DEF m, n
<1>2. ASSUME n + 1 <= m PROVE FALSE
  <2>1. (n + 1) * p <= m * p
    BY <1>1, <1>2, Multiples
  <2>2. (n + 1) * p \in Nat /\ m * p \in Nat
    BY <1>1
  <2> QED
    BY <1>1, <2>1, <2>2
<1>3. m <= n
  BY <1>1, <1>2
<1> QED
  BY <1>3 DEF m, n

\* Milliseconds are whole, never more than the wire takes or than there are,
\* and none is lost but to the ceiling.
LEMMA MillisOf ==
    ASSUME NEW d \in Nat
    PROVE  /\ Millis(d) \in 0 .. MaxWire
           /\ Millis(d) * PerMs <= d
           /\ Millis(d) = MaxWire \/ d < (Millis(d) + 1) * PerMs
<1> DEFINE q == d \div PerMs
<1>1. PerMs \in Nat \ {0} /\ MaxWire \in Nat \ {0}
  BY ArgumentsAssumption
<1>2. q \in Nat /\ q * PerMs <= d /\ d < (q + 1) * PerMs
  BY <1>1, Quotient
<1>3. Millis(d) = IF q < MaxWire THEN q ELSE MaxWire
  BY DEF Millis, Least
<1> HIDE DEF q
<1>4. Millis(d) \in 0 .. MaxWire /\ Millis(d) <= q
  BY <1>1, <1>2, <1>3
<1>5. Millis(d) * PerMs <= q * PerMs
  BY <1>1, <1>2, <1>4, Multiples
<1>6. Millis(d) * PerMs \in Nat /\ q * PerMs \in Nat
  BY <1>1, <1>2, <1>4
<1>7. Millis(d) * PerMs <= d
  BY <1>2, <1>5, <1>6
<1> QED
  BY <1>2, <1>3, <1>4, <1>7

\* A lifetime is sent as no expiry only when none was asked for, and else as
\* the milliseconds that are in it; waits, leases and deadlines keep their
\* order (ttl_value, millis).
THEOREM ArgumentsTtlKept == ArgumentInit => TtlKept
<1> SUFFICES ASSUME ArgumentInit PROVE TtlKept
  OBVIOUS
<1>1. CASE argument \in Lifetimes
  <2>1. argument.kind = "lifetime" /\ argument.given \in Nat \cup {Null}
    BY <1>1, ArgumentsAssumption DEF Lifetimes, Durations
  <2>2. CASE argument.given \in {Null, 0}
    BY <2>1, <2>2 DEF TtlKept, TtlValue
  <2>3. CASE argument.given \notin {Null, 0}
    <3>1. TtlValue(argument.given) = Millis(argument.given) /\ argument.given \in Nat
      BY <2>1, <2>3 DEF TtlValue
    <3>2. Millis(argument.given) # Null
      BY <3>1, MillisOf, ArgumentsAssumption DEF Null
    <3> QED
      BY <2>1, <2>3, <3>1, <3>2, MillisOf DEF TtlKept
  <2> QED
    BY <2>2, <2>3
<1>2. CASE argument \in Waits
  <2>1. argument.kind = "wait" /\ argument.given \in Nat /\ argument.longer \in Nat
    BY <1>2, ArgumentsAssumption DEF Waits, Durations
  <2>2. ASSUME argument.given <= argument.longer
        PROVE  Millis(argument.given) <= Millis(argument.longer)
    <3>1. /\ argument.given \div PerMs \in Nat /\ argument.longer \div PerMs \in Nat
          /\ argument.given \div PerMs <= argument.longer \div PerMs
      BY <2>1, <2>2, Quotient, QuotientKeepsOrder, ArgumentsAssumption
    <3> QED
      BY <3>1, ArgumentsAssumption DEF Millis, Least
  <2> QED
    BY <2>1, <2>2, MillisOf DEF TtlKept
<1>3. CASE argument \in {None} \cup Decimals \cup Scripts
  BY <1>3 DEF None, Decimals, Scripts, TtlKept
<1> QED
  BY <1>1, <1>2, <1>3 DEF ArgumentInit

-----------------------------------------------------------------------------
(* Decimals *)

\* What a text that may pass for a decimal is made of.
Characters == {"-", "9", ".", "e"}

\* A set of naturals that is not empty has a least element.
LEMMA HasLeast ==
    ASSUME NEW S, S \subseteq Nat, S # {}
    PROVE  \E n \in S : \A m \in S : n <= m
<1> DEFINE Below == {pair \in Nat \X Nat : pair[1] < pair[2]}
<1>1. IsWellFoundedOn(Below, Nat)
  BY NatLessThanWellFounded DEF OpToRel
<1>2. PICK n \in S : \A m \in S : ~(<<m, n>> \in Below)
  <2> HIDE DEF Below
  <2> QED
    BY <1>1, WFMin
<1>3. \A m \in S : ~(m < n)
  BY <1>2
<1> QED
  BY <1>3

\* A finite set has at most one element when any two of them are the same.
LEMMA AtMostOneElement ==
    ASSUME NEW S, IsFiniteSet(S)
    PROVE  Cardinality(S) <= 1 <=> \A x, y \in S : x = y
<1>1. ASSUME Cardinality(S) <= 1, NEW x \in S, NEW y \in S, x # y
      PROVE  FALSE
  <2>1. IsFiniteSet({x}) /\ Cardinality({x}) = 1
    BY FS_Singleton
  <2>2. Cardinality({x}) <= Cardinality(S) /\ (Cardinality(S) = Cardinality({x}) => S = {x})
    BY FS_Subset, {x} \in SUBSET S
  <2>3. Cardinality(S) \in Nat
    BY FS_CardinalityType
  <2>4. S = {x}
    BY <1>1, <2>1, <2>2, <2>3
  <2> QED
    BY <1>1, <2>4
<1>2. ASSUME \A x, y \in S : x = y
      PROVE  Cardinality(S) <= 1
  <2>1. CASE S = {}
    BY <2>1, FS_EmptySet
  <2>2. CASE S # {}
    <3>1. PICK x : S = {x}
      BY <1>2, <2>2
    <3> QED
      BY <3>1, FS_Singleton
  <2> QED
    BY <2>1, <2>2
<1> QED
  BY <1>1, <1>2

\* What is left of a text without its sign.
Body(text) == IF text # <<>> /\ Head(text) \in Signs THEN Tail(text) ELSE text

\* The points of a text.
Points(text) == {i \in DOMAIN text : text[i] = "."}

\* Taking off the sign moves every other character down by as much.
LEMMA BodyShifts ==
    ASSUME NEW text \in Seq(Characters)
    PROVE  \E k \in {0, 1} :
             /\ Body(text) \in Seq(Characters) /\ Len(text) = Len(Body(text)) + k
             /\ \A i \in DOMAIN Body(text) : Body(text)[i] = text[i + k]
             /\ k = 1 => text[1] = "-"
             /\ k = 0 /\ text # <<>> => text[1] # "-"
<1>1. CASE text # <<>> /\ text[1] = "-"
  <2>1. Body(text) = Tail(text)
    BY <1>1 DEF Body, Signs
  <2>2. /\ Tail(text) \in Seq(Characters) /\ Len(text) = Len(Tail(text)) + 1
        /\ \A i \in 1 .. Len(Tail(text)) : Tail(text)[i] = text[i + 1]
    BY <1>1
  <2> QED
    BY <1>1, <2>1, <2>2
<1>2. CASE ~(text # <<>> /\ text[1] = "-")
  <2>1. text # <<>> => text[1] \in Characters
    BY DEF Characters
  <2>2. Body(text) = text
    BY <1>2, <2>1 DEF Body, Signs, Characters
  <2> QED
    BY <1>2, <2>2
<1> QED
  BY <1>1, <1>2

\* On both sides of one place, digits are digits everywhere else, and there is
\* something on one side unless that place is all there is.
LEMMA AroundPlace ==
    ASSUME NEW body \in Seq(Characters), NEW n \in Nat, Len(body) = n, NEW at \in 1 .. n
    PROVE  /\ Digits(SubSeq(body, 1, at - 1)) /\ Digits(SubSeq(body, at + 1, n))
                <=> \A i \in 1 .. n : i # at => body[i] = "9"
           /\ SubSeq(body, 1, at - 1) # <<>> \/ SubSeq(body, at + 1, n) # <<>> <=> n # 1
<1> DEFINE int == SubSeq(body, 1, at - 1)
           frac == SubSeq(body, at + 1, n)
<1> HIDE DEF int, frac
<1>1. \A i \in 1 .. n : body[i] \in Characters
  OBVIOUS
<1>2. /\ int \in Seq(Characters) /\ Len(int) = at - 1
      /\ \A i \in 1 .. at - 1 : int[i] = body[i]
  <2>1. /\ int \in Seq(Characters)
        /\ Len(int) = IF 1 <= at - 1 THEN (at - 1) - 1 + 1 ELSE 0
        /\ \A i \in 1 .. (at - 1) - 1 + 1 : int[i] = body[1 + i - 1]
    <3>1. at - 1 \in Int /\ \A i \in 1 .. at - 1 : body[i] \in Characters
      BY <1>1
    <3> QED
      BY <3>1, SubSeqProperties DEF int
  <2>2. ASSUME NEW i \in 1 .. at - 1
        PROVE  int[i] = body[i]
    <3>1. i \in 1 .. (at - 1) - 1 + 1 /\ 1 + i - 1 = i
      OBVIOUS
    <3> QED
      BY <2>1, <3>1
  <2> QED
    BY <2>1, <2>2
<1>3. /\ frac \in Seq(Characters) /\ Len(frac) = n - at
      /\ \A i \in 1 .. n - at : frac[i] = body[at + i]
  <2>1. /\ frac \in Seq(Characters)
        /\ Len(frac) = IF at + 1 <= n THEN n - (at + 1) + 1 ELSE 0
        /\ \A i \in 1 .. n - (at + 1) + 1 : frac[i] = body[(at + 1) + i - 1]
    <3>1. at + 1 \in Int /\ \A i \in at + 1 .. n : body[i] \in Characters
      BY <1>1
    <3> QED
      BY <3>1, SubSeqProperties DEF frac
  <2>2. ASSUME NEW i \in 1 .. n - at
        PROVE  frac[i] = body[at + i]
    <3>1. i \in 1 .. n - (at + 1) + 1 /\ (at + 1) + i - 1 = at + i
      OBVIOUS
    <3> QED
      BY <2>1, <3>1
  <2> QED
    BY <2>1, <2>2
<1>4. /\ DOMAIN int = 1 .. at - 1 /\ DOMAIN frac = 1 .. n - at
      /\ int # <<>> <=> at - 1 # 0
      /\ frac # <<>> <=> n - at # 0
  <2>1. \A s \in Seq(Characters) : DOMAIN s = 1 .. Len(s) /\ (s # <<>> <=> Len(s) # 0)
    BY EmptySeq
  <2>2. DOMAIN int = 1 .. at - 1 /\ (int # <<>> <=> at - 1 # 0)
    BY <1>2, <2>1
  <2>3. DOMAIN frac = 1 .. n - at /\ (frac # <<>> <=> n - at # 0)
    BY <1>3, <2>1
  <2> QED
    BY <2>2, <2>3
<1>5. ASSUME Digits(int), Digits(frac), NEW i \in 1 .. n, i # at
      PROVE  body[i] = "9"
  <2>1. CASE i \in 1 .. at - 1
    BY <1>2, <1>4, <1>5, <2>1 DEF Digits
  <2>2. CASE i \notin 1 .. at - 1
    <3>1. i - at \in 1 .. n - at /\ at + (i - at) = i
      BY <1>5, <2>2
    <3> QED
      BY <1>3, <1>4, <1>5, <3>1 DEF Digits
  <2> QED
    BY <2>1, <2>2
<1>6. ASSUME \A i \in 1 .. n : i # at => body[i] = "9"
      PROVE  Digits(int) /\ Digits(frac)
  <2>1. ASSUME NEW i \in 1 .. at - 1 PROVE int[i] = "9"
    <3>1. i \in 1 .. n /\ i # at
      OBVIOUS
    <3> QED
      BY <1>2, <1>6, <3>1
  <2>2. ASSUME NEW i \in 1 .. n - at PROVE frac[i] = "9"
    <3>1. at + i \in 1 .. n /\ at + i # at
      OBVIOUS
    <3> QED
      BY <1>3, <1>6, <3>1
  <2> QED
    BY <1>4, <2>1, <2>2 DEF Digits
<1>7. at - 1 # 0 \/ n - at # 0 <=> n # 1
  OBVIOUS
<1> QED
  BY <1>4, <1>5, <1>6, <1>7 DEF int, frac

\* The check of the code, on both sides of the first point, is a check of
\* the whole: digits and at most one point, and one digit at the least.
LEMMA ValidBody ==
    ASSUME NEW text \in Seq(Characters)
    PROVE  ValidDecimal(text) <=>
             /\ \E i \in DOMAIN Body(text) : Body(text)[i] = "9"
             /\ \A i, j \in Points(Body(text)) : i = j
             /\ \A i \in DOMAIN Body(text) : Body(text)[i] \in {"9", "."}
<1>1. PICK body \in Seq(Characters) : body = Body(text)
  BY BodyShifts
<1>2. PICK n \in Nat : Len(body) = n
  OBVIOUS
<1>3. DOMAIN body = 1 .. n /\ (body # <<>> <=> n # 0)
  BY <1>2, EmptySeq
<1>4. CASE Points(body) = {}
  <2>1. ValidDecimal(text) <=> Digits(body) /\ body # <<>>
    BY <1>1, <1>4 DEF ValidDecimal, Points, Body
  <2>2. \A i \in 1 .. n : body[i] # "."
    BY <1>3, <1>4 DEF Points
  <2>3. ASSUME Digits(body), body # <<>>
        PROVE  \E i \in 1 .. n : body[i] = "9"
    <3>1. 1 \in 1 .. n
      BY <1>3, <2>3
    <3> QED
      BY <1>3, <2>3, <3>1 DEF Digits
  <2>4. ASSUME NEW i \in 1 .. n
        PROVE  body # <<>>
    BY <1>3, <2>4
  <2>5. Digits(body) <=> \A i \in 1 .. n : body[i] \in {"9", "."}
    BY <1>3, <2>2 DEF Digits
  <2> QED
    BY <1>1, <1>3, <1>4, <2>1, <2>3, <2>4, <2>5
<1>5. CASE Points(body) # {}
  <2> DEFINE first == CHOOSE i \in Points(body) : \A j \in Points(body) : i <= j
  <2>1. Points(body) \subseteq 1 .. n /\ \A i \in 1 .. n : i \in Points(body) <=> body[i] = "."
    BY <1>3 DEF Points
  <2>2. first \in Points(body)
    <3>1. Points(body) \subseteq Nat
      BY <2>1
    <3> QED
      BY <1>5, <3>1, HasLeast
  <2>3. PICK at \in 1 .. n : at = first /\ body[at] = "."
    BY <2>1, <2>2
  <2> DEFINE int == SubSeq(body, 1, at - 1)
             frac == SubSeq(body, at + 1, n)
  <2>4. ValidDecimal(text) <=> Digits(int) /\ Digits(frac) /\ (int # <<>> \/ frac # <<>>)
    BY <1>1, <1>2, <1>5, <2>3 DEF ValidDecimal, Points, Body
  <2> HIDE DEF int, frac
  <2>5. ValidDecimal(text) <=> n # 1 /\ \A i \in 1 .. n : i # at => body[i] = "9"
    <3>1. /\ Digits(int) /\ Digits(frac) <=> \A i \in 1 .. n : i # at => body[i] = "9"
          /\ int # <<>> \/ frac # <<>> <=> n # 1
      BY <1>2, AroundPlace DEF int, frac
    <3> QED
      BY <2>4, <3>1
  <2>6. ASSUME n # 1, \A i \in 1 .. n : i # at => body[i] = "9"
        PROVE  /\ \E i \in 1 .. n : body[i] = "9"
               /\ \A i, j \in Points(body) : i = j
               /\ \A i \in 1 .. n : body[i] \in {"9", "."}
    <3>1. 1 \in 1 .. n /\ n \in 1 .. n
      OBVIOUS
    <3>2. \E i \in 1 .. n : i # at
      BY <2>6, <3>1
    <3>3. \A i \in Points(body) : i = at
      BY <2>1, <2>6
    <3> QED
      BY <2>3, <2>6, <3>2, <3>3
  <2>7. ASSUME \E i \in 1 .. n : body[i] = "9",
               \A i, j \in Points(body) : i = j,
               \A i \in 1 .. n : body[i] \in {"9", "."}
        PROVE  n # 1 /\ \A i \in 1 .. n : i # at => body[i] = "9"
    <3>1. \A i \in 1 .. n : i # at => body[i] = "9"
      BY <2>1, <2>3, <2>7
    <3>2. PICK i \in 1 .. n : i # at
      BY <2>3, <2>7
    <3>3. n # 1
      BY <3>2
    <3> QED
      BY <3>1, <3>3
  <2> QED
    BY <1>1, <1>3, <2>5, <2>6, <2>7
<1> QED
  BY <1>4, <1>5

\* A text passes for a decimal exactly when it has a digit, at most one point
\* and a sign nowhere but in front, however long it is (Param::decimal).
THEOREM ArgumentsDecimalsArePlain == ArgumentInit => DecimalsArePlain
<1> SUFFICES ASSUME argument \in Decimals, argument.kind = "decimal" PROVE DecimalsArePlain
  BY DEF ArgumentInit, None, Lifetimes, Waits, Scripts, DecimalsArePlain
<1> DEFINE text == argument.text
           body == Body(text)
<1>1. text \in Seq(Characters)
  BY ArgumentsAssumption DEF Decimals, SeqOf, Characters
<1> HIDE DEF text
<1>2. PICK k \in {0, 1} :
             /\ body \in Seq(Characters) /\ Len(text) = Len(body) + k
             /\ \A i \in DOMAIN body : body[i] = text[i + k]
             /\ k = 1 => text[1] = "-"
             /\ k = 0 /\ text # <<>> => text[1] # "-"
  BY <1>1, BodyShifts
<1>3. ValidDecimal(text) <=>
             /\ \E i \in DOMAIN body : body[i] = "9"
             /\ \A i, j \in Points(body) : i = j
             /\ \A i \in DOMAIN body : body[i] \in {"9", "."}
  BY <1>1, ValidBody
<1> HIDE DEF body
<1>4. /\ DOMAIN text = 1 .. Len(text) /\ DOMAIN body = 1 .. Len(body)
      /\ Len(text) \in Nat /\ Len(body) \in Nat
  BY <1>1, <1>2
<1>5. \A i \in DOMAIN text : text[i] \in Characters
  BY <1>1
<1>6. \A i \in DOMAIN body : i + k \in DOMAIN text
  BY <1>2, <1>4
<1>7. \A i \in DOMAIN text : (i - k \in DOMAIN body /\ text[i] = body[i - k]) \/ (k = 1 /\ i = 1)
  <2> SUFFICES ASSUME NEW i \in DOMAIN text, ~(k = 1 /\ i = 1)
               PROVE  i - k \in DOMAIN body /\ text[i] = body[i - k]
    OBVIOUS
  <2>1. i - k \in DOMAIN body /\ (i - k) + k = i
    BY <1>2, <1>4
  <2> QED
    BY <1>2, <2>1
<1>8. (\E i \in DOMAIN text : text[i] = "9") <=> \E i \in DOMAIN body : body[i] = "9"
  BY <1>2, <1>6, <1>7
<1>9. (\A i, j \in Points(text) : i = j) <=> \A i, j \in Points(body) : i = j
  <2>1. \A i \in Points(body) : i + k \in Points(text)
    BY <1>2, <1>6 DEF Points
  <2>2. \A i \in Points(text) : i - k \in Points(body)
    BY <1>2, <1>7 DEF Points
  <2>3. Points(body) \subseteq Int /\ Points(text) \subseteq Int
    BY <1>4 DEF Points
  <2>4. ASSUME \A i, j \in Points(text) : i = j, NEW i \in Points(body), NEW j \in Points(body)
        PROVE  i = j
    <3>1. i + k = j + k
      BY <2>1, <2>4
    <3> QED
      BY <1>2, <2>3, <2>4, <3>1
  <2>5. ASSUME \A i, j \in Points(body) : i = j, NEW i \in Points(text), NEW j \in Points(text)
        PROVE  i = j
    <3>1. i - k = j - k
      BY <2>2, <2>5
    <3> QED
      BY <2>3, <2>5, <3>1
  <2> QED
    BY <2>4, <2>5
<1>10. (\A i \in DOMAIN body : body[i] \in {"9", "."}) <=>
         \A i \in DOMAIN text : text[i] # "e" /\ (text[i] = "-" => i = 1)
  <2>1. ASSUME \A i \in DOMAIN body : body[i] \in {"9", "."}, NEW i \in DOMAIN text
        PROVE  text[i] # "e" /\ (text[i] = "-" => i = 1)
    BY <1>2, <1>7, <2>1
  <2>2. ASSUME \A i \in DOMAIN text : text[i] # "e" /\ (text[i] = "-" => i = 1), NEW i \in DOMAIN body
        PROVE  body[i] \in {"9", "."}
    <3>1. i + k \in DOMAIN text /\ body[i] = text[i + k] /\ text[i + k] # "e" /\ text[i + k] \in Characters
      BY <1>2, <1>5, <1>6, <2>2
    <3>2. text[i + k] # "-"
      <4>1. ASSUME text[i + k] = "-" PROVE FALSE
        <5>1. i + k = 1
          BY <2>2, <3>1, <4>1
        <5>2. i \in Nat \ {0}
          BY <1>4
        <5>3. k = 0 /\ text # <<>>
          BY <1>4, <3>1, <5>1, <5>2
        <5> QED
          BY <1>2, <4>1, <5>1, <5>3
      <4> QED
        BY <4>1
    <3> QED
      BY <3>1, <3>2 DEF Characters
  <2> QED
    BY <2>1, <2>2
<1>11. Cardinality(Points(text)) <= 1 <=> \A i, j \in Points(text) : i = j
  <2>1. IsFiniteSet(DOMAIN text)
    BY <1>4, FS_Interval
  <2>2. IsFiniteSet(Points(text))
    BY <2>1, FS_Subset DEF Points
  <2> QED
    BY <2>2, AtMostOneElement
<1> QED
  BY <1>3, <1>8, <1>9, <1>10, <1>11 DEF DecimalsArePlain, Points, text

-----------------------------------------------------------------------------
(* Parts of a text *)

\* What is in a window of a text.
LEMMA Window ==
    ASSUME NEW S, NEW s \in Seq(S), NEW f \in Int, NEW l \in Int, 1 <= f, f <= l + 1, l <= Len(s)
    PROVE  /\ SubSeq(s, f, l) \in Seq(S) /\ Len(SubSeq(s, f, l)) = l - f + 1
           /\ DOMAIN SubSeq(s, f, l) = 1 .. l - f + 1
           /\ \A i \in 1 .. l - f + 1 : SubSeq(s, f, l)[i] = s[f + i - 1]
<1>1. Len(s) \in Nat
  BY LenProperties
<1>2. \A i \in f .. l : s[i] \in S
  <2> SUFFICES ASSUME NEW i \in f .. l PROVE s[i] \in S
    OBVIOUS
  <2>1. i \in 1 .. Len(s)
    BY <1>1
  <2> QED
    BY <2>1, ElementOfSeq
<1>3. /\ SubSeq(s, f, l) \in Seq(S)
      /\ Len(SubSeq(s, f, l)) = IF f <= l THEN l - f + 1 ELSE 0
      /\ \A i \in 1 .. l - f + 1 : SubSeq(s, f, l)[i] = s[f + i - 1]
  BY <1>2, SubSeqProperties
<1>4. Len(SubSeq(s, f, l)) = l - f + 1
  BY <1>3
<1> QED
  BY <1>3, <1>4, LenProperties

\* A window of a window is a window.
LEMMA WindowInWindow ==
    ASSUME NEW S, NEW s \in Seq(S), NEW f \in Int, NEW l \in Int, 1 <= f, f <= l + 1, l <= Len(s),
           NEW a \in Int, NEW b \in Int, 1 <= a, a <= b + 1, b <= l - f + 1
    PROVE  SubSeq(SubSeq(s, f, l), a, b) = SubSeq(s, f + a - 1, f + b - 1)
<1> DEFINE u == SubSeq(s, f, l)
           v == SubSeq(s, f + a - 1, f + b - 1)
           w == SubSeq(u, a, b)
<1>0. Len(s) \in Nat
  BY LenProperties
<1>1. /\ u \in Seq(S) /\ Len(u) = l - f + 1
      /\ \A i \in 1 .. l - f + 1 : u[i] = s[f + i - 1]
  BY Window
<1>2. /\ v \in Seq(S) /\ Len(v) = b - a + 1
      /\ \A i \in 1 .. b - a + 1 : v[i] = s[f + a - 1 + i - 1]
  <2>1. /\ f + a - 1 \in Int /\ f + b - 1 \in Int /\ 1 <= f + a - 1
        /\ f + a - 1 <= (f + b - 1) + 1 /\ f + b - 1 <= Len(s)
    BY <1>0
  <2>2. (f + b - 1) - (f + a - 1) + 1 = b - a + 1
    OBVIOUS
  <2> QED
    BY <2>1, <2>2, Window
<1> HIDE DEF u, v
<1>3. /\ w \in Seq(S) /\ Len(w) = b - a + 1
      /\ \A i \in 1 .. b - a + 1 : w[i] = u[a + i - 1]
  BY <1>1, Window
<1> HIDE DEF w
<1>4. ASSUME NEW i \in 1 .. Len(w) PROVE w[i] = v[i]
  <2>1. i \in 1 .. b - a + 1 /\ a + i - 1 \in 1 .. l - f + 1
    BY <1>3
  <2>2. w[i] = u[a + i - 1] /\ v[i] = s[f + a - 1 + i - 1] /\ u[a + i - 1] = s[f + (a + i - 1) - 1]
    BY <1>1, <1>2, <1>3, <2>1
  <2>3. f + a - 1 + i - 1 = f + (a + i - 1) - 1
    BY <2>1
  <2> QED
    BY <2>2, <2>3
<1> QED
  BY <1>2, <1>3, <1>4, SeqEqual DEF u, v, w

\* The greatest element of a set of integers.
LEMMA MaxIs ==
    ASSUME NEW S, S \subseteq Int, NEW m \in S, \A y \in S : y <= m
    PROVE  Max(S) = m
<1>1. \A x \in S : (\A y \in S : x >= y) => x = m
  OBVIOUS
<1>2. \A y \in S : m >= y
  OBVIOUS
<1> QED
  BY <1>1, <1>2 DEF Max

\* And the least.
LEMMA MinIs ==
    ASSUME NEW S, S \subseteq Int, NEW m \in S, \A y \in S : m <= y
    PROVE  Min(S) = m
<1>1. \A x \in S : (\A y \in S : x =< y) => x = m
  OBVIOUS
<1>2. \A y \in S : m =< y
  OBVIOUS
<1> QED
  BY <1>1, <1>2 DEF Min

\* The last place of a text that is not what is trimmed.
LEMMA TrimEndIs ==
    ASSUME NEW S, NEW s \in Seq(S), NEW what, NEW z \in 0 .. Len(s),
           z # 0 => s[z] # what, \A i \in z + 1 .. Len(s) : s[i] = what
    PROVE  TrimEnd(s, what) = SubSeq(s, 1, z)
<1> DEFINE T == {i \in DOMAIN s : s[i] # what} \cup {0}
<1>1. Len(s) \in Nat /\ DOMAIN s = 1 .. Len(s)
  BY LenProperties
<1>2. T \subseteq Int /\ z \in T
  BY <1>1
<1>3. ASSUME NEW y \in T PROVE y <= z
  BY <1>1
<1> HIDE DEF T
<1>4. Max(T) = z
  BY <1>2, <1>3, MaxIs
<1> QED
  BY <1>4 DEF TrimEnd, T

\* The other way round, what was at the front is at the back.
LEMMA Reversed ==
    ASSUME NEW S, NEW s \in Seq(S)
    PROVE  /\ Reverse(s) \in Seq(S) /\ Len(Reverse(s)) = Len(s)
           /\ \A i \in 1 .. Len(s) : Reverse(s)[i] = s[Len(s) - i + 1]
<1> DEFINE n == Len(s)
<1>1. n \in Nat
  BY LenProperties
<1>2. Reverse(s) = [i \in 1 .. n |-> s[(n - i) + 1]]
  BY DEF Reverse
<1>3. ASSUME NEW i \in 1 .. n PROVE s[(n - i) + 1] \in S
  <2>1. (n - i) + 1 \in 1 .. n
    BY <1>1
  <2> QED
    BY <2>1, ElementOfSeq
<1> HIDE DEF n
<1>4. Reverse(s) \in Seq(S)
  BY <1>1, <1>2, <1>3
<1>5. Len(Reverse(s)) = n
  BY <1>1, <1>2, <1>4, LenProperties
<1> QED
  BY <1>2, <1>4, <1>5 DEF n

\* A set of places that is not empty has a first and a last.
LEMMA FirstAndLast ==
    ASSUME NEW n \in Nat, NEW P \in SUBSET (1 .. n), P # {}
    PROVE  \E f, l \in P : \A i \in P : f <= i /\ i <= l
<1>0. P \subseteq Nat
  OBVIOUS
<1>1. PICK f \in P : \A i \in P : f <= i
  BY <1>0, HasLeast
<1> DEFINE Q == {n - i : i \in P}
<1>2. Q \subseteq Nat /\ Q # {}
  OBVIOUS
<1> HIDE DEF Q
<1>3. PICK j \in Q : \A k \in Q : j <= k
  BY <1>2, HasLeast
<1> USE DEF Q
<1>4. PICK l \in P : j = n - l
  BY <1>3
<1>5. ASSUME NEW i \in P PROVE i <= l
  <2>1. n - i \in Q
    OBVIOUS
  <2>2. n - l <= n - i
    BY <1>3, <1>4, <2>1
  <2> QED
    BY <2>2
<1> QED
  BY <1>1, <1>4, <1>5

\* Trim takes the blanks in front of and behind what is not blank.
LEMMA TrimIs ==
    ASSUME NEW S, NEW s \in Seq(S), NEW f \in 1 .. Len(s), NEW l \in f .. Len(s),
           s[f] # "blank", s[l] # "blank",
           \A i \in 1 .. f - 1 : s[i] = "blank", \A i \in l + 1 .. Len(s) : s[i] = "blank"
    PROVE  Trim(s) = SubSeq(s, f, l)
<1>0. Len(s) \in Nat
  BY LenProperties
<1> DEFINE u == SubSeq(s, 1, l)
           r == Reverse(u)
           n == l - f + 1
           w == SubSeq(r, 1, n)
           x == SubSeq(s, f, l)
<1>1. TrimEnd(s, "blank") = u
  <2>1. l \in 0 .. Len(s)
    BY <1>0
  <2> QED
    BY <2>1, TrimEndIs
<1>2. u \in Seq(S) /\ Len(u) = l /\ \A i \in 1 .. l : u[i] = s[i]
  <2>1. u \in Seq(S) /\ Len(u) = l - 1 + 1 /\ \A i \in 1 .. l - 1 + 1 : u[i] = s[1 + i - 1]
    BY <1>0, Window
  <2> QED
    BY <1>0, <2>1
<1> HIDE DEF u
<1>3. r \in Seq(S) /\ Len(r) = l /\ \A i \in 1 .. l : r[i] = u[l - i + 1]
  BY <1>2, Reversed
<1> HIDE DEF r
<1>4. ASSUME NEW i \in 1 .. l PROVE r[i] = s[l - i + 1]
  <2>1. l - i + 1 \in 1 .. l
    BY <1>0
  <2> QED
    BY <1>2, <1>3, <2>1
<1>5. TrimEnd(r, "blank") = w
  <2>1. n \in 1 .. l
    BY <1>0
  <2>2. r[n] # "blank"
    <3>1. r[n] = s[l - n + 1]
      BY <1>4, <2>1
    <3>2. l - n + 1 = f
      BY <1>0
    <3> QED
      BY <3>1, <3>2
  <2>3. ASSUME NEW i \in n + 1 .. Len(r) PROVE r[i] = "blank"
    <3>1. i \in 1 .. l /\ l - i + 1 \in 1 .. f - 1
      BY <1>0, <1>3, <2>1
    <3> QED
      BY <1>4, <3>1
  <2>4. n \in 0 .. Len(r) /\ r \in Seq(S)
    BY <1>3, <2>1
  <2> HIDE DEF n
  <2> QED
    BY <2>2, <2>3, <2>4, TrimEndIs
<1>6. w \in Seq(S) /\ Len(w) = n /\ \A i \in 1 .. n : w[i] = r[i]
  <2>0. n \in Int /\ 1 <= n + 1 /\ n <= Len(r) /\ r \in Seq(S)
    BY <1>0, <1>3
  <2>1. w \in Seq(S) /\ Len(w) = n - 1 + 1 /\ \A i \in 1 .. n - 1 + 1 : w[i] = r[1 + i - 1]
    <3> HIDE DEF n
    <3> QED
      BY <2>0, Window
  <2> QED
    BY <1>0, <2>1
<1> HIDE DEF w
<1>7. Reverse(w) \in Seq(S) /\ Len(Reverse(w)) = n /\ \A i \in 1 .. n : Reverse(w)[i] = w[n - i + 1]
  <2> HIDE DEF n
  <2> QED
    BY <1>6, Reversed
<1>8. x \in Seq(S) /\ Len(x) = n /\ \A i \in 1 .. n : x[i] = s[f + i - 1]
  <2>1. /\ f \in Int /\ l \in Int /\ 1 <= f /\ f <= l + 1 /\ l <= Len(s) /\ n = l - f + 1
    BY <1>0
  <2> QED
    BY <2>1, Window
<1> HIDE DEF x
<1>9. ASSUME NEW i \in 1 .. n PROVE Reverse(w)[i] = x[i]
  <2>1. n - i + 1 \in 1 .. n /\ n - i + 1 \in 1 .. l
    BY <1>0
  <2>2. Reverse(w)[i] = s[l - (n - i + 1) + 1]
    BY <1>4, <1>6, <1>7, <2>1
  <2>3. l - (n - i + 1) + 1 = f + i - 1
    BY <1>0
  <2> QED
    BY <1>8, <2>2, <2>3
<1>10. Reverse(w) = x
  <2> HIDE DEF n
  <2> QED
    BY <1>7, <1>8, <1>9, SeqEqual
<1> QED
  BY <1>1, <1>5, <1>10 DEF Trim, x, r

\* Nothing is left of blanks.
LEMMA TrimBlank ==
    ASSUME NEW S, NEW s \in Seq(S), \A i \in 1 .. Len(s) : s[i] = "blank"
    PROVE  Trim(s) = <<>>
<1>0. Len(s) \in Nat
  BY LenProperties
<1>1. TrimEnd(s, "blank") = <<>>
  <2>1. TrimEnd(s, "blank") = SubSeq(s, 1, 0)
    BY <1>0, TrimEndIs
  <2> QED
    BY <2>1, SubSeqEmpty
<1>2. <<>> \in Seq(S) /\ Len(<<>>) = 0
  BY EmptySeq
<1> DEFINE r == Reverse(<<>>)
<1>3. r \in Seq(S) /\ Len(r) = 0
  BY <1>2, Reversed
<1>4. r = <<>>
  BY <1>3, EmptySeq
<1>5. TrimEnd(<<>>, "blank") = <<>>
  <2>1. TrimEnd(<<>>, "blank") = SubSeq(<<>>, 1, 0)
    <3>1. 0 \in 0 .. Len(<<>>) /\ \A i \in 0 + 1 .. Len(<<>>) : FALSE
      BY <1>2
    <3> QED
      BY <1>2, <3>1, TrimEndIs
  <2> QED
    BY <2>1, SubSeqEmpty
<1> QED
  BY <1>1, <1>4, <1>5 DEF Trim

\* What a text is trimmed to: nothing, if it is all blank, or what lies between
\* its first and its last word.
LEMMA TrimOf ==
    ASSUME NEW S, NEW s \in Seq(S), NEW p \in 1 .. Len(s), s[p] # "blank"
    PROVE  \E f, l \in 1 .. Len(s) :
             /\ f <= p /\ p <= l /\ s[f] # "blank" /\ s[l] # "blank"
             /\ \A i \in 1 .. f - 1 : s[i] = "blank"
             /\ \A i \in l + 1 .. Len(s) : s[i] = "blank"
             /\ Trim(s) = SubSeq(s, f, l)
<1>0. Len(s) \in Nat
  BY LenProperties
<1> DEFINE P == {i \in 1 .. Len(s) : s[i] # "blank"}
<1>1. p \in P
  OBVIOUS
<1>2. PICK f, l \in P : \A i \in P : f <= i /\ i <= l
  BY <1>0, <1>1, FirstAndLast
<1>3. /\ f \in 1 .. Len(s) /\ l \in f .. Len(s) /\ s[f] # "blank" /\ s[l] # "blank"
      /\ \A i \in 1 .. f - 1 : s[i] = "blank"
      /\ \A i \in l + 1 .. Len(s) : s[i] = "blank"
  BY <1>0, <1>2
<1>4. Trim(s) = SubSeq(s, f, l)
  BY <1>3, TrimIs
<1>5. f <= p /\ p <= l
  BY <1>1, <1>2
<1> QED
  BY <1>0, <1>3, <1>4, <1>5

\* Windows that hold the same are the same.
LEMMA SameWindow ==
    ASSUME NEW S, NEW a \in Seq(S), NEW b \in Seq(S), NEW f \in Int, NEW l \in Int, NEW d \in Int,
           1 <= f, f <= l + 1, l <= Len(a), 1 <= f + d, l + d <= Len(b),
           \A i \in f .. l : b[i + d] = a[i]
    PROVE  SubSeq(b, f + d, l + d) = SubSeq(a, f, l)
<1> DEFINE n == l - f + 1
           x == SubSeq(a, f, l)
           y == SubSeq(b, f + d, l + d)
<1>0. n \in Int /\ Len(a) \in Nat /\ Len(b) \in Nat
  BY LenProperties
<1>1. x \in Seq(S) /\ Len(x) = n /\ \A i \in 1 .. n : x[i] = a[f + i - 1]
  BY Window
<1>2. y \in Seq(S) /\ Len(y) = n /\ \A i \in 1 .. n : y[i] = b[f + d + i - 1]
  <2>1. /\ f + d \in Int /\ l + d \in Int /\ f + d <= l + d + 1
        /\ n = (l + d) - (f + d) + 1
    OBVIOUS
  <2> HIDE DEF n
  <2> QED
    BY <2>1, Window
<1> HIDE DEF x, y
<1>3. ASSUME NEW i \in 1 .. n PROVE x[i] = y[i]
  <2>1. f + i - 1 \in f .. l /\ f + d + i - 1 = (f + i - 1) + d
    OBVIOUS
  <2> QED
    BY <1>1, <1>2, <2>1
<1>4. x = y
  <2> HIDE DEF n
  <2> QED
    BY <1>1, <1>2, <1>3, SeqEqual
<1> QED
  BY <1>4 DEF x, y

\* The placeholders of a window are those of the text that lie in it.
LEMMA MarksOfWindow ==
    ASSUME NEW S, NEW s \in Seq(S), NEW f \in Int, NEW l \in Int, 1 <= f, f <= l + 1, l <= Len(s)
    PROVE  Marks(SubSeq(s, f, l)) = Cardinality({i \in f .. l : s[i] = "mark"})
<1> DEFINE u == SubSeq(s, f, l)
           n == l - f + 1
           X == {i \in DOMAIN u : u[i] = "mark"}
           Y == {i \in f .. l : s[i] = "mark"}
           g == [i \in X |-> f + i - 1]
<1>1. DOMAIN u = 1 .. n /\ \A i \in 1 .. n : u[i] = s[f + i - 1]
  BY Window
<1> HIDE DEF u
<1>2. X \subseteq 1 .. n /\ \A i \in X : s[f + i - 1] = "mark"
  BY <1>1
<1>3. g \in [X -> Y]
  BY <1>2
<1>4. \A i, j \in X : g[i] = g[j] => i = j
  BY <1>2
<1>5. ASSUME NEW j \in Y PROVE \E i \in X : g[i] = j
  <2>1. j - f + 1 \in 1 .. n /\ f + (j - f + 1) - 1 = j
    OBVIOUS
  <2>2. j - f + 1 \in X
    BY <1>1, <2>1
  <2> QED
    BY <2>1, <2>2
<1>6. IsFiniteSet(X)
  <2>1. IsFiniteSet(1 .. n)
    BY FS_Interval
  <2> QED
    BY <1>2, <2>1, FS_Subset
<1> HIDE DEF X, Y, g
<1>7. g \in Bijection(X, Y)
  BY <1>3, <1>4, <1>5 DEF Bijection, Injection, Surjection, IsInjective
<1>8. ExistsBijection(X, Y)
  BY <1>7 DEF ExistsBijection
<1>9. Cardinality(Y) = Cardinality(X)
  BY <1>6, <1>8, FS_Bijection
<1> QED
  BY <1>9 DEF Marks, X, Y, u

\* A cut is a place of the text, and no other lies between it and the next.
LEMMA NextCutIs ==
    ASSUME NEW S, NEW t \in Seq(S), NEW c \in Cuts(t)
    PROVE  /\ c \in 0 .. Len(t)
           /\ NextCut(t, c) \in c + 1 .. Len(t) + 1
           /\ NextCut(t, c) \in Cuts(t) \cup {Len(t) + 1}
           /\ \A i \in c + 1 .. NextCut(t, c) - 1 : t[i] # "semi"
<1>0. Len(t) \in Nat /\ DOMAIN t = 1 .. Len(t)
  BY LenProperties
<1> DEFINE E == {i \in Cuts(t) : i > c} \cup {Len(t) + 1}
<1>1. c \in 0 .. Len(t) /\ Cuts(t) \subseteq 0 .. Len(t)
  BY <1>0 DEF Cuts
<1>2. E \subseteq Nat /\ E # {} /\ E \subseteq Int
  BY <1>0, <1>1
<1>3. PICK m \in E : \A e \in E : m <= e
  <2> HIDE DEF E
  <2> QED
    BY <1>2, HasLeast
<1>4. Min(E) = m
  <2> HIDE DEF E
  <2> QED
    BY <1>2, <1>3, MinIs
<1>5. m \in c + 1 .. Len(t) + 1 /\ m \in Cuts(t) \cup {Len(t) + 1}
  BY <1>0, <1>1, <1>3
<1>6. ASSUME NEW i \in c + 1 .. m - 1, t[i] = "semi" PROVE FALSE
  <2>1. i \in DOMAIN t
    BY <1>0, <1>1, <1>5
  <2>2. i \in E
    BY <1>1, <1>6, <2>1 DEF Cuts
  <2> QED
    BY <1>3, <1>5, <2>2
<1> QED
  BY <1>1, <1>4, <1>5, <1>6 DEF NextCut

\* A cut with no semicolon before it is the next one.
LEMMA NextCutUnique ==
    ASSUME NEW S, NEW t \in Seq(S), NEW c \in Cuts(t), NEW m \in Cuts(t) \cup {Len(t) + 1},
           m > c, \A i \in c + 1 .. m - 1 : t[i] # "semi"
    PROVE  NextCut(t, c) = m
<1>0. Len(t) \in Nat /\ DOMAIN t = 1 .. Len(t)
  BY LenProperties
<1>1. /\ c \in 0 .. Len(t)
      /\ NextCut(t, c) \in c + 1 .. Len(t) + 1
      /\ NextCut(t, c) \in Cuts(t) \cup {Len(t) + 1}
      /\ \A i \in c + 1 .. NextCut(t, c) - 1 : t[i] # "semi"
  BY NextCutIs
<1>2. m \in 0 .. Len(t) + 1
  BY <1>0 DEF Cuts
<1>3. m <= Len(t) => t[m] = "semi"
  BY <1>0, <1>1 DEF Cuts
<1>4. NextCut(t, c) <= Len(t) => t[NextCut(t, c)] = "semi"
  BY <1>0, <1>1 DEF Cuts
<1> QED
  BY <1>0, <1>1, <1>2, <1>3, <1>4

-----------------------------------------------------------------------------
(* Statements and pieces *)

\* Text t is one statement, from place f to place l: blanks before it and none
\* but blanks and semicolons behind it.
OneCore(t, f, l) ==
    /\ f \in 1 .. Len(t) /\ l \in f .. Len(t)
    /\ \A i \in 1 .. f - 1 : t[i] = "blank"
    /\ t[f] # "blank" /\ t[l] # "blank"
    /\ \A i \in f .. l : t[i] # "semi"
    /\ \A i \in l + 1 .. Len(t) : t[i] \in {"blank", "semi"}

\* The piece of a text that begins at a cut.
LEMMA PieceOf ==
    ASSUME NEW S, NEW t \in Seq(S), NEW c \in Cuts(t)
    PROVE  LET w == SubSeq(t, c + 1, NextCut(t, c) - 1)
               n == NextCut(t, c) - 1 - c
           IN  /\ n \in Nat /\ c + n <= Len(t)
               /\ w \in Seq(S) /\ Len(w) = n /\ \A i \in 1 .. n : w[i] = t[c + i]
<1> DEFINE w == SubSeq(t, c + 1, NextCut(t, c) - 1)
           e == NextCut(t, c)
<1>0. Len(t) \in Nat
  BY LenProperties
<1>1. c \in 0 .. Len(t) /\ e \in c + 1 .. Len(t) + 1
  BY NextCutIs
<1> HIDE DEF e
<1>2. /\ c + 1 \in Int /\ e - 1 \in Int /\ 1 <= c + 1 /\ c + 1 <= (e - 1) + 1 /\ e - 1 <= Len(t)
      /\ (e - 1) - (c + 1) + 1 = e - 1 - c /\ e - 1 - c \in Nat /\ c + (e - 1 - c) <= Len(t)
  BY <1>0, <1>1
<1>3. /\ SubSeq(t, c + 1, e - 1) \in Seq(S) /\ Len(SubSeq(t, c + 1, e - 1)) = e - 1 - c
      /\ \A i \in 1 .. e - 1 - c : SubSeq(t, c + 1, e - 1)[i] = t[c + 1 + i - 1]
  BY <1>2, Window
<1>4. \A i \in 1 .. e - 1 - c : c + 1 + i - 1 = c + i
  BY <1>1
<1> QED
  BY <1>2, <1>3, <1>4 DEF e

\* A blank piece starts no statement, and any other does.
LEMMA BlankPiece ==
    ASSUME NEW S, NEW t \in Seq(S), NEW c \in Cuts(t)
    PROVE  PieceAt(t, c) = <<>> <=> \A i \in c + 1 .. NextCut(t, c) - 1 : t[i] = "blank"
<1> DEFINE w == SubSeq(t, c + 1, NextCut(t, c) - 1)
           n == NextCut(t, c) - 1 - c
<1>0. /\ n \in Nat /\ c + n <= Len(t)
      /\ w \in Seq(S) /\ Len(w) = n /\ \A i \in 1 .. n : w[i] = t[c + i]
  BY PieceOf
<1>1. c \in Nat /\ NextCut(t, c) \in Nat
  <2>1. c \in 0 .. Len(t) /\ NextCut(t, c) \in c + 1 .. Len(t) + 1 /\ Len(t) \in Nat
    BY NextCutIs, LenProperties
  <2> QED
    BY <2>1
<1>2. ASSUME \A i \in c + 1 .. NextCut(t, c) - 1 : t[i] = "blank" PROVE PieceAt(t, c) = <<>>
  <2>1. \A i \in 1 .. n : c + i \in c + 1 .. NextCut(t, c) - 1
    BY <1>1
  <2>2. \A i \in 1 .. Len(w) : w[i] = "blank"
    BY <1>0, <1>2, <2>1
  <2> HIDE DEF w
  <2>3. Trim(w) = <<>>
    BY <1>0, <2>2, TrimBlank
  <2> QED
    BY <2>3 DEF PieceAt, w
<1>3. ASSUME NEW i \in c + 1 .. NextCut(t, c) - 1, t[i] # "blank" PROVE PieceAt(t, c) # <<>>
  <2>1. i - c \in 1 .. n /\ c + (i - c) = i
    BY <1>1
  <2>2. i - c \in 1 .. Len(w) /\ w[i - c] # "blank"
    BY <1>0, <1>3, <2>1
  <2> HIDE DEF w
  <2>3. PICK f, l \in 1 .. Len(w) : f <= i - c /\ i - c <= l /\ Trim(w) = SubSeq(w, f, l)
    BY <1>0, <2>2, TrimOf
  <2>4. f \in Int /\ l \in Int /\ 1 <= f /\ f <= l + 1 /\ l <= Len(w) /\ l - f + 1 > 0
    BY <1>0, <1>1, <2>3
  <2>5. Len(Trim(w)) = l - f + 1
    BY <1>0, <2>3, <2>4, Window
  <2>6. Trim(w) # <<>>
    <3>1. Len(<<>>) = 0
      BY EmptySeq
    <3> QED
      BY <2>4, <2>5, <3>1
  <2> QED
    BY <2>6 DEF PieceAt, w
<1> QED
  BY <1>2, <1>3

\* A piece is a text.
LEMMA PieceType ==
    ASSUME NEW S, NEW t \in Seq(S), NEW c \in Cuts(t)
    PROVE  PieceAt(t, c) \in Seq(S)
<1> DEFINE w == SubSeq(t, c + 1, NextCut(t, c) - 1)
<1>1. w \in Seq(S)
  BY PieceOf
<1> HIDE DEF w
<1>2. Len(w) \in Nat
  BY <1>1, LenProperties
<1>3. Trim(w) \in Seq(S)
  <2>1. CASE \A i \in 1 .. Len(w) : w[i] = "blank"
    BY <1>1, <2>1, TrimBlank, EmptySeq
  <2>2. CASE \E i \in 1 .. Len(w) : w[i] # "blank"
    <3>1. PICK p \in 1 .. Len(w) : w[p] # "blank"
      BY <2>2
    <3>2. PICK f, l \in 1 .. Len(w) : f <= p /\ p <= l /\ Trim(w) = SubSeq(w, f, l)
      BY <1>1, <3>1, TrimOf
    <3>3. f \in Int /\ l \in Int /\ 1 <= f /\ f <= l + 1 /\ l <= Len(w)
      BY <1>2, <3>2
    <3> QED
      BY <1>1, <3>2, <3>3, Window
  <2> QED
    BY <2>1, <2>2
<1> QED
  BY <1>3 DEF PieceAt, w

\* A text that is one statement is one piece.
LEMMA OnePiece ==
    ASSUME NEW S, NEW t \in Seq(S), NEW f, NEW l, OneCore(t, f, l)
    PROVE  /\ Starts(t) = {0} /\ PieceAt(t, 0) = SubSeq(t, f, l)
           /\ Marks(t) = Marks(SubSeq(t, f, l))
<1> DEFINE N == Len(t)
<1>0. N \in Nat /\ DOMAIN t = 1 .. N
  BY LenProperties
<1>c. /\ f \in 1 .. N /\ l \in f .. N
      /\ \A i \in 1 .. f - 1 : t[i] = "blank"
      /\ t[f] # "blank" /\ t[l] # "blank"
      /\ \A i \in f .. l : t[i] # "semi"
      /\ \A i \in l + 1 .. N : t[i] \in {"blank", "semi"}
  BY DEF OneCore
<1>1. ASSUME NEW c \in Cuts(t), c # 0 PROVE c > l /\ c \in 1 .. N
  BY <1>0, <1>c, <1>1 DEF Cuts
<1>2. 0 \in Cuts(t)
  BY DEF Cuts
<1> DEFINE e == NextCut(t, 0)
           w == SubSeq(t, 0 + 1, e - 1)
<1>3. e \in l + 1 .. N + 1 /\ \A i \in 0 + 1 .. e - 1 : t[i] # "semi"
  <2>1. /\ e \in 0 + 1 .. N + 1
        /\ e \in Cuts(t) \cup {N + 1}
        /\ \A i \in 0 + 1 .. e - 1 : t[i] # "semi"
    BY <1>2, NextCutIs
  <2> HIDE DEF e
  <2> QED
    BY <1>0, <1>1, <1>c, <2>1
<1>4. /\ e - 1 - 0 \in Nat
      /\ w \in Seq(S) /\ Len(w) = e - 1 - 0 /\ \A i \in 1 .. e - 1 - 0 : w[i] = t[0 + i]
  BY <1>2, PieceOf
<1> HIDE DEF e, w
<1>5. Len(w) = e - 1 /\ \A i \in 1 .. e - 1 : w[i] = t[i]
  BY <1>3, <1>4
<1>6. f \in 1 .. Len(w) /\ l \in f .. Len(w)
  BY <1>0, <1>c, <1>3, <1>5
<1>7. w[f] # "blank" /\ w[l] # "blank" /\ \A i \in 1 .. f - 1 : w[i] = "blank"
  BY <1>0, <1>c, <1>3, <1>5
<1>8. ASSUME NEW i \in l + 1 .. Len(w) PROVE w[i] = "blank"
  <2>1. i \in 1 .. e - 1 /\ i \in 0 + 1 .. e - 1 /\ i \in l + 1 .. N
    BY <1>0, <1>c, <1>3, <1>5
  <2> QED
    BY <1>c, <1>3, <1>5, <2>1
<1>9. Trim(w) = SubSeq(w, f, l)
  BY <1>4, <1>6, <1>7, <1>8, TrimIs
<1>10. SubSeq(t, f + 0, l + 0) = SubSeq(w, f, l)
  <2>1. /\ f \in Int /\ l \in Int /\ 1 <= f /\ f <= l + 1 /\ l <= Len(w) /\ 1 <= f + 0 /\ l + 0 <= Len(t)
        /\ \A i \in f .. l : t[i + 0] = w[i]
    BY <1>0, <1>c, <1>5, <1>6
  <2> QED
    BY <1>4, <2>1, SameWindow
<1>11. PieceAt(t, 0) = SubSeq(t, f, l)
  <2>1. f + 0 = f /\ l + 0 = l
    BY <1>c
  <2> QED
    BY <1>9, <1>10, <2>1 DEF PieceAt, w, e
<1>12. PieceAt(t, 0) # <<>>
  <2>1. f \in 0 + 1 .. NextCut(t, 0) - 1
    BY <1>0, <1>c, <1>3 DEF e
  <2> QED
    BY <1>2, <1>c, <2>1, BlankPiece
<1>13. ASSUME NEW c \in Cuts(t), c # 0 PROVE PieceAt(t, c) = <<>>
  <2>1. c > l /\ c \in 1 .. N
    BY <1>1, <1>13
  <2>2. /\ NextCut(t, c) \in c + 1 .. N + 1
        /\ \A i \in c + 1 .. NextCut(t, c) - 1 : t[i] # "semi"
    BY NextCutIs
  <2>3. ASSUME NEW i \in c + 1 .. NextCut(t, c) - 1 PROVE t[i] = "blank"
    <3>1. i \in l + 1 .. N
      BY <1>0, <1>c, <2>1, <2>2
    <3> QED
      BY <1>c, <2>2, <3>1
  <2> QED
    BY <2>3, BlankPiece
<1>14. Marks(t) = Marks(SubSeq(t, f, l))
  <2>1. Marks(SubSeq(t, f, l)) = Cardinality({i \in f .. l : t[i] = "mark"})
    BY <1>0, <1>c, MarksOfWindow
  <2>2. ASSUME NEW i \in 1 .. N, t[i] = "mark" PROVE i \in f .. l
    BY <1>0, <1>c, <2>2
  <2>3. {i \in DOMAIN t : t[i] = "mark"} = {i \in f .. l : t[i] = "mark"}
    BY <1>0, <1>c, <2>2
  <2> QED
    BY <2>1, <2>3 DEF Marks
<1> QED
  BY <1>2, <1>11, <1>12, <1>13, <1>14 DEF Starts

\* And the other way about: a text with no statement but the one at its
\* beginning has nothing but blanks and semicolons around that.
LEMMA OneStatement ==
    ASSUME NEW S, NEW t \in Seq(S), Starts(t) = {0}
    PROVE  \E f, l \in Nat : OneCore(t, f, l)
<1> DEFINE N == Len(t)
<1>0. N \in Nat /\ DOMAIN t = 1 .. N
  BY LenProperties
<1>1. /\ 0 \in Cuts(t) /\ PieceAt(t, 0) # <<>>
      /\ \A c \in Cuts(t) : c # 0 => PieceAt(t, c) = <<>>
  BY DEF Starts
<1> DEFINE e == NextCut(t, 0)
           w == SubSeq(t, 0 + 1, e - 1)
<1>2. /\ e \in 0 + 1 .. N + 1 /\ e \in Cuts(t) \cup {N + 1}
      /\ \A i \in 0 + 1 .. e - 1 : t[i] # "semi"
  BY <1>1, NextCutIs
<1>3. w \in Seq(S) /\ Len(w) = e - 1 - 0 /\ \A i \in 1 .. e - 1 - 0 : w[i] = t[0 + i]
  BY <1>1, PieceOf
<1>4. PICK p \in 0 + 1 .. e - 1 : t[p] # "blank"
  BY <1>1, BlankPiece
<1> HIDE DEF e, w
<1>5. Len(w) = e - 1 /\ \A i \in 1 .. e - 1 : w[i] = t[i]
  BY <1>2, <1>3
<1>6. p \in 1 .. Len(w) /\ w[p] # "blank"
  BY <1>2, <1>4, <1>5
<1>7. PICK f, l \in 1 .. Len(w) :
             /\ f <= p /\ p <= l /\ w[f] # "blank" /\ w[l] # "blank"
             /\ \A i \in 1 .. f - 1 : w[i] = "blank"
             /\ \A i \in l + 1 .. Len(w) : w[i] = "blank"
  BY <1>3, <1>6, TrimOf
<1>8. ASSUME NEW i \in e .. N, t[i] # "semi" PROVE t[i] = "blank"
  <2>1. i \in Nat /\ i >= 1 /\ i <= N
    BY <1>0, <1>2
  <2> DEFINE C == {c \in Cuts(t) : c < i}
  <2>2. C \in SUBSET (0 .. N) /\ 0 \in C
    BY <1>0, <1>1, <2>1 DEF Cuts
  <2> DEFINE D == {N - c : c \in C}
  <2>3. D \subseteq Nat /\ D # {}
    BY <1>0, <2>2
  <2> HIDE DEF D
  <2>4. PICK d \in D : \A x \in D : d <= x
    BY <2>3, HasLeast
  <2>5. PICK c \in C : d = N - c
    BY <2>4 DEF D
  <2>6. ASSUME NEW x \in C PROVE x <= c
    <3>1. N - x \in D
      BY DEF D
    <3>2. N - c <= N - x
      BY <2>4, <2>5, <3>1
    <3> QED
      BY <1>0, <2>2, <3>2
  <2>7. c \in Cuts(t) /\ c < i /\ c \in 0 .. N
    BY <2>2
  <2>8. c # 0
    <3>1. e \in Cuts(t)
      BY <1>0, <1>2, <2>1
    <3>2. t[e] = "semi"
      BY <1>2, <3>1 DEF Cuts
    <3>3. e < i
      BY <1>2, <1>8, <2>1, <3>2
    <3>4. e \in C
      BY <3>1, <3>3
    <3> QED
      BY <1>2, <2>6, <3>4
  <2>9. PieceAt(t, c) = <<>>
    BY <1>1, <2>7, <2>8
  <2> DEFINE m == NextCut(t, c)
  <2>10. m \in c + 1 .. N + 1 /\ m \in Cuts(t) \cup {N + 1}
    BY <2>7, NextCutIs
  <2> HIDE DEF m
  <2>11. m > i
    <3>1. CASE m = N + 1
      BY <1>0, <2>1, <3>1
    <3>2. CASE m # N + 1
      <4>1. m \in Cuts(t) /\ t[m] = "semi"
        BY <2>7, <2>10, <3>2 DEF Cuts
      <4>2. m < i => m \in C
        BY <4>1
      <4>3. m # i
        BY <1>8, <4>1
      <4> QED
        BY <2>1, <2>6, <2>7, <2>10, <4>2, <4>3
    <3> QED
      BY <3>1, <3>2
  <2>12. i \in c + 1 .. NextCut(t, c) - 1
    BY <2>1, <2>7, <2>10, <2>11 DEF m
  <2> QED
    BY <2>7, <2>9, <2>12, BlankPiece
<1>9. f \in 1 .. N /\ l \in f .. N /\ l < e
  BY <1>0, <1>2, <1>5, <1>7
<1>10. \A i \in 1 .. f - 1 : t[i] = "blank"
  BY <1>2, <1>5, <1>7, <1>9
<1>11. t[f] # "blank" /\ t[l] # "blank" /\ \A i \in f .. l : t[i] # "semi"
  BY <1>2, <1>5, <1>7, <1>9
<1>12. ASSUME NEW i \in l + 1 .. N PROVE t[i] \in {"blank", "semi"}
  <2>1. CASE i < e
    BY <1>2, <1>5, <1>7, <1>9, <2>1
  <2>2. CASE ~(i < e)
    <3>1. i \in e .. N
      BY <1>2, <1>9, <2>2
    <3> QED
      BY <1>8, <3>1
  <2> QED
    BY <2>1, <2>2
<1>13. OneCore(t, f, l)
  BY <1>9, <1>10, <1>11, <1>12 DEF OneCore
<1>14. f \in Nat /\ l \in Nat
  BY <1>0, <1>9
<1> QED
  BY <1>13, <1>14

\* What lies between the last word of a statement and what it is trimmed to.
Behind(s, l, z, y, g) ==
    /\ z \in l .. y /\ y \in z .. g /\ g \in y .. Len(s)
    /\ \A i \in z + 1 .. y : s[i] = "blank"
    /\ s[y] # "semi" /\ \A i \in y + 1 .. g : s[i] = "semi"

\* The text of a statement loses its blanks, then the semicolons at its end,
\* then the blanks before these; it keeps its words.
LEMMA StrippedIs ==
    ASSUME NEW S, NEW s \in Seq(S), NEW f, NEW l, OneCore(s, f, l)
    PROVE  \E z, y, g \in Nat :
             /\ Behind(s, l, z, y, g)
             /\ Trim(s) = SubSeq(s, f, g) /\ Stripped(s) = SubSeq(s, f, z)
<1> DEFINE N == Len(s)
<1>0. N \in Nat
  BY LenProperties
<1>c. /\ f \in 1 .. N /\ l \in f .. N
      /\ \A i \in 1 .. f - 1 : s[i] = "blank"
      /\ s[f] # "blank" /\ s[l] # "blank"
      /\ \A i \in f .. l : s[i] # "semi"
  BY DEF OneCore
<1>1. l \in 1 .. N
  BY <1>0, <1>c
<1>2. PICK f1, g \in 1 .. N :
             /\ f1 <= l /\ l <= g /\ s[f1] # "blank" /\ s[g] # "blank"
             /\ \A i \in 1 .. f1 - 1 : s[i] = "blank"
             /\ Trim(s) = SubSeq(s, f1, g)
  BY <1>1, <1>c, TrimOf
<1>3. f1 = f
  BY <1>0, <1>c, <1>2
<1> DEFINE u == SubSeq(s, f, g)
           n == g - f + 1
<1>4. n \in Nat /\ f <= g /\ 1 <= f /\ g <= N /\ f \in Int /\ g \in Int /\ f <= g + 1
  BY <1>0, <1>c, <1>2
<1>5. u \in Seq(S) /\ Len(u) = n /\ \A i \in 1 .. n : u[i] = s[f + i - 1]
  BY <1>4, Window
<1> DEFINE k == l - f + 1
<1>6. k \in 1 .. n /\ f + k - 1 = l
  BY <1>c, <1>2, <1>4
<1> DEFINE P == {i \in 1 .. n : u[i] # "semi"}
<1>7. P \in SUBSET (1 .. n) /\ k \in P
  BY <1>c, <1>5, <1>6
<1> HIDE DEF P
<1>8. PICK b \in P : \A i \in P : i <= b
  BY <1>4, <1>7, FirstAndLast
<1>9. b \in k .. n /\ u[b] # "semi" /\ \A i \in b + 1 .. n : u[i] = "semi"
  <2> HIDE DEF u, n, k
  <2>1. b \in 1 .. n /\ k \in 1 .. n /\ k <= b /\ u[b] # "semi"
    BY <1>6, <1>7, <1>8 DEF P
  <2>2. ASSUME NEW i \in b + 1 .. n, u[i] # "semi" PROVE FALSE
    <3>1. i \in 1 .. n
      BY <1>4, <2>1
    <3>2. i \in P
      BY <2>2, <3>1 DEF P
    <3> QED
      BY <1>8, <2>1, <3>2
  <2>3. b \in k .. n
    BY <1>4, <2>1
  <2> QED
    BY <2>1, <2>2, <2>3
<1>10. TrimEnd(u, "semi") = SubSeq(u, 1, b)
  <2>1. b \in 0 .. Len(u) /\ (b # 0 => u[b] # "semi") /\ \A i \in b + 1 .. Len(u) : u[i] = "semi"
    <3> HIDE DEF u, n, k
    <3>1. b \in 0 .. n
      BY <1>4, <1>6, <1>9
    <3> QED
      BY <1>5, <1>9, <3>1
  <2> HIDE DEF u
  <2> QED
    BY <1>5, <2>1, TrimEndIs
<1> DEFINE v == SubSeq(s, f, f + b - 1)
<1>11. SubSeq(u, 1, b) = v
  <2>1. 1 \in Int /\ b \in Int /\ 1 <= b + 1 /\ b <= g - f + 1
    BY <1>4, <1>6, <1>9
  <2>2. SubSeq(u, 1, b) = SubSeq(s, f + 1 - 1, f + b - 1)
    BY <1>4, <2>1, WindowInWindow
  <2>3. f + 1 - 1 = f
    BY <1>4
  <2> QED
    BY <2>2, <2>3
<1>12. v \in Seq(S) /\ Len(v) = b /\ \A i \in 1 .. b : v[i] = s[f + i - 1]
  <2>1. /\ f + b - 1 \in Int /\ f <= (f + b - 1) + 1 /\ f + b - 1 <= N
        /\ (f + b - 1) - f + 1 = b
    BY <1>4, <1>6, <1>9
  <2>2. /\ SubSeq(s, f, f + b - 1) \in Seq(S) /\ Len(SubSeq(s, f, f + b - 1)) = (f + b - 1) - f + 1
        /\ \A i \in 1 .. (f + b - 1) - f + 1 : SubSeq(s, f, f + b - 1)[i] = s[f + i - 1]
    BY <1>4, <2>1, Window
  <2> QED
    BY <2>1, <2>2
<1> HIDE DEF u, v
<1>13. k \in 1 .. Len(v) /\ v[k] = s[l] /\ v[1] = s[f]
  <2>1. k \in 1 .. b /\ 1 \in 1 .. b /\ f + 1 - 1 = f
    BY <1>4, <1>6, <1>9
  <2> QED
    BY <1>6, <1>12, <2>1
<1>14. PICK f2, c \in 1 .. Len(v) :
             /\ f2 <= k /\ k <= c /\ v[f2] # "blank"
             /\ \A i \in 1 .. f2 - 1 : v[i] = "blank"
             /\ \A i \in c + 1 .. Len(v) : v[i] = "blank"
             /\ Trim(v) = SubSeq(v, f2, c)
  <2>1. k \in 1 .. Len(v) /\ v[k] # "blank"
    BY <1>c, <1>13
  <2>2. v \in Seq(S)
    BY <1>12
  <2> HIDE DEF k
  <2> QED
    BY <2>1, <2>2, TrimOf
<1>15. f2 = 1
  <2>1. 1 \in 1 .. f2 - 1 => v[1] = "blank"
    BY <1>14
  <2> QED
    BY <1>4, <1>9, <1>12, <1>14, <1>13, <1>c, <2>1
<1> DEFINE z == f + c - 1
           y == f + b - 1
<1>16. c \in k .. b /\ b \in c .. n /\ Trim(v) = SubSeq(v, 1, c)
  BY <1>6, <1>9, <1>12, <1>14, <1>15
<1>17. SubSeq(v, 1, c) = SubSeq(s, f, z)
  <2>1. /\ f + b - 1 \in Int /\ f <= (f + b - 1) + 1 /\ f + b - 1 <= N
        /\ (f + b - 1) - f + 1 = b
        /\ 1 \in Int /\ c \in Int /\ 1 <= c + 1 /\ c <= (f + b - 1) - f + 1
    BY <1>4, <1>6, <1>9, <1>16
  <2>2. SubSeq(SubSeq(s, f, f + b - 1), 1, c) = SubSeq(s, f + 1 - 1, f + c - 1)
    BY <1>4, <2>1, WindowInWindow
  <2>3. f + 1 - 1 = f
    BY <1>4
  <2> QED
    BY <2>2, <2>3 DEF v
<1>18. Trim(s) = SubSeq(s, f, g) /\ Stripped(s) = SubSeq(s, f, z)
  BY <1>2, <1>3, <1>10, <1>11, <1>16, <1>17 DEF Stripped, u
<1>19. z \in l .. y /\ y \in z .. g /\ g \in y .. N
  BY <1>0, <1>4, <1>6, <1>9, <1>16
<1>20. ASSUME NEW i \in z + 1 .. y PROVE s[i] = "blank"
  <2>1. i - f + 1 \in c + 1 .. b /\ i - f + 1 \in 1 .. b /\ f + (i - f + 1) - 1 = i
    BY <1>4, <1>6, <1>16
  <2> QED
    BY <1>12, <1>14, <2>1
<1>21. ASSUME NEW i \in y + 1 .. g PROVE s[i] = "semi"
  <2>1. i - f + 1 \in b + 1 .. n /\ i - f + 1 \in 1 .. n /\ f + (i - f + 1) - 1 = i
    BY <1>4, <1>6, <1>9
  <2> QED
    BY <1>5, <1>9, <2>1
<1>22. Behind(s, l, z, y, g)
  <2>1. s[y] # "semi"
    <3>1. b \in 1 .. n
      BY <1>6, <1>9
    <3> QED
      BY <1>5, <1>9, <3>1
  <2> QED
    BY <1>19, <1>20, <1>21, <2>1 DEF Behind
<1>23. z \in Nat /\ y \in Nat /\ g \in Nat
  BY <1>0, <1>4, <1>19, <1>1
<1> QED
  BY <1>18, <1>22, <1>23

\* What build_transaction_script takes for transaction control, seen from the
\* text as the caller wrote it.
IsControl(text) ==
    /\ text[1] = "BEGIN"
    /\ \/ Len(text) > 1 /\ text[2] = "blank"
       \/ \A i \in 2 .. Len(text) : text[i] = "semi"

\* The first word of what is sent is a word of control where the statement is
\* that word, with nothing but semicolons behind it, or begins with it and a
\* blank.
LEMMA SameControl ==
    ASSUME NEW S, NEW s \in Seq(S), NEW f, NEW l, OneCore(s, f, l),
           NEW z, NEW y, NEW g, Behind(s, l, z, y, g)
    PROVE  FirstIsControl(SubSeq(s, f, z)) <=> IsControl(SubSeq(s, f, g))
<1> DEFINE t == SubSeq(s, f, z)
           u == SubSeq(s, f, g)
<1>0. Len(s) \in Nat
  BY LenProperties
<1>1. /\ f \in 1 .. Len(s) /\ l \in f .. Len(s)
      /\ z \in l .. y /\ y \in z .. g /\ g \in y .. Len(s)
      /\ \A i \in z + 1 .. y : s[i] = "blank"
      /\ s[y] # "semi" /\ \A i \in y + 1 .. g : s[i] = "semi"
  BY DEF OneCore, Behind
<1>2. /\ f \in Nat /\ z \in Nat /\ y \in Nat /\ g \in Nat
      /\ 1 <= f /\ f <= z /\ z <= y /\ y <= g /\ g <= Len(s)
  BY <1>0, <1>1
<1>3. t \in Seq(S) /\ Len(t) = z - f + 1 /\ \A i \in 1 .. z - f + 1 : t[i] = s[f + i - 1]
  <2>1. /\ f \in Int /\ z \in Int /\ f <= z + 1 /\ z <= Len(s)
    BY <1>2
  <2> QED
    BY <1>2, <2>1, Window
<1>4. u \in Seq(S) /\ Len(u) = g - f + 1 /\ \A i \in 1 .. g - f + 1 : u[i] = s[f + i - 1]
  <2>1. /\ f \in Int /\ g \in Int /\ f <= g + 1 /\ g <= Len(s)
    BY <1>2
  <2> QED
    BY <1>2, <2>1, Window
<1> HIDE DEF t, u
<1>5. t[1] = s[f] /\ u[1] = s[f] /\ Head(t) = s[f]
  <2>1. 1 \in 1 .. z - f + 1 /\ 1 \in 1 .. g - f + 1 /\ f + 1 - 1 = f
    BY <1>2
  <2>2. t[1] = s[f] /\ u[1] = s[f]
    BY <1>3, <1>4, <2>1
  <2>3. t # <<>>
    <3>1. Len(t) > 0
      BY <1>2, <1>3
    <3> QED
      BY <3>1, EmptySeq
  <2>4. Head(t) = t[1]
    BY <1>3, <2>3
  <2> QED
    BY <2>2, <2>4
<1>6. CASE z = f
  <2>1. Len(t) = 1
    BY <1>2, <1>3, <1>6
  <2>2. CASE y = f
    <3>1. ASSUME NEW i \in 2 .. Len(u) PROVE u[i] = "semi"
      <4>1. i \in 1 .. g - f + 1 /\ f + i - 1 \in y + 1 .. g
        BY <1>2, <1>4, <2>2
      <4> QED
        BY <1>1, <1>4, <4>1
    <3> QED
      BY <1>5, <2>1, <3>1 DEF FirstIsControl, IsControl, t, u
  <2>3. CASE y # f
    <3>1. 2 \in 1 .. g - f + 1 /\ f + 2 - 1 \in z + 1 .. y
      BY <1>2, <1>6, <2>3
    <3>2. Len(u) > 1 /\ u[2] = "blank"
      BY <1>1, <1>2, <1>4, <3>1
    <3> QED
      BY <1>5, <2>1, <3>2 DEF FirstIsControl, IsControl, t, u
  <2> QED
    BY <2>2, <2>3
<1>7. CASE z # f
  <2>1. Len(t) # 1 /\ Len(u) > 1
    BY <1>2, <1>3, <1>4, <1>7
  <2>2. t[2] = u[2]
    <3>1. 2 \in 1 .. z - f + 1 /\ 2 \in 1 .. g - f + 1
      BY <1>2, <1>7
    <3> QED
      BY <1>3, <1>4, <3>1
  <2>3. \E i \in 2 .. Len(u) : u[i] # "semi"
    <3>1. y - f + 1 \in 2 .. Len(u) /\ y - f + 1 \in 1 .. g - f + 1 /\ f + (y - f + 1) - 1 = y
      BY <1>2, <1>4, <1>7
    <3> QED
      BY <1>1, <1>4, <3>1
  <2> QED
    BY <1>5, <2>1, <2>2, <2>3 DEF FirstIsControl, IsControl, t, u
<1> QED
  BY <1>6, <1>7

\* The words of a script: those of its statements, and its own COMMIT.
AllWords == Words \cup {"COMMIT"}

\* A statement as the script holds it.
Spaced(t) == <<"blank">> \o t

\* A blank before a statement, and what was trimmed behind it, make no
\* difference.
LEMMA SameCore ==
    ASSUME NEW s \in Seq(AllWords), NEW f \in Nat, NEW l \in Nat, OneCore(s, f, l),
           NEW z \in Nat, z \in l .. Len(s)
    PROVE  /\ SubSeq(s, f, z) \in Seq(AllWords) /\ Len(SubSeq(s, f, z)) # 0
           /\ Spaced(SubSeq(s, f, z)) \in Seq(AllWords)
           /\ OneCore(Spaced(SubSeq(s, f, z)), 2, l - f + 2)
           /\ SubSeq(Spaced(SubSeq(s, f, z)), 2, l - f + 2) = SubSeq(s, f, l)
<1> DEFINE N == Len(s)
           t == SubSeq(s, f, z)
           b == <<"blank">> \o t
<1>s. "blank" \in AllWords
  BY DEF AllWords, Words
<1>0. N \in Nat
  BY LenProperties
<1>1. /\ f \in 1 .. N /\ l \in f .. N
      /\ s[f] # "blank" /\ s[l] # "blank"
      /\ \A i \in f .. l : s[i] # "semi"
      /\ \A i \in l + 1 .. N : s[i] \in {"blank", "semi"}
  BY DEF OneCore
<1>2. f \in Nat /\ l \in Nat /\ z \in Nat /\ 1 <= f /\ f <= l /\ l <= z /\ z <= N
  BY <1>0, <1>1
<1>3. t \in Seq(AllWords) /\ Len(t) = z - f + 1 /\ \A i \in 1 .. z - f + 1 : t[i] = s[f + i - 1]
  <2>1. /\ f \in Int /\ z \in Int /\ f <= z + 1 /\ z <= Len(s)
    BY <1>2
  <2> QED
    BY <1>2, <2>1, Window
<1> HIDE DEF t
<1>4. <<"blank">> \in Seq(AllWords) /\ Len(<<"blank">>) = 1 /\ <<"blank">>[1] = "blank"
  BY <1>s
<1> DEFINE w == <<"blank">>
<1>5. b \in Seq(AllWords) /\ Len(b) = 1 + (z - f + 1)
      /\ \A i \in 1 .. 1 + (z - f + 1) : b[i] = IF i <= 1 THEN w[i] ELSE t[i - 1]
  <2>1. w \in Seq(AllWords) /\ Len(w) = 1
    BY <1>4
  <2> HIDE DEF w
  <2>2. /\ w \o t \in Seq(AllWords) /\ Len(w \o t) = Len(w) + Len(t)
        /\ \A i \in 1 .. Len(w) + Len(t) : (w \o t)[i] = IF i <= Len(w) THEN w[i] ELSE t[i - Len(w)]
    BY <1>3, <2>1, ConcatProperties
  <2> QED
    BY <1>3, <2>1, <2>2 DEF w
<1> HIDE DEF b
<1>6. b[1] = "blank"
  BY <1>2, <1>4, <1>5
<1>7. ASSUME NEW i \in f .. z PROVE b[i + (2 - f)] = s[i]
  <2>1. /\ i + (2 - f) \in 2 .. 1 + (z - f + 1) /\ (i + (2 - f)) - 1 = i - f + 1
        /\ i - f + 1 \in 1 .. z - f + 1 /\ f + (i - f + 1) - 1 = i
    BY <1>2
  <2>2. b[i + (2 - f)] = t[(i + (2 - f)) - 1]
    <3>1. i + (2 - f) \in 1 .. 1 + (z - f + 1) /\ ~(i + (2 - f) <= 1)
      BY <1>2
    <3> QED
      BY <1>5, <3>1
  <2> QED
    BY <1>3, <2>1, <2>2
<1>8. SubSeq(b, f + (2 - f), l + (2 - f)) = SubSeq(s, f, l)
  <2>1. /\ f \in Int /\ l \in Int /\ 2 - f \in Int
        /\ 1 <= f /\ f <= l + 1 /\ l <= Len(s) /\ 1 <= f + (2 - f) /\ l + (2 - f) <= Len(b)
    BY <1>2, <1>5
  <2>2. \A i \in f .. l : b[i + (2 - f)] = s[i]
    BY <1>2, <1>7
  <2> QED
    BY <1>5, <2>1, <2>2, SameWindow
<1>9. f + (2 - f) = 2 /\ l + (2 - f) = l - f + 2
  BY <1>2
<1>10. OneCore(b, 2, l - f + 2)
  <2>1. 2 \in 1 .. Len(b) /\ l - f + 2 \in 2 .. Len(b)
    BY <1>2, <1>5
  <2>2. \A i \in 1 .. 2 - 1 : b[i] = "blank"
    BY <1>6
  <2>3. b[2] # "blank" /\ b[l - f + 2] # "blank"
    <3>1. f \in f .. z /\ l \in f .. z
      BY <1>2
    <3>2. b[f + (2 - f)] = s[f] /\ b[l + (2 - f)] = s[l]
      BY <1>7, <3>1
    <3> QED
      BY <1>1, <1>9, <3>2
  <2>4. ASSUME NEW i \in 2 .. l - f + 2 PROVE b[i] # "semi"
    <3>1. i - 2 + f \in f .. l /\ i - 2 + f \in f .. z /\ (i - 2 + f) + (2 - f) = i
      BY <1>2
    <3> QED
      BY <1>1, <1>7, <3>1
  <2>5. ASSUME NEW i \in l - f + 2 + 1 .. Len(b) PROVE b[i] \in {"blank", "semi"}
    <3>1. i - 2 + f \in l + 1 .. N /\ i - 2 + f \in f .. z /\ (i - 2 + f) + (2 - f) = i
      BY <1>2, <1>5
    <3>2. b[(i - 2 + f) + (2 - f)] = s[i - 2 + f]
      BY <1>7, <3>1
    <3> QED
      BY <1>1, <3>1, <3>2
  <2> QED
    BY <2>1, <2>2, <2>3, <2>4, <2>5 DEF OneCore
<1>11. Len(t) # 0
  BY <1>2, <1>3
<1>12. SubSeq(b, 2, l - f + 2) = SubSeq(s, f, l) /\ l - f + 2 \in Nat
  BY <1>2, <1>8, <1>9
<1> QED
  BY <1>3, <1>5, <1>10, <1>11, <1>12 DEF b, t, Spaced

\* What the proof needs to know of the text of one statement.
LEMMA StatementIs ==
    ASSUME NEW s \in Texts
    PROVE  LET b == Spaced(Stripped(s))
           IN  /\ s \in Seq(AllWords) /\ Stripped(s) \in Seq(AllWords) /\ Stripped(s) # <<>>
               /\ b \in Seq(AllWords)
               /\ Starts(b) = {0} /\ PieceAt(b, 0) = PieceAt(s, 0)
               /\ Marks(b) = Marks(s) /\ Marks(PieceAt(s, 0)) = Marks(s)
               /\ FirstIsControl(Stripped(s)) <=> IsControl(Trim(s))
<1>1. s \in Seq(AllWords) /\ Starts(s) = {0}
  <2>1. PICK m \in 0 .. MaxText : s \in [1 .. m -> Words]
    BY DEF Texts, SeqOf
  <2>2. m \in Nat
    BY ArgumentsAssumption, <2>1
  <2> QED
    <3>1. s \in Seq(Words)
      BY <2>1, <2>2, SeqDef
    <3>2. Words \subseteq AllWords
      BY DEF AllWords
    <3>3. s \in Seq(AllWords)
      BY <3>1, <3>2, SeqMonotonic
    <3> QED
      BY <3>3 DEF Texts
<1>2. PICK f \in Nat, l \in Nat : OneCore(s, f, l)
  BY <1>1, OneStatement
<1>3. PICK z \in Nat, y \in Nat, g \in Nat :
                     /\ Behind(s, l, z, y, g)
                     /\ Trim(s) = SubSeq(s, f, g) /\ Stripped(s) = SubSeq(s, f, z)
  BY <1>1, <1>2, StrippedIs
<1>4. FirstIsControl(Stripped(s)) <=> IsControl(Trim(s))
  BY <1>1, <1>2, <1>3, SameControl
<1>5. z \in l .. Len(s)
  <2>1. Len(s) \in Nat
    BY <1>1, LenProperties
  <2> QED
    BY <1>2, <1>3, <2>1 DEF Behind, OneCore
<1> DEFINE b == Spaced(Stripped(s))
<1>6. /\ Stripped(s) \in Seq(AllWords) /\ Stripped(s) # <<>> /\ b \in Seq(AllWords)
      /\ OneCore(b, 2, l - f + 2) /\ SubSeq(b, 2, l - f + 2) = SubSeq(s, f, l)
  <2>0. s \in Seq(AllWords) /\ OneCore(s, f, l)
    BY <1>1, <1>2
  <2>1. SubSeq(s, f, z) \in Seq(AllWords) /\ SubSeq(s, f, z) # <<>>
    <3>1. SubSeq(s, f, z) \in Seq(AllWords)
      BY <1>5, <2>0, SameCore
    <3>2. Len(SubSeq(s, f, z)) # 0
      BY <1>5, <2>0, SameCore
    <3>3. Len(<<>>) = 0
      BY EmptySeq
    <3> QED
      BY <3>1, <3>2, <3>3, Zenon
  <2>2. /\ Spaced(SubSeq(s, f, z)) \in Seq(AllWords)
        /\ OneCore(Spaced(SubSeq(s, f, z)), 2, l - f + 2)
        /\ SubSeq(Spaced(SubSeq(s, f, z)), 2, l - f + 2) = SubSeq(s, f, l)
    BY <1>5, <2>0, SameCore
  <2>3. Stripped(s) = SubSeq(s, f, z)
    BY <1>3
  <2>4. b = Spaced(SubSeq(s, f, z))
    BY <2>3
  <2> HIDE DEF b
  <2>5. OneCore(b, 2, l - f + 2) /\ SubSeq(b, 2, l - f + 2) = SubSeq(s, f, l)
    BY <2>2, <2>4
  <2> QED
    BY <2>1, <2>2, <2>3, <2>4, <2>5
<1> HIDE DEF b
<1>7. PieceAt(s, 0) = SubSeq(s, f, l) /\ Marks(s) = Marks(SubSeq(s, f, l))
  BY <1>1, <1>2, OnePiece
<1>8. /\ Starts(b) = {0} /\ PieceAt(b, 0) = SubSeq(b, 2, l - f + 2)
      /\ Marks(b) = Marks(SubSeq(b, 2, l - f + 2))
  BY <1>6, OnePiece
<1> QED
  BY <1>1, <1>4, <1>6, <1>7, <1>8 DEF b

-----------------------------------------------------------------------------
(* Running a script, statement by statement *)

\* An element has the place its count says.
LEMMA NthIs ==
    ASSUME NEW S, IsFiniteSet(S), S \subseteq Int, NEW x \in S
    PROVE  Nth(S, Cardinality({y \in S : y <= x})) = x
<1> DEFINE UpTo(a) == {y \in S : y <= a}
<1>1. ASSUME NEW a \in S, NEW b \in S, Cardinality(UpTo(a)) = Cardinality(UpTo(b)), a < b
      PROVE  FALSE
  <2>0. a \in Int /\ b \in Int /\ S \subseteq Int /\ a < b /\ b <= b /\ ~(b <= a)
    BY <1>1
  <2>1. UpTo(a) \subseteq UpTo(b) /\ b \in UpTo(b) /\ b \notin UpTo(a)
    <3>1. ASSUME NEW y \in S, y <= a PROVE y <= b
      BY <2>0, <3>1
    <3> QED
      BY <2>0, <3>1
  <2>2. IsFiniteSet(UpTo(b))
    <3>1. UpTo(b) \in SUBSET S
      OBVIOUS
    <3> QED
      BY <3>1, FS_Subset
  <2> HIDE DEF UpTo
  <2>3. UpTo(a) \in SUBSET UpTo(b)
    BY <2>1
  <2>4. UpTo(a) = UpTo(b)
    BY <1>1, <2>2, <2>3, FS_Subset
  <2> QED
    BY <2>1, <2>4
<1>2. ASSUME NEW a \in S, Cardinality(UpTo(a)) = Cardinality(UpTo(x)) PROVE a = x
  <2>1. ~(a < x) /\ ~(x < a)
    BY <1>1, <1>2
  <2> QED
    BY <2>1
<1> HIDE DEF UpTo
<1>3. (CHOOSE a \in S : Cardinality(UpTo(a)) = Cardinality(UpTo(x))) = x
  BY <1>2
<1> QED
  BY <1>3 DEF Nth, UpTo

\* Every place among the elements is taken.
Counted(S) ==
    \A k \in 1 .. Cardinality(S) : Nth(S, k) \in S /\ Cardinality({y \in S : y <= Nth(S, k)}) = k

\* An element above the others comes last.
LEMMA NthOfOneMore ==
    ASSUME NEW S, IsFiniteSet(S), S \subseteq Int, Counted(S), NEW m \in Int, \A x \in S : x < m
    PROVE  LET T == S \cup {m}
               n == Cardinality(S)
           IN  /\ IsFiniteSet(T) /\ T \subseteq Int /\ n \in Nat /\ Cardinality(T) = n + 1 /\ Counted(T)
               /\ \A k \in 1 .. n : Nth(T, k) = Nth(S, k)
               /\ Nth(T, n + 1) = m
<1> DEFINE T == S \cup {m}
           n == Cardinality(S)
<1>1. m \notin S
  OBVIOUS
<1>2. IsFiniteSet(T) /\ n \in Nat /\ Cardinality(T) = n + 1
  BY <1>1, FS_AddElement, FS_CardinalityType
<1>3. T \subseteq Int
  OBVIOUS
<1>4. {y \in T : y <= m} = T
  <2>1. \A y \in T : y <= m
    OBVIOUS
  <2> HIDE DEF T
  <2> QED
    BY <2>1
<1>5. ASSUME NEW x \in S PROVE {y \in T : y <= x} = {y \in S : y <= x}
  <2>1. x \in Int /\ x < m /\ ~(m <= x)
    OBVIOUS
  <2> QED
    BY <2>1
<1>6. m \in T /\ S \subseteq T
  OBVIOUS
<1> HIDE DEF T, n
<1>7. Nth(T, n + 1) = m
  <2>1. Cardinality({y \in T : y <= m}) = n + 1
    BY <1>2, <1>4
  <2> QED
    BY <1>2, <1>3, <1>6, <2>1, NthIs
<1>8. ASSUME NEW k \in 1 .. n
      PROVE  /\ Nth(T, k) = Nth(S, k) /\ Nth(S, k) \in S
             /\ Cardinality({y \in T : y <= Nth(S, k)}) = k
  <2>1. Nth(S, k) \in S /\ Cardinality({y \in S : y <= Nth(S, k)}) = k
    BY DEF Counted, n
  <2>2. Cardinality({y \in T : y <= Nth(S, k)}) = k
    BY <1>5, <2>1
  <2>3. Nth(S, k) \in T
    BY <1>6, <2>1
  <2>4. Nth(T, Cardinality({y \in T : y <= Nth(S, k)})) = Nth(S, k)
    BY <1>2, <1>3, <2>3, NthIs
  <2> QED
    BY <2>1, <2>2, <2>4
<1>9. Counted(T)
  <2>1. ASSUME NEW k \in 1 .. n + 1 PROVE Nth(T, k) \in T /\ Cardinality({y \in T : y <= Nth(T, k)}) = k
    <3>1. CASE k = n + 1
      BY <1>2, <1>4, <1>6, <1>7, <3>1
    <3>2. CASE k # n + 1
      <4>1. k \in 1 .. n
        BY <1>2, <3>2
      <4> QED
        BY <1>6, <1>8, <4>1
    <3> QED
      BY <3>1, <3>2
  <2> QED
    BY <1>2, <2>1 DEF Counted
<1> QED
  BY <1>2, <1>3, <1>7, <1>8, <1>9 DEF T, n

\* A text that ends in a cut and a statement runs as what is before it, and
\* then the statement.
LEMMA OneMore ==
    ASSUME NEW u \in Seq(AllWords), NEW t \in Seq(AllWords), Starts(t) = {0}
    PROVE  LET n == Len(u)
               v == u \o (<<"semi">> \o t)
           IN  /\ v \in Seq(AllWords) /\ Len(v) = n + 1 + Len(t)
               /\ Starts(v) = Starts(u) \cup {n + 1}
               /\ Starts(u) \subseteq 0 .. n
               /\ \A c \in Starts(u) : PieceAt(v, c) = PieceAt(u, c)
               /\ PieceAt(v, n + 1) = PieceAt(t, 0)
               /\ \A c \in 0 .. n : SubSeq(v, 1, c) = SubSeq(u, 1, c)
               /\ Marks(SubSeq(v, 1, n + 1)) = Marks(u)
               /\ Marks(v) = Marks(u) + Marks(t)
<1> DEFINE n == Len(u)
           m == Len(t)
           st == <<"semi">> \o t
           v == u \o st
<1>0. n \in Nat /\ m \in Nat /\ DOMAIN u = 1 .. n /\ DOMAIN t = 1 .. m
  BY LenProperties
<1>1. /\ st \in Seq(AllWords) /\ Len(st) = 1 + m /\ st[1] = "semi"
      /\ \A i \in 1 .. m : st[i + 1] = t[i]
  <2> DEFINE w == <<"semi">>
  <2>1. w \in Seq(AllWords) /\ Len(w) = 1 /\ w[1] = "semi"
    <3>1. "semi" \in AllWords
      BY DEF AllWords, Words
    <3> QED
      BY <3>1
  <2> HIDE DEF w
  <2>2. /\ w \o t \in Seq(AllWords) /\ Len(w \o t) = Len(w) + Len(t)
        /\ \A i \in 1 .. Len(w) + Len(t) : (w \o t)[i] = IF i <= Len(w) THEN w[i] ELSE t[i - Len(w)]
    BY <2>1, ConcatProperties
  <2>3. (w \o t)[1] = "semi"
    BY <1>0, <2>1, <2>2
  <2>4. ASSUME NEW i \in 1 .. m PROVE (w \o t)[i + 1] = t[i]
    <3>1. i + 1 \in 1 .. 1 + m /\ ~(i + 1 <= 1) /\ (i + 1) - 1 = i
      BY <1>0
    <3> QED
      BY <2>1, <2>2, <3>1
  <2> QED
    BY <2>1, <2>2, <2>3, <2>4 DEF w
<1> HIDE DEF st
<1>2. /\ v \in Seq(AllWords) /\ Len(v) = n + 1 + m
      /\ \A i \in 1 .. n : v[i] = u[i]
      /\ v[n + 1] = "semi"
      /\ \A i \in 1 .. m : v[i + (n + 1)] = t[i]
  <2>1. /\ v \in Seq(AllWords) /\ Len(v) = n + Len(st)
        /\ \A i \in 1 .. n + Len(st) : v[i] = IF i <= n THEN u[i] ELSE st[i - n]
    <3> HIDE DEF n, m
    <3>1. /\ v \in Seq(AllWords) /\ Len(v) = Len(u) + Len(st)
          /\ \A i \in 1 .. Len(u) + Len(st) : v[i] = IF i <= Len(u) THEN u[i] ELSE st[i - Len(u)]
      BY <1>1, ConcatProperties
    <3> QED
      BY <3>1 DEF n
  <2> HIDE DEF v
  <2>2. \A i \in 1 .. n : v[i] = u[i]
    BY <1>0, <1>1, <2>1
  <2>3. v[n + 1] = "semi"
    <3>1. n + 1 \in 1 .. n + Len(st) /\ ~(n + 1 <= n) /\ (n + 1) - n = 1
      BY <1>0, <1>1
    <3> QED
      BY <1>1, <2>1, <3>1
  <2>4. ASSUME NEW i \in 1 .. m PROVE v[i + (n + 1)] = t[i]
    <3>1. i + (n + 1) \in 1 .. n + Len(st) /\ ~(i + (n + 1) <= n) /\ (i + (n + 1)) - n = i + 1
      BY <1>0, <1>1
    <3> QED
      BY <1>1, <2>1, <3>1
  <2> QED
    BY <1>0, <1>1, <2>1, <2>2, <2>3, <2>4
<1>3. DOMAIN v = 1 .. n + 1 + m
  BY <1>2, LenProperties
<1> HIDE DEF v
<1>4. Cuts(u) \subseteq 0 .. n /\ Cuts(t) \subseteq 0 .. m
  BY <1>0 DEF Cuts
<1>5. Cuts(v) = Cuts(u) \cup {c + (n + 1) : c \in Cuts(t)}
  <2>1. ASSUME NEW x \in Cuts(v) PROVE x \in Cuts(u) \cup {c + (n + 1) : c \in Cuts(t)}
    <3>1. x = 0 \/ (x \in 1 .. n + 1 + m /\ v[x] = "semi")
      BY <1>3 DEF Cuts
    <3>2. CASE x \in 0 .. n
      BY <1>0, <1>2, <3>1, <3>2 DEF Cuts
    <3>3. CASE x \in n + 1 .. n + 1 + m
      <4>1. x - (n + 1) \in 0 .. m /\ (x - (n + 1)) + (n + 1) = x
        BY <1>0, <3>3
      <4>2. x - (n + 1) \in Cuts(t)
        <5>1. CASE x - (n + 1) = 0
          BY <5>1 DEF Cuts
        <5>2. CASE x - (n + 1) # 0
          <6> DEFINE j == x - (n + 1)
          <6>1. j \in 1 .. m /\ j + (n + 1) = x
            BY <1>0, <4>1, <5>2
          <6>2. x # 0
            BY <1>0, <3>3
          <6> HIDE DEF j
          <6>3. t[j] = v[j + (n + 1)]
            BY <1>2, <6>1
          <6>4. t[j] = "semi"
            BY <3>1, <6>1, <6>2, <6>3
          <6>5. j \in Cuts(t)
            BY <1>0, <6>1, <6>4 DEF Cuts
          <6> QED
            BY <6>5 DEF j
        <5> QED
          BY <5>1, <5>2
      <4> QED
        BY <4>1, <4>2
    <3> QED
      BY <1>0, <3>1, <3>2, <3>3
  <2>2. Cuts(u) \subseteq Cuts(v)
    BY <1>0, <1>2, <1>3 DEF Cuts
  <2>3. ASSUME NEW c \in Cuts(t) PROVE c + (n + 1) \in Cuts(v)
    <3>1. c + (n + 1) \in 1 .. n + 1 + m
      BY <1>0, <1>4
    <3>2. v[c + (n + 1)] = "semi"
      BY <1>0, <1>2 DEF Cuts
    <3> QED
      BY <1>3, <3>1, <3>2 DEF Cuts
  <2> QED
    BY <2>1, <2>2, <2>3
<1>6. ASSUME NEW c \in 0 .. n, NEW d \in c .. n PROVE SubSeq(v, c + 1, d) = SubSeq(u, c + 1, d)
  <2>1. /\ c + 1 \in Int /\ d \in Int /\ 0 \in Int /\ 1 <= c + 1 /\ c + 1 <= d + 1 /\ d <= n
        /\ 1 <= c + 1 + 0 /\ d + 0 <= Len(v) /\ c + 1 + 0 = c + 1 /\ d + 0 = d
    BY <1>0, <1>2
  <2>2. \A i \in c + 1 .. d : v[i + 0] = u[i]
    BY <1>0, <1>2
  <2>3. SubSeq(v, c + 1 + 0, d + 0) = SubSeq(u, c + 1, d)
    BY <1>2, <2>1, <2>2, SameWindow
  <2> QED
    BY <2>1, <2>3
<1>7. ASSUME NEW c \in Cuts(u) PROVE PieceAt(v, c) = PieceAt(u, c)
  <2> DEFINE e == NextCut(u, c)
  <2>1. /\ c \in 0 .. n /\ e \in c + 1 .. n + 1 /\ e \in Cuts(u) \cup {n + 1}
        /\ \A i \in c + 1 .. e - 1 : u[i] # "semi"
    BY NextCutIs
  <2> HIDE DEF e
  <2>2. c \in Cuts(v) /\ e \in Cuts(v)
    <3>1. 0 + (n + 1) = n + 1 /\ 0 \in Cuts(t)
      BY <1>0 DEF Cuts
    <3>2. n + 1 \in Cuts(v)
      BY <1>5, <3>1
    <3> QED
      BY <1>5, <2>1, <3>2
  <2>3. e > c /\ \A i \in c + 1 .. e - 1 : v[i] # "semi"
    BY <1>0, <1>2, <2>1
  <2>4. NextCut(v, c) = e
    BY <1>2, <2>2, <2>3, NextCutUnique
  <2>5. e - 1 \in c .. n
    BY <1>0, <2>1
  <2> QED
    BY <1>6, <2>1, <2>4, <2>5 DEF PieceAt, e
<1>8. ASSUME NEW c \in Cuts(t) PROVE PieceAt(v, c + (n + 1)) = PieceAt(t, c)
  <2> DEFINE e == NextCut(t, c)
             d == n + 1
  <2>1. /\ c \in 0 .. m /\ e \in c + 1 .. m + 1 /\ e \in Cuts(t) \cup {m + 1}
        /\ \A i \in c + 1 .. e - 1 : t[i] # "semi"
    BY NextCutIs
  <2> HIDE DEF e
  <2> DEFINE x == c + d
             y == e + d
  <2>2. /\ c \in Int /\ d \in Int /\ e \in Int /\ x \in Int /\ y \in Int
        /\ 1 <= c + 1 /\ c + 1 <= (e - 1) + 1 /\ e - 1 <= m
        /\ 1 <= c + 1 + d /\ e - 1 + d <= Len(v)
        /\ c + 1 + d = x + 1 /\ e - 1 + d = y - 1 /\ y > x
    BY <1>0, <1>2, <2>1
  <2>3. x \in Cuts(v) /\ y \in Cuts(v) \cup {Len(v) + 1}
    <3>1. m + 1 + d = Len(v) + 1
      BY <1>0, <1>2
    <3> QED
      BY <1>5, <2>1, <3>1
  <2>4. ASSUME NEW i \in x + 1 .. y - 1 PROVE v[i] # "semi"
    <3>1. i - d \in c + 1 .. e - 1 /\ i - d \in 1 .. m /\ (i - d) + d = i
      BY <1>0, <2>1
    <3> QED
      BY <1>2, <2>1, <3>1
  <2>5. \A i \in c + 1 .. e - 1 : v[i + d] = t[i]
    BY <1>0, <1>2, <2>1
  <2>6. v \in Seq(AllWords)
    BY <1>2
  <2> HIDE DEF d
  <2>7. SubSeq(v, c + 1 + d, e - 1 + d) = SubSeq(t, c + 1, e - 1)
    <3> DEFINE f == c + 1
               l == e - 1
    <3>1. /\ f \in Int /\ l \in Int /\ 1 <= f /\ f <= l + 1 /\ l <= Len(t)
          /\ 1 <= f + d /\ l + d <= Len(v)
      BY <2>2
    <3>2. \A i \in f .. l : v[i + d] = t[i]
      BY <2>5
    <3> HIDE DEF f, l
    <3>3. SubSeq(v, f + d, l + d) = SubSeq(t, f, l)
      BY <2>2, <2>6, <3>1, <3>2, SameWindow
    <3> QED
      BY <3>3 DEF f, l
  <2>8. SubSeq(v, x + 1, y - 1) = SubSeq(t, c + 1, e - 1)
    BY <2>2, <2>7
  <2> HIDE DEF x, y
  <2>9. NextCut(v, x) = y
    BY <2>2, <2>3, <2>4, <2>6, NextCutUnique
  <2>10. PieceAt(v, x) = PieceAt(t, c)
    BY <2>8, <2>9 DEF PieceAt, e
  <2> QED
    BY <2>10 DEF x, d
<1>9. Starts(v) = Starts(u) \cup {n + 1}
  <2>1. ASSUME NEW c \in Cuts(t) PROVE PieceAt(t, c) # <<>> <=> c = 0
    BY DEF Starts
  <2>2. 0 \in Cuts(t) /\ 0 + (n + 1) = n + 1
    BY <1>0 DEF Cuts
  <2>3. n + 1 \in Starts(v)
    <3>1. n + 1 \in Cuts(v)
      BY <1>5, <2>2
    <3>2. PieceAt(v, n + 1) # <<>>
      BY <1>8, <2>1, <2>2
    <3> QED
      BY <3>1, <3>2 DEF Starts
  <2>4. Starts(u) \subseteq Starts(v)
    BY <1>5, <1>7 DEF Starts
  <2>5. ASSUME NEW x \in Starts(v) PROVE x \in Starts(u) \cup {n + 1}
    <3>1. CASE x \in Cuts(u)
      BY <1>7, <3>1 DEF Starts
    <3>2. CASE x \notin Cuts(u)
      <4>1. PICK c \in Cuts(t) : x = c + (n + 1)
        BY <1>5, <3>2 DEF Starts
      <4>2. PieceAt(t, c) # <<>>
        BY <1>8, <4>1 DEF Starts
      <4> QED
        BY <2>1, <2>2, <4>1, <4>2
    <3> QED
      BY <3>1, <3>2
  <2> QED
    BY <2>3, <2>4, <2>5
<1>10. PieceAt(v, n + 1) = PieceAt(t, 0)
  <2>1. 0 \in Cuts(t) /\ 0 + (n + 1) = n + 1
    BY <1>0 DEF Cuts
  <2> QED
    BY <1>8, <2>1
<1>11. ASSUME NEW c \in 0 .. n PROVE SubSeq(v, 1, c) = SubSeq(u, 1, c)
  <2>1. 0 \in 0 .. n /\ c \in 0 .. n /\ 0 + 1 = 1
    BY <1>0
  <2> QED
    BY <1>6, <2>1
<1> DEFINE A == {i \in 1 .. n : u[i] = "mark"}
           B == {i \in (n + 1) + 1 .. (n + 1) + m : v[i] = "mark"}
<1>12. Marks(u) = Cardinality(A)
  BY <1>0 DEF Marks
<1>13. Marks(SubSeq(v, 1, n + 1)) = Marks(u)
  <2>1. 1 \in Int /\ n + 1 \in Int /\ 1 <= (n + 1) + 1 /\ n + 1 <= Len(v)
    BY <1>0, <1>2
  <2>2. Marks(SubSeq(v, 1, n + 1)) = Cardinality({i \in 1 .. n + 1 : v[i] = "mark"})
    BY <1>2, <2>1, MarksOfWindow
  <2>3. {i \in 1 .. n + 1 : v[i] = "mark"} = A
    BY <1>0, <1>2
  <2> QED
    BY <1>12, <2>2, <2>3
<1>14. Marks(t) = Cardinality(B)
  <2> DEFINE f == (n + 1) + 1
             l == (n + 1) + m
  <2>1. f \in Int /\ l \in Int /\ 1 <= f /\ f <= l + 1 /\ l <= Len(v)
    BY <1>0, <1>2
  <2>2. Marks(SubSeq(v, f, l)) = Cardinality({i \in f .. l : v[i] = "mark"})
    <3>1. v \in Seq(AllWords)
      BY <1>2
    <3> HIDE DEF f, l
    <3> QED
      BY <2>1, <3>1, MarksOfWindow
  <2>3. SubSeq(v, 1 + (n + 1), m + (n + 1)) = SubSeq(t, 1, m)
    <3>1. /\ 1 \in Int /\ m \in Int /\ n + 1 \in Int /\ 1 <= 1 /\ 1 <= m + 1 /\ m <= Len(t)
          /\ 1 <= 1 + (n + 1) /\ m + (n + 1) <= Len(v)
      BY <1>0, <1>2
    <3> QED
      BY <1>2, <3>1, SameWindow
  <2>4. SubSeq(t, 1, m) = t
    BY SubSeqFull
  <2>5. 1 + (n + 1) = f /\ m + (n + 1) = l
    BY <1>0
  <2> QED
    BY <2>2, <2>3, <2>4, <2>5
<1>15. Marks(v) = Marks(u) + Marks(t)
  <2>1. {i \in DOMAIN v : v[i] = "mark"} = A \cup B
    <3>1. \A i \in 1 .. n + 1 + m : i \in 1 .. n \/ i = n + 1 \/ i \in (n + 1) + 1 .. (n + 1) + m
      BY <1>0
    <3>2. 1 .. n \subseteq 1 .. n + 1 + m /\ (n + 1) + 1 .. (n + 1) + m \subseteq 1 .. n + 1 + m
      BY <1>0
    <3> QED
      BY <1>2, <1>3, <3>1, <3>2
  <2>2. A \cap B = {}
    BY <1>0
  <2>3. IsFiniteSet(A) /\ IsFiniteSet(B)
    <3>1. IsFiniteSet(1 .. n) /\ IsFiniteSet((n + 1) + 1 .. (n + 1) + m)
      BY <1>0, FS_Interval
    <3> QED
      BY <3>1, FS_Subset
  <2> HIDE DEF A, B
  <2>4. Cardinality(A \cup B) = Cardinality(A) + Cardinality(B) - Cardinality(A \cap B)
    BY <2>3, FS_Union
  <2>5. Cardinality(A \cap B) = 0 /\ Cardinality(A) \in Nat /\ Cardinality(B) \in Nat
    BY <2>2, <2>3, FS_EmptySet, FS_CardinalityType
  <2>6. Marks(v) = Cardinality(A \cup B)
    BY <2>1 DEF Marks
  <2> QED
    BY <1>12, <1>14, <2>4, <2>5, <2>6
<1> QED
  BY <1>2, <1>4, <1>7, <1>9, <1>10, <1>11, <1>13, <1>15 DEF Starts, v, st

\* Parameters: the k-th of the n-th statement.
Values == Nat \X Nat

\* Placeholders are counted.
LEMMA MarksType ==
    ASSUME NEW S, NEW s \in Seq(S)
    PROVE  Marks(s) \in Nat
<1>1. DOMAIN s = 1 .. Len(s) /\ Len(s) \in Nat
  BY LenProperties
<1>2. IsFiniteSet(1 .. Len(s))
  BY <1>1, FS_Interval
<1>3. {i \in DOMAIN s : s[i] = "mark"} \in SUBSET (1 .. Len(s))
  BY <1>1
<1> QED
  BY <1>2, <1>3, FS_Subset, FS_CardinalityType DEF Marks

\* A script, as far as it goes, and its parameters: there is one for each
\* placeholder, and every piece finds its own.
Ready(u, p) ==
    /\ u \in Seq(AllWords) /\ p \in Seq(Values) /\ Len(p) = Marks(u)
    /\ IsFiniteSet(Starts(u)) /\ Starts(u) \subseteq 0 .. Len(u) /\ Counted(Starts(u))
    /\ \A c \in Starts(u) : Marks(SubSeq(u, 1, c)) + Marks(PieceAt(u, c)) <= Len(p)

\* The end of two sequences is the second of them.
LEMMA SecondPart ==
    ASSUME NEW S, NEW p \in Seq(S), NEW q \in Seq(S)
    PROVE  SubSeq(p \o q, Len(p) + 1, Len(p) + Len(q)) = q
<1> DEFINE r == p \o q
           d == Len(p)
           m == Len(q)
           f == 1
<1>1. /\ r \in Seq(S) /\ Len(r) = d + m
      /\ \A i \in 1 .. d + m : r[i] = IF i <= d THEN p[i] ELSE q[i - d]
  BY ConcatProperties
<1>2. d \in Nat /\ m \in Nat
  BY LenProperties
<1>3. SubSeq(q, f, m) = q
  BY SubSeqFull
<1> HIDE DEF r, d
<1>4. /\ f \in Int /\ m \in Int /\ d \in Int /\ 1 <= f /\ f <= m + 1 /\ m <= Len(q)
      /\ 1 <= f + d /\ m + d <= Len(r) /\ f + d = d + 1 /\ m + d = d + m
  BY <1>1, <1>2
<1>5. \A i \in f .. m : r[i + d] = q[i]
  <2>1. ASSUME NEW i \in f .. m PROVE r[i + d] = q[i]
    <3>1. i + d \in 1 .. d + m /\ ~(i + d <= d) /\ (i + d) - d = i
      BY <1>2
    <3> QED
      BY <1>1, <3>1
  <2> QED
    BY <2>1
<1> HIDE DEF m, f
<1>6. SubSeq(r, f + d, m + d) = SubSeq(q, f, m)
  BY <1>1, <1>4, <1>5, SameWindow
<1>7. SubSeq(r, d + 1, d + m) = q
  BY <1>3, <1>4, <1>6
<1> QED
  BY <1>7 DEF r, d, m

\* A script runs as it did, and then one more statement with its parameters.
RunsOn(u, p, t, q, v, r) ==
    LET n == Cardinality(Starts(u))
    IN  /\ Ready(v, r) /\ n \in Nat /\ Cardinality(Starts(v)) = n + 1
        /\ \A k \in 1 .. n : RunAs(v, r)[k] = RunAs(u, p)[k]
        /\ RunAs(v, r)[n + 1] = [text |-> PieceAt(t, 0), params |-> q]

\* So it does when the statement is one, and has a parameter for each mark.
LEMMA RunsOneMore ==
    ASSUME NEW u, NEW p, Ready(u, p), NEW t \in Seq(AllWords), Starts(t) = {0},
           NEW q \in Seq(Values), Len(q) = Marks(t), Marks(PieceAt(t, 0)) = Marks(t),
           NEW v, v = u \o (<<"semi">> \o t), NEW r, r = p \o q
    PROVE  RunsOn(u, p, t, q, v, r)
<1> DEFINE n == Cardinality(Starts(u))
           N == Len(u)
<1>1. /\ u \in Seq(AllWords) /\ p \in Seq(Values) /\ Len(p) = Marks(u)
      /\ IsFiniteSet(Starts(u)) /\ Starts(u) \subseteq 0 .. N /\ Counted(Starts(u))
      /\ \A c \in Starts(u) : Marks(SubSeq(u, 1, c)) + Marks(PieceAt(u, c)) <= Len(p)
  BY DEF Ready
<1>2. /\ v \in Seq(AllWords) /\ Len(v) = N + 1 + Len(t)
      /\ Starts(v) = Starts(u) \cup {N + 1}
      /\ \A c \in Starts(u) : PieceAt(v, c) = PieceAt(u, c)
      /\ PieceAt(v, N + 1) = PieceAt(t, 0)
      /\ \A c \in 0 .. N : SubSeq(v, 1, c) = SubSeq(u, 1, c)
      /\ Marks(SubSeq(v, 1, N + 1)) = Marks(u)
      /\ Marks(v) = Marks(u) + Marks(t)
  BY <1>1, OneMore
<1>3. N \in Nat /\ Len(t) \in Nat /\ Len(p) \in Nat /\ Len(q) \in Nat
  BY <1>1, LenProperties
<1>4. /\ r \in Seq(Values) /\ Len(r) = Len(p) + Len(q)
      /\ \A i \in 1 .. Len(p) + Len(q) : r[i] = IF i <= Len(p) THEN p[i] ELSE q[i - Len(p)]
  BY <1>1, ConcatProperties
<1> DEFINE T == Starts(u) \cup {N + 1}
<1>5. /\ IsFiniteSet(T) /\ n \in Nat /\ Cardinality(T) = n + 1 /\ Counted(T)
      /\ \A k \in 1 .. n : Nth(T, k) = Nth(Starts(u), k)
      /\ Nth(T, n + 1) = N + 1
  <2>1. /\ Starts(u) \subseteq Int /\ N + 1 \in Int
        /\ \A x \in Starts(u) : x < N + 1
    BY <1>1, <1>3
  <2> QED
    BY <1>1, <2>1, NthOfOneMore
<1>6. ASSUME NEW c \in Starts(u)
      PROVE  /\ SubSeq(v, 1, c) = SubSeq(u, 1, c) /\ PieceAt(v, c) = PieceAt(u, c)
             /\ Marks(SubSeq(u, 1, c)) \in Nat /\ Marks(PieceAt(u, c)) \in Nat
             /\ Marks(SubSeq(u, 1, c)) + Marks(PieceAt(u, c)) <= Len(p)
  <2>1. c \in 0 .. N
    BY <1>1
  <2>2. SubSeq(u, 1, c) \in Seq(AllWords)
    <3>1. 1 \in Int /\ c \in Int /\ 1 <= c + 1 /\ c <= Len(u)
      BY <1>3, <2>1
    <3> QED
      BY <1>1, <3>1, Window
  <2>3. PieceAt(u, c) \in Seq(AllWords)
    <3>1. c \in Cuts(u)
      BY DEF Starts
    <3> QED
      BY <1>1, <3>1, PieceType
  <2> QED
    BY <1>1, <1>2, <2>1, <2>2, <2>3, MarksType
<1>7. Marks(SubSeq(v, 1, N + 1)) = Len(p) /\ Marks(PieceAt(v, N + 1)) = Len(q)
  BY <1>1, <1>2
<1>8. Ready(v, r)
  <2>1. Len(r) = Marks(v)
    BY <1>1, <1>2, <1>4
  <2>2. Starts(v) \subseteq 0 .. Len(v)
    BY <1>1, <1>2, <1>3
  <2>3. ASSUME NEW c \in Starts(v) PROVE Marks(SubSeq(v, 1, c)) + Marks(PieceAt(v, c)) <= Len(r)
    <3>1. CASE c \in Starts(u)
      <4>1. /\ Marks(SubSeq(v, 1, c)) = Marks(SubSeq(u, 1, c))
            /\ Marks(PieceAt(v, c)) = Marks(PieceAt(u, c))
            /\ Marks(SubSeq(u, 1, c)) \in Nat /\ Marks(PieceAt(u, c)) \in Nat
            /\ Marks(SubSeq(u, 1, c)) + Marks(PieceAt(u, c)) <= Len(p)
        BY <1>6, <3>1
      <4>2. Len(r) = Len(p) + Len(q)
        BY <1>4
      <4> QED
        BY <1>3, <4>1, <4>2
    <3>2. CASE c = N + 1
      BY <1>3, <1>4, <1>7, <3>2
    <3> QED
      BY <1>2, <3>1, <3>2
  <2> QED
    BY <1>2, <1>4, <1>5, <2>1, <2>2, <2>3 DEF Ready
<1>9. Cardinality(Starts(v)) = n + 1
  BY <1>2, <1>5
<1> DEFINE Entry(x, y, c) ==
             [text |-> PieceAt(x, c),
              params |-> SubSeq(y, Marks(SubSeq(x, 1, c)) + 1,
                                   Marks(SubSeq(x, 1, c)) + Marks(PieceAt(x, c)))]
<1>10. /\ \A k \in 1 .. n : RunAs(u, p)[k] = Entry(u, p, Nth(Starts(u), k))
       /\ \A k \in 1 .. n + 1 : RunAs(v, r)[k] = Entry(v, r, Nth(Starts(v), k))
  BY <1>9 DEF RunAs
<1>11. ASSUME NEW k \in 1 .. n PROVE RunAs(v, r)[k] = RunAs(u, p)[k]
  <2> DEFINE c == Nth(Starts(u), k)
  <2>1. c \in Starts(u)
    BY <1>1 DEF Counted
  <2>2. Nth(Starts(v), k) = c
    BY <1>2, <1>5
  <2> HIDE DEF c
  <2> DEFINE a == Marks(SubSeq(u, 1, c))
             b == Marks(PieceAt(u, c))
  <2>3. /\ SubSeq(v, 1, c) = SubSeq(u, 1, c) /\ PieceAt(v, c) = PieceAt(u, c)
        /\ a \in Nat /\ b \in Nat /\ a + b <= Len(p)
    BY <1>6, <2>1
  <2>4. Entry(v, r, c) = [text |-> PieceAt(u, c), params |-> SubSeq(r, a + 1, a + b)]
    BY <2>3
  <2>5. SubSeq(r, a + 1, a + b) = SubSeq(p, a + 1, a + b)
    <3> HIDE DEF a, b
    <3> DEFINE f == a + 1
               l == a + b
    <3>1. /\ f \in Int /\ l \in Int /\ 0 \in Int /\ 1 <= f /\ f <= l + 1 /\ l <= Len(p)
          /\ 1 <= f + 0 /\ l + 0 <= Len(r) /\ f + 0 = f /\ l + 0 = l
      BY <1>3, <1>4, <2>3
    <3>2. \A i \in f .. l : r[i + 0] = p[i]
      BY <1>3, <1>4, <2>3
    <3> HIDE DEF f, l
    <3>3. SubSeq(r, f + 0, l + 0) = SubSeq(p, f, l)
      BY <1>1, <1>4, <3>1, <3>2, SameWindow
    <3> QED
      BY <3>1, <3>3 DEF f, l
  <2>6. Entry(v, r, c) = Entry(u, p, c)
    BY <2>4, <2>5
  <2>7. k \in 1 .. n + 1
    BY <1>5
  <2> HIDE DEF Entry
  <2> QED
    BY <1>10, <2>2, <2>6, <2>7 DEF c
<1>12. RunAs(v, r)[n + 1] = [text |-> PieceAt(t, 0), params |-> q]
  <2>1. n + 1 \in 1 .. n + 1 /\ Nth(Starts(v), n + 1) = N + 1
    <3>1. n \in Nat /\ Nth(T, n + 1) = N + 1
      BY <1>5
    <3>2. Starts(v) = T
      BY <1>2
    <3> HIDE DEF n, T
    <3> QED
      BY <3>1, <3>2
  <2>2. Entry(v, r, N + 1) = [text |-> PieceAt(t, 0), params |-> SubSeq(r, Len(p) + 1, Len(p) + Len(q))]
    BY <1>2, <1>7
  <2>3. SubSeq(r, Len(p) + 1, Len(p) + Len(q)) = q
    BY <1>1, SecondPart
  <2> HIDE DEF Entry
  <2>4. RunAs(v, r)[n + 1] = Entry(v, r, N + 1)
    BY <1>10, <2>1
  <2> QED
    BY <2>2, <2>3, <2>4
<1> QED
  BY <1>5, <1>8, <1>9, <1>11, <1>12 DEF RunsOn

\* Every script begins with its BEGIN.
LEMMA RunsBegin ==
    LET u == <<"BEGIN">>
    IN  /\ Ready(u, <<>>) /\ Cardinality(Starts(u)) = 1
        /\ RunAs(u, <<>>)[1] = [text |-> <<"BEGIN">>, params |-> <<>>]
<1> DEFINE u == <<"BEGIN">>
<1>1. u \in Seq(AllWords) /\ Len(u) = 1 /\ u[1] = "BEGIN" /\ DOMAIN u = 1 .. 1
  BY DEF AllWords, Words
<1>2. OneCore(u, 1, 1)
  BY DEF OneCore
<1>3. SubSeq(u, 1, 1) = u
  BY <1>1, SubSeqFull
<1>4. <<>> \in Seq(Values) /\ Len(<<>>) = 0
  BY EmptySeq
<1> HIDE DEF u
<1>5. Starts(u) = {0} /\ PieceAt(u, 0) = u
  BY <1>1, <1>2, <1>3, OnePiece
<1>6. Marks(u) = 0
  <2>1. {i \in DOMAIN u : u[i] = "mark"} = {}
    BY <1>1
  <2> QED
    BY <2>1, FS_EmptySet DEF Marks
<1>7. SubSeq(u, 1, 0) = <<>> /\ Marks(<<>>) = 0
  <2>1. DOMAIN <<>> = {}
    OBVIOUS
  <2>2. {i \in DOMAIN <<>> : <<>>[i] = "mark"} = {}
    BY <2>1
  <2>3. Marks(<<>>) = 0
    BY <2>2, FS_EmptySet DEF Marks
  <2> QED
    BY <2>3, SubSeqEmpty
<1>8. IsFiniteSet({0}) /\ Cardinality({0}) = 1
  BY FS_Singleton
<1>9. Nth({0}, 1) = 0
  <2>1. {y \in {0} : y <= 0} = {0}
    OBVIOUS
  <2>2. Nth({0}, Cardinality({y \in {0} : y <= 0})) = 0
    BY <1>8, NthIs
  <2> QED
    BY <1>8, <2>1, <2>2
<1>10. Counted({0})
  <2>1. {y \in {0} : y <= 0} = {0}
    OBVIOUS
  <2> QED
    BY <1>8, <1>9, <2>1 DEF Counted
<1>11. Ready(u, <<>>)
  <2>1. Starts(u) \subseteq 0 .. Len(u)
    BY <1>1, <1>5
  <2>2. ASSUME NEW c \in Starts(u) PROVE Marks(SubSeq(u, 1, c)) + Marks(PieceAt(u, c)) <= Len(<<>>)
    <3>1. c = 0
      BY <1>5
    <3>2. Marks(SubSeq(u, 1, c)) = 0 /\ Marks(PieceAt(u, c)) = 0
      BY <1>5, <1>6, <1>7, <3>1
    <3> QED
      BY <1>4, <3>2
  <2>3. IsFiniteSet(Starts(u)) /\ Counted(Starts(u))
    BY <1>5, <1>8, <1>10
  <2>4. Len(<<>>) = Marks(u)
    BY <1>4, <1>6
  <2> QED
    BY <1>1, <1>4, <2>1, <2>2, <2>3, <2>4 DEF Ready
<1>12. RunAs(u, <<>>)[1] = [text |-> u, params |-> SubSeq(<<>>, 0 + 1, 0 + 0)]
  <2> DEFINE Entry(c) ==
               [text |-> PieceAt(u, c),
                params |-> SubSeq(<<>>, Marks(SubSeq(u, 1, c)) + 1,
                                        Marks(SubSeq(u, 1, c)) + Marks(PieceAt(u, c)))]
  <2>1. RunAs(u, <<>>) = [k \in 1 .. Cardinality(Starts(u)) |-> Entry(Nth(Starts(u), k))]
    BY DEF RunAs
  <2>2. Entry(0) = [text |-> u, params |-> SubSeq(<<>>, 0 + 1, 0 + 0)]
    <3>1. PieceAt(u, 0) = u /\ Marks(u) = 0 /\ Marks(SubSeq(u, 1, 0)) = 0
      BY <1>5, <1>6, <1>7
    <3> QED
      BY <3>1
  <2>3. Cardinality(Starts(u)) = 1 /\ Nth(Starts(u), 1) = 0
    BY <1>5, <1>8, <1>9
  <2> HIDE DEF Entry
  <2>4. RunAs(u, <<>>)[1] = Entry(Nth(Starts(u), 1))
    BY <2>1, <2>3
  <2> QED
    BY <2>2, <2>3, <2>4
<1>13. SubSeq(<<>>, 0 + 1, 0 + 0) = <<>>
  BY SubSeqEmpty
<1> QED
  BY <1>5, <1>8, <1>11, <1>12, <1>13 DEF u

-----------------------------------------------------------------------------
(* The script as a whole *)

\* The sequences of a sequence, one behind the other: each step adds the next.
Flattens(S, seqs, n, F) ==
    /\ F \in [1 .. n -> Seq(S)] /\ F[1] = seqs[1]
    /\ \A k \in 2 .. n : F[k] = F[k - 1] \o seqs[k]
    /\ FlattenSeq(seqs) = F[n]

\* They are put together that way.
LEMMA Flattened ==
    ASSUME NEW S, NEW seqs \in Seq(Seq(S)), NEW n \in Nat, n = Len(seqs), n # 0
    PROVE  \E F : Flattens(S, seqs, n, F)
<1> DEFINE Good(k) == \E F \in [1 .. k -> Seq(S)] :
                        \A i \in 1 .. k : F[i] = IF i = 1 THEN seqs[i] ELSE F[i - 1] \o seqs[i]
           Bad == {k \in 1 .. n : ~Good(k)}
<1>1. \A k \in 1 .. n : seqs[k] \in Seq(S)
  BY ElementOfSeq
<1>2. Good(1)
  <2> DEFINE F == [i \in 1 .. 1 |-> seqs[1]]
  <2>1. 1 \in 1 .. n
    OBVIOUS
  <2>2. F \in [1 .. 1 -> Seq(S)]
    BY <1>1, <2>1
  <2>3. \A i \in 1 .. 1 : F[i] = IF i = 1 THEN seqs[i] ELSE F[i - 1] \o seqs[i]
    OBVIOUS
  <2> QED
    BY <2>2, <2>3
<1>3. ASSUME NEW k \in 2 .. n, Good(k - 1) PROVE Good(k)
  <2>1. k - 1 \in Nat /\ k \in Nat /\ k - 1 >= 1 /\ k \in 1 .. n
    OBVIOUS
  <2>2. PICK F \in [1 .. k - 1 -> Seq(S)] :
               \A i \in 1 .. k - 1 : F[i] = IF i = 1 THEN seqs[i] ELSE F[i - 1] \o seqs[i]
    BY <1>3
  <2> DEFINE H == [i \in 1 .. k |-> IF i = k THEN F[k - 1] \o seqs[k] ELSE F[i]]
  <2>3. F[k - 1] \o seqs[k] \in Seq(S)
    BY <1>1, <2>1, <2>2, ConcatProperties
  <2>4. H \in [1 .. k -> Seq(S)]
    <3>1. ASSUME NEW i \in 1 .. k, i # k PROVE F[i] \in Seq(S)
      BY <2>1, <2>2, <3>1
    <3> QED
      BY <2>3, <3>1
  <2>5. ASSUME NEW i \in 1 .. k PROVE H[i] = IF i = 1 THEN seqs[i] ELSE H[i - 1] \o seqs[i]
    <3>1. CASE i = k
      <4>1. k # 1 /\ k - 1 \in 1 .. k /\ k - 1 # k /\ k \in 1 .. k
        BY <2>1
      <4> QED
        BY <3>1, <4>1
    <3>2. CASE i # k
      <4>1. i \in 1 .. k - 1 /\ (i # 1 => i - 1 \in 1 .. k /\ i - 1 # k)
        BY <2>1, <3>2
      <4> QED
        BY <2>2, <3>2, <4>1
    <3> QED
      BY <3>1, <3>2
  <2> HIDE DEF H
  <2> QED
    BY <2>4, <2>5
<1> HIDE DEF Good
<1>4. Bad = {}
  <2>1. Bad \subseteq Nat
    OBVIOUS
  <2>2. ASSUME Bad # {} PROVE FALSE
    <3>1. PICK k \in Bad : \A m \in Bad : k <= m
      BY <2>1, <2>2, HasLeast
    <3>2. k \in 1 .. n /\ ~Good(k)
      OBVIOUS
    <3>3. k # 1
      BY <1>2, <3>2
    <3>4. k \in 2 .. n /\ k - 1 \in 1 .. n /\ ~(k <= k - 1)
      BY <3>2, <3>3
    <3>5. Good(k - 1)
      BY <3>1, <3>4
    <3> QED
      BY <1>3, <3>2, <3>4, <3>5
  <2> QED
    BY <2>2
<1>5. Good(n)
  <2>1. n \in 1 .. n
    OBVIOUS
  <2> QED
    BY <1>4, <2>1
<1> DEFINE Step(F) == [i \in 1 .. Len(seqs) |-> IF i = 1 THEN seqs[i] ELSE F[i - 1] \o seqs[i]]
           C == CHOOSE F : F = [i \in 1 .. Len(seqs) |-> IF i = 1 THEN seqs[i] ELSE F[i - 1] \o seqs[i]]
<1>6. C = Step(C)
  <2>1. PICK F \in [1 .. n -> Seq(S)] :
               \A i \in 1 .. n : F[i] = IF i = 1 THEN seqs[i] ELSE F[i - 1] \o seqs[i]
    BY <1>5 DEF Good
  <2>2. F = Step(F)
    BY <2>1
  <2> QED
    BY <2>2, Zenon
<1>7. FlattenSeq(seqs) = C[Len(seqs)]
  <2>1. ~(Len(seqs) = 0)
    OBVIOUS
  <2> QED
    BY <2>1, Zenon DEF FlattenSeq
<1> HIDE DEF C
<1>8. /\ C = [i \in 1 .. n |-> C[i]]
      /\ C[1] = seqs[1]
      /\ \A k \in 2 .. n : C[k] = C[k - 1] \o seqs[k]
  <2>1. C = [i \in 1 .. n |-> IF i = 1 THEN seqs[i] ELSE C[i - 1] \o seqs[i]]
    BY <1>6, Zenon
  <2> HIDE DEF Step
  <2>2. \A i \in 1 .. n : C[i] = IF i = 1 THEN seqs[i] ELSE C[i - 1] \o seqs[i]
    BY <2>1, Zenon
  <2>3. C = [i \in 1 .. n |-> C[i]]
    BY <2>1, <2>2
  <2>4. 1 \in 1 .. n /\ \A k \in 2 .. n : k \in 1 .. n /\ k # 1
    OBVIOUS
  <2> QED
    BY <2>2, <2>3, <2>4
<1>9. \A k \in 1 .. n : C[k] \in Seq(S)
  <2> DEFINE Out == {k \in 1 .. n : C[k] \notin Seq(S)}
  <2>1. Out \subseteq Nat
    OBVIOUS
  <2>2. ASSUME Out # {} PROVE FALSE
    <3>1. PICK k \in Out : \A m \in Out : k <= m
      BY <2>1, <2>2, HasLeast
    <3>2. k \in 1 .. n /\ C[k] \notin Seq(S)
      OBVIOUS
    <3>3. k # 1
      BY <1>1, <1>8, <3>2
    <3>4. k \in 2 .. n /\ k - 1 \in 1 .. n /\ ~(k <= k - 1)
      BY <3>2, <3>3
    <3>5. C[k - 1] \in Seq(S)
      BY <3>1, <3>4
    <3>6. C[k] = C[k - 1] \o seqs[k] /\ seqs[k] \in Seq(S)
      BY <1>1, <1>8, <3>4
    <3> QED
      BY <3>2, <3>5, <3>6, ConcatProperties
  <2> QED
    BY <2>2
<1>10. C \in [1 .. n -> Seq(S)]
  BY <1>8, <1>9
<1>11. FlattenSeq(seqs) = C[n]
  BY <1>7
<1> QED
  BY <1>8, <1>10, <1>11 DEF Flattens

\* Statement by statement, the script runs as its statements do.
RunsThrough(N, T, Q, u, p) ==
    /\ Cardinality(Starts(u)) = N + 1
    /\ RunAs(u, p)[1] = [text |-> <<"BEGIN">>, params |-> <<>>]
    /\ \A j \in 1 .. N : RunAs(u, p)[j + 1] = [text |-> PieceAt(T[j], 0), params |-> Q[j]]

\* By RunsOneMore, from the BEGIN on: the least step that failed had none
\* before it to start from.
LEMMA RunsAll ==
    ASSUME NEW N \in Nat, NEW T, NEW Q, NEW F, NEW G,
           \A k \in 1 .. N : /\ T[k] \in Seq(AllWords) /\ Q[k] \in Seq(Values)
                             /\ Starts(T[k]) = {0} /\ Len(Q[k]) = Marks(T[k])
                             /\ Marks(PieceAt(T[k], 0)) = Marks(T[k]),
           F[0] = <<"BEGIN">>, G[0] = <<>>,
           \A k \in 1 .. N : /\ F[k] = F[k - 1] \o (<<"semi">> \o T[k])
                             /\ G[k] = G[k - 1] \o Q[k]
    PROVE  RunsThrough(N, T, Q, F[N], G[N])
<1> DEFINE Claim(k) ==
             /\ Ready(F[k], G[k])
             /\ Cardinality(Starts(F[k])) = k + 1
             /\ RunAs(F[k], G[k])[1] = [text |-> <<"BEGIN">>, params |-> <<>>]
             /\ \A j \in 1 .. k : RunAs(F[k], G[k])[j + 1] = [text |-> PieceAt(T[j], 0), params |-> Q[j]]
           Bad == {k \in 0 .. N : ~Claim(k)}
<1>1. Claim(0)
  <2>1. /\ Ready(F[0], G[0]) /\ Cardinality(Starts(F[0])) = 1
        /\ RunAs(F[0], G[0])[1] = [text |-> <<"BEGIN">>, params |-> <<>>]
    BY RunsBegin
  <2>2. \A j \in 1 .. 0 : FALSE
    OBVIOUS
  <2> QED
    BY <2>1, <2>2
<1>2. ASSUME NEW k \in 1 .. N, Claim(k - 1) PROVE Claim(k)
  <2>1. k \in Nat /\ k - 1 \in Nat /\ (k - 1) + 1 = k
    OBVIOUS
  <2> DEFINE u == F[k - 1]
             p == G[k - 1]
             t == T[k]
             q == Q[k]
             v == F[k]
             r == G[k]
             B == [text |-> <<"BEGIN">>, params |-> <<>>]
             Meant(j) == [text |-> PieceAt(T[j], 0), params |-> Q[j]]
  <2>2. /\ Ready(u, p) /\ Cardinality(Starts(u)) = k
        /\ RunAs(u, p)[1] = B
        /\ \A j \in 1 .. k - 1 : RunAs(u, p)[j + 1] = Meant(j)
    BY <1>2, <2>1
  <2>3. /\ t \in Seq(AllWords) /\ Starts(t) = {0} /\ q \in Seq(Values) /\ Len(q) = Marks(t)
        /\ Marks(PieceAt(t, 0)) = Marks(t)
        /\ v = u \o (<<"semi">> \o t) /\ r = p \o q
    OBVIOUS
  <2> HIDE DEF u, p, t, q, v, r
  <2>4. /\ Ready(v, r) /\ Cardinality(Starts(v)) = k + 1
        /\ \A j \in 1 .. k : RunAs(v, r)[j] = RunAs(u, p)[j]
        /\ RunAs(v, r)[k + 1] = [text |-> PieceAt(t, 0), params |-> q]
    <3> DEFINE c == Cardinality(Starts(u))
    <3>1. /\ Ready(v, r) /\ Cardinality(Starts(v)) = c + 1
          /\ \A j \in 1 .. c : RunAs(v, r)[j] = RunAs(u, p)[j]
          /\ RunAs(v, r)[c + 1] = [text |-> PieceAt(t, 0), params |-> q]
      <4> HIDE DEF B, Meant
      <4>1. Ready(u, p)
        BY <2>2
      <4>2. t \in Seq(AllWords) /\ Starts(t) = {0}
        BY <2>3
      <4>3. q \in Seq(Values) /\ Len(q) = Marks(t) /\ Marks(PieceAt(t, 0)) = Marks(t)
        BY <2>3
      <4>4. v = u \o (<<"semi">> \o t)
        BY <2>3
      <4>5. r = p \o q
        BY <2>3
      <4> QED
        <5>1. RunsOn(u, p, t, q, v, r)
          BY <4>1, <4>2, <4>3, <4>4, <4>5, RunsOneMore
        <5> QED
          BY <5>1 DEF RunsOn
    <3>2. c = k
      BY <2>2
    <3> HIDE DEF c
    <3> QED
      BY <3>1, <3>2
  <2>5. RunAs(v, r)[k + 1] = Meant(k)
    BY <2>4 DEF t, q
  <2> HIDE DEF B, Meant
  <2>6. RunAs(v, r)[1] = B
    BY <2>2, <2>4
  <2>7. ASSUME NEW j \in 1 .. k PROVE RunAs(v, r)[j + 1] = Meant(j)
    <3>1. CASE j = k
      BY <2>5, <3>1
    <3>2. CASE j # k
      <4>1. j \in 1 .. k - 1 /\ j + 1 \in 1 .. k
        BY <2>1, <3>2
      <4> QED
        BY <2>2, <2>4, <4>1
    <3> QED
      BY <3>1, <3>2
  <2> QED
    BY <2>4, <2>6, <2>7 DEF v, r, B, Meant
<1> HIDE DEF Claim
<1>3. Bad = {}
  <2>1. Bad \subseteq Nat
    OBVIOUS
  <2>2. ASSUME Bad # {} PROVE FALSE
    <3>1. PICK k \in Bad : \A m \in Bad : k <= m
      BY <2>1, <2>2, HasLeast
    <3>2. k \in 0 .. N /\ ~Claim(k)
      OBVIOUS
    <3>3. k # 0
      BY <1>1, <3>2
    <3>4. k \in 1 .. N /\ k - 1 \in 0 .. N /\ ~(k <= k - 1)
      BY <3>2, <3>3
    <3>5. Claim(k - 1)
      BY <3>1, <3>4
    <3> QED
      BY <1>2, <3>2, <3>4, <3>5
  <2> QED
    BY <2>2
<1>4. Claim(N)
  <2>1. N \in 0 .. N
    OBVIOUS
  <2> QED
    BY <1>3, <2>1
<1> QED
  BY <1>4 DEF Claim, RunsThrough

\* A function on the first numbers is a sequence of that length.
LEMMA LengthIs ==
    ASSUME NEW S, NEW n \in Nat, NEW s \in [1 .. n -> S]
    PROVE  s \in Seq(S) /\ Len(s) = n
<1>1. s \in Seq(S)
  BY SeqDef
<1>2. Len(s) \in Nat /\ DOMAIN s = 1 .. Len(s)
  BY <1>1, LenProperties
<1>3. DOMAIN s = 1 .. n
  OBVIOUS
<1> QED
  BY <1>1, <1>2, <1>3

\* The statements of a call, each with its parameters.
Given(texts) == [n \in DOMAIN texts |-> Statement(texts[n], n)]

\* Each has its text and one parameter for each placeholder in it.
LEMMA GivenIs ==
    ASSUME NEW texts \in Seq(Texts)
    PROVE  /\ DOMAIN Given(texts) = 1 .. Len(texts) /\ DOMAIN texts = 1 .. Len(texts) /\ Len(texts) \in Nat
           /\ \A n \in 1 .. Len(texts) :
                /\ texts[n] \in Texts /\ Given(texts)[n].sql = texts[n]
                /\ Given(texts)[n].params \in Seq(Values)
                /\ Len(Given(texts)[n].params) = Marks(texts[n])
<1>1. DOMAIN texts = 1 .. Len(texts) /\ Len(texts) \in Nat
  BY LenProperties
<1>2. ASSUME NEW n \in 1 .. Len(texts)
      PROVE  /\ texts[n] \in Texts /\ Given(texts)[n].sql = texts[n]
             /\ Given(texts)[n].params \in Seq(Values)
             /\ Len(Given(texts)[n].params) = Marks(texts[n])
  <2>1. texts[n] \in Texts /\ n \in Nat
    BY <1>1, ElementOfSeq
  <2>2. Given(texts)[n] = Statement(texts[n], n)
    BY <1>1 DEF Given
  <2> DEFINE m == Marks(texts[n])
             q == [k \in 1 .. m |-> <<n, k>>]
  <2>3. m \in Nat
    <3>1. texts[n] \in Seq(AllWords)
      BY <2>1, StatementIs
    <3> QED
      BY <3>1, MarksType
  <2>4. Given(texts)[n].sql = texts[n] /\ Given(texts)[n].params = q
    BY <2>2 DEF Statement
  <2> HIDE DEF m
  <2>5. q \in [1 .. m -> Values]
    BY <2>1, <2>3 DEF Values
  <2>6. q \in Seq(Values) /\ Len(q) = m
    <3> HIDE DEF q
    <3> QED
      BY <2>3, <2>5, LengthIs
  <2> QED
    BY <2>1, <2>4, <2>6 DEF m
<1> QED
  BY <1>1, <1>2 DEF Given

\* They are taken unless there is none or one is a word of control.
LEMMA Taken ==
    ASSUME NEW texts \in Seq(Texts)
    PROVE  Accepts(Given(texts)) <=> /\ texts # <<>>
                                     /\ \A n \in DOMAIN texts : ~IsControl(Trim(texts[n]))
<1> DEFINE given == Given(texts)
           N == Len(texts)
<1>1. DOMAIN given = 1 .. N /\ DOMAIN texts = 1 .. N /\ N \in Nat
  BY GivenIs
<1>2. \A n \in 1 .. N : /\ given[n].sql = texts[n] /\ Stripped(texts[n]) # <<>>
                        /\ FirstIsControl(Stripped(texts[n])) <=> IsControl(Trim(texts[n]))
  BY GivenIs, StatementIs
<1> HIDE DEF given
<1>3. given # <<>> <=> texts # <<>>
  <2>1. texts # <<>> <=> N # 0
    <3>1. Len(<<>>) = 0
      BY EmptySeq
    <3>2. texts # <<>> => N \in Nat \ {0}
      BY EmptySeq
    <3> QED
      BY <3>1, <3>2
  <2>2. given = <<>> => N = 0
    <3>1. DOMAIN <<>> = {}
      OBVIOUS
    <3>2. N # 0 => 1 \in 1 .. N
      BY <1>1
    <3> HIDE DEF N
    <3> QED
      BY <1>1, <3>1, <3>2
  <2>3. N = 0 => given = <<>>
    <3>1. given = [n \in 1 .. N |-> Statement(texts[n], n)]
      BY <1>1 DEF given, Given
    <3> QED
      BY <3>1
  <2> QED
    BY <2>1, <2>2, <2>3
<1> HIDE DEF N
<1> QED
  BY <1>1, <1>2, <1>3 DEF Accepts, given

\* Every script ends with its COMMIT, which a blank precedes.
LEMMA CommitIs ==
    LET t == <<"blank", "COMMIT">>
    IN  /\ t \in Seq(AllWords) /\ Starts(t) = {0} /\ PieceAt(t, 0) = <<"COMMIT">>
        /\ Marks(t) = 0 /\ Marks(PieceAt(t, 0)) = 0
<1> DEFINE t == <<"blank", "COMMIT">>
<1>1. t \in Seq(AllWords) /\ Len(t) = 2 /\ t[1] = "blank" /\ t[2] = "COMMIT" /\ DOMAIN t = 1 .. 2
  BY DEF AllWords, Words
<1>2. OneCore(t, 2, 2)
  BY DEF OneCore
<1> HIDE DEF t
<1>3. /\ Starts(t) = {0} /\ PieceAt(t, 0) = SubSeq(t, 2, 2)
      /\ Marks(t) = Marks(SubSeq(t, 2, 2))
  BY <1>1, <1>2, OnePiece
<1>4. Marks(t) = 0
  <2>1. {i \in DOMAIN t : t[i] = "mark"} = {}
    BY <1>1
  <2> QED
    BY <2>1, FS_EmptySet DEF Marks
<1>5. SubSeq(t, 2, 2) = <<"COMMIT">>
  <2> DEFINE w == <<"COMMIT">>
             x == SubSeq(t, 2, 2)
  <2>1. x \in Seq(AllWords) /\ Len(x) = 1 /\ x[1] = "COMMIT"
    <3> DEFINE c == 2
    <3>1. c \in Int /\ 1 <= c /\ c <= c + 1 /\ c <= Len(t) /\ c - c + 1 = 1 /\ c + 1 - 1 = 2
      BY <1>1
    <3>0. t \in Seq(AllWords)
      BY <1>1
    <3>2. /\ x \in Seq(AllWords) /\ Len(x) = c - c + 1
          /\ \A i \in 1 .. c - c + 1 : x[i] = t[c + i - 1]
      <4> DEFINE y == SubSeq(t, c, c)
      <4> HIDE DEF c
      <4>1. /\ y \in Seq(AllWords) /\ Len(y) = c - c + 1
            /\ \A i \in 1 .. c - c + 1 : y[i] = t[c + i - 1]
        BY <3>0, <3>1, Window
      <4>2. y = x
        BY DEF c
      <4> HIDE DEF x, y
      <4> QED
        BY <4>1, <4>2
    <3> HIDE DEF x, c
    <3> QED
      BY <1>1, <3>1, <3>2
  <2>2. w \in Seq(AllWords) /\ Len(w) = 1 /\ w[1] = "COMMIT"
    BY DEF AllWords
  <2> HIDE DEF w, x
  <2>3. w = x
    BY <2>1, <2>2, SeqEqual
  <2> QED
    BY <2>3 DEF w, x
<1> QED
  BY <1>1, <1>3, <1>4, <1>5 DEF t

\* What the code puts in front of a statement is a semicolon and a blank.
LEMMA BehindSemicolon ==
    ASSUME NEW t \in Seq(AllWords)
    PROVE  /\ <<"semi", "blank">> \o t = <<"semi">> \o Spaced(t)
           /\ <<"semi", "blank">> \o t \in Seq(AllWords)
<1> DEFINE x == <<"semi">>
           y == <<"blank">>
<1>1. x \in Seq(AllWords) /\ y \in Seq(AllWords)
  <2>1. "semi" \in AllWords /\ "blank" \in AllWords
    BY DEF AllWords, Words
  <2> QED
    BY <2>1
<1>2. x \o y = <<"semi", "blank">>
  <2> DEFINE z == <<"semi", "blank">>
  <2>1. z \in Seq(AllWords) /\ Len(z) = 2 /\ z[1] = "semi" /\ z[2] = "blank"
    BY DEF AllWords, Words
  <2>2. Len(x) = 1 /\ x[1] = "semi" /\ Len(y) = 1 /\ y[1] = "blank"
    OBVIOUS
  <2> HIDE DEF x, y, z
  <2>3. /\ x \o y \in Seq(AllWords) /\ Len(x \o y) = Len(x) + Len(y)
        /\ \A i \in 1 .. Len(x) + Len(y) :
             (x \o y)[i] = IF i <= Len(x) THEN x[i] ELSE y[i - Len(x)]
    BY <1>1, ConcatProperties
  <2>4. Len(x \o y) = Len(z) /\ \A i \in 1 .. Len(x \o y) : (x \o y)[i] = z[i]
    BY <2>1, <2>2, <2>3
  <2>5. x \o y = z
    BY <2>1, <2>3, <2>4, SeqEqual
  <2> QED
    BY <2>5 DEF z
<1>3. Spaced(t) = y \o t
  BY DEF Spaced
<1> HIDE DEF x, y
<1>4. (x \o y) \o t = x \o (y \o t)
  BY <1>1, ConcatAssociative
<1>5. x \o y \in Seq(AllWords)
  BY <1>1, ConcatProperties
<1>6. (x \o y) \o t \in Seq(AllWords)
  BY <1>5, ConcatProperties
<1>7. /\ (x \o y) \o t = x \o Spaced(t)
      /\ (x \o y) \o t \in Seq(AllWords)
  BY <1>3, <1>4, <1>6, Zenon
<1> DEFINE z == <<"semi", "blank">>
<1>8. x \o y = z
  BY <1>2
<1> HIDE DEF z
<1>9. z \o t = x \o Spaced(t) /\ z \o t \in Seq(AllWords)
  BY <1>7, <1>8, Zenon
<1> QED
  BY <1>9, Zenon DEF x, z

\* The text of a script, a statement at a time: each is behind a semicolon and
\* a blank, the COMMIT like the others.
ScriptSteps(texts, n, T, F) ==
    /\ F[0] = <<"BEGIN">>
    /\ \A k \in 1 .. n + 1 : F[k] = F[k - 1] \o (<<"semi">> \o T[k])
    /\ Script(Given(texts)) = F[n + 1]

\* So the script is put together.
LEMMA ScriptIs ==
    ASSUME NEW texts \in Seq(Texts), NEW N \in Nat, N = Len(texts),
           NEW T, \A k \in 1 .. N : T[k] = Spaced(Stripped(texts[k])),
           T[N + 1] = <<"blank", "COMMIT">>
    PROVE  \E F : ScriptSteps(texts, N, T, F)
<1> DEFINE A == [i \in DOMAIN Given(texts) |-> <<"semi", "blank">> \o Stripped(Given(texts)[i].sql)]
           B == <<<<"BEGIN">>>>
           C == <<<<"semi", "blank", "COMMIT">>>>
           M == N + 2
<1>1. Script(Given(texts)) = FlattenSeq((B \o A) \o C)
  BY DEF Script
<1>2. DOMAIN Given(texts) = 1 .. N /\ \A n \in 1 .. N : Given(texts)[n].sql = texts[n] /\ texts[n] \in Texts
  BY GivenIs
<1>3. "semi" \in AllWords /\ "blank" \in AllWords /\ "BEGIN" \in AllWords /\ "COMMIT" \in AllWords
  BY DEF AllWords, Words
<1>4. ASSUME NEW k \in 1 .. N PROVE A[k] = <<"semi">> \o T[k] /\ A[k] \in Seq(AllWords)
  <2>1. Stripped(texts[k]) \in Seq(AllWords)
    BY <1>2, StatementIs
  <2>2. A[k] = <<"semi", "blank">> \o Stripped(texts[k]) /\ T[k] = Spaced(Stripped(texts[k]))
    BY <1>2
  <2> HIDE DEF A
  <2> QED
    BY <2>1, <2>2, BehindSemicolon
<1>5. B \in Seq(Seq(AllWords)) /\ Len(B) = 1 /\ B[1] = <<"BEGIN">>
  BY <1>3
<1>6. /\ C \in Seq(Seq(AllWords)) /\ Len(C) = 1
      /\ C[1] = <<"semi">> \o <<"blank", "COMMIT">>
  BY <1>3
<1>7. A \in Seq(Seq(AllWords)) /\ Len(A) = N
  <2>1. A \in [1 .. N -> Seq(AllWords)]
    <3>1. DOMAIN A = 1 .. N /\ A = [i \in 1 .. N |-> A[i]]
      BY <1>2
    <3> HIDE DEF A
    <3> QED
      BY <1>4, <3>1
  <2> HIDE DEF A
  <2> QED
    BY <2>1, LengthIs
<1> HIDE DEF A, B, C
<1> DEFINE D == B \o A
           W == D \o C
<1>8. /\ D \in Seq(Seq(AllWords)) /\ Len(D) = 1 + N
      /\ \A i \in 1 .. 1 + N : D[i] = IF i <= 1 THEN B[i] ELSE A[i - 1]
  <2>1. /\ B \o A \in Seq(Seq(AllWords)) /\ Len(B \o A) = Len(B) + Len(A)
        /\ \A i \in 1 .. Len(B) + Len(A) : (B \o A)[i] = IF i <= Len(B) THEN B[i] ELSE A[i - Len(B)]
    BY <1>5, <1>7, ConcatProperties, Zenon
  <2>2. Len(B) = 1 /\ Len(A) = N
    BY <1>5, <1>7
  <2> QED
    BY <2>1, <2>2, Zenon
<1> HIDE DEF D
<1>9. /\ W \in Seq(Seq(AllWords)) /\ Len(W) = (1 + N) + 1
      /\ \A i \in 1 .. (1 + N) + 1 : W[i] = IF i <= 1 + N THEN D[i] ELSE C[i - (1 + N)]
  <2>1. /\ D \o C \in Seq(Seq(AllWords)) /\ Len(D \o C) = Len(D) + Len(C)
        /\ \A i \in 1 .. Len(D) + Len(C) : (D \o C)[i] = IF i <= Len(D) THEN D[i] ELSE C[i - Len(D)]
    BY <1>6, <1>8, ConcatProperties, Zenon
  <2>2. Len(D) = 1 + N /\ Len(C) = 1
    BY <1>6, <1>8
  <2> QED
    BY <2>1, <2>2, Zenon
<1> HIDE DEF W
<1>10. M \in Nat /\ M = Len(W) /\ M # 0
  BY <1>9
<1>11. W[1] = <<"BEGIN">>
  <2>1. 1 \in 1 .. (1 + N) + 1 /\ 1 \in 1 .. 1 + N /\ 1 <= 1 + N /\ 1 <= 1
    OBVIOUS
  <2> QED
    BY <1>5, <1>8, <1>9, <2>1
<1>12. ASSUME NEW k \in 1 .. N + 1 PROVE W[k + 1] = <<"semi">> \o T[k]
  <2>1. CASE k = N + 1
    <3>1. k + 1 \in 1 .. (1 + N) + 1 /\ ~(k + 1 <= 1 + N) /\ (k + 1) - (1 + N) = 1
      BY <2>1
    <3> QED
      BY <1>6, <1>9, <2>1, <3>1
  <2>2. CASE k # N + 1
    <3>1. /\ k + 1 \in 1 .. (1 + N) + 1 /\ k + 1 \in 1 .. 1 + N /\ k + 1 <= 1 + N
          /\ ~(k + 1 <= 1) /\ (k + 1) - 1 = k /\ k \in 1 .. N
      BY <2>2
    <3>2. W[k + 1] = A[k]
      BY <1>8, <1>9, <3>1
    <3> QED
      BY <1>4, <3>1, <3>2
  <2> QED
    BY <2>1, <2>2
<1> HIDE DEF M
<1>a. PICK f : Flattens(AllWords, W, M, f)
  <2>1. W \in Seq(Seq(AllWords))
    BY <1>9
  <2> QED
    BY <1>10, <2>1, Flattened
<1>13. /\ f \in [1 .. M -> Seq(AllWords)] /\ f[1] = W[1]
       /\ \A k \in 2 .. M : f[k] = f[k - 1] \o W[k]
       /\ FlattenSeq(W) = f[M]
  BY <1>a DEF Flattens
<1> USE DEF M
<1> DEFINE F == [k \in 0 .. N + 1 |-> f[k + 1]]
<1>14. F[0] = <<"BEGIN">>
  <2>1. 0 \in 0 .. N + 1 /\ 0 + 1 = 1
    OBVIOUS
  <2> QED
    BY <1>11, <1>13, <2>1
<1>15. ASSUME NEW k \in 1 .. N + 1 PROVE F[k] = F[k - 1] \o (<<"semi">> \o T[k])
  <2>1. /\ k \in 0 .. N + 1 /\ k - 1 \in 0 .. N + 1 /\ k + 1 \in 2 .. M
        /\ (k + 1) - 1 = k /\ (k - 1) + 1 = k
    OBVIOUS
  <2>2. F[k] = f[k + 1] /\ F[k - 1] = f[k]
    BY <2>1
  <2>3. f[k + 1] = f[(k + 1) - 1] \o W[k + 1]
    BY <1>13, <2>1
  <2> HIDE DEF F
  <2> QED
    BY <1>12, <2>1, <2>2, <2>3
<1>16. Script(Given(texts)) = F[N + 1]
  <2>1. N + 1 \in 0 .. N + 1 /\ (N + 1) + 1 = M
    OBVIOUS
  <2>2. F[N + 1] = f[M]
    BY <2>1
  <2>3. Script(Given(texts)) = FlattenSeq(W)
    BY <1>1 DEF W, D
  <2> QED
    BY <1>13, <2>2, <2>3
<1> HIDE DEF F
<1> QED
  BY <1>14, <1>15, <1>16 DEF ScriptSteps

\* The parameters of a script, a statement at a time; the COMMIT has none.
ParameterSteps(texts, n, Q, G) ==
    /\ G[0] = <<>>
    /\ \A k \in 1 .. n + 1 : G[k] = G[k - 1] \o Q[k]
    /\ Parameters(Given(texts)) = G[n + 1]

\* So they are put together.
LEMMA ParametersAre ==
    ASSUME NEW texts \in Seq(Texts), NEW N \in Nat, N = Len(texts), N # 0,
           NEW Q, \A k \in 1 .. N : Q[k] = Given(texts)[k].params, Q[N + 1] = <<>>
    PROVE  \E G : ParameterSteps(texts, N, Q, G)
<1> DEFINE W == [i \in DOMAIN Given(texts) |-> Given(texts)[i].params]
<1>1. Parameters(Given(texts)) = FlattenSeq(W)
  BY DEF Parameters
<1>2. DOMAIN Given(texts) = 1 .. N /\ \A k \in 1 .. N : Given(texts)[k].params \in Seq(Values)
  BY GivenIs
<1>3. W \in [1 .. N -> Seq(Values)] /\ \A k \in 1 .. N : W[k] = Q[k]
  BY <1>2
<1> HIDE DEF W
<1>4. W \in Seq(Seq(Values)) /\ Len(W) = N
  BY <1>3, LengthIs
<1>5. PICK g : Flattens(Values, W, N, g)
  BY <1>4, Flattened
<1>6. /\ g \in [1 .. N -> Seq(Values)] /\ g[1] = W[1]
      /\ \A k \in 2 .. N : g[k] = g[k - 1] \o W[k]
      /\ FlattenSeq(W) = g[N]
  BY <1>5 DEF Flattens
<1> DEFINE G == [k \in 0 .. N + 1 |-> IF k = 0 THEN <<>> ELSE IF k = N + 1 THEN g[N] ELSE g[k]]
<1>7. G[0] = <<>> /\ G[N + 1] = g[N]
  OBVIOUS
<1>8. ASSUME NEW k \in 1 .. N PROVE G[k] = g[k]
  <2>1. k \in 0 .. N + 1 /\ k # 0 /\ k # N + 1
    OBVIOUS
  <2> QED
    BY <2>1
<1> HIDE DEF G
<1>9. ASSUME NEW k \in 1 .. N + 1 PROVE G[k] = G[k - 1] \o Q[k]
  <2>1. CASE k = 1
    <3>1. 1 \in 1 .. N /\ 1 - 1 = 0
      OBVIOUS
    <3>2. G[1] = Q[1] /\ Q[1] \in Seq(Values)
      BY <1>3, <1>6, <1>8, <3>1
    <3>3. <<>> \o Q[1] = Q[1]
      BY <3>2, ConcatEmptySeq
    <3> QED
      BY <1>7, <2>1, <3>1, <3>2, <3>3
  <2>2. CASE k = N + 1
    <3>1. N \in 1 .. N /\ k - 1 = N
      BY <2>2
    <3>2. G[k - 1] = g[N] /\ g[N] \in Seq(Values)
      BY <1>6, <1>8, <3>1
    <3>3. g[N] \o <<>> = g[N]
      BY <3>2, ConcatEmptySeq
    <3> QED
      BY <1>7, <2>2, <3>2, <3>3
  <2>3. CASE k # 1 /\ k # N + 1
    <3>1. k \in 2 .. N /\ k \in 1 .. N /\ k - 1 \in 1 .. N
      BY <2>3
    <3> QED
      BY <1>3, <1>6, <1>8, <3>1
  <2> QED
    BY <2>1, <2>2, <2>3
<1> QED
  BY <1>1, <1>6, <1>7, <1>9 DEF ParameterSteps

\* What is taken runs as it was given.
LEMMA RunsAsGiven ==
    ASSUME NEW texts \in Seq(Texts), texts # <<>>
    PROVE  RunAs(Script(Given(texts)), Parameters(Given(texts)))
             = (<<[text |-> <<"BEGIN">>, params |-> <<>>]>>
                  \o [n \in DOMAIN texts |->
                           [text |-> PieceAt(texts[n], 0), params |-> Given(texts)[n].params]])
               \o <<[text |-> <<"COMMIT">>, params |-> <<>>]>>
<1> DEFINE N == Len(texts)
           T == [k \in 1 .. N + 1 |-> IF k = N + 1 THEN <<"blank", "COMMIT">> ELSE Spaced(Stripped(texts[k]))]
           Q == [k \in 1 .. N + 1 |-> IF k = N + 1 THEN <<>> ELSE Given(texts)[k].params]
           One(s, p) == [text |-> s, params |-> p]
           Meant(n) == One(PieceAt(texts[n], 0), Given(texts)[n].params)
<1>1. N \in Nat /\ N # 0 /\ DOMAIN texts = 1 .. N /\ \A n \in 1 .. N : texts[n] \in Texts
  <2>1. Len(texts) # 0
    BY EmptySeq
  <2> QED
    BY <2>1, GivenIs
<1> HIDE DEF N
<1>2. T[N + 1] = <<"blank", "COMMIT">> /\ Q[N + 1] = <<>>
  <2>1. N + 1 \in 1 .. N + 1
    BY <1>1
  <2> QED
    BY <2>1
<1>3. \A k \in 1 .. N : T[k] = Spaced(Stripped(texts[k])) /\ Q[k] = Given(texts)[k].params
  <2>1. \A k \in 1 .. N : k \in 1 .. N + 1 /\ k # N + 1
    BY <1>1
  <2> QED
    BY <2>1
<1> HIDE DEF T, Q
<1>4. ASSUME NEW k \in 1 .. N + 1
      PROVE  /\ T[k] \in Seq(AllWords) /\ Q[k] \in Seq(Values)
             /\ Starts(T[k]) = {0} /\ Len(Q[k]) = Marks(T[k])
             /\ Marks(PieceAt(T[k], 0)) = Marks(T[k])
  <2>1. CASE k = N + 1
    <3>1. <<>> \in Seq(Values) /\ Len(<<>>) = 0
      BY EmptySeq
    <3> QED
      BY <1>2, <2>1, <3>1, CommitIs
  <2>2. CASE k # N + 1
    <3>1. k \in 1 .. N
      BY <1>1, <2>2
    <3>2. texts[k] \in Texts /\ T[k] = Spaced(Stripped(texts[k])) /\ Q[k] = Given(texts)[k].params
      BY <1>1, <1>3, <3>1
    <3>3. Q[k] \in Seq(Values) /\ Len(Q[k]) = Marks(texts[k])
      BY <3>1, <3>2, GivenIs DEF N
    <3>4. /\ T[k] \in Seq(AllWords) /\ Starts(T[k]) = {0} /\ PieceAt(T[k], 0) = PieceAt(texts[k], 0)
          /\ Marks(T[k]) = Marks(texts[k]) /\ Marks(PieceAt(texts[k], 0)) = Marks(texts[k])
      BY <3>2, StatementIs
    <3> QED
      BY <3>3, <3>4
  <2> QED
    BY <2>1, <2>2
<1>5. PICK F : ScriptSteps(texts, N, T, F)
  <2>1. N = Len(texts)
    BY DEF N
  <2> QED
    BY <1>1, <1>2, <1>3, <2>1, ScriptIs
<1>6. PICK G : ParameterSteps(texts, N, Q, G)
  <2>1. N = Len(texts)
    BY DEF N
  <2> QED
    BY <1>1, <1>2, <1>3, <2>1, ParametersAre
<1> DEFINE R == RunAs(F[N + 1], G[N + 1])
           M == N + 1
<1>7. /\ Cardinality(Starts(F[M])) = M + 1
      /\ R[1] = [text |-> <<"BEGIN">>, params |-> <<>>]
      /\ \A j \in 1 .. M : R[j + 1] = [text |-> PieceAt(T[j], 0), params |-> Q[j]]
  <2>1. M \in Nat
    BY <1>1
  <2>2. /\ F[0] = <<"BEGIN">> /\ G[0] = <<>>
        /\ \A k \in 1 .. M : /\ F[k] = F[k - 1] \o (<<"semi">> \o T[k])
                             /\ G[k] = G[k - 1] \o Q[k]
    BY <1>5, <1>6 DEF ScriptSteps, ParameterSteps
  <2>3. \A k \in 1 .. M : /\ T[k] \in Seq(AllWords) /\ Q[k] \in Seq(Values)
                          /\ Starts(T[k]) = {0} /\ Len(Q[k]) = Marks(T[k])
                          /\ Marks(PieceAt(T[k], 0)) = Marks(T[k])
    BY <1>4
  <2> HIDE DEF M
  <2>4. RunsThrough(M, T, Q, F[M], G[M])
    BY <2>1, <2>2, <2>3, RunsAll
  <2> QED
    BY <2>4 DEF M, RunsThrough
<1>8. DOMAIN R = 1 .. N + 2 /\ R = [k \in 1 .. N + 2 |-> R[k]]
  <2>1. Cardinality(Starts(F[N + 1])) = N + 2
    BY <1>1, <1>7
  <2> QED
    BY <2>1 DEF RunAs
<1> HIDE DEF R
<1>9. /\ R[1] = One(<<"BEGIN">>, <<>>) /\ R[N + 2] = One(<<"COMMIT">>, <<>>)
      /\ \A n \in 1 .. N : R[n + 1] = Meant(n)
  <2>1. R[N + 2] = One(<<"COMMIT">>, <<>>)
    <3>1. N + 1 \in 1 .. M /\ (N + 1) + 1 = N + 2
      BY <1>1
    <3>2. R[(N + 1) + 1] = [text |-> PieceAt(T[N + 1], 0), params |-> Q[N + 1]]
      BY <1>7, <3>1
    <3> QED
      BY <1>2, <3>1, <3>2, CommitIs
  <2>2. ASSUME NEW n \in 1 .. N PROVE R[n + 1] = Meant(n)
    <3>1. n \in 1 .. M
      BY <1>1
    <3>2. R[n + 1] = [text |-> PieceAt(T[n], 0), params |-> Q[n]]
      BY <1>7, <3>1
    <3>3. PieceAt(T[n], 0) = PieceAt(texts[n], 0)
      BY <1>1, <1>3, StatementIs
    <3> QED
      BY <1>3, <3>2, <3>3
  <2> QED
    BY <1>7, <2>1, <2>2
<1> DEFINE A == [n \in DOMAIN texts |-> Meant(n)]
           S == {R[k] : k \in 1 .. N + 2}
           B == <<One(<<"BEGIN">>, <<>>)>>
           C == <<One(<<"COMMIT">>, <<>>)>>
<1> HIDE DEF One
<1>10. A \in Seq(S) /\ Len(A) = N /\ \A n \in 1 .. N : A[n] = Meant(n)
  <2>1. ASSUME NEW n \in 1 .. N PROVE Meant(n) \in S
    <3>1. n + 1 \in 1 .. N + 2
      BY <1>1
    <3> QED
      BY <1>9, <3>1
  <2> HIDE DEF S, Meant
  <2>2. A \in [1 .. N -> S] /\ \A n \in 1 .. N : A[n] = Meant(n)
    BY <1>1, <2>1
  <2> HIDE DEF A
  <2> QED
    BY <1>1, <2>2, LengthIs
<1>11. B \in Seq(S) /\ Len(B) = 1 /\ B[1] = R[1] /\ C \in Seq(S) /\ Len(C) = 1 /\ C[1] = R[N + 2]
  <2>1. R[1] \in S /\ R[N + 2] \in S
    <3>1. 1 \in 1 .. N + 2 /\ N + 2 \in 1 .. N + 2
      BY <1>1
    <3> QED
      BY <3>1
  <2> HIDE DEF S
  <2> QED
    BY <1>9, <2>1
<1>12. R \in Seq(S) /\ Len(R) = N + 2
  <2>1. R \in [1 .. N + 2 -> S]
    BY <1>8
  <2>2. N + 2 \in Nat
    BY <1>1
  <2> HIDE DEF S
  <2> QED
    BY <2>1, <2>2, LengthIs
<1> HIDE DEF A, B, C, S, Meant
<1> DEFINE D == B \o A
           E == D \o C
<1>13. /\ D \in Seq(S) /\ Len(D) = 1 + N
       /\ \A i \in 1 .. 1 + N : D[i] = IF i <= 1 THEN B[i] ELSE A[i - 1]
  <2>1. /\ B \o A \in Seq(S) /\ Len(B \o A) = Len(B) + Len(A)
        /\ \A i \in 1 .. Len(B) + Len(A) : (B \o A)[i] = IF i <= Len(B) THEN B[i] ELSE A[i - Len(B)]
    BY <1>10, <1>11, ConcatProperties
  <2> QED
    BY <1>10, <1>11, <2>1
<1> HIDE DEF D
<1>14. /\ E \in Seq(S) /\ Len(E) = (1 + N) + 1
       /\ \A i \in 1 .. (1 + N) + 1 : E[i] = IF i <= 1 + N THEN D[i] ELSE C[i - (1 + N)]
  <2>1. /\ D \o C \in Seq(S) /\ Len(D \o C) = Len(D) + Len(C)
        /\ \A i \in 1 .. Len(D) + Len(C) : (D \o C)[i] = IF i <= Len(D) THEN D[i] ELSE C[i - Len(D)]
    BY <1>11, <1>13, ConcatProperties
  <2> QED
    BY <1>11, <1>13, <2>1
<1> HIDE DEF E
<1>15. ASSUME NEW i \in 1 .. N + 2 PROVE R[i] = E[i]
  <2>0. i \in 1 .. (1 + N) + 1
    BY <1>1
  <2>1. CASE i = 1
    <3>1. i \in 1 .. 1 + N /\ i <= 1 + N /\ i <= 1
      BY <1>1, <2>1
    <3> QED
      BY <1>11, <1>13, <1>14, <2>0, <2>1, <3>1
  <2>2. CASE i = N + 2
    <3>1. ~(i <= 1 + N) /\ i - (1 + N) = 1
      BY <1>1, <2>2
    <3> QED
      BY <1>11, <1>14, <2>0, <2>2, <3>1
  <2>3. CASE i # 1 /\ i # N + 2
    <3>1. i \in 1 .. 1 + N /\ i <= 1 + N /\ ~(i <= 1) /\ i - 1 \in 1 .. N /\ (i - 1) + 1 = i
      BY <1>1, <2>3
    <3>2. E[i] = A[i - 1]
      BY <1>13, <1>14, <2>0, <3>1
    <3> QED
      BY <1>9, <1>10, <3>1, <3>2
  <2> QED
    BY <2>1, <2>2, <2>3
<1>16. R = E
  <2>1. Len(R) = Len(E)
    BY <1>1, <1>12, <1>14
  <2>2. \A i \in 1 .. Len(R) : R[i] = E[i]
    BY <1>12, <1>15
  <2> QED
    BY <1>12, <1>14, <2>1, <2>2, SeqEqual
<1>17. RunAs(Script(Given(texts)), Parameters(Given(texts))) = (B \o A) \o C
  BY <1>5, <1>6, <1>16 DEF R, E, D, ScriptSteps, ParameterSteps
<1> QED
  BY <1>17 DEF A, B, C, Meant, One

\* A script runs each of its statements once, in order and with its own
\* parameters, between its BEGIN and its COMMIT and no other; what is empty or
\* would break out of them is refused, however many statements there are and
\* however long they are (build_transaction_script).
THEOREM ArgumentsScriptIsOne == ArgumentInit => ScriptIsOne
<1> SUFFICES ASSUME ArgumentInit, argument.kind = "script" PROVE ScriptIsOne
  BY Zenon DEF ScriptIsOne
<1>0. argument \in Scripts
  BY DEF ArgumentInit, None, Lifetimes, Waits, Decimals
<1> DEFINE texts == argument.texts
<1>1. texts \in Seq(Texts)
  <2>1. texts \in SeqOf(Texts, MaxScript)
    BY <1>0 DEF Scripts
  <2> HIDE DEF texts
  <2>2. PICK m \in 0 .. MaxScript : texts \in [1 .. m -> Texts]
    BY <2>1 DEF SeqOf
  <2>3. m \in Nat
    BY <2>2, ArgumentsAssumption
  <2> QED
    BY <2>2, <2>3, LengthIs
<1> HIDE DEF texts
<1>2. Accepts(Given(texts)) <=> /\ texts # <<>>
                                /\ \A n \in DOMAIN texts : ~IsControl(Trim(texts[n]))
  BY <1>1, Taken
<1>3. ASSUME texts # <<>>
      PROVE  RunAs(Script(Given(texts)), Parameters(Given(texts)))
               = (<<[text |-> <<"BEGIN">>, params |-> <<>>]>>
                    \o [n \in DOMAIN texts |->
                           [text |-> PieceAt(texts[n], 0), params |-> Given(texts)[n].params]])
                 \o <<[text |-> <<"COMMIT">>, params |-> <<>>]>>
  BY <1>1, <1>3, RunsAsGiven
<1>4. CASE texts = <<>> \/ \E n \in DOMAIN texts : IsControl(Trim(texts[n]))
  BY <1>2, <1>4, Zenon DEF ScriptIsOne, texts, Given, IsControl
<1>5. CASE ~(texts = <<>> \/ \E n \in DOMAIN texts : IsControl(Trim(texts[n])))
  BY <1>2, <1>3, <1>5, Zenon DEF ScriptIsOne, texts, Given, IsControl
<1> QED
  BY <1>4, <1>5
=============================================================================
