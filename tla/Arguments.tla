------------------------------ MODULE Arguments ------------------------------
(****************************************************************************)
(* What becomes of the arguments of a call before it is sent: lifetimes and *)
(* waits in milliseconds (src/cache.rs, src/client.rs), decimals            *)
(* (src/params.rs), and the script of Client::transaction (src/sql.rs).     *)
(* A text is a sequence of the kinds of its characters or words.  The       *)
(* arguments of one call are looked at in each behaviour.                   *)
(****************************************************************************)
EXTENDS Integers, Sequences, FiniteSets, SequencesExt

CONSTANTS
    PerMs,      \* units of a Duration in a millisecond
    MaxWire,    \* i64::MAX
    MaxUnits,   \* bound on the durations
    MaxDecimal, \* bound on the characters of a decimal
    MaxText,    \* bound on the words of a statement
    MaxScript   \* bound on the statements of a script

ASSUME ArgumentsAssumption ==
    /\ {PerMs, MaxWire, MaxUnits} \subseteq Nat \ {0}
    /\ {MaxDecimal, MaxText, MaxScript} \subseteq Nat

VARIABLE argument   \* the arguments of one call

-----------------------------------------------------------------------------
(* Durations *)

Null == -1      \* JSON null; for a lifetime, no expiry

Durations == 0 .. MaxUnits

Least(a, b) == IF a < b THEN a ELSE b

Millis(d) == Least(d \div PerMs, MaxWire)

\* Mutant: zero is filtered out once it is in milliseconds.
TtlValue_TooLate(ttl) == IF ttl = Null \/ Millis(ttl) = 0 THEN Null ELSE Millis(ttl)

\* ttl_value; Null is None here too.
TtlValue(ttl) == IF ttl \in {Null, 0} THEN Null ELSE Millis(ttl)

-----------------------------------------------------------------------------
(* Decimals *)

Signs == {"-", "+"}

Digits(s) == \A i \in DOMAIN s : s[i] = "9"

\* Mutant: digits on neither side of the point will do.
ValidDecimal_Pointed(text) ==
    LET body == IF text # <<>> /\ Head(text) \in Signs THEN Tail(text) ELSE text
        points == {i \in DOMAIN body : body[i] = "."}
        at == CHOOSE i \in points : \A j \in points : i <= j
    IN  IF points = {}
          THEN Digits(body) /\ body # <<>>
          ELSE Digits(SubSeq(body, 1, at - 1)) /\ Digits(SubSeq(body, at + 1, Len(body)))

\* validate_decimal: strip one sign, split at the first point.
ValidDecimal(text) ==
    LET body == IF text # <<>> /\ Head(text) \in Signs THEN Tail(text) ELSE text
        points == {i \in DOMAIN body : body[i] = "."}
        at == CHOOSE i \in points : \A j \in points : i <= j
    IN  IF points = {}
          THEN Digits(body) /\ body # <<>>
          ELSE LET int == SubSeq(body, 1, at - 1)
                   frac == SubSeq(body, at + 1, Len(body))
               IN  /\ Digits(int) /\ Digits(frac)
                   /\ int # <<>> \/ frac # <<>>

-----------------------------------------------------------------------------
(* Scripts.  A text is a sequence of blanks, semicolons, placeholders (marks), *)
(* words and the words of transaction control, "BEGIN" for each of them.     *)

Words == {"blank", "semi", "mark", "word", "BEGIN"}

TrimEnd(s, what) == SubSeq(s, 1, Max({i \in DOMAIN s : s[i] # what} \cup {0}))

Trim(s) == Reverse(TrimEnd(Reverse(TrimEnd(s, "blank")), "blank"))

\* Mutant: the semicolon is looked for before the blanks are gone.
Stripped_Early(sql) == Trim(TrimEnd(sql, "semi"))

\* What build_transaction_script makes of the text of one statement.
Stripped(sql) == Trim(TrimEnd(Trim(sql), "semi"))

\* The first word ends at a blank: a semicolon belongs to it.
FirstIsControl(text) == Head(text) = "BEGIN" /\ (Len(text) = 1 \/ text[2] = "blank")

\* A statement is its text with its parameters.
Accepts(statements) ==
    /\ statements # <<>>
    /\ \A i \in DOMAIN statements :
         LET text == Stripped(statements[i].sql)
         IN  text # <<>> /\ ~FirstIsControl(text)

Script(statements) ==
    FlattenSeq(<<<<"BEGIN">>>> \o [i \in DOMAIN statements |-> <<"semi", "blank">> \o Stripped(statements[i].sql)]
               \o <<<<"semi", "blank", "COMMIT">>>>)

Parameters(statements) == FlattenSeq([i \in DOMAIN statements |-> statements[i].params])

Marks(text) == Cardinality({i \in DOMAIN text : text[i] = "mark"})

\* The server takes a text apart at its semicolons.  A piece is what is between
\* a cut and the next, and is passed over if it is blank.
Cuts(text) == {0} \cup {i \in DOMAIN text : text[i] = "semi"}

NextCut(text, c) == Min({i \in Cuts(text) : i > c} \cup {Len(text) + 1})

PieceAt(text, c) == Trim(SubSeq(text, c + 1, NextCut(text, c) - 1))

Starts(text) == {c \in Cuts(text) : PieceAt(text, c) # <<>>}

Nth(S, k) == CHOOSE x \in S : Cardinality({y \in S : y <= x}) = k

\* It runs one piece after the other, and binds the parameters to the
\* placeholders from left to right.
RunAs(text, params) ==
    [k \in 1 .. Cardinality(Starts(text)) |->
        LET c == Nth(Starts(text), k)
            before == Marks(SubSeq(text, 1, c))
        IN  [text |-> PieceAt(text, c),
             params |-> SubSeq(params, before + 1, before + Marks(PieceAt(text, c)))]]

Statement(sql, n) == [sql |-> sql, params |-> [k \in 1 .. Marks(sql) |-> <<n, k>>]]

\* Texts of one statement, which blanks may surround and semicolons follow.
Texts == {s \in SeqOf(Words, MaxText) : Starts(s) = {0}}

-----------------------------------------------------------------------------
(* Arguments of one call *)

None == [kind |-> "none"]

Lifetimes == [kind : {"lifetime"}, given : Durations \cup {Null}]
Waits == [kind : {"wait"}, given : Durations, longer : Durations]
Decimals == [kind : {"decimal"}, text : SeqOf({"-", "9", ".", "e"}, MaxDecimal)]
Scripts == [kind : {"script"}, texts : SeqOf(Texts, MaxScript)]

ArgumentInit == argument \in {None} \cup Lifetimes \cup Waits \cup Decimals \cup Scripts

-----------------------------------------------------------------------------
(* Properties *)

\* A lifetime that was asked for is never sent as none, nor as longer than it
\* is; None and zero are no expiry; and what a wait, a lease or a deadline is
\* sent as keeps the order, however long they are (ttl_value, millis).
TtlKept ==
    /\ argument.kind = "lifetime" =>
         LET sent == TtlValue(argument.given)
         IN  IF argument.given \in {Null, 0} THEN sent = Null
             ELSE /\ sent # Null
                  /\ sent * PerMs <= argument.given
                  /\ sent = MaxWire \/ argument.given < (sent + 1) * PerMs
    /\ argument.kind = "wait" =>
         /\ Millis(argument.given) \in 0 .. MaxWire
         /\ Millis(argument.given) * PerMs <= argument.given
         /\ argument.given <= argument.longer => Millis(argument.given) <= Millis(argument.longer)

\* A text passes for a decimal exactly when it has a digit, at most one point,
\* a sign nowhere but in front, and nothing else, an exponent least of all
\* (Param::decimal).
DecimalsArePlain ==
    argument.kind = "decimal" =>
        LET text == argument.text
        IN  ValidDecimal(text) <=>
              /\ \E i \in DOMAIN text : text[i] = "9"
              /\ Cardinality({i \in DOMAIN text : text[i] = "."}) <= 1
              /\ \A i \in DOMAIN text : /\ text[i] # "e"
                                        /\ text[i] = "-" => i = 1

\* Statements given one by one, with as many parameters as placeholders, are
\* refused when there is none, or one is a word of transaction control or
\* begins with one and a blank; else they are run once each, in order, with
\* their own parameters, between the BEGIN and the COMMIT of the script and no
\* other (build_transaction_script).
ScriptIsOne ==
    argument.kind = "script" =>
        LET texts == argument.texts
            statements == [n \in DOMAIN texts |-> Statement(texts[n], n)]
            Meant(n) == [text |-> PieceAt(texts[n], 0), params |-> statements[n].params]
            Bracket(word) == <<[text |-> <<word>>, params |-> <<>>]>>
            Control(text) == /\ text[1] = "BEGIN"
                             /\ \/ Len(text) > 1 /\ text[2] = "blank"
                                \/ \A i \in 2 .. Len(text) : text[i] = "semi"
        IN  IF texts = <<>> \/ \E n \in DOMAIN texts : Control(Trim(texts[n]))
              THEN ~Accepts(statements)
              ELSE /\ Accepts(statements)
                   /\ RunAs(Script(statements), Parameters(statements))
                        = Bracket("BEGIN") \o [n \in DOMAIN texts |-> Meant(n)] \o Bracket("COMMIT")
=============================================================================
