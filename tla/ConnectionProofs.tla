-------------------------- MODULE ConnectionProofs --------------------------
(****************************************************************************)
(* A Client never takes one call's answer for another's, however many calls *)
(* it makes and whatever timeouts, cuts and malformed answers happen.       *)
(****************************************************************************)
EXTENDS Connection, SequenceTheorems, TLAPS

\* A reply is awaited only on a sound connection that somebody owns.
ReadsSound == reading => fault = "none" /\ stage # "gone"

IInv == TypeOK /\ ReadsSound /\ OneInFlight /\ Aligned

Frames == [for : Nat, kind : Kinds]

\* Between calls the socket is silent; during one it carries one frame, the
\* call's own or its reply.
LEMMA InFlight ==
    ASSUME TypeOK, ReadsSound, OneInFlight, fault = "none", stage # "gone"
    PROVE  /\ ~reading => toServer = <<>> /\ toClient = <<>>
           /\ toClient # <<>> => /\ reading /\ toServer = <<>>
                                 /\ Head(toClient).for = sent /\ Tail(toClient) = <<>>
                                 /\ Head(toClient) \in Frames
           /\ toServer # <<>> => /\ reading /\ toClient = <<>>
                                 /\ Head(toServer) = sent /\ Tail(toServer) = <<>>
<1> DEFINE m == Len(toServer)
           n == Len(toClient)
<1>1. /\ m \in Nat /\ n \in Nat
      /\ toServer # <<>> => m >= 1
      /\ toClient # <<>> => n >= 1
      /\ m + n <= IF reading THEN 1 ELSE 0
  <2>1. m \in Nat /\ n \in Nat
    BY LenProperties DEF TypeOK
  <2>2. (toServer # <<>> => m \in Nat \ {0}) /\ (toClient # <<>> => n \in Nat \ {0})
    BY EmptySeq DEF TypeOK
  <2>3. m + n <= IF reading THEN 1 ELSE 0
    BY DEF OneInFlight
  <2> HIDE DEF m, n
  <2> QED
    BY <2>1, <2>2, <2>3
<1>2. ~reading => toServer = <<>> /\ toClient = <<>>
  <2> HIDE DEF m, n
  <2> QED
    BY <1>1
<1>3. /\ toServer # <<>> => m = 1 /\ toClient = <<>> /\ reading
      /\ toClient # <<>> => n = 1 /\ toServer = <<>> /\ reading
  <2> HIDE DEF m, n
  <2> QED
    BY <1>1, <1>2
<1>4. ASSUME toClient # <<>>
      PROVE  /\ Head(toClient).for = sent /\ Tail(toClient) = <<>>
             /\ Head(toClient) \in Frames
  <2>1. n = 1 /\ toClient \in Seq(Frames)
    BY <1>3, <1>4 DEF TypeOK, Frames
  <2>2. 1 \in DOMAIN toClient /\ Head(toClient) = toClient[1] /\ Head(toClient) \in Frames
    BY <2>1, <1>4, HeadTailProperties, LenProperties
  <2>3. Len(Tail(toClient)) = 0 /\ Tail(toClient) \in Seq(Frames)
    BY <2>1, <1>4, HeadTailProperties
  <2>4. Tail(toClient) = <<>>
    BY <2>3, EmptySeq
  <2> QED
    BY <2>2, <2>4 DEF OneInFlight
<1>5. ASSUME toServer # <<>>
      PROVE  Head(toServer) = sent /\ Tail(toServer) = <<>>
  <2>1. m = 1 /\ toServer \in Seq(Nat)
    BY <1>3, <1>5 DEF TypeOK
  <2>2. 1 \in DOMAIN toServer /\ Head(toServer) = toServer[1]
    BY <2>1, <1>5, HeadTailProperties, LenProperties
  <2>3. Len(Tail(toServer)) = 0 /\ Tail(toServer) \in Seq(Nat)
    BY <2>1, <1>5, HeadTailProperties
  <2>4. Tail(toServer) = <<>>
    BY <2>3, EmptySeq
  <2> QED
    BY <2>2, <2>4 DEF OneInFlight
<1> QED
  BY <1>2, <1>3, <1>4, <1>5

\* One frame on an empty channel.
LEMMA OneFrame ==
    ASSUME NEW S, NEW c \in S
    PROVE  /\ Append(<<>>, c) \in Seq(S) /\ Len(Append(<<>>, c)) = 1
           /\ \A i \in DOMAIN Append(<<>>, c) : Append(<<>>, c)[i] = c
           /\ <<>> \in Seq(S) /\ Len(<<>>) = 0 /\ DOMAIN <<>> = {}
BY EmptySeq, LenProperties, AppendProperties

-----------------------------------------------------------------------------
\* A call ends with an error of the right type, at the stage it leads to, and
\* nothing is awaited any more.
LEMMA EndedTypes ==
    ASSUME TypeOK, NEW o \in Ops, NEW e \in Errors, NEW x \in Nat, NEW f \in Nat,
           Ended(o, x, e, f)
    PROVE  /\ stage' \in {"hello", "auth", "ready", "gone"}
           /\ reading' = FALSE
           /\ last' \in [op : Ops, exchange : Nat, error : Errors, from : Nat]
           /\ last'.exchange = x /\ last'.from = f
<1>1. NextStage(o, e) \in {"hello", "auth", "ready", "gone"}
  <2>1. CASE o \in Calls
    BY <2>1 DEF NextStage, TypeOK
  <2>2. CASE o \notin Calls /\ e # "none"
    BY <2>2 DEF NextStage
  <2>3. CASE o = "hello" /\ e = "none"
    BY <2>3 DEF NextStage, Calls
  <2>4. CASE o = "auth" /\ e = "none"
    BY <2>4 DEF NextStage, Calls
  <2> QED
    BY <2>1, <2>2, <2>3, <2>4 DEF Ops
<1> QED
  BY <1>1 DEF Ended

\* The answers a call can get end it with one of the errors.
LEMMA ErrorTypes ==
    ASSUME NEW o \in Ops, NEW k \in Kinds
    PROVE  ErrorOf(o, k) \in Errors
<1>1. CASE Breaks(o, k) \/ k = "malformed"
  <2>1. k \notin {"ok", "refused"} /\ (k = "error" => Breaks(o, k))
    BY <1>1 DEF Breaks
  <2> QED
    BY <1>1, <2>1 DEF ErrorOf, Errors, Breaks
<1>2. CASE ~Breaks(o, k) /\ k = "ok"
  BY <1>2 DEF ErrorOf, Errors
<1>3. CASE ~Breaks(o, k) /\ k = "refused"
  BY <1>3 DEF ErrorOf, Errors, RefusalOf
<1>4. CASE ~Breaks(o, k) /\ k = "error"
  BY <1>4 DEF ErrorOf, Errors, RefusalOf
<1> QED
  BY <1>1, <1>2, <1>3, <1>4 DEF Kinds, Breaks

LEMMA InitInv == Init => IInv
<1> SUFFICES ASSUME Init PROVE IInv
  OBVIOUS
<1>1. <<>> \in Seq(Nat) /\ <<>> \in Seq([for : Nat, kind : Kinds]) /\ Len(<<>>) = 0
  BY EmptySeq
<1>2. TypeOK
  BY <1>1 DEF Init, TypeOK, Ops, Errors
<1>3. OneInFlight
  BY <1>1 DEF Init, OneInFlight
<1> QED
  BY <1>2, <1>3 DEF Init, IInv, ReadsSound, Aligned

\* Steps that start a call.
LEMMA CallStep ==
    ASSUME IInv, Call
    PROVE  IInv'
<1> USE DEF IInv
<1>1. PICK o \in Ops : Write(o) \/ RefuseTooLarge(o) \/ WriteFails(o) \/ RefuseFaulted(o)
  BY DEF Call
<1>2. ~reading /\ o \in NextOp /\ op' = o /\ sent' = sent + 1 /\ sent + 1 \in Nat
  BY <1>1 DEF Write, RefuseTooLarge, WriteFails, RefuseFaulted, Start, TypeOK
<1>3. stage # "gone"
  BY <1>2 DEF NextOp, Ops, Calls
<1>4. fault = "none" => toServer = <<>> /\ toClient = <<>>
  BY <1>2, <1>3, InFlight
<1>5. <<>> \in Seq(Nat) /\ Len(<<>>) = 0 /\ DOMAIN <<>> = {}
  BY OneFrame
<1>6. CASE Write(o)
  <2>1. /\ toServer' \in Seq(Nat) /\ Len(toServer') <= 1
        /\ \A i \in DOMAIN toServer' : toServer'[i] = sent + 1
    <3>1. CASE linked
      BY <1>2, <1>4, <1>6, <3>1, OneFrame DEF Write
    <3>2. CASE ~linked
      BY <1>4, <1>5, <1>6, <3>2 DEF Write
    <3> QED
      BY <3>1, <3>2
  <2>2. /\ reading' = TRUE /\ fault = "none" /\ toClient = <<>>
        /\ UNCHANGED <<stage, fault, toClient, linked, last>>
    BY <1>4, <1>6 DEF Write
  <2>3. TypeOK'
    BY <1>2, <2>1, <2>2 DEF TypeOK
  <2>4. OneInFlight'
    <3>1. Len(toServer') + Len(toClient') <= 1
      <4>1. Len(toServer') \in Nat /\ Len(toClient') = 0
        BY <1>5, <2>1, <2>2, LenProperties
      <4> QED
        BY <2>1, <4>1
    <3> QED
      BY <1>2, <1>5, <2>1, <2>2, <3>1 DEF OneInFlight
  <2> QED
    BY <1>3, <2>2, <2>3, <2>4 DEF ReadsSound, Aligned
<1>7. CASE RefuseTooLarge(o)
  <2>1. Ended(o, sent + 1, "Protocol", 0) /\ UNCHANGED <<fault, toServer, toClient, linked>>
        /\ fault = "none"
    BY <1>7 DEF RefuseTooLarge
  <2>2. TypeOK' /\ reading' = FALSE /\ last'.from = 0
    BY <1>2, <2>1, EndedTypes DEF TypeOK, Errors
  <2>3. OneInFlight'
    BY <1>4, <1>5, <2>1, <2>2 DEF OneInFlight
  <2> QED
    BY <2>2, <2>3 DEF ReadsSound, Aligned
<1>8. CASE WriteFails(o)
  <2>1. PICK e \in {"Io", "Timeout"} : Poison(e) /\ Ended(o, sent + 1, e, 0)
    BY <1>8 DEF WriteFails
  <2>2. fault' = e /\ toClient' = toClient /\ fault = "none"
    BY <1>8, <2>1 DEF WriteFails, Poison
  <2>3. e \in Errors /\ sent + 1 \in Nat /\ 0 \in Nat
    BY <1>2 DEF Errors
  <2>4. /\ stage' \in {"hello", "auth", "ready", "gone"} /\ reading' = FALSE
        /\ last' \in [op : Ops, exchange : Nat, error : Errors, from : Nat]
        /\ last'.from = 0
    BY <2>1, <2>3, EndedTypes
  <2>5. TypeOK'
    BY <1>2, <1>5, <2>1, <2>2, <2>3, <2>4 DEF TypeOK, Poison
  <2> QED
    BY <2>2, <2>4, <2>5 DEF ReadsSound, Aligned, OneInFlight
<1>9. CASE RefuseFaulted(o)
  <2>1. Ended(o, sent + 1, "Closed", 0) /\ UNCHANGED <<fault, toServer, toClient, linked>>
        /\ fault # "none"
    BY <1>9 DEF RefuseFaulted
  <2>2. TypeOK' /\ reading' = FALSE /\ last'.from = 0
    BY <1>2, <2>1, EndedTypes, ZenonT(60) DEF TypeOK, Errors
  <2> QED
    BY <2>1, <2>2 DEF ReadsSound, Aligned, OneInFlight
<1> QED
  BY <1>1, <1>6, <1>7, <1>8, <1>9

\* Steps that end one.
LEMMA ReadStep ==
    ASSUME IInv, Read
    PROVE  IInv'
<1> USE DEF IInv
<1>1. reading /\ fault = "none" /\ stage # "gone" /\ op' = op /\ sent' = sent
  BY DEF Read, ReadReply, ReadFails, ReadTimesOut, ReadsSound
<1>2. <<>> \in Seq(Nat) /\ <<>> \in Seq([for : Nat, kind : Kinds])
      /\ Len(<<>>) = 0 /\ DOMAIN <<>> = {}
  BY EmptySeq, OneFrame
<1>3. CASE ReadReply
  <2> DEFINE reply == Head(toClient)
             error == ErrorOf(op, reply.kind)
  <2>1. /\ toServer = <<>> /\ Tail(toClient) = <<>>
        /\ reply.for = sent /\ reply \in Frames
    BY <1>1, <1>3, InFlight DEF ReadReply
  <2>2. /\ Ended(op, sent, error, reply.for) /\ toClient' = <<>>
        /\ Poison(error) \/ UNCHANGED <<fault, linked, toServer>>
    BY <1>3, <2>1 DEF ReadReply
  <2>3. error \in Errors /\ reply.for \in Nat /\ sent \in Nat /\ op \in Ops
    BY <2>1, ErrorTypes DEF Frames, TypeOK
  <2> HIDE DEF reply, error
  <2>4. toServer' = <<>> /\ fault' \in Errors /\ linked' \in BOOLEAN
    BY <2>1, <2>2, <2>3 DEF Poison, TypeOK
  <2>5. TypeOK' /\ reading' = FALSE /\ last'.from = sent /\ last'.exchange = sent
    BY <1>1, <1>2, <2>1, <2>2, <2>3, <2>4, EndedTypes DEF TypeOK
  <2>6. OneInFlight'
    BY <1>2, <2>2, <2>4, <2>5 DEF OneInFlight
  <2> QED
    BY <2>5, <2>6 DEF ReadsSound, Aligned
<1>4. CASE ReadFails \/ ReadTimesOut
  <2>1. PICK e \in {"Io", "Timeout"} : Poison(e) /\ Ended(op, sent, e, 0) /\ toClient' = toClient
    BY <1>4 DEF ReadFails, ReadTimesOut
  <2>2. fault' = e
    BY <1>1, <2>1 DEF Poison
  <2>3. e \in Errors /\ sent \in Nat /\ op \in Ops /\ 0 \in Nat
    BY DEF Errors, TypeOK
  <2>4. /\ stage' \in {"hello", "auth", "ready", "gone"} /\ reading' = FALSE
        /\ last' \in [op : Ops, exchange : Nat, error : Errors, from : Nat]
        /\ last'.from = 0
    BY <2>1, <2>3, EndedTypes
  <2>5. TypeOK'
    BY <1>1, <1>2, <2>1, <2>2, <2>3, <2>4 DEF TypeOK, Poison
  <2> QED
    BY <2>2, <2>4, <2>5 DEF ReadsSound, Aligned, OneInFlight
<1> QED
  BY <1>3, <1>4 DEF Read

\* Steps of the server, of the network, and the goodbye.
LEMMA OtherStep ==
    ASSUME IInv, CloseClient \/ Serve \/ Cut \/ UNCHANGED vars
    PROVE  IInv'
<1> USE DEF IInv
<1>1. <<>> \in Seq(Nat) /\ <<>> \in Seq([for : Nat, kind : Kinds])
      /\ Len(<<>>) = 0 /\ DOMAIN <<>> = {}
  BY EmptySeq, OneFrame
<1>2. CASE CloseClient
  BY <1>1, <1>2 DEF CloseClient, TypeOK, ReadsSound, Aligned, OneInFlight
<1>3. CASE Serve
  <2>1. PICK k \in Kinds : toClient' = Append(toClient, [for |-> Head(toServer), kind |-> k])
    BY <1>3 DEF Serve, AnswersTo
  <2>2. /\ toServer # <<>> /\ toServer' = Tail(toServer)
        /\ UNCHANGED <<stage, op, reading, sent, fault, linked, last>>
    BY <1>3 DEF Serve
  <2>3. Head(toServer) \in Nat /\ Tail(toServer) \in Seq(Nat)
    BY <2>2, HeadTailProperties DEF TypeOK
  <2>4. [for |-> Head(toServer), kind |-> k] \in Frames
    BY <2>3 DEF Frames
  <2>5. toClient' \in Seq(Frames)
    BY <2>1, <2>4, AppendProperties DEF TypeOK, Frames
  <2>6. TypeOK'
    BY <2>2, <2>3, <2>5 DEF TypeOK, Frames
  <2>7. OneInFlight'
    <3>1. CASE fault = "none" /\ stage # "gone"
      <4>1. reading /\ toClient = <<>> /\ Head(toServer) = sent /\ Tail(toServer) = <<>>
        BY <2>2, <3>1, InFlight
      <4>2. /\ Len(toClient') = 1
            /\ \A i \in DOMAIN toClient' : toClient'[i] = [for |-> Head(toServer), kind |-> k]
        BY <2>1, <2>4, <4>1, OneFrame
      <4> QED
        BY <1>1, <2>2, <4>1, <4>2 DEF OneInFlight
    <3> QED
      BY <2>2, <3>1 DEF OneInFlight
  <2> QED
    BY <2>2, <2>6, <2>7 DEF ReadsSound, Aligned
<1>4. CASE Cut
  <2>1. /\ toServer' = <<>> /\ (toClient' = <<>> \/ toClient' = toClient) /\ linked' = FALSE
        /\ UNCHANGED <<stage, op, reading, sent, fault, last>>
    BY <1>4 DEF Cut
  <2>2. TypeOK'
    BY <1>1, <2>1 DEF TypeOK
  <2>3. OneInFlight'
    <3>1. CASE fault = "none" /\ stage # "gone"
      <4>1. /\ ~reading => toClient = <<>>
            /\ Len(toClient) \in Nat /\ Len(toServer) \in Nat
            /\ Len(toServer) + Len(toClient) <= IF reading THEN 1 ELSE 0
        BY <3>1, InFlight, LenProperties DEF OneInFlight, TypeOK
      <4>2. Len(toServer') + Len(toClient') <= IF reading THEN 1 ELSE 0
        BY <1>1, <2>1, <4>1
      <4> QED
        BY <1>1, <2>1, <3>1, <4>2 DEF OneInFlight
    <3> QED
      BY <2>1, <3>1 DEF OneInFlight
  <2> QED
    BY <2>1, <2>2, <2>3 DEF ReadsSound, Aligned
<1>5. CASE UNCHANGED vars
  BY <1>5 DEF vars, TypeOK, ReadsSound, Aligned, OneInFlight
<1> QED
  BY <1>2, <1>3, <1>4, <1>5

-----------------------------------------------------------------------------
THEOREM ConnectionInvariant == Spec => []IInv
<1>1. IInv /\ [Next]_vars => IInv'
  BY CallStep, ReadStep, OtherStep DEF Next
<1> QED
  BY <1>1, InitInv, PTL DEF Spec

\* Every variable keeps its type.
THEOREM ConnectionTypes == Spec => []TypeOK
<1>1. IInv => TypeOK
  BY DEF IInv
<1> QED
  BY <1>1, ConnectionInvariant, PTL

\* Every answer handed to a call answers that call (client.rs:503-541).
THEOREM ConnectionAligned == Spec => []Aligned
<1>1. IInv => Aligned
  BY DEF IInv
<1> QED
  BY <1>1, ConnectionInvariant, PTL

\* A sound connection carries nothing between calls (client.rs:503-541).
THEOREM ConnectionOneInFlight == Spec => []OneInFlight
<1>1. IInv => OneInFlight
  BY DEF IInv
<1> QED
  BY <1>1, ConnectionInvariant, PTL

\* A poisoned connection answers Closed for ever and sends nothing
\* (client.rs:503-516, 533-541).
THEOREM ConnectionPoisonIsFinal == Spec => PoisonIsFinal
<1> DEFINE Final == /\ fault' = fault
                    /\ Len(toServer') <= Len(toServer)
                    /\ last' # last => last'.error = "Closed"
<1>1. ASSUME IInv, [Next]_vars, fault # "none"
      PROVE  Final
  <2> USE DEF IInv
  <2>1. Len(toServer) \in Nat /\ ~reading
    BY <1>1, LenProperties DEF TypeOK, ReadsSound
  <2>2. CASE Call
    BY <1>1, <2>1, <2>2 DEF Call, Write, RefuseTooLarge, WriteFails, RefuseFaulted, Ended
  <2>3. CASE Read
    BY <2>1, <2>3 DEF Read, ReadReply, ReadFails, ReadTimesOut
  <2>4. CASE CloseClient \/ Cut
    <3>1. Len(<<>>) = 0
      BY EmptySeq
    <3> QED
      BY <2>1, <2>4, <3>1 DEF CloseClient, Cut
  <2>5. CASE Serve
    <3>1. Len(Tail(toServer)) = Len(toServer) - 1
      BY <2>5, HeadTailProperties DEF Serve, TypeOK
    <3> QED
      BY <2>1, <2>5, <3>1 DEF Serve
  <2>6. CASE UNCHANGED vars
    BY <2>1, <2>6 DEF vars
  <2> QED
    BY <1>1, <2>2, <2>3, <2>4, <2>5, <2>6 DEF Next
<1>2. IInv /\ [Next]_vars => [fault # "none" => Final]_vars
  BY <1>1
<1> QED
  BY <1>2, ConnectionInvariant, PTL DEF Spec, PoisonIsFinal
=============================================================================
