----------------------------- MODULE CallsProofs -----------------------------
(****************************************************************************)
(* What holds of Calls for every table of operations and any numbers of     *)
(* nodes, transaction ids and writes.                                       *)
(****************************************************************************)
EXTENDS Calls, TLAPS

\* The write of the call in flight was meant for what its request names.
WriteTied ==
    call # Idle =>
        /\ call.effect \in Writing => call.write \in 1 .. MaxWrites
        /\ call.effect \notin Writing => call.write = 0
        /\ call.effect \in Writing =>
             /\ writes[call.write].told = "pending"
             /\ writes[call.write].meant = IF call.effect = "join" THEN call.txn ELSE NoTxn

\* The client names the transaction its caller is in, and will once the end in
\* flight is over.
NamesInside ==
    inside = IF call.effect \in Ending THEN Forgotten(call.txn) ELSE requestTxn

\* The end in flight is the one its caller asked for, and is not told yet.
EndTied ==
    call.effect \in Ending =>
        /\ call.txn \in Ids
        /\ ends[call.txn].asked = call.effect

\* A transaction that was given or whose end was asked for was begun, and one
\* is ended once.
Once ==
    \A t \in Ids :
        /\ t \in given => ends[t].asked = "none" /\ txns[t].state # "unused"
        /\ ends[t].asked = "none" => ends[t].told = "pending"
        /\ ends[t].asked # "none" => txns[t].state # "unused"

IInv ==
    /\ TypeOK
    /\ WriteTied
    /\ NamesInside
    /\ EndTied
    /\ Once
    /\ WriteGoesWhereMeant
    /\ ToldTruth
    /\ EndIsTrue

-----------------------------------------------------------------------------
(* The operators of the model *)

LEMMA ShapeType ==
    ASSUME NEW shape \in Shapes
    PROVE  shape.effect \in Effects /\ shape.reads \in DOMAIN Takes
<1>1. PICK row \in Rows : shape = [effect |-> row.effect, refuses |-> row.refuses, reads |-> row.reads]
  BY DEF Shapes
<1>2. IsOperation(row)
  BY CallsAssumption
<1> QED BY <1>1, <1>2 DEF IsOperation

LEMMA ReadType ==
    ASSUME NEW reads, NEW body
    PROVE  Read(reads, body) \in {"answered", "unclear"}
BY DEF Read

LEMMA ForgottenType ==
    ASSUME TypeOK, NEW t \in Ids
    PROVE  Forgotten(t) \in Ids \cup {NoTxn} /\ Forgotten(t) # t
BY CallsAssumption DEF Forgotten, TypeOK

\* A history with the fate of one write replaced.
LEMMA FatePut ==
    ASSUME TypeOK, NEW w \in 1 .. MaxWrites, NEW fate \in Fates,
           writes' = [writes EXCEPT ![w] = fate]
    PROVE  /\ writes' \in [1 .. MaxWrites -> Fates]
           /\ writes'[w] = fate
           /\ \A v \in 1 .. MaxWrites : v # w => writes'[v] = writes[v]
BY DEF TypeOK

LEMMA IdleIsNoCall == Idle \notin Sent /\ Idle.effect = "none"
BY DEF Idle, Sent, Effects

\* A step that only marks writes that went nowhere breaks no property.
LEMMA WritesKept ==
    ASSUME WriteGoesWhereMeant, ToldTruth, EndIsTrue,
           writes \in [1 .. MaxWrites -> Fates], writes' \in [1 .. MaxWrites -> Fates],
           UNCHANGED <<requestTxn, poisoned, txns, ends>>,
           \A v \in 1 .. MaxWrites :
              \/ writes'[v] = writes[v]
              \/ writes'[v].told \in {"pending", "unsent"} /\ writes'[v].went = "no"
    PROVE  WriteGoesWhereMeant' /\ ToldTruth' /\ EndIsTrue'
<1>1. DOMAIN writes = 1 .. MaxWrites /\ DOMAIN writes' = 1 .. MaxWrites
  OBVIOUS
<1>2. WriteGoesWhereMeant'
  BY <1>1 DEF WriteGoesWhereMeant
<1>3. ToldTruth'
  BY <1>1 DEF ToldTruth
<1>4. ASSUME NEW t \in Ids
      PROVE  EndIsTrue!(t)'
  <2>1. EndIsTrue!(t)
    BY DEF EndIsTrue
  <2>2. \A v \in 1 .. MaxWrites : writes'[v].told = "answered" => writes'[v] = writes[v]
    OBVIOUS
  <2> QED BY <1>1, <2>1, <2>2
<1> QED BY <1>2, <1>3, <1>4 DEF EndIsTrue

-----------------------------------------------------------------------------
(* The invariant holds at first *)

LEMMA InitIInv == Init => IInv
<1> SUFFICES ASSUME Init PROVE IInv
  OBVIOUS
<1> USE CallsAssumption
<1>1. TypeOK
  <2>1. call \in Sent \cup {Idle}
    BY DEF Init
  <2>2. txns \in [Ids -> [state : {"unused", "open", "committed", "over"}, node : Nodes]]
    BY DEF Init
  <2>3. writes \in [1 .. MaxWrites -> Fates]
    BY DEF Init, Fates
  <2>4. ends \in [Ids -> [asked : Ending \cup {"none"}, told : Tellings]]
    BY DEF Init, Tellings
  <2> QED BY <2>1, <2>2, <2>3, <2>4 DEF Init, TypeOK
<1>2. WriteTied /\ NamesInside /\ EndTied /\ Once
  BY DEF Init, WriteTied, NamesInside, EndTied, Once, Idle, Ending
<1>3. WriteGoesWhereMeant /\ ToldTruth /\ EndIsTrue
  BY DEF Init, WriteGoesWhereMeant, ToldTruth, EndIsTrue
<1> QED BY <1>1, <1>2, <1>3 DEF IInv

-----------------------------------------------------------------------------
(* The steps of the client *)

LEMMA AskSafe ==
    ASSUME IInv, NEW shape \in Shapes, Ask(shape)
    PROVE  IInv'
<1> USE CallsAssumption
<1>0. shape.effect \in Effects /\ shape.reads \in DOMAIN Takes
  BY ShapeType
<1>1. PICK w \in 0 .. MaxWrites :
        /\ IF shape.effect \in Writing THEN NextWrite(w) ELSE w = 0
        /\ call' = [effect |-> shape.effect, reads |-> shape.reads, txn |-> Named(shape), write |-> w]
        /\ writes' = IF w = 0 THEN writes
                     ELSE [writes EXCEPT ![w] = Fate(MeantBy(shape), "no", "pending")]
  BY DEF Ask
<1>2. /\ call = Idle /\ call.effect = "none" /\ shape.effect \notin Ending
      /\ UNCHANGED <<requestTxn, poisoned, node, txns, given, inside, ends>>
  BY DEF Ask, Ready, client, caller, Idle
<1>3. TypeOK /\ inside = requestTxn
  BY <1>2 DEF IInv, NamesInside, Ending
<1>4. Named(shape) \in Ids \cup {NoTxn} /\ MeantBy(shape) \in Ids \cup {NoTxn}
  BY <1>3 DEF TypeOK, Named, MeantBy
<1>5. shape.effect \in Writing => MeantBy(shape) = IF shape.effect = "join" THEN Named(shape) ELSE NoTxn
  BY <1>3 DEF MeantBy, Named
<1>6. shape.effect \in Writing => w \in 1 .. MaxWrites
  BY <1>1 DEF NextWrite
<1>7. call' # Idle /\ call'.effect = shape.effect /\ call'.txn = Named(shape) /\ call'.write = w
  <2>1. call'.effect = shape.effect /\ call'.txn = Named(shape) /\ call'.write = w
    BY <1>1
  <2> QED BY <2>1, <1>0 DEF Idle, Effects
<1>8. /\ writes' \in [1 .. MaxWrites -> Fates]
      /\ w # 0 => writes'[w].meant = MeantBy(shape) /\ writes'[w].told = "pending"
      /\ \A v \in 1 .. MaxWrites :
           \/ writes'[v] = writes[v]
           \/ writes'[v].told = "pending" /\ writes'[v].went = "no"
  <2>0. writes \in [1 .. MaxWrites -> Fates]
    BY <1>3 DEF TypeOK
  <2>1. CASE w = 0
    BY <2>0, <2>1, <1>1
  <2>2. CASE w # 0
    <3>1. "no" \in Ids \cup {"no", "direct"} /\ "pending" \in Tellings \cup {"unasked"}
      BY DEF Tellings
    <3>2. w \in 1 .. MaxWrites /\ writes' = [writes EXCEPT ![w] = Fate(MeantBy(shape), "no", "pending")]
      BY <2>2, <1>1
    <3>3. /\ Fate(MeantBy(shape), "no", "pending") \in Fates
          /\ Fate(MeantBy(shape), "no", "pending").meant = MeantBy(shape)
          /\ Fate(MeantBy(shape), "no", "pending").went = "no"
          /\ Fate(MeantBy(shape), "no", "pending").told = "pending"
      BY <1>4, <3>1 DEF Fate, Fates
    <3> QED BY <1>3, <3>2, <3>3, FatePut
  <2> QED BY <2>1, <2>2
<1>9. TypeOK'
  <2>1. call' \in Sent
    BY <1>0, <1>1, <1>4 DEF Sent
  <2> QED BY <2>1, <1>8, <1>2, <1>3 DEF TypeOK
<1>10. WriteTied'
  <2>1. CASE shape.effect \in Writing
    BY <2>1, <1>5, <1>6, <1>7, <1>8 DEF WriteTied
  <2>2. CASE shape.effect \notin Writing
    BY <2>2, <1>1, <1>7 DEF WriteTied
  <2> QED BY <2>1, <2>2
<1>11. NamesInside' /\ EndTied' /\ Once'
  BY <1>2, <1>3, <1>7 DEF IInv, NamesInside, EndTied, Once
<1>12. WriteGoesWhereMeant' /\ ToldTruth' /\ EndIsTrue'
  <2>1. writes \in [1 .. MaxWrites -> Fates]
    BY <1>3 DEF TypeOK
  <2> QED BY <1>2, <1>8, <2>1, WritesKept DEF IInv
<1> QED BY <1>9, <1>10, <1>11, <1>12 DEF IInv

LEMMA RefuseHereSafe ==
    ASSUME IInv, NEW shape \in Shapes, RefuseHere(shape)
    PROVE  IInv'
<1> USE CallsAssumption
<1>1. PICK w \in 1 .. MaxWrites :
        writes' = [writes EXCEPT ![w] = Fate(MeantBy(shape), "no", "unsent")]
  BY DEF RefuseHere
<1>2. /\ call = Idle /\ UNCHANGED <<requestTxn, poisoned, node, call, txns, given, inside, ends>>
  BY DEF RefuseHere, Ready, client, caller
<1>3. TypeOK /\ writes \in [1 .. MaxWrites -> Fates]
  BY DEF IInv, TypeOK
<1>4. /\ writes' \in [1 .. MaxWrites -> Fates]
      /\ writes'[w].went = "no" /\ writes'[w].told = "unsent"
      /\ \A v \in 1 .. MaxWrites : v # w => writes'[v] = writes[v]
  <2>1. MeantBy(shape) \in Ids \cup {NoTxn}
    BY <1>3 DEF MeantBy, TypeOK
  <2>2. "no" \in Ids \cup {"no", "direct"} /\ "unsent" \in Tellings \cup {"unasked"}
    BY DEF Tellings
  <2>3. /\ Fate(MeantBy(shape), "no", "unsent") \in Fates
        /\ Fate(MeantBy(shape), "no", "unsent").went = "no"
        /\ Fate(MeantBy(shape), "no", "unsent").told = "unsent"
    BY <2>1, <2>2 DEF Fate, Fates
  <2> QED BY <1>1, <1>3, <2>3, FatePut
<1>5. TypeOK'
  BY <1>2, <1>3, <1>4 DEF TypeOK
<1>6. WriteTied' /\ NamesInside' /\ EndTied' /\ Once'
  BY <1>2 DEF IInv, WriteTied, NamesInside, EndTied, Once, Forgotten
<1>7. WriteGoesWhereMeant' /\ ToldTruth' /\ EndIsTrue'
  BY <1>2, <1>3, <1>4, WritesKept DEF IInv
<1> QED BY <1>5, <1>6, <1>7 DEF IInv

LEMMA AskEndSafe ==
    ASSUME IInv, NEW shape \in Shapes, NEW t \in Ids, AskEnd(shape, t)
    PROVE  IInv'
<1> USE CallsAssumption
<1>0. shape.effect \in Effects /\ shape.reads \in DOMAIN Takes
  BY ShapeType
<1>1. /\ call = Idle /\ call.effect = "none" /\ shape.effect \in Ending /\ t \in given
      /\ call' = [effect |-> shape.effect, reads |-> shape.reads, txn |-> t, write |-> 0]
      /\ given' = given \ {t}
      /\ inside' = IF inside = t THEN NoTxn ELSE inside
      /\ ends' = [ends EXCEPT ![t].asked = shape.effect]
      /\ UNCHANGED <<requestTxn, poisoned, node, txns, writes>>
  BY DEF AskEnd, Ready, client, Idle
<1>2. TypeOK /\ inside = requestTxn
  BY <1>1 DEF IInv, NamesInside, Ending
<1>3. call' \in Sent /\ call'.effect = shape.effect /\ call'.txn = t /\ call'.write = 0
  <2>1. call'.effect = shape.effect /\ call'.txn = t /\ call'.write = 0
    BY <1>1
  <2> QED BY <2>1, <1>0, <1>1 DEF Sent
<1>4. ends[t].asked = "none" /\ ends[t].told = "pending" /\ txns[t].state # "unused"
  BY <1>1 DEF IInv, Once
<1>5. /\ ends' \in [Ids -> [asked : Ending \cup {"none"}, told : Tellings]]
      /\ ends'[t].asked = shape.effect /\ ends'[t].told = "pending"
      /\ \A u \in Ids : u # t => ends'[u] = ends[u]
  BY <1>1, <1>2, <1>4 DEF TypeOK
<1>6. TypeOK'
  BY <1>1, <1>2, <1>3, <1>5 DEF TypeOK
<1>7. WriteTied' /\ EndTied'
  BY <1>1, <1>3, <1>5 DEF WriteTied, EndTied, Writing, Ending
<1>8. NamesInside'
  BY <1>1, <1>2, <1>3 DEF NamesInside, Forgotten
<1>9. Once'
  <2>1. shape.effect # "none"
    BY <1>1 DEF Ending
  <2> QED BY <1>1, <1>4, <1>5, <2>1 DEF IInv, Once
<1>10. WriteGoesWhereMeant' /\ ToldTruth'
  BY <1>1 DEF IInv, WriteGoesWhereMeant, ToldTruth
<1>11. ASSUME NEW u \in Ids
       PROVE  EndIsTrue!(u)'
  <2>1. EndIsTrue!(u)
    BY DEF IInv, EndIsTrue
  <2>2. CASE u = t
    BY <2>1, <2>2, <1>1, <1>4, <1>5
  <2>3. CASE u # t
    BY <2>1, <2>3, <1>1, <1>5
  <2> QED BY <2>2, <2>3
<1> QED BY <1>6, <1>7, <1>8, <1>9, <1>10, <1>11 DEF IInv, EndIsTrue

LEMMA SetRequestTxnSafe ==
    ASSUME IInv, NEW t \in Ids \cup {EmptyId, NoTxn}, SetRequestTxn(t)
    PROVE  IInv'
<1> USE CallsAssumption
<1>1. /\ call = Idle /\ call.effect = "none"
      /\ t \in given \cup {EmptyId, NoTxn}
      /\ requestTxn' = IF t = EmptyId THEN NoTxn ELSE t
      /\ inside' = IF t \in given THEN t ELSE NoTxn
      /\ UNCHANGED <<poisoned, node, call, txns, given, writes, ends>>
  BY DEF SetRequestTxn, Ready, Idle
<1>2. TypeOK /\ given \subseteq Ids
  BY DEF IInv, TypeOK
<1>3. requestTxn' = inside' /\ requestTxn' \in given \cup {NoTxn}
  BY <1>1, <1>2
<1>4. TypeOK'
  BY <1>1, <1>2, <1>3 DEF TypeOK
<1>5. WriteTied' /\ EndTied' /\ Once'
  BY <1>1 DEF IInv, WriteTied, EndTied, Once
<1>6. NamesInside'
  BY <1>1, <1>3 DEF NamesInside, Ending
<1>7. WriteGoesWhereMeant' /\ ToldTruth'
  BY <1>1 DEF IInv, WriteGoesWhereMeant, ToldTruth
<1>8. ASSUME NEW u \in Ids
      PROVE  EndIsTrue!(u)'
  <2>1. EndIsTrue!(u)
    BY DEF IInv, EndIsTrue
  <2>2. u \in given => ends[u].told = "pending"
    BY DEF IInv, Once
  <2>3. ends'[u].told # "pending" => requestTxn' # u
    BY <1>1, <1>3, <2>2
  <2> QED BY <1>1, <2>1, <2>3
<1> QED BY <1>4, <1>5, <1>6, <1>7, <1>8 DEF IInv, EndIsTrue

-----------------------------------------------------------------------------
(* The call returns *)

\* What a step that returns must see to: the write went where it belongs when
\* it was answered and nowhere when it was refused, a lost answer poisons the
\* client, and only the transaction of the call may have ended, committed if
\* its commit was answered.
LEMMA ReturnSafe ==
    ASSUME IInv, call # Idle, NEW went \in {"no", Went},
           NEW what \in {"refused", "answered", "unclear", "lost"},
           what = "refused" => went = "no",
           what = "answered" => went = Went,
           what = "lost" => poisoned',
           poisoned' \in BOOLEAN, poisoned => poisoned',
           Return(went, what),
           UNCHANGED <<node, given, inside>>,
           txns' \in [Ids -> [state : {"unused", "open", "committed", "over"}, node : Nodes]],
           \A t \in Ids :
              \/ txns'[t] = txns[t]
              \/ /\ call.effect \in Ending /\ t = call.txn
                 /\ txns'[t].state \in {"committed", "over"}
                 /\ txns'[t].state = "committed" => call.effect = "commit",
           call.effect = "commit" /\ what = "answered"
              => txns'[call.txn].state = "committed"
    PROVE  IInv'
<1> USE CallsAssumption
<1>1. TypeOK /\ call \in Sent
  BY DEF IInv, TypeOK
<1>2. /\ requestTxn' = IF call.effect \in Ending THEN Forgotten(call.txn) ELSE requestTxn
      /\ writes' = IF call.write = 0 THEN writes
                   ELSE [writes EXCEPT ![call.write] = Fate(writes[call.write].meant, went, what)]
      /\ ends' = IF call.effect \notin Ending THEN ends
                 ELSE [ends EXCEPT ![call.txn] = [asked |-> call.effect, told |-> what]]
      /\ call' = Idle
  BY DEF Return
<1>3. call.effect \in Ending => call.txn \in Ids /\ ends[call.txn].asked = call.effect
  BY DEF IInv, EndTied
<1>4. /\ requestTxn' \in Ids \cup {NoTxn}
      /\ requestTxn' \in {requestTxn, NoTxn}
      /\ call.effect \in Ending => requestTxn' # call.txn
  BY <1>1, <1>2, <1>3 DEF TypeOK, Forgotten
<1>5. /\ writes' \in [1 .. MaxWrites -> Fates]
      /\ \A v \in 1 .. MaxWrites :
           \/ writes'[v] = writes[v]
           \/ /\ writes'[v].meant = writes[v].meant /\ writes'[v].told = what /\ writes'[v].went = went
              /\ Went = IF writes[v].meant = NoTxn THEN "direct" ELSE writes[v].meant
  <2>1. writes \in [1 .. MaxWrites -> Fates]
    BY <1>1 DEF TypeOK
  <2>2. CASE call.write = 0
    BY <1>2, <2>1, <2>2
  <2>3. CASE call.write # 0
    <3> DEFINE w == call.write
    <3>1. /\ w \in 1 .. MaxWrites
          /\ writes[w].meant = IF call.effect = "join" THEN call.txn ELSE NoTxn
      BY <2>3 DEF IInv, WriteTied
    <3>2. Went = IF writes[w].meant = NoTxn THEN "direct" ELSE writes[w].meant
      BY <3>1 DEF Went
    <3>3. writes[w].meant \in Ids \cup {NoTxn} /\ Went \in Ids \cup {"no", "direct"}
      BY <2>1, <3>1, <3>2 DEF Fates
    <3>4. what \in Tellings \cup {"unasked"} /\ went \in Ids \cup {"no", "direct"}
      BY <3>3 DEF Tellings
    <3>5. /\ Fate(writes[w].meant, went, what) \in Fates
          /\ Fate(writes[w].meant, went, what).meant = writes[w].meant
          /\ Fate(writes[w].meant, went, what).went = went
          /\ Fate(writes[w].meant, went, what).told = what
      BY <3>3, <3>4 DEF Fate, Fates
    <3>6. writes' = [writes EXCEPT ![w] = Fate(writes[w].meant, went, what)]
      BY <1>2, <2>3
    <3> HIDE DEF w
    <3> QED BY <1>1, <3>1, <3>2, <3>5, <3>6, FatePut
  <2> QED BY <2>2, <2>3
<1>6. /\ ends' \in [Ids -> [asked : Ending \cup {"none"}, told : Tellings]]
      /\ \A t \in Ids :
           \/ ends'[t] = ends[t] /\ (call.effect \in Ending => t # call.txn)
           \/ /\ call.effect \in Ending /\ t = call.txn
              /\ ends'[t].asked = ends[t].asked /\ ends'[t].asked = call.effect /\ ends'[t].told = what
  <2>1. ends \in [Ids -> [asked : Ending \cup {"none"}, told : Tellings]]
    BY <1>1 DEF TypeOK
  <2>2. what \in Tellings
    BY DEF Tellings
  <2> QED BY <1>2, <1>3, <2>1, <2>2
<1>7. TypeOK'
  BY <1>1, <1>2, <1>4, <1>5, <1>6 DEF TypeOK
<1>8. WriteTied' /\ EndTied'
  BY <1>2, IdleIsNoCall DEF WriteTied, EndTied, Ending
<1>9. NamesInside'
  BY <1>2, IdleIsNoCall DEF IInv, NamesInside, Ending
<1>10. Once'
  <2>1. call.effect \in Ending => call.effect # "none"
    BY DEF Ending
  <2> QED BY <1>1, <1>3, <1>6, <2>1 DEF IInv, Once, TypeOK
<1>11. DOMAIN writes = 1 .. MaxWrites /\ DOMAIN writes' = 1 .. MaxWrites
  BY <1>1, <1>5 DEF TypeOK
<1>12. WriteGoesWhereMeant'
  BY <1>5, <1>11 DEF IInv, WriteGoesWhereMeant
<1>13. ToldTruth'
  <2>1. Went # "no"
    BY <1>1 DEF Went, Sent
  <2> QED BY <1>5, <1>11, <2>1 DEF IInv, ToldTruth
<1>14. ASSUME NEW t \in Ids
       PROVE  EndIsTrue!(t)'
  <2>1. EndIsTrue!(t)
    BY DEF IInv, EndIsTrue
  <2>2. \A w \in DOMAIN writes' : writes'[w].meant = t /\ writes'[w].told = "answered"
                                   => writes'[w].went = t
    BY <1>12, <1>13 DEF WriteGoesWhereMeant, ToldTruth
  <2>3. CASE call.effect \in Ending /\ t = call.txn
    <3>1. ends'[t].asked = call.effect /\ ends'[t].told = what /\ ends[t].asked = call.effect
      BY <1>6, <2>3
    <3>2. txns'[t].state = "committed" => ends'[t].asked = "commit"
      BY <2>1, <2>3, <3>1
    <3>3. requestTxn' # t
      BY <1>4, <2>3
    <3> QED BY <2>2, <2>3, <3>1, <3>2, <3>3
  <2>4. CASE ~(call.effect \in Ending /\ t = call.txn)
    <3>1. ends'[t] = ends[t] /\ txns'[t] = txns[t]
      BY <1>6, <2>4
    <3>2. requestTxn' = requestTxn \/ requestTxn' # t
      BY <1>4
    <3> QED BY <2>1, <2>2, <3>1, <3>2
  <2> QED BY <2>3, <2>4
<1> QED BY <1>7, <1>8, <1>9, <1>10, <1>12, <1>13, <1>14 DEF IInv, EndIsTrue

LEMMA AfterType ==
    ASSUME TypeOK, call # Idle
    PROVE  /\ TxnsAfter \in [Ids -> [state : {"unused", "open", "committed", "over"}, node : Nodes]]
           /\ \A t \in Ids :
                \/ TxnsAfter[t] = txns[t]
                \/ /\ call.effect \in Ending /\ t = call.txn
                   /\ TxnsAfter[t].state = IF call.effect = "commit" THEN "committed" ELSE "over"
           /\ call.effect = "commit" /\ call.txn \in Ids => TxnsAfter[call.txn].state = "committed"
<1>1. /\ node \in Nodes
      /\ txns \in [Ids -> [state : {"unused", "open", "committed", "over"}, node : Nodes]]
  BY DEF TypeOK
<1>2. CASE call.effect = "commit"
  BY <1>1, <1>2 DEF TxnsAfter, After, Ending
<1>3. CASE call.effect = "rollback"
  BY <1>1, <1>3 DEF TxnsAfter, After, Ending
<1>4. CASE call.effect \notin {"commit", "rollback"}
  BY <1>1, <1>4 DEF TxnsAfter
<1> QED BY <1>2, <1>3, <1>4

LEMMA ExecutedSafe ==
    ASSUME IInv, NEW body \in Bodies, Executed(body)
    PROVE  IInv'
<1> DEFINE what == Read(call.reads, body)
<1>1. /\ call # Idle /\ txns' = TxnsAfter /\ Return(Went, what)
      /\ UNCHANGED <<poisoned, node, given, inside>>
  BY DEF Executed, MayRun, caller
<1>2. what \in {"answered", "unclear"}
  BY ReadType
<1>3. TypeOK /\ poisoned \in BOOLEAN
  BY DEF IInv, TypeOK
<1>4. call.effect = "commit" => call.txn \in Ids
  BY DEF IInv, EndTied, Ending
<1> HIDE DEF what
<1> QED BY <1>1, <1>2, <1>3, <1>4, AfterType, ReturnSafe

LEMMA LostSafe ==
    ASSUME IInv, NEW executed \in BOOLEAN, Lost(executed)
    PROVE  IInv'
<1> DEFINE went == IF executed THEN Went ELSE "no"
<1>1. /\ call # Idle /\ txns' = (IF executed THEN TxnsAfter ELSE txns) /\ Return(went, "lost")
      /\ poisoned' = TRUE /\ UNCHANGED <<node, given, inside>>
  BY DEF Lost, caller
<1>2. TypeOK /\ went \in {"no", Went}
  BY DEF IInv
<1>3. txns \in [Ids -> [state : {"unused", "open", "committed", "over"}, node : Nodes]]
  BY <1>2 DEF TypeOK
<1> HIDE DEF went
<1> QED BY <1>1, <1>2, <1>3, AfterType, ReturnSafe

LEMMA NotRunType ==
    ASSUME IInv, call # Idle, NEW after \in NotRun
    PROVE  /\ after \in [Ids -> [state : {"unused", "open", "committed", "over"}, node : Nodes]]
           /\ \A t \in Ids :
                \/ after[t] = txns[t]
                \/ call.effect \in Ending /\ t = call.txn /\ after[t].state = "over"
<1>1. after = txns \/ (call.effect \in Ending /\ after = After("over"))
  BY DEF NotRun
<1>2. TypeOK /\ (call.effect \in Ending => call.txn \in Ids)
  BY DEF IInv, EndTied
<1> QED BY <1>1, <1>2 DEF TypeOK, After

LEMMA RefusedSafe ==
    ASSUME IInv, Refused
    PROVE  IInv'
<1>1. /\ call # Idle /\ Return("no", "refused") /\ UNCHANGED <<poisoned, node, given, inside>>
      /\ txns' \in NotRun
  BY DEF Refused, caller
<1>2. poisoned \in BOOLEAN
  BY DEF IInv, TypeOK
<1> QED BY <1>1, <1>2, NotRunType, ReturnSafe

LEMMA AnsweredUnclearSafe ==
    ASSUME IInv, NEW executed \in BOOLEAN, AnsweredUnclear(executed)
    PROVE  IInv'
<1> DEFINE went == IF executed THEN Went ELSE "no"
<1>1. /\ call # Idle /\ Return(went, "unclear") /\ UNCHANGED <<poisoned, node, given, inside>>
      /\ txns' = TxnsAfter \/ txns' \in NotRun
  BY DEF AnsweredUnclear, caller
<1>2. TypeOK /\ poisoned \in BOOLEAN /\ went \in {"no", Went}
  BY DEF IInv, TypeOK
<1> HIDE DEF went
<1>3. CASE txns' = TxnsAfter
  BY <1>1, <1>2, <1>3, AfterType, ReturnSafe
<1>4. CASE txns' \in NotRun
  BY <1>1, <1>2, <1>4, NotRunType, ReturnSafe
<1> QED BY <1>1, <1>3, <1>4

LEMMA BegunSafe ==
    ASSUME IInv, NEW body \in Bodies, NEW t \in Ids, Begun(body, t)
    PROVE  IInv'
<1> USE CallsAssumption
<1>1. /\ call.effect = "begin" /\ txns[t].state = "unused"
      /\ txns' = [txns EXCEPT ![t] = [state |-> "open", node |-> node]]
      /\ given' \in {given, given \cup {t}}
      /\ call' = Idle
      /\ UNCHANGED <<requestTxn, poisoned, node, inside, writes, ends>>
  BY DEF Begun, Obtained, client
<1>2. TypeOK
  BY DEF IInv
<1>3. ends[t].asked = "none" /\ ends[t].told = "pending"
  BY <1>1 DEF IInv, Once
<1>4. /\ txns' \in [Ids -> [state : {"unused", "open", "committed", "over"}, node : Nodes]]
      /\ txns'[t].state = "open" /\ \A u \in Ids : u # t => txns'[u] = txns[u]
  BY <1>1, <1>2 DEF TypeOK
<1>5. TypeOK'
  BY <1>1, <1>2, <1>4 DEF TypeOK
<1>6. WriteTied' /\ EndTied' /\ NamesInside'
  BY <1>1, IdleIsNoCall DEF IInv, WriteTied, EndTied, NamesInside, Ending
<1>7. Once'
  BY <1>1, <1>3, <1>4 DEF IInv, Once
<1>8. WriteGoesWhereMeant' /\ ToldTruth'
  BY <1>1 DEF IInv, WriteGoesWhereMeant, ToldTruth
<1>9. ASSUME NEW u \in Ids
      PROVE  EndIsTrue!(u)'
  <2>1. EndIsTrue!(u)
    BY DEF IInv, EndIsTrue
  <2>2. CASE u = t
    BY <1>1, <1>3, <1>4, <2>1, <2>2
  <2>3. CASE u # t
    BY <1>1, <1>4, <2>1, <2>3
  <2> QED BY <2>2, <2>3
<1> QED BY <1>5, <1>6, <1>7, <1>8, <1>9 DEF IInv, EndIsTrue

LEMMA RedirectedSafe ==
    ASSUME IInv, Redirected
    PROVE  IInv'
<1>1. node' \in Nodes /\ UNCHANGED <<requestTxn, poisoned, call, txns, given, inside, writes, ends>>
  BY DEF Redirected, caller
<1>2. TypeOK'
  BY <1>1 DEF IInv, TypeOK
<1>3. WriteTied' /\ NamesInside' /\ EndTied' /\ Once'
  BY <1>1 DEF IInv, WriteTied, NamesInside, EndTied, Once, Forgotten
<1>4. WriteGoesWhereMeant' /\ ToldTruth' /\ EndIsTrue'
  BY <1>1 DEF IInv, WriteGoesWhereMeant, ToldTruth, EndIsTrue
<1> QED BY <1>2, <1>3, <1>4 DEF IInv

LEMMA GiveUpSafe ==
    ASSUME IInv, NEW t \in Ids, GiveUp(t)
    PROVE  IInv'
<1>1. /\ txns[t].state = "open" /\ txns' = [txns EXCEPT ![t].state = "over"]
      /\ UNCHANGED <<requestTxn, poisoned, node, call, given, inside, writes, ends>>
  BY DEF GiveUp, client, caller
<1>2. TypeOK
  BY DEF IInv
<1>3. /\ txns' \in [Ids -> [state : {"unused", "open", "committed", "over"}, node : Nodes]]
      /\ txns'[t].state = "over" /\ \A u \in Ids : u # t => txns'[u] = txns[u]
  BY <1>1, <1>2 DEF TypeOK
<1>4. TypeOK'
  BY <1>1, <1>2, <1>3 DEF TypeOK
<1>5. WriteTied' /\ NamesInside' /\ EndTied' /\ Once'
  BY <1>1, <1>3 DEF IInv, WriteTied, NamesInside, EndTied, Once, Forgotten
<1>6. WriteGoesWhereMeant' /\ ToldTruth'
  BY <1>1 DEF IInv, WriteGoesWhereMeant, ToldTruth
<1>7. ASSUME NEW u \in Ids
      PROVE  EndIsTrue!(u)'
  <2>1. EndIsTrue!(u)
    BY DEF IInv, EndIsTrue
  <2>2. CASE u = t
    BY <1>1, <1>3, <2>1, <2>2
  <2>3. CASE u # t
    BY <1>1, <1>3, <2>1, <2>3
  <2> QED BY <2>2, <2>3
<1> QED BY <1>4, <1>5, <1>6, <1>7 DEF IInv, EndIsTrue

-----------------------------------------------------------------------------
(* The invariant *)

LEMMA NextIInv == IInv /\ [Next]_vars => IInv'
<1> SUFFICES ASSUME IInv, [Next]_vars PROVE IInv'
  OBVIOUS
<1>1. ASSUME NEW shape \in Shapes, Ask(shape) \/ RefuseHere(shape) \/ \E t \in Ids : AskEnd(shape, t)
      PROVE  IInv'
  BY <1>1, AskSafe, RefuseHereSafe, AskEndSafe
<1>2. ASSUME NEW t \in Ids \cup {EmptyId, NoTxn}, SetRequestTxn(t)
      PROVE  IInv'
  BY <1>2, SetRequestTxnSafe
<1>3. ASSUME NEW body \in Bodies, Executed(body) \/ \E t \in Ids : Begun(body, t)
      PROVE  IInv'
  BY <1>3, ExecutedSafe, BegunSafe
<1>4. CASE Refused
  BY <1>4, RefusedSafe
<1>5. CASE Redirected
  BY <1>5, RedirectedSafe
<1>6. ASSUME NEW executed \in BOOLEAN, AnsweredUnclear(executed) \/ Lost(executed)
      PROVE  IInv'
  BY <1>6, AnsweredUnclearSafe, LostSafe
<1>7. ASSUME NEW t \in Ids, GiveUp(t)
      PROVE  IInv'
  BY <1>7, GiveUpSafe
<1>8. CASE UNCHANGED vars
  <2>1. UNCHANGED <<requestTxn, poisoned, node, call, txns, given, inside, writes, ends>>
    BY <1>8 DEF vars, client, caller
  <2> QED BY <2>1 DEF IInv, TypeOK, WriteTied, NamesInside, EndTied, Once, Forgotten,
                      WriteGoesWhereMeant, ToldTruth, EndIsTrue
<1> QED BY <1>1, <1>2, <1>3, <1>4, <1>5, <1>6, <1>7, <1>8 DEF Next

LEMMA CallsInvariant == Spec => []IInv
BY InitIInv, NextIInv, PTL DEF Spec

-----------------------------------------------------------------------------
(* The theorems *)

\* The state of a client making calls, of the server's transactions and of the
\* histories keeps its types (src/client.rs: Client).
THEOREM CallsTypes == Spec => []TypeOK
<1>1. IInv => TypeOK
  BY DEF IInv
<1> QED BY <1>1, CallsInvariant, PTL

\* A write goes into the transaction its caller was in, or into none when there
\* was none, or nowhere (set_request_txn, forget_txn, move_to).
THEOREM CallsWriteGoesWhereMeant == Spec => []WriteGoesWhereMeant
<1>1. IInv => WriteGoesWhereMeant
  BY DEF IInv
<1> QED BY <1>1, CallsInvariant, PTL

\* A refused write went nowhere and an answered one somewhere; a lost answer
\* poisons the client, and what nobody knows is not told as a refusal, whatever
\* replies do not parse and whatever outcome_unknown stands for (send_once,
\* decode, error.rs:9-12).
THEOREM CallsToldTruth == Spec => []ToldTruth
<1>1. IInv => ToldTruth
  BY DEF IInv
<1> QED BY <1>1, CallsInvariant, PTL

\* An answered commit committed, with every answered write of its caller inside
\* it; none but its own commits a transaction, and no request names one whose
\* end was asked for (the commit and rollback calls of documents and graphs).
THEOREM CallsEndIsTrue == Spec => []EndIsTrue
<1>1. IInv => EndIsTrue
  BY DEF IInv
<1> QED BY <1>1, CallsInvariant, PTL
=============================================================================
