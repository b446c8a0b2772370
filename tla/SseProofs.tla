------------------------------ MODULE SseProofs ------------------------------
(***************************************************************************)
(* A subscription under the server-sent events transport, for any number   *)
(* of events and any capacity of the resolver's channel.  It is the stream *)
(* that EventStream promises, with the pump and without.  The second part  *)
(* is about what the client is sent of it: where Do stands says how much   *)
(* has been written (Content), and nothing waits in the buffer when Do     *)
(* calls the handler again.                                                *)
(***************************************************************************)
EXTENDS Sse, Recursion

InHand == IF pump = "send" THEN 1 ELSE 0

StreamType ==
  /\ sent \in Nat /\ returned \in Seq(Nat) /\ queue \in Seq(Nat) /\ hand \in Nat
  /\ closed \in BOOLEAN /\ ctxDone \in BOOLEAN /\ ended \in BOOLEAN
  /\ pump \in {"none", "select", "send", "stopped"}

\* What the handler has returned, the pump has in its hand and the channel holds is, in this order,
\* what the resolver has sent.
InOrder ==
  pump # "stopped" =>
    /\ Len(returned) + InHand + Len(queue) = sent
    /\ pump = "send" => hand = Len(returned) + 1
    /\ \A i \in 1 .. Len(queue) : queue[i] = Len(returned) + InHand + i

\* A pump that has stopped drops an event only when the subscriber has gone.
StoppedForReason == pump = "stopped" => ctxDone \/ (closed /\ Len(returned) = sent)

PumpWaits == hpc = "start" => pump \in {"none", "select"}

StreamInv == StreamType /\ InOrder /\ StoppedForReason /\ PumpWaits

LEMMA InitInv == Init => StreamInv
<1> SUFFICES ASSUME Init PROVE StreamInv
  OBVIOUS
<1>1. /\ sent = 0 /\ returned = <<>> /\ queue = <<>> /\ hand = 0
      /\ closed = FALSE /\ ctxDone = FALSE /\ ended = FALSE /\ pump \in {"none", "select"}
  BY DEF Init, SInit, EInit
<1>2. StreamType
  <2>1. sent \in Nat /\ returned \in Seq(Nat) /\ queue \in Seq(Nat) /\ hand \in Nat
    BY <1>1
  <2>2. closed \in BOOLEAN /\ ctxDone \in BOOLEAN /\ ended \in BOOLEAN
    BY <1>1
  <2> QED
    BY <1>1, <2>1, <2>2 DEF StreamType
<1>3. InOrder
  BY <1>1 DEF InOrder, InHand
<1>4. StoppedForReason /\ PumpWaits
  BY <1>1 DEF StoppedForReason, PumpWaits
<1> QED
  BY <1>2, <1>3, <1>4 DEF StreamInv

-----------------------------------------------------------------------------
\* The steps of the stream; each of them preserves the invariant but for PumpWaits.
StreamPart == StreamType /\ InOrder /\ StoppedForReason

LEMMA SendsInv == StreamPart /\ ResolverSends => StreamPart'
<1> SUFFICES ASSUME StreamPart, ResolverSends PROVE StreamPart'
  OBVIOUS
<1>1. /\ sent' = sent + 1 /\ queue' = Append(queue, sent + 1) /\ ~closed
      /\ UNCHANGED <<closed, ctxDone, returned, ended, pump, hand>>
  BY DEF ResolverSends, Send
<1>2. StreamType'
  BY <1>1 DEF StreamPart, StreamType
<1>3. Len(queue') = Len(queue) + 1
      /\ \A i \in 1 .. Len(queue') : queue'[i] = IF i = Len(queue) + 1 THEN sent + 1 ELSE queue[i]
  BY <1>1 DEF StreamPart, StreamType
<1>4. InOrder'
  <2> SUFFICES ASSUME pump # "stopped" PROVE InOrder'
    BY <1>1 DEF InOrder
  <2>1. InHand' = InHand
    BY <1>1 DEF InHand
  <2>2. Len(returned) \in Nat /\ InHand \in Nat /\ Len(queue) \in Nat /\ sent \in Nat
    BY DEF StreamPart, StreamType, InHand
  <2>3. Len(returned) + InHand + Len(queue) = sent /\ (pump = "send" => hand = Len(returned) + 1)
    BY DEF StreamPart, InOrder
  <2>4. Len(returned') + InHand' + Len(queue') = sent'
    BY <1>1, <1>3, <2>1, <2>2, <2>3
  <2>5. ASSUME NEW i \in 1 .. Len(queue') PROVE queue'[i] = Len(returned') + InHand' + i
    <3>1. CASE i = Len(queue) + 1
      BY <3>1, <1>1, <1>3, <2>1, <2>2, <2>3
    <3>2. CASE i # Len(queue) + 1
      <4>1. i \in 1 .. Len(queue)
        BY <3>2, <1>3, <2>2
      <4>2. queue[i] = Len(returned) + InHand + i
        BY <4>1 DEF StreamPart, InOrder
      <4> QED
        BY <3>2, <4>2, <1>1, <1>3, <2>1
    <3> QED
      BY <3>1, <3>2
  <2> QED
    BY <1>1, <2>3, <2>4, <2>5 DEF InOrder
<1>5. StoppedForReason'
  BY <1>1 DEF StreamPart, StoppedForReason
<1> QED
  BY <1>2, <1>4, <1>5 DEF StreamPart

LEMMA ClosesInv == StreamPart /\ Close /\ UNCHANGED <<queue, hand>> /\ pump' \in {pump, "none"}
                     /\ (pump' = pump \/ pump \in {"none", "select"}) => StreamPart'
BY DEF Close, StreamPart, StreamType, InOrder, InHand, StoppedForReason

LEMMA LeavesInv == StreamPart /\ SubscriberLeaves => StreamPart'
BY DEF SubscriberLeaves, Leave, StreamPart, StreamType, InOrder, InHand, StoppedForReason

LEMMA PumpInv == StreamPart /\ PumpStep => StreamPart'
<1> SUFFICES ASSUME StreamPart, PumpStep PROVE StreamPart'
  OBVIOUS
<1>1. CASE PumpReceives
  <2>1. /\ pump = "select" /\ pump' = "send" /\ queue # <<>>
        /\ hand' = Head(queue) /\ queue' = Tail(queue) /\ UNCHANGED evars
    BY <1>1 DEF PumpReceives
  <2>2. /\ hand' = queue[1] /\ Len(queue') = Len(queue) - 1 /\ Len(queue) > 0
        /\ queue' \in Seq(Nat) /\ hand' \in Nat
        /\ \A i \in 1 .. Len(queue') : queue'[i] = queue[i + 1]
    BY <2>1 DEF StreamPart, StreamType
  <2>3. InOrder'
    <3>1. InHand = 0 /\ InHand' = 1
      BY <2>1 DEF InHand
    <3>2. Len(returned) \in Nat /\ Len(queue) \in Nat /\ sent \in Nat
      BY DEF StreamPart, StreamType
    <3>3. /\ Len(returned) + Len(queue) = sent
          /\ \A i \in 1 .. Len(queue) : queue[i] = Len(returned) + i
      BY <2>1, <3>1, <3>2 DEF StreamPart, InOrder
    <3>4. UNCHANGED <<returned, sent>>
      BY <2>1 DEF evars
    <3>5. Len(returned') + InHand' + Len(queue') = sent' /\ hand' = Len(returned') + 1
      <4>1. Len(queue') = Len(queue) - 1 /\ returned' = returned /\ sent' = sent
        BY <2>2, <3>4
      <4>2. Len(returned) + 1 + (Len(queue) - 1) = sent
        BY <3>2, <3>3
      <4>3. 1 \in 1 .. Len(queue) /\ hand' = queue[1]
        BY <2>2, <3>2
      <4> QED
        BY <4>1, <4>2, <4>3, <3>1, <3>3
    <3>6. ASSUME NEW i \in 1 .. Len(queue') PROVE queue'[i] = Len(returned') + InHand' + i
      <4>1. i + 1 \in 1 .. Len(queue) /\ queue'[i] = queue[i + 1]
        BY <2>2, <3>2
      <4> QED
        BY <4>1, <3>1, <3>2, <3>3, <3>4
    <3> QED
      BY <3>5, <3>6 DEF InOrder
  <2> QED
    BY <2>1, <2>2, <2>3 DEF StreamPart, StreamType, StoppedForReason, evars
<1>2. CASE PumpStops
  BY <1>2 DEF PumpStops, StreamPart, StreamType, InOrder, InHand, StoppedForReason, evars
<1> QED
  BY <1>1, <1>2 DEF PumpStep

\* What the handler returns is the next event.
LEMMA ReturnsNext == StreamPart /\ StreamReturns => StreamPart' /\ Return
<1> SUFFICES ASSUME StreamPart, StreamReturns PROVE StreamPart' /\ Return
  OBVIOUS
<1>1. CASE pump = "none"
  <2>1. /\ returned' = Append(returned, Head(queue)) /\ queue' = Tail(queue) /\ queue # <<>>
        /\ UNCHANGED <<sent, closed, ctxDone, ended, pump, hand>> /\ ~ended
    BY <1>1 DEF StreamReturns, Returns
  <2>2. /\ Head(queue) = queue[1] /\ Len(queue') = Len(queue) - 1 /\ Len(queue) > 0
        /\ queue' \in Seq(Nat)
        /\ \A i \in 1 .. Len(queue') : queue'[i] = queue[i + 1]
    BY <2>1 DEF StreamPart, StreamType
  <2>3. Head(queue) = Len(returned) + 1 /\ Len(returned) < sent
    BY <1>1, <2>2 DEF StreamPart, StreamType, InOrder, InHand
  <2>4. returned' \in Seq(Nat) /\ Len(returned') = Len(returned) + 1
    BY <2>1, <2>3 DEF StreamPart, StreamType
  <2>5. InOrder'
    <3>1. InHand = 0 /\ InHand' = 0
      BY <1>1, <2>1 DEF InHand
    <3>2. Len(returned) \in Nat /\ Len(queue) \in Nat /\ sent \in Nat
      BY DEF StreamPart, StreamType
    <3>3. /\ Len(returned) + Len(queue) = sent
          /\ \A i \in 1 .. Len(queue) : queue[i] = Len(returned) + i
      BY <1>1, <3>1, <3>2 DEF StreamPart, InOrder
    <3>4. Len(returned') + InHand' + Len(queue') = sent'
      <4>1. Len(queue') = Len(queue) - 1 /\ Len(returned') = Len(returned) + 1 /\ sent' = sent
        BY <2>1, <2>2, <2>4
      <4>2. (Len(returned) + 1) + 0 + (Len(queue) - 1) = sent
        BY <3>2, <3>3
      <4> QED
        BY <4>1, <4>2, <3>1
    <3>5. ASSUME NEW i \in 1 .. Len(queue') PROVE queue'[i] = Len(returned') + InHand' + i
      <4>1. i + 1 \in 1 .. Len(queue) /\ queue'[i] = queue[i + 1]
        BY <2>2, <3>2
      <4> QED
        BY <4>1, <2>4, <3>1, <3>2, <3>3
    <3> QED
      BY <1>1, <2>1, <3>4, <3>5 DEF InOrder
  <2> QED
    BY <1>1, <2>1, <2>2, <2>3, <2>4, <2>5 DEF StreamPart, StreamType, StoppedForReason, Return
<1>2. CASE pump = "send"
  <2>1. /\ returned' = Append(returned, hand) /\ pump' = "select"
        /\ UNCHANGED <<sent, closed, ctxDone, ended, queue, hand>> /\ ~ended
    BY <1>2 DEF StreamReturns, Returns
  <2>2. hand = Len(returned) + 1 /\ Len(returned) < sent
    BY <1>2 DEF StreamPart, StreamType, InOrder, InHand
  <2>3. returned' \in Seq(Nat) /\ Len(returned') = Len(returned) + 1
    BY <2>1, <2>2 DEF StreamPart, StreamType
  <2>4. InOrder'
    BY <1>2, <2>1, <2>3 DEF StreamPart, StreamType, InOrder, InHand
  <2> QED
    BY <1>2, <2>1, <2>2, <2>3, <2>4 DEF StreamPart, StreamType, StoppedForReason, Return
<1> QED
  BY <1>1, <1>2 DEF StreamReturns

\* It ends when nobody is there, or when all events have been returned.
LEMMA EndsRightly == StreamPart /\ StreamEnds => StreamPart' /\ End
<1> SUFFICES ASSUME StreamPart, StreamEnds PROVE StreamPart' /\ End
  OBVIOUS
<1>1. StreamPart'
  BY DEF StreamEnds, StreamPart, StreamType, InOrder, InHand, StoppedForReason
<1>2. ctxDone \/ (closed /\ Len(returned) = sent)
  BY DEF StreamEnds, StreamPart, StreamType, InOrder, InHand, StoppedForReason
<1> QED
  BY <1>1, <1>2 DEF StreamEnds, End

-----------------------------------------------------------------------------
\* Every step preserves the invariant and is one of the promised stream or none.
LEMMA Step == StreamInv /\ [Next]_vars => StreamInv' /\ [ENext]_evars
<1> SUFFICES ASSUME StreamInv, [Next]_vars PROVE StreamInv' /\ [ENext]_evars
  OBVIOUS
<1> USE DEF StreamInv, StreamPart
<1>1. CASE UNCHANGED svars /\ (hpc' = hpc \/ hpc' # "start")
  <2>1. UNCHANGED <<sent, closed, ctxDone, returned, ended, queue, pump, hand>>
    BY <1>1 DEF svars, evars
  <2>2. StreamInv'
    BY <1>1, <2>1 DEF StreamType, InOrder, InHand, StoppedForReason, PumpWaits
  <2> QED
    BY <2>1, <2>2 DEF evars
<1>2. CASE Open /\ Close
  <2>1. Close /\ pump' = "none" /\ UNCHANGED <<queue, hand>> /\ hpc = "start" /\ hpc' # "start"
    BY <1>2 DEF Open, Close, svars, evars
  <2>2. StreamPart'
    BY <2>1, ClosesInv DEF PumpWaits
  <2> QED
    BY <2>1, <2>2 DEF PumpWaits, ENext
<1>3. CASE HandlerResponds
  BY <1>3, ReturnsNext DEF HandlerResponds, Write, PumpWaits, ENext
<1>4. CASE HandlerEnds
  BY <1>4, EndsRightly DEF HandlerEnds, Write, PumpWaits, ENext
<1>5. CASE OverStream(SubscriberLeaves)
  BY <1>5, LeavesInv DEF OverStream, SubscriberLeaves, dvars, PumpWaits, ENext
<1>6. CASE Started(ResolverSends)
  BY <1>6, SendsInv DEF Started, OverStream, ResolverSends, dvars, PumpWaits, ENext
<1>7. CASE Started(ResolverCloses)
  BY <1>7, ClosesInv DEF Started, OverStream, ResolverCloses, dvars, PumpWaits, ENext
<1>8. CASE Started(PumpStep)
  <2>1. UNCHANGED evars
    BY <1>8 DEF Started, OverStream, PumpStep, PumpReceives, PumpStops
  <2> QED
    BY <1>8, <2>1, PumpInv DEF Started, OverStream, dvars, PumpWaits
<1>9. CASE Refuse \/ Open \/ CompleteError \/ EndWrite \/ BeginFlush \/ EndFlush \/ ResetTicker
           \/ Elapse \/ Ping \/ EndPing \/ BeginPingFlush \/ EndPingFlush \/ Stop \/ UNCHANGED vars
  <2>1. (UNCHANGED svars /\ (hpc' = hpc \/ hpc' # "start")) \/ (Open /\ Close)
    BY <1>9 DEF Refuse, Open, CompleteError, EndWrite, BeginFlush, EndFlush, ResetTicker, Elapse,
                Ping, EndPing, BeginPingFlush, EndPingFlush, Stop, Write, dvars, vars
  <2> QED
    BY <2>1, <1>1, <1>2
<1> QED
  BY <1>3, <1>4, <1>5, <1>6, <1>7, <1>8, <1>9 DEF Next, Source

(***************************************************************************)
(* ResolveFieldStream, adaptStreamChannel and the handler of               *)
(* generated!.gotpl, called by Do in sse.go: the handler returns the       *)
(* resolver's events once and in order, and it ends only when all have     *)
(* been returned or the subscriber has gone.                               *)
(***************************************************************************)
THEOREM StreamPromised == Spec => KeepsPromise
<1>1. Init => EInit
  BY DEF Init, SInit
<1> QED
  BY InitInv, Step, <1>1, PTL DEF Spec, KeepsPromise, ESpec
-----------------------------------------------------------------------------
(***************************************************************************)
(* What the client is sent, without the pings                              *)
(***************************************************************************)
Item == {"open", "error", "complete", "ping", "next"} \X Nat

LEMMA Items ==
  /\ Opening \in Item /\ ErrorEvent \in Item /\ CompleteEvent \in Item /\ PingComment \in Item
  /\ PingComment \notin {Opening, ErrorEvent, CompleteEvent} /\ ErrorEvent # CompleteEvent
  /\ \A i \in Nat : /\ NextEvent(i) \in Item
                    /\ NextEvent(i) \notin {PingComment, ErrorEvent, CompleteEvent}
  /\ \A x \in Item : NoPing(x) \in Seq(Item)
<1>1. /\ Opening \in Item /\ ErrorEvent \in Item /\ CompleteEvent \in Item /\ PingComment \in Item
      /\ \A i \in Nat : NextEvent(i) \in Item
  BY DEF Item, Opening, ErrorEvent, CompleteEvent, PingComment, NextEvent
<1>2. /\ PingComment \notin {Opening, ErrorEvent, CompleteEvent} /\ ErrorEvent # CompleteEvent
      /\ \A i \in Nat : NextEvent(i) \notin {PingComment, ErrorEvent, CompleteEvent}
  BY DEF Opening, ErrorEvent, CompleteEvent, PingComment, NextEvent
<1>3. \A x \in Item : <<x>> \in Seq(Item) /\ <<>> \in Seq(Item)
  OBVIOUS
<1>4. \A x \in Item : NoPing(x) \in Seq(Item)
  BY <1>3 DEF NoPing
<1> QED BY <1>1, <1>2, <1>4

LEMMA WithoutPingsEmpty == WithoutPings(<<>>) = <<>>
<1>1. [i \in DOMAIN <<>> |-> NoPing(<<>>[i])] = <<>>
  OBVIOUS
<1> QED BY <1>1, FlattenEmpty DEF WithoutPings

LEMMA WithoutPingsAppend ==
  ASSUME NEW s \in Seq(Item), NEW x \in Item
  PROVE  WithoutPings(s) \in Seq(Item) /\ WithoutPings(Append(s, x)) = WithoutPings(s) \o NoPing(x)
<1> DEFINE P(t) == [i \in DOMAIN t |-> NoPing(t[i])]
<1>0. \A y \in Item : NoPing(y) \in Seq(Item)
  BY Items
<1>1. ASSUME NEW t \in Seq(Item) PROVE P(t) \in Seq(Seq(Item)) /\ Len(P(t)) = Len(t)
  <2>1. \A i \in DOMAIN t : t[i] \in Item
    OBVIOUS
  <2>2. \A i \in DOMAIN t : NoPing(t[i]) \in Seq(Item)
    BY <1>0, <2>1
  <2>3. Len(t) \in Nat /\ DOMAIN t = 1 .. Len(t)
    OBVIOUS
  <2> QED BY <2>2, <2>3
<1>2. PICK a \in Seq(Item) : a = Append(s, x)
  <2>1. Append(s, x) \in Seq(Item)
    OBVIOUS
  <2> QED BY <2>1
<1>3. Len(s) \in Nat /\ Len(a) = Len(s) + 1 /\ a[Len(s) + 1] = x
      /\ \A i \in 1 .. Len(s) : a[i] = s[i]
  BY <1>2
<1>4. P(a) = Append(P(s), NoPing(x))
  <2> DEFINE q == Append(P(s), NoPing(x))
  <2>0. P(s) \in Seq(Seq(Item)) /\ Len(P(s)) = Len(s) /\ NoPing(x) \in Seq(Item)
    BY <1>0, <1>1
  <2>1. q \in Seq(Seq(Item)) /\ Len(q) = Len(s) + 1
    <3> HIDE DEF P
    <3> QED BY <2>0
  <2>2. P(a) \in Seq(Seq(Item)) /\ Len(P(a)) = Len(s) + 1
    <3> HIDE DEF P
    <3> QED BY <1>1, <1>3
  <2>3. ASSUME NEW i \in 1 .. Len(s) + 1 PROVE P(a)[i] = q[i]
    <3>1. P(a)[i] = NoPing(a[i])
      BY <1>3
    <3>2. CASE i = Len(s) + 1
      BY <1>1, <1>3, <3>1, <3>2
    <3>3. CASE i # Len(s) + 1
      <4>1. i \in 1 .. Len(s)
        BY <1>3, <3>3
      <4> QED BY <1>1, <1>3, <3>1, <4>1
    <3> QED BY <3>2, <3>3
  <2> QED BY <2>1, <2>2, <2>3, SeqEqual
<1>5. /\ FlattenSeq(P(s)) \in Seq(Item)
      /\ FlattenSeq(Append(P(s), NoPing(x))) = FlattenSeq(P(s)) \o NoPing(x)
  <2>1. P(s) \in Seq(Seq(Item)) /\ NoPing(x) \in Seq(Item)
    BY <1>1, Items
  <2> HIDE DEF P
  <2> QED BY <2>1, FlattenAppend
<1>6. WithoutPings(s) = FlattenSeq(P(s)) /\ WithoutPings(a) = FlattenSeq(P(a))
  BY DEF WithoutPings
<1> HIDE DEF P
<1> QED BY <1>2, <1>4, <1>5, <1>6

LEMMA WithoutPingsConcat ==
  ASSUME NEW s \in Seq(Item), NEW t \in Seq(Item)
  PROVE  /\ WithoutPings(s) \in Seq(Item)
         /\ WithoutPings(s \o t) = WithoutPings(s) \o WithoutPings(t)
<1> DEFINE S == {u \in Seq(Item) : WithoutPings(s \o u) = WithoutPings(s) \o WithoutPings(u)}
<1>0. \A u \in Seq(Item) : WithoutPings(u) \in Seq(Item)
  BY WithoutPingsAppend, Items
<1>1. <<>> \in S
  BY <1>0, WithoutPingsEmpty
<1>2. ASSUME NEW u \in Seq(Item), NEW x \in Item, u \in S PROVE Append(u, x) \in S
  <2>1. Append(u, x) \in Seq(Item) /\ s \o u \in Seq(Item) /\ s \o Append(u, x) = Append(s \o u, x)
    OBVIOUS
  <2>2. WithoutPings(s \o Append(u, x)) = (WithoutPings(s) \o WithoutPings(u)) \o NoPing(x)
    BY <1>2, <2>1, WithoutPingsAppend
  <2>3. WithoutPings(Append(u, x)) = WithoutPings(u) \o NoPing(x)
    BY WithoutPingsAppend
  <2>4. NoPing(x) \in Seq(Item)
    BY Items
  <2> HIDE DEF S
  <2>5. WithoutPings(s \o Append(u, x)) = WithoutPings(s) \o WithoutPings(Append(u, x))
    BY <1>0, <2>2, <2>3, <2>4, ConcatAssociative, SMTT(30)
  <2> QED BY <2>1, <2>5 DEF S
<1> HIDE DEF S
<1>3. Seq(Item) \subseteq S
  BY <1>1, <1>2, SequenceInduction
<1> QED BY <1>0, <1>3 DEF S

LEMMA WithoutPingsOne ==
  ASSUME NEW x \in Item
  PROVE  WithoutPings(<<x>>) = NoPing(x)
<1>1. <<x>> = Append(<<>>, x) /\ <<>> \in Seq(Item)
  OBVIOUS
<1>2. NoPing(x) \in Seq(Item)
  BY Items
<1>3. WithoutPings(<<x>>) = <<>> \o NoPing(x)
  BY <1>1, WithoutPingsAppend, WithoutPingsEmpty
<1> QED BY <1>2, <1>3

\* Counting a run of pings as one loses nothing else.
LEMMA WithoutPingsJoin ==
  ASSUME NEW s \in Seq(Item), NEW t \in Seq(Item)
  PROVE  /\ Join(s, t) \in Seq(Item)
         /\ WithoutPings(Join(s, t)) = WithoutPings(s) \o WithoutPings(t)
<1>1. CASE s # <<>> /\ t # <<>> /\ Last(s) = PingComment /\ Head(t) = PingComment
  <2>1. Join(s, t) = s \o Tail(t) /\ Tail(t) \in Seq(Item) /\ t = <<PingComment>> \o Tail(t)
    BY <1>1 DEF Join
  <2>2. WithoutPings(<<PingComment>>) = <<>> /\ <<PingComment>> \in Seq(Item)
    BY Items, WithoutPingsOne DEF NoPing
  <2>3. WithoutPings(t) = <<>> \o WithoutPings(Tail(t))
    BY <2>1, <2>2, WithoutPingsConcat
  <2>4. WithoutPings(t) = WithoutPings(Tail(t))
    BY <2>1, <2>3, WithoutPingsConcat
  <2>5. WithoutPings(s \o Tail(t)) = WithoutPings(s) \o WithoutPings(Tail(t))
    BY <2>1, WithoutPingsConcat
  <2>6. s \o Tail(t) \in Seq(Item)
    BY <2>1
  <2> QED BY <2>1, <2>4, <2>5, <2>6
<1>2. CASE ~(s # <<>> /\ t # <<>> /\ Last(s) = PingComment /\ Head(t) = PingComment)
  <2>1. Join(s, t) = s \o t /\ s \o t \in Seq(Item)
    BY <1>2 DEF Join
  <2> QED BY <2>1, WithoutPingsConcat
<1> QED BY <1>1, <1>2

\* What has left Do, flushed or not.
Sent == WithoutPings(out) \o WithoutPings(buf)

\* The stream up to the event that Do writes, or has written last.
UpToCur ==
  CASE cur = CompleteEvent ->
         {<<Opening>> \o body \o <<CompleteEvent>> : body \in {Events, <<ErrorEvent>>}}
    [] cur = ErrorEvent -> {<<Opening>> \o <<ErrorEvent>>}
    [] OTHER -> {<<Opening>> \o Events}

\* Where Do stands says how much of it has been written; from its flush on nothing of it is left
\* in the buffer, whatever keepAlive adds and flushes.
Content ==
  /\ hpc = "start" => out = <<>> /\ buf = <<>> /\ returned = <<>> /\ kpc = "none"
  /\ ~misused =>
       /\ hpc = "writing" => Sent \o <<cur>> \in UpToCur
       /\ hpc \in {"flush", "flushing"} => Sent \in UpToCur /\ cur # ErrorEvent
       /\ hpc = "complete" => Sent = <<Opening>> \o <<ErrorEvent>>
       /\ hpc \in {"call", "reset", "stuck"} =>
            Sent = <<Opening>> \o Events /\ WithoutPings(buf) = <<>>
       /\ hpc = "returned" => Sent \in UpToCur /\ cur = CompleteEvent /\ WithoutPings(buf) = <<>>

ContentTypes == out \in Seq(Item) /\ buf \in Seq(Item) /\ cur \in Item \ {PingComment}

LEMMA ItemSequences ==
  /\ <<>> \in Seq(Item)
  /\ \A x \in Item : <<x>> \in Seq(Item) /\ (x # PingComment => NoPing(x) = <<x>>)
  /\ NoPing(PingComment) = <<>>
  /\ \A u \in Seq(Item) : u \o <<>> = u /\ <<>> \o u = u /\ WithoutPings(u) \in Seq(Item)
  /\ \A u, v \in Seq(Item) : u \o v \in Seq(Item)
<1>1. \A x \in Item : <<x>> \in Seq(Item)
  OBVIOUS
<1>2. \A u, v \in Seq(Item) : u \o v \in Seq(Item) /\ u \o <<>> = u /\ <<>> \o u = u
  OBVIOUS
<1>3. \A u \in Seq(Item) : WithoutPings(u) \in Seq(Item)
  BY WithoutPingsConcat
<1> QED BY <1>1, <1>2, <1>3 DEF NoPing

LEMMA WrittenSent ==
  ASSUME ContentTypes, NEW x \in Item, Written(x)
  PROVE  /\ out' \in Seq(Item) /\ buf' \in Seq(Item)
         /\ ~misused => /\ Sent' = Sent \o NoPing(x)
                        /\ WithoutPings(buf') = WithoutPings(buf) \o NoPing(x)
<1>1. out' = out /\ buf' = IF misused THEN buf ELSE Join(buf, <<x>>)
  BY DEF Written
<1>2. <<x>> \in Seq(Item) /\ NoPing(x) \in Seq(Item)
  BY Items, ItemSequences
<1>3. /\ Join(buf, <<x>>) \in Seq(Item)
      /\ WithoutPings(Join(buf, <<x>>)) = WithoutPings(buf) \o NoPing(x)
  BY <1>2, WithoutPingsJoin, WithoutPingsOne DEF ContentTypes
<1>4. WithoutPings(out) \in Seq(Item) /\ WithoutPings(buf) \in Seq(Item)
  BY ItemSequences DEF ContentTypes
<1>5. WithoutPings(out) \o (WithoutPings(buf) \o NoPing(x)) = Sent \o NoPing(x)
  BY <1>2, <1>4, ConcatAssociative DEF Sent
<1> QED BY <1>1, <1>3, <1>5 DEF ContentTypes, Sent

LEMMA FlushedSent ==
  ASSUME ContentTypes, Flushed
  PROVE  /\ out' \in Seq(Item) /\ buf' \in Seq(Item)
         /\ ~misused => Sent' = Sent /\ WithoutPings(buf') = <<>>
<1>1. /\ out' = IF misused THEN out ELSE Join(out, buf)
      /\ buf' = IF misused THEN buf ELSE <<>>
  BY DEF Flushed
<1>2. Join(out, buf) \in Seq(Item) /\ WithoutPings(Join(out, buf)) = Sent
  BY WithoutPingsJoin DEF ContentTypes, Sent
<1>3. WithoutPings(<<>>) = <<>> /\ <<>> \in Seq(Item)
  BY WithoutPingsEmpty, ItemSequences
<1>4. WithoutPings(Join(out, buf)) \o <<>> = WithoutPings(Join(out, buf))
  BY <1>2, ItemSequences
<1> QED BY <1>1, <1>2, <1>3, <1>4 DEF ContentTypes, Sent

ContentInv == ContentTypes /\ Content

LEMMA ContentInit == Init => ContentInv
<1> SUFFICES ASSUME Init PROVE ContentInv
  OBVIOUS
<1>1. /\ hpc = "start" /\ out = <<>> /\ buf = <<>> /\ kpc = "none" /\ cur = Opening
      /\ returned = <<>>
  BY DEF Init, SInit, EInit
<1>2. ContentTypes
  BY <1>1, Items, ItemSequences DEF ContentTypes
<1> QED BY <1>1, <1>2 DEF ContentInv, Content

LEMMA Entered ==
  ASSUME NEW at, UNCHANGED <<out, buf, misused>> \/ Enter(at)
  PROVE  UNCHANGED <<out, buf>> /\ (misused => misused')
<1>1. UNCHANGED <<out, buf>>
  BY DEF Enter
<1>2. misused' = misused \/ misused' = (misused \/ at \in InWriter \union {"returned"})
  BY DEF Enter
<1>3. misused => misused'
  BY <1>2, Zenon
<1> QED BY <1>1, <1>3

\* A step that leaves Do where it is and the stream alone.
LEMMA ContentKept ==
  ASSUME ContentInv, UNCHANGED <<hpc, cur, returned>>, out' \in Seq(Item), buf' \in Seq(Item),
         hpc = "start" => UNCHANGED <<out, buf, kpc>>,
         ~misused' => /\ ~misused /\ Sent' = Sent
                      /\ WithoutPings(buf) = <<>> => WithoutPings(buf') = <<>>
  PROVE  ContentInv'
<1>1. ContentTypes'
  BY DEF ContentInv, ContentTypes
<1>2. Events' = Events /\ UpToCur' = UpToCur
  BY DEF Events, UpToCur
<1>3. Content'
  BY <1>2 DEF ContentInv, Content
<1> QED BY <1>1, <1>3 DEF ContentInv

LEMMA KeepAliveContent ==
  ASSUME ContentInv, Elapse \/ Ping \/ EndPing \/ BeginPingFlush \/ EndPingFlush \/ Stop
  PROVE  ContentInv'
<1>1. UNCHANGED <<hpc, cur, returned>>
  BY DEF Elapse, Ping, EndPing, BeginPingFlush, EndPingFlush, Stop, svars, evars, dvars
<1>2. hpc # "start"
  BY DEF ContentInv, Content, Elapse, Ping, EndPing, BeginPingFlush, EndPingFlush, Stop
<1>3. ContentTypes
  BY DEF ContentInv
<1>4. CASE EndPing
  <2>1. Written(PingComment) /\ misused' = misused
    BY <1>4 DEF EndPing, Written
  <2>2. Sent \in Seq(Item) /\ WithoutPings(buf) \in Seq(Item)
    BY <1>3, ItemSequences DEF Sent, ContentTypes
  <2>3. /\ out' \in Seq(Item) /\ buf' \in Seq(Item)
        /\ ~misused => Sent' = Sent /\ WithoutPings(buf') = WithoutPings(buf)
    BY <1>3, <2>1, <2>2, Items, ItemSequences, WrittenSent
  <2> QED BY <1>1, <1>2, <2>1, <2>3, ContentKept
<1>5. CASE EndPingFlush
  <2>1. Flushed /\ misused' = misused
    BY <1>5 DEF EndPingFlush, Flushed
  <2> QED BY <1>1, <1>2, <1>3, <2>1, FlushedSent, ContentKept
<1>6. CASE Elapse \/ Ping \/ BeginPingFlush \/ Stop
  <2>0. UNCHANGED <<out, buf, misused>> \/ Enter(hpc)
    BY <1>6 DEF Elapse, Ping, BeginPingFlush, Stop, wvars
  <2>1. UNCHANGED <<out, buf>> /\ (misused => misused')
    BY <2>0, Entered
  <2>2. Sent' = Sent
    BY <2>1 DEF Sent
  <2> QED BY <1>1, <1>2, <1>3, <2>1, <2>2, ContentKept DEF ContentTypes
<1> QED BY <1>4, <1>5, <1>6

\* The source and the subscriber, and nobody.
LEMMA SourceContent ==
  ASSUME ContentInv, UNCHANGED <<dvars, kvars, mu, wvars, returned>>
  PROVE  ContentInv'
<1>1. UNCHANGED <<hpc, cur, returned, out, buf, misused, kpc>>
  BY DEF dvars, kvars, wvars
<1>2. Sent' = Sent
  BY <1>1 DEF Sent
<1>3. ContentTypes
  BY DEF ContentInv
<1> QED BY <1>1, <1>2, <1>3, ContentKept DEF ContentTypes

LEMMA OpenContent ==
  ASSUME StreamInv, ContentInv, Refuse \/ Open
  PROVE  ContentInv'
<1>1. hpc = "start" /\ out = <<>> /\ buf = <<>> /\ returned = <<>>
  BY DEF ContentInv, Content, Refuse, Open
<1>2. returned' = <<>>
  BY <1>1 DEF Refuse, Open, Close, svars, evars
<1>3. CASE Refuse
  BY <1>3 DEF Refuse, ContentInv, ContentTypes, Content, wvars
<1>4. CASE Open
  <2>1. /\ out' = <<Opening>> /\ buf' = <<>>
        /\ \/ hpc' = "call" /\ cur' = cur
           \/ hpc' = "writing" /\ cur' = ErrorEvent
    BY <1>1, <1>4 DEF Open
  <2>2. Sent' = <<Opening>> /\ WithoutPings(buf') = <<>>
    <3>1. WithoutPings(<<Opening>>) = <<Opening>> /\ WithoutPings(<<>>) = <<>>
      BY Items, ItemSequences, WithoutPingsOne, WithoutPingsEmpty
    <3>2. <<Opening>> \o <<>> = <<Opening>>
      BY Items, ItemSequences
    <3> QED BY <2>1, <3>1, <3>2 DEF Sent
  <2>3. Events' = <<>> /\ <<Opening>> \o <<>> = <<Opening>>
    BY <1>2 DEF Events
  <2>4. ContentTypes'
    BY <2>1, Items, ItemSequences DEF ContentTypes, ContentInv
  <2>5. hpc' = "writing" => Sent' \o <<cur'>> \in UpToCur'
    BY <2>1, <2>2, Items DEF UpToCur
  <2>6. Content'
    BY <2>1, <2>2, <2>3, <2>5 DEF Content
  <2> QED BY <2>4, <2>6 DEF ContentInv
<1> QED BY <1>3, <1>4

LEMMA EventSequence ==
  ASSUME NEW r \in Seq(Nat)
  PROVE  LET events == [i \in DOMAIN r |-> NextEvent(r[i])]
         IN /\ events \in Seq(Item) /\ Len(events) = Len(r)
            /\ \A i \in 1 .. Len(r) : events[i] = NextEvent(r[i])
<1>1. Len(r) \in Nat /\ DOMAIN r = 1 .. Len(r) /\ \A i \in 1 .. Len(r) : r[i] \in Nat
  OBVIOUS
<1>2. \A i \in 1 .. Len(r) : NextEvent(r[i]) \in Item
  BY <1>1, Items
<1> QED BY <1>1, <1>2

LEMMA UpTo ==
  /\ cur = CompleteEvent =>
       UpToCur = {<<Opening>> \o body \o <<CompleteEvent>> : body \in {Events, <<ErrorEvent>>}}
  /\ cur = ErrorEvent => UpToCur = {<<Opening>> \o <<ErrorEvent>>}
  /\ cur \notin {CompleteEvent, ErrorEvent} => UpToCur = {<<Opening>> \o Events}
BY Items DEF UpToCur

\* Do gets something to write from the handler, which it calls when it has sent the rest.
LEMMA HandlerContent ==
  ASSUME StreamInv, ContentInv, HandlerResponds \/ HandlerEnds \/ CompleteError
  PROVE  ContentInv'
<1>1. /\ hpc' = "writing" /\ UNCHANGED <<out, buf>>
      /\ misused => misused'
  <2>1. Enter(kpc)
    BY DEF HandlerResponds, HandlerEnds, CompleteError, Write
  <2> QED BY <2>1, Entered DEF HandlerResponds, HandlerEnds, CompleteError, Write
<1>2. Sent' = Sent
  BY <1>1 DEF Sent
<1>3. ContentTypes
  BY DEF ContentInv
<1>4. Events \in Seq(Item)
  BY EventSequence DEF Events, StreamInv, StreamType
<1>5. CASE HandlerResponds
  <2>1. PICK e \in Nat : returned' = Append(returned, e)
    <3>1. returned' = Append(returned, Len(returned) + 1)
      BY <1>5, ReturnsNext DEF HandlerResponds, StreamInv, StreamPart, Return
    <3> QED BY <3>1 DEF StreamInv, StreamType
  <2>2. Events' = Events \o <<NextEvent(e)>>
    <3>1. Len(returned) \in Nat /\ returned \in Seq(Nat)
      BY DEF StreamInv, StreamType
    <3>2. /\ Events' \in Seq(Item) /\ Len(Events') = Len(returned) + 1
          /\ \A i \in 1 .. Len(returned) + 1 : Events'[i] = NextEvent(returned'[i])
      <4>1. returned' \in Seq(Nat) /\ Len(returned') = Len(returned) + 1
        BY <2>1, <3>1
      <4> QED BY <4>1, EventSequence DEF Events
    <3>3. /\ Len(Events) = Len(returned)
          /\ \A i \in 1 .. Len(returned) : Events[i] = NextEvent(returned[i])
      BY <3>1, EventSequence DEF Events
    <3>4. <<NextEvent(e)>> \in Seq(Item)
      BY Items
    <3>5. PICK q \in Seq(Item) : q = Events \o <<NextEvent(e)>>
      BY <1>4, <3>4, ItemSequences
    <3>6. /\ Len(q) = Len(returned) + 1 /\ q[Len(returned) + 1] = NextEvent(e)
          /\ \A i \in 1 .. Len(returned) : q[i] = Events[i]
      BY <1>4, <3>1, <3>3, <3>5, SMTT(30)
    <3>7. ASSUME NEW i \in 1 .. Len(returned) + 1 PROVE Events'[i] = q[i]
      <4>1. CASE i = Len(returned) + 1
        BY <2>1, <3>1, <3>2, <3>6, <4>1, SMTT(30)
      <4>2. CASE i # Len(returned) + 1
        <5>1. i \in 1 .. Len(returned) /\ returned'[i] = returned[i]
          BY <2>1, <3>1, <4>2
        <5> QED BY <3>2, <3>3, <3>6, <5>1
      <4> QED BY <4>1, <4>2
    <3> QED BY <3>2, <3>5, <3>6, <3>7, SeqEqual
  <2>3. cur' = NextEvent(e)
    BY <1>5, <2>1 DEF HandlerResponds, Write, Last, StreamInv, StreamType
  <2>4. cur' \in Item /\ cur' \notin {PingComment, ErrorEvent, CompleteEvent}
    BY <2>3, Items
  <2>5. ~misused => Sent = <<Opening>> \o Events
    BY <1>5 DEF HandlerResponds, ContentInv, Content
  <2>6. (<<Opening>> \o Events) \o <<cur'>> = <<Opening>> \o Events'
    <3>1. <<Opening>> \in Seq(Item) /\ <<cur'>> \in Seq(Item)
      BY <2>4, Items, ItemSequences
    <3>2. (<<Opening>> \o Events) \o <<cur'>> = <<Opening>> \o (Events \o <<cur'>>)
      BY <1>4, <3>1, ConcatAssociative
    <3> QED BY <2>2, <2>3, <3>2
  <2>7. UpToCur' = {<<Opening>> \o Events'}
    BY <2>4 DEF UpToCur
  <2>8. ~misused' => Sent' \o <<cur'>> \in UpToCur'
    BY <1>1, <1>2, <2>5, <2>6, <2>7
  <2> QED BY <1>1, <1>3, <2>4, <2>8 DEF ContentInv, ContentTypes, Content
<1>6. CASE HandlerEnds \/ CompleteError
  <2>1. cur' = CompleteEvent /\ CompleteEvent \in Item \ {PingComment} /\ UNCHANGED returned
    BY <1>6, Items DEF HandlerEnds, CompleteError, Write, StreamEnds, svars, evars
  <2>2. ~misused => \E body \in {Events, <<ErrorEvent>>} : Sent = <<Opening>> \o body
    BY <1>6 DEF HandlerEnds, CompleteError, ContentInv, Content
  <2>3. Events' = Events
    BY <2>1 DEF Events
  <2>4. UpToCur' = {<<Opening>> \o body \o <<CompleteEvent>> : body \in {Events, <<ErrorEvent>>}}
    BY <2>1, <2>3, Items DEF UpToCur
  <2>5. ~misused' => Sent' \o <<cur'>> \in UpToCur'
    BY <1>1, <1>2, <2>1, <2>2, <2>4
  <2> QED BY <1>1, <1>3, <2>1, <2>5 DEF ContentInv, ContentTypes, Content
<1> QED BY <1>5, <1>6

LEMMA DoContent ==
  ASSUME ContentInv, EndWrite \/ BeginFlush \/ EndFlush \/ ResetTicker
  PROVE  ContentInv'
<1>1. UNCHANGED <<cur, returned>> /\ Events' = Events /\ UpToCur' = UpToCur
  <2>1. UNCHANGED <<cur, returned>>
    BY DEF EndWrite, BeginFlush, EndFlush, ResetTicker, svars, evars
  <2> QED BY <2>1 DEF Events, UpToCur
<1>2. ContentTypes
  BY DEF ContentInv
<1>3. CASE EndWrite
  <2>1. /\ Written(cur) /\ misused' = misused /\ hpc = "writing"
        /\ hpc' = IF cur = ErrorEvent THEN "complete" ELSE "flush"
    BY <1>3 DEF EndWrite, Written
  <2>2. /\ out' \in Seq(Item) /\ buf' \in Seq(Item)
        /\ ~misused => Sent' = Sent \o <<cur>>
    BY <1>2, <2>1, WrittenSent, ItemSequences DEF ContentTypes
  <2>3. ~misused => Sent' \in UpToCur
    BY <2>1, <2>2 DEF ContentInv, Content
  <2>4. cur = ErrorEvent => UpToCur = {<<Opening>> \o <<ErrorEvent>>}
    BY UpTo
  <2>5. Content'
    BY <1>1, <2>1, <2>3, <2>4 DEF Content
  <2> QED BY <1>1, <1>2, <2>2, <2>5 DEF ContentInv, ContentTypes
<1>4. CASE BeginFlush
  <2>1. hpc = "flush" /\ hpc' = "flushing" /\ Enter(kpc)
    BY <1>4 DEF BeginFlush
  <2>2. UNCHANGED <<out, buf>> /\ (misused => misused')
    BY <2>1, Entered
  <2>3. Sent' = Sent
    BY <2>2 DEF Sent
  <2> QED BY <1>1, <2>1, <2>2, <2>3 DEF ContentInv, ContentTypes, Content
<1>5. CASE EndFlush
  <2>1. /\ Flushed /\ misused' = misused /\ hpc = "flushing"
        /\ hpc' = IF cur = CompleteEvent THEN "returned" ELSE "reset"
    BY <1>5 DEF EndFlush, Flushed
  <2>2. /\ out' \in Seq(Item) /\ buf' \in Seq(Item)
        /\ ~misused => Sent' = Sent /\ WithoutPings(buf') = <<>>
    BY <1>2, <2>1, FlushedSent
  <2>3. ~misused => Sent' \in UpToCur /\ cur # ErrorEvent
    BY <2>1, <2>2 DEF ContentInv, Content
  <2>4. cur \notin {CompleteEvent, ErrorEvent} => UpToCur = {<<Opening>> \o Events}
    BY UpTo
  <2>5. Content'
    BY <1>1, <2>1, <2>2, <2>3, <2>4 DEF Content
  <2> QED BY <1>1, <1>2, <2>2, <2>5 DEF ContentInv, ContentTypes
<1>6. CASE ResetTicker
  <2>1. hpc = "reset" /\ hpc' \in {"call", "stuck"} /\ UNCHANGED <<out, buf, misused>>
    BY <1>6 DEF ResetTicker, wvars
  <2>2. Sent' = Sent
    BY <2>1 DEF Sent
  <2> QED BY <1>1, <2>1, <2>2 DEF ContentInv, ContentTypes, Content
<1> QED BY <1>3, <1>4, <1>5, <1>6

LEMMA ContentStep == StreamInv /\ ContentInv /\ [Next]_vars => ContentInv'
<1> SUFFICES ASSUME StreamInv, ContentInv, [Next]_vars PROVE ContentInv'
  OBVIOUS
<1>1. CASE Source \/ OverStream(SubscriberLeaves) \/ UNCHANGED vars
  <2>1. UNCHANGED <<dvars, kvars, mu, wvars, returned>>
    BY <1>1 DEF Source, Started, OverStream, SubscriberLeaves, ResolverSends, ResolverCloses,
       PumpStep, PumpReceives, PumpStops, Leave, Send, Close, svars, evars, vars
  <2> QED BY <2>1, SourceContent
<1> QED BY <1>1, KeepAliveContent, OpenContent, HandlerContent, DoContent DEF Next

(***************************************************************************)
(* Do, writeJsonWithSSE and the flushes of Do and keepAlive: whenever Do   *)
(* calls the handler the client has been sent every event, once and in     *)
(* order, and when Do returns the whole stream; for any number of events   *)
(* and pings, as long as the two goroutines' calls do not overlap.         *)
(***************************************************************************)
THEOREM SentInTime == Spec => []NothingHeldBack
<1>1. Spec => []StreamInv
  BY InitInv, Step, PTL DEF Spec
<1>2. Spec => []ContentInv
  BY <1>1, ContentInit, ContentStep, PTL DEF Spec
<1>3. ASSUME ContentInv PROVE NothingHeldBack
  <2> SUFFICES ASSUME ~misused PROVE SentBeforeNextCall /\ WholeAtReturn
    BY DEF NothingHeldBack
  <2>1. WithoutPings(out) \o <<>> = WithoutPings(out)
    BY <1>3, ItemSequences DEF ContentInv, ContentTypes
  <2>2. hpc \in {"call", "returned"} => Sent = WithoutPings(out)
    BY <1>3, <2>1 DEF Sent, ContentInv, Content
  <2>3. SentBeforeNextCall
    BY <1>3, <2>2 DEF SentBeforeNextCall, ContentInv, Content
  <2>4. WholeAtReturn
    BY <1>3, <2>2, UpTo DEF WholeAtReturn, ContentInv, Content
  <2> QED BY <2>3, <2>4
<1> QED BY <1>2, <1>3, PTL
=============================================================================
