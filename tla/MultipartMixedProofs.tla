------------------------ MODULE MultipartMixedProofs ------------------------
(***************************************************************************)
(* For any number of deferred groups and events:                           *)
(*                                                                         *)
(* The request's goroutine and the ticker's share the ResponseWriter, and  *)
(* only the one that holds the mutex is in flush.  When Do has returned    *)
(* there is nothing left that the ticker's goroutine could write.          *)
(*                                                                         *)
(* A flush in progress owes what it has taken from the queues (Remaining). *)
(* With that debt the responses that are written and queued are those that *)
(* have been delivered, in their order (QueueInv), and the body of a query *)
(* has its delimiters and hasNext where a client needs them (QueryInv).    *)
(***************************************************************************)
EXTENDS MultipartMixed, Recursion, SequenceTheorems

Flusher == {"handler", "ticker"}

Empty == initialResponse = <<>> /\ deferResponses = <<>>

\* The mutex is held in flush and nowhere else.
Excluded ==
  /\ mu \in Flusher \cup {"free"}
  /\ \A p \in Flusher : mu = p <=> At(p, "flush")

\* What a flush in progress has still to write; nobody adds to it meanwhile.
Remaining ==
  /\ stage \in {"initial", "deferred", "boundary"}
  /\ mu # "free" /\ stage = "deferred" => initialResponse = <<>>
  /\ mu # "free" /\ stage = "boundary" => Empty

LeftNothing == hpc = "returned" => mu = "free" /\ Empty

MInv == Excluded /\ Remaining /\ LeftNothing

LEMMA InitInv == Init => MInv
BY DEF Init, MInv, Excluded, Remaining, LeftNothing, Flusher, At

\* A step outside flush that adds nothing.
LEMMA Apart ==
  ASSUME MInv, UNCHANGED <<wvars, initialResponse, deferResponses>>,
         hpc' = hpc \/ (hpc # "flush" /\ hpc' \notin {"flush", "returned"}),
         tpc' = tpc \/ (tpc # "flush" /\ tpc' # "flush")
  PROVE  MInv'
BY DEF MInv, Excluded, Remaining, LeftNothing, Empty, Flusher, At, wvars

LEMMA CallInv ==
  ASSUME MInv, CallHandler \/ HandlerReturnsNil \/ Environment \/ TickerStops \/ Tick \/ Done
  PROVE  MInv'
<1>1. UNCHANGED <<wvars, initialResponse, deferResponses>>
  BY DEF CallHandler, HandlerReturnsNil, Environment, TickerStops, Tick, Done, avars
<1>2. hpc' = hpc \/ (hpc # "flush" /\ hpc' \notin {"flush", "returned"})
  BY DEF CallHandler, HandlerReturnsNil, Environment, TickerStops, Tick, Done
<1>3. tpc' = tpc \/ (tpc # "flush" /\ tpc' # "flush")
  BY DEF CallHandler, HandlerReturnsNil, Environment, TickerStops, Tick, Done
<1> QED
  BY <1>1, <1>2, <1>3, Apart

LEMMA AddInv == MInv /\ Add => MInv'
BY DEF MInv, Excluded, Remaining, LeftNothing, Empty, Flusher, At, Add, wvars

LEMMA FlushInv ==
  ASSUME MInv, NEW p \in Flusher, Flush(p)
  PROVE  MInv'
<1>1. CASE FlushNothing(p)
  BY <1>1 DEF FlushNothing, MInv, Excluded, Remaining, LeftNothing, Empty, Flusher, At, Go, After, avars, wvars
<1>2. CASE FlushBegins(p)
  BY <1>2 DEF FlushBegins, MInv, Excluded, Remaining, LeftNothing, Empty, Flusher, At, Go, avars
<1>3. CASE WriteInitial(p)
  BY <1>3 DEF WriteInitial, MInv, Excluded, Remaining, LeftNothing, Empty, Flusher, At
<1>4. CASE WriteDeferred(p)
  BY <1>4 DEF WriteDeferred, MInv, Excluded, Remaining, LeftNothing, Empty, Flusher, At
<1>5. CASE WriteBoundary(p)
  BY <1>5 DEF WriteBoundary, MInv, Excluded, Remaining, LeftNothing, Empty, Flusher, At, Go, After, avars
<1>6. CASE MarshalPanics(p)
  BY <1>6 DEF MarshalPanics, MInv, Excluded, Remaining, LeftNothing, Empty, Flusher, At, Go, avars
<1> QED
  BY <1>1, <1>2, <1>3, <1>4, <1>5, <1>6 DEF Flush

LEMMA NextInv == MInv /\ [Next]_vars => MInv'
<1> SUFFICES ASSUME MInv, [Next]_vars PROVE MInv'
  OBVIOUS
<1>1. CASE UNCHANGED vars
  BY <1>1 DEF vars, avars, wvars, MInv, Excluded, Remaining, LeftNothing, Empty, Flusher, At
<1>2. CASE HandlerStep
  BY <1>2, CallInv, AddInv, FlushInv DEF HandlerStep, Flusher
<1>3. CASE TickerStep
  BY <1>3, CallInv, FlushInv DEF TickerStep, Flusher
<1>4. CASE Alive /\ (CallHandler \/ HandlerReturnsNil \/ Environment \/ TickerStops)
  BY <1>4, CallInv
<1> QED
  BY <1>1, <1>2, <1>3, <1>4 DEF Next

(***************************************************************************)
(* Add, flush and Done in http_multipart_mixed.go: a goroutine is in flush *)
(* just when it holds the mutex, so the two never write at the same time.  *)
(***************************************************************************)
THEOREM Exclusion == Spec => []Excluded
<1>1. MInv => Excluded
  BY DEF MInv
<1> QED
  BY InitInv, NextInv, <1>1, PTL DEF Spec

(***************************************************************************)
(* Done in http_multipart_mixed.go: after its flush nobody uses the        *)
(* ResponseWriter, although the ticker's goroutine may still run.          *)
(***************************************************************************)
THEOREM QuietAfterDo == Spec => NoWriteAfterReturn
<1>1. MInv /\ [Next]_vars => [hpc = "returned" => UNCHANGED <<out, mu>>]_vars
  <2> SUFFICES ASSUME MInv, Next, hpc = "returned" PROVE UNCHANGED <<out, mu>>
    OBVIOUS
  <2>1. mu = "free" /\ Empty
    BY DEF MInv, LeftNothing
  <2>2. ASSUME NEW p \in Flusher, Flush(p) PROVE UNCHANGED <<out, mu>>
    <3>1. ~FlushBegins(p)
      BY <2>1 DEF FlushBegins, Empty
    <3>2. ~WriteInitial(p) /\ ~WriteDeferred(p) /\ ~WriteBoundary(p) /\ ~MarshalPanics(p)
      BY <2>1 DEF WriteInitial, WriteDeferred, WriteBoundary, MarshalPanics, Flusher
    <3> QED
      BY <2>2, <3>1, <3>2 DEF Flush, FlushNothing, wvars
  <2>3. CASE HandlerStep
    BY <2>2, <2>3 DEF HandlerStep, Add, Done, Flusher, wvars
  <2>4. CASE TickerStep
    BY <2>2, <2>4 DEF TickerStep, Tick, Flusher, wvars
  <2>5. CASE CallHandler \/ HandlerReturnsNil \/ Environment \/ TickerStops
    BY <2>5 DEF CallHandler, HandlerReturnsNil, Environment, TickerStops, wvars
  <2>6. CASE UNCHANGED vars
    BY <2>6 DEF vars, wvars
  <2> QED
    BY <2>3, <2>4, <2>5, <2>6 DEF Next
<1> QED
  BY InitInv, NextInv, <1>1, PTL DEF Spec, NoWriteAfterReturn
-----------------------------------------------------------------------------
(***************************************************************************)
(* What Written and Names do with a chunk or an item more                  *)
(***************************************************************************)
Chunk == {Delimiter, Closing} \cup [part : Seq(Name), data : Seq(Name), hasNext : BOOLEAN]

LEMMA Chunks ==
  /\ Delimiter \in Chunk /\ Closing \in Chunk /\ Delimiter # Closing
  /\ ~IsPart(Delimiter) /\ ~IsPart(Closing) /\ PartOf(Delimiter) = <<>> /\ PartOf(Closing) = <<>>
  /\ \A x \in Chunk : PartOf(x) \in Seq(Name) /\ (IsPart(x) \/ x \in {Delimiter, Closing})
BY DEF Chunk, Delimiter, Closing, IsPart, PartOf

LEMMA WrittenNothing == Written(<<>>) = <<>>
<1>1. [i \in DOMAIN <<>> |-> PartOf(<<>>[i])] = <<>>
  OBVIOUS
<1> QED BY <1>1, FlattenEmpty DEF Written

LEMMA WrittenAppend ==
  ASSUME NEW o \in Seq(Chunk), NEW x \in Chunk
  PROVE  Written(o) \in Seq(Name) /\ Written(Append(o, x)) = Written(o) \o PartOf(x)
<1> DEFINE P(s) == [i \in DOMAIN s |-> PartOf(s[i])]
           a == Append(o, x)
<1>1. \A c \in Chunk : PartOf(c) \in Seq(Name)
  BY Chunks
<1>2. P(o) \in Seq(Seq(Name)) /\ Len(P(o)) = Len(o)
  BY <1>1, SMTT(30)
<1>3. /\ a \in Seq(Chunk) /\ Len(o) \in Nat /\ Len(a) = Len(o) + 1 /\ a[Len(o) + 1] = x
      /\ \A i \in 1 .. Len(o) : a[i] = o[i]
  OBVIOUS
<1>4. P(a) = Append(P(o), PartOf(x))
  <2> DEFINE q == Append(P(o), PartOf(x))
  <2>1. q \in Seq(Seq(Name)) /\ Len(q) = Len(o) + 1
    BY <1>1, <1>2
  <2>2. P(a) \in Seq(Seq(Name)) /\ Len(P(a)) = Len(o) + 1
    BY <1>1, <1>3
  <2>3. ASSUME NEW i \in 1 .. Len(o) + 1 PROVE P(a)[i] = q[i]
    <3>1. P(a)[i] = PartOf(a[i])
      BY <1>3
    <3>2. CASE i = Len(o) + 1
      BY <1>2, <1>3, <3>1, <3>2
    <3>3. CASE i # Len(o) + 1
      <4>1. i \in 1 .. Len(o)
        BY <1>3, <3>3
      <4> QED BY <1>2, <1>3, <3>1, <4>1
    <3> QED BY <3>2, <3>3
  <2> QED BY <2>1, <2>2, <2>3, SeqEqual
<1>5. FlattenSeq(P(o)) \in Seq(Name) /\ FlattenSeq(Append(P(o), PartOf(x))) = FlattenSeq(P(o)) \o PartOf(x)
  <2> HIDE DEF P
  <2> QED BY <1>1, <1>2, FlattenAppend
<1> QED BY <1>4, <1>5 DEF Written

LEMMA WrittenBoundary ==
  ASSUME NEW o \in Seq(Chunk), NEW x \in {Delimiter, Closing}
  PROVE  Append(o, x) \in Seq(Chunk) /\ Written(Append(o, x)) = Written(o)
<1>1. x \in Chunk /\ PartOf(x) = <<>>
  BY Chunks
<1>2. Written(o) \in Seq(Name) /\ Written(Append(o, x)) = Written(o) \o <<>>
  BY <1>1, WrittenAppend
<1>3. \A u \in Seq(Name) : u \o <<>> = u
  OBVIOUS
<1> QED BY <1>1, <1>2, <1>3

LEMMA NamesType ==
  ASSUME NEW T, NEW s \in Seq(T), \A r \in T : r.of \in Name
  PROVE  Names(s) \in Seq(Name) /\ Len(Names(s)) = Len(s)
BY DEF Names

LEMMA NamesConcat ==
  ASSUME NEW T, NEW s \in Seq(T), NEW t \in Seq(T), \A r \in T : r.of \in Name
  PROVE  Names(s \o t) = Names(s) \o Names(t)
<1>1. \A u \in Seq(T) : Names(u) \in Seq(Name) /\ Len(Names(u)) = Len(u)
  BY NamesType
<1>2. s \o t \in Seq(T) /\ Len(s \o t) = Len(s) + Len(t) /\ Len(s) \in Nat /\ Len(t) \in Nat
  OBVIOUS
<1>3. ASSUME NEW i \in 1 .. Len(s) + Len(t) PROVE Names(s \o t)[i] = (Names(s) \o Names(t))[i]
  <2>1. Names(s \o t)[i] = (s \o t)[i].of
    BY <1>2 DEF Names
  <2>2. CASE i <= Len(s)
    <3>1. Names(s)[i] = s[i].of /\ (s \o t)[i] = s[i]
      BY <1>2, <2>2 DEF Names
    <3>2. (Names(s) \o Names(t))[i] = Names(s)[i]
      BY <1>1, <1>2, <2>2
    <3> QED BY <2>1, <3>1, <3>2
  <2>3. CASE ~(i <= Len(s))
    <3>1. i - Len(s) \in 1 .. Len(t)
      BY <1>2, <2>3
    <3>2. Names(t)[i - Len(s)] = t[i - Len(s)].of /\ (s \o t)[i] = t[i - Len(s)]
      BY <1>2, <2>3, <3>1 DEF Names
    <3>3. (Names(s) \o Names(t))[i] = Names(t)[i - Len(s)]
      BY <1>1, <1>2, <2>3
    <3> QED BY <2>1, <3>2, <3>3
  <2> QED BY <2>2, <2>3
<1>4. Names(s \o t) \in Seq(Name) /\ Len(Names(s \o t)) = Len(s) + Len(t)
  BY <1>1, <1>2
<1>5. Names(s) \in Seq(Name) /\ Names(t) \in Seq(Name) /\ Len(Names(s)) = Len(s) /\ Len(Names(t)) = Len(t)
  BY <1>1
<1>6. \A u, v \in Seq(Name) : u \o v \in Seq(Name) /\ Len(u \o v) = Len(u) + Len(v)
  OBVIOUS
<1>7. Names(s) \o Names(t) \in Seq(Name) /\ Len(Names(s) \o Names(t)) = Len(s) + Len(t)
  BY <1>5, <1>6
<1> QED BY <1>3, <1>4, <1>7, SeqEqual

LEMMA Two ==
  ASSUME NEW S, NEW s \in Seq(S), NEW a \in S, NEW b \in S
  PROVE  s \o <<a, b>> = Append(Append(s, a), b)
OBVIOUS
-----------------------------------------------------------------------------
(***************************************************************************)
(* The queue: what the handler has returned goes through Do's hand and the *)
(* two buffers to the ResponseWriter, in order.                            *)
(***************************************************************************)
Fits(s) == s \in Seq(Item) /\ \A i \in DOMAIN s : s[i].at <= Len(arrays)

Types ==
  /\ delivered \in Seq([of : Name, more : BOOLEAN])
  /\ arrays \in Seq(Event) /\ out \in Seq(Chunk)
  /\ Fits(initialResponse) /\ Fits(deferResponses) /\ Fits(resp)

\* A buffer is only filled while the other one allows it, and a flush finds what it has seen.
Filled ==
  /\ resp # <<>> <=> hpc = "add"
  /\ first => Empty
  /\ Len(initialResponse) <= 1 /\ Len(resp) <= 1
  /\ mu # "free" /\ stage = "initial" => initialResponse # <<>>
  /\ mu # "free" /\ stage = "deferred" => deferResponses # <<>>

QueueInv == MInv /\ Types /\ Filled /\ NothingLostOrReordered

LEMMA QueueInit == Init => QueueInv
<1> SUFFICES ASSUME Init PROVE Types /\ Filled /\ NothingLostOrReordered
  BY InitInv DEF QueueInv
<1>1. Types /\ Filled
  BY DEF Init, IInit, Types, Fits, Filled, Empty
<1>2. Names(<<>>) = <<>> /\ <<>> \o <<>> = <<>>
  BY DEF Names
<1>3. NothingLostOrReordered
  BY <1>2, WrittenNothing DEF Init, IInit, NothingLostOrReordered
<1> QED BY <1>1, <1>3

LEMMA ItemNames ==
  /\ \A r \in Item : r.of \in Name
  /\ \A s \in Seq(Item) : Names(s) \in Seq(Name)
  /\ \A s, t \in Seq(Item) : Names(s \o t) = Names(s) \o Names(t)
  /\ Names(<<>>) = <<>>
<1>1. \A r \in Item : r.of \in Name
  BY DEF Item
<1>2. Names(<<>>) = <<>>
  BY DEF Names
<1> QED BY <1>1, <1>2, NamesType, NamesConcat

LEMMA Edges ==
  ASSUME NEW s \in Seq(Item), s # <<>>
  PROVE  s[1] \in Item /\ s[Len(s)] \in Item /\ s[1].more \in BOOLEAN /\ s[Len(s)].more \in BOOLEAN
<1>1. 1 \in DOMAIN s /\ Len(s) \in DOMAIN s
  OBVIOUS
<1>2. s[1] \in Item /\ s[Len(s)] \in Item
  BY <1>1
<1> QED BY <1>2 DEF Item

LEMMA Parts ==
  ASSUME arrays \in Seq(Event), NEW s, Fits(s), NEW h \in BOOLEAN
  PROVE  Part(s, h) \in Chunk /\ PartOf(Part(s, h)) = Names(s) /\ IsPart(Part(s, h))
         /\ Part(s, h).hasNext = h
<1>1. Names(s) \in Seq(Name)
  BY ItemNames DEF Fits
<1>2. \A i \in DOMAIN s : Data(s[i]) \in Name
  <2>1. ASSUME NEW i \in DOMAIN s PROVE Data(s[i]) \in Name
    <3>1. s[i] \in Item /\ s[i].at <= Len(arrays)
      BY DEF Fits
    <3>2. CASE s[i].at = 0
      BY <3>1, <3>2 DEF Data, Item
    <3>3. CASE s[i].at # 0
      <4>1. s[i].at \in 1 .. Len(arrays)
        BY <3>1, <3>3 DEF Item
      <4>2. arrays[s[i].at] \in Event
        BY <4>1
      <4> QED BY <3>3, <4>2 DEF Data, Name
    <3> QED BY <3>2, <3>3
  <2> QED BY <2>1
<1>3. [i \in DOMAIN s |-> Data(s[i])] \in Seq(Name)
  BY <1>2 DEF Fits
<1> QED BY <1>1, <1>3 DEF Part, Chunk, PartOf, IsPart

LEMMA CallQueue == QueueInv /\ CallHandler => QueueInv'
<1> SUFFICES ASSUME QueueInv, CallHandler PROVE Types' /\ Filled' /\ NothingLostOrReordered'
  BY CallInv DEF QueueInv
<1>1. UNCHANGED <<first, initialResponse, deferResponses, mu, stage, out>> /\ hpc = "call" /\ hpc' = "add"
  BY DEF CallHandler, wvars
<1>2. resp = <<>>
  BY <1>1 DEF QueueInv, Filled
<1>3. PICK d \in [of : Name, more : BOOLEAN], at \in Nat :
        /\ delivered' = Append(delivered, d) /\ resp' = <<[of |-> d.of, more |-> d.more, at |-> at]>>
        /\ arrays' \in Seq(Event) /\ Len(arrays) <= Len(arrays') /\ at <= Len(arrays')
  <2>1. ASSUME DeliverSome, UNCHANGED arrays
        PROVE  \E d \in [of : Name, more : BOOLEAN] :
                 delivered' = Append(delivered, d) /\ arrays' \in Seq(Event) /\ Len(arrays) <= Len(arrays')
    <3>1. PICK p \in Deferrable \cup {Initial} : Deliver(p)
      BY <2>1 DEF DeliverSome
    <3>2. p \in Name /\ (owed' # {}) \in BOOLEAN
      BY DEF Name
    <3>3. [of |-> p, more |-> owed' # {}] \in [of : Name, more : BOOLEAN]
      BY <3>2
    <3>4. delivered' = Append(delivered, [of |-> p, more |-> owed' # {}])
      BY <3>1 DEF Deliver
    <3>5. arrays' \in Seq(Event) /\ Len(arrays) <= Len(arrays')
      BY <2>1 DEF QueueInv, Types
    <3> QED BY <3>3, <3>4, <3>5
  <2>2. ASSUME NEW e \in Event, Emit(e), Marshal(e)
        PROVE  /\ \E d \in [of : Name, more : BOOLEAN] : delivered' = Append(delivered, d)
               /\ arrays' \in Seq(Event) /\ Len(arrays) <= Len(arrays')
    <3>1. [of |-> e, more |-> FALSE] \in [of : Name, more : BOOLEAN]
      BY DEF Name
    <3>2. arrays \in Seq(Event) /\ Len(arrays) \in Nat
      BY DEF QueueInv, Types
    <3>3. arrays # <<>> => /\ [arrays EXCEPT ![Len(arrays)] = e] \in Seq(Event)
                           /\ Len([arrays EXCEPT ![Len(arrays)] = e]) = Len(arrays)
      BY <3>2
    <3>4. \A a \in Seq(Event) : Append(a, e) \in Seq(Event) /\ Len(Append(a, e)) = Len(a) + 1
      OBVIOUS
    <3>5. arrays' \in Seq(Event) /\ Len(arrays) <= Len(arrays')
      BY <2>2, <3>2, <3>3, <3>4 DEF Marshal
    <3> QED BY <2>2, <3>1, <3>5 DEF Emit
  <2>3. ASSUME NEW d \in [of : Name, more : BOOLEAN], delivered' = Append(delivered, d)
        PROVE  \A at : Returned(at) = <<[of |-> d.of, more |-> d.more, at |-> at]>>
    BY <2>3 DEF Returned, QueueInv, Types
  <2>4. CASE DeliverSome /\ resp' = Returned(0) /\ UNCHANGED arrays
    BY <2>1, <2>3, <2>4 DEF QueueInv, Types
  <2>5. CASE \E e \in Event : Emit(e) /\ Marshal(e) /\ resp' = Returned(Len(arrays'))
    BY <2>2, <2>3, <2>5 DEF QueueInv, Types
  <2> QED BY <2>4, <2>5 DEF CallHandler
<1>4. Types'
  <2>1. ASSUME NEW s, Fits(s) PROVE s \in Seq(Item) /\ \A i \in DOMAIN s : s[i].at <= Len(arrays')
    <3>1. ASSUME NEW i \in DOMAIN s PROVE s[i].at <= Len(arrays')
      <4>1. s[i] \in Item /\ s[i].at <= Len(arrays)
        BY <2>1 DEF Fits
      <4>2. s[i].at \in Nat
        BY <4>1 DEF Item
      <4>3. Len(arrays) \in Nat /\ Len(arrays') \in Nat
        BY <1>3 DEF QueueInv, Types
      <4> QED BY <1>3, <4>1, <4>2, <4>3
    <3> QED BY <2>1, <3>1 DEF Fits
  <2>2. Fits(initialResponse)' /\ Fits(deferResponses)'
    BY <1>1, <2>1 DEF Fits, QueueInv, Types
  <2>3. Fits(resp)'
    BY <1>3 DEF Fits, Item
  <2> QED BY <1>1, <1>3, <2>2, <2>3 DEF QueueInv, Types
<1>5. Filled'
  BY <1>1, <1>3 DEF QueueInv, Filled, Empty
<1>6. Names(delivered') = Names(delivered) \o <<d.of>>
  <2>1. \A r \in [of : Name, more : BOOLEAN] : r.of \in Name
    OBVIOUS
  <2>2. delivered \in Seq([of : Name, more : BOOLEAN]) /\ <<d>> \in Seq([of : Name, more : BOOLEAN])
    BY DEF QueueInv, Types
  <2>3. delivered' = delivered \o <<d>>
    BY <1>3, <2>2, AppendIsConcat
  <2>4. Names(<<d>>) = <<d.of>>
    BY DEF Names
  <2> QED BY <2>1, <2>2, <2>3, <2>4, NamesConcat
<1>7. Names(resp') = <<d.of>>
  BY <1>3 DEF Names
<1>8. Names(resp) = <<>>
  BY <1>2, ItemNames
<1> DEFINE front == Written(out) \o Names(initialResponse) \o Names(deferResponses)
<1>9. front \in Seq(Name) /\ front \o <<>> = front
  <2>1. Written(out) \in Seq(Name)
    BY Chunks, WrittenAppend DEF QueueInv, Types
  <2>2. Names(initialResponse) \in Seq(Name) /\ Names(deferResponses) \in Seq(Name)
    BY ItemNames DEF QueueInv, Types, Fits
  <2> QED BY <2>1, <2>2
<1>10. NothingLostOrReordered'
  BY <1>1, <1>6, <1>7, <1>8, <1>9 DEF NothingLostOrReordered, QueueInv
<1> QED BY <1>4, <1>5, <1>10

LEMMA AddQueue == QueueInv /\ Add => QueueInv'
<1> SUFFICES ASSUME QueueInv, Add PROVE Types' /\ Filled' /\ NothingLostOrReordered'
  BY AddInv DEF QueueInv
<1>1. /\ hpc = "add" /\ hpc' = "call" /\ mu = "free" /\ first' = FALSE /\ resp' = <<>>
      /\ UNCHANGED <<delivered, arrays, mu, stage, out>>
  BY DEF Add, ivars, wvars
<1>2. /\ initialResponse \in Seq(Item) /\ deferResponses \in Seq(Item) /\ resp \in Seq(Item)
      /\ Written(out) \in Seq(Name) /\ resp # <<>> /\ Len(resp) <= 1
  BY <1>1, Chunks, WrittenAppend DEF QueueInv, Types, Fits, Filled
<1> DEFINE w == Written(out)
           ni == Names(initialResponse)
           nd == Names(deferResponses)
           nr == Names(resp)
<1>3. /\ w \in Seq(Name) /\ ni \in Seq(Name) /\ nd \in Seq(Name) /\ nr \in Seq(Name)
      /\ Names(delivered) = w \o ni \o nd \o nr
  BY <1>2, ItemNames DEF QueueInv, NothingLostOrReordered
<1>4. CASE first
  <2>1. initialResponse = <<>> /\ deferResponses = <<>> /\ initialResponse' = resp /\ deferResponses' = <<>>
    BY <1>4 DEF Add, QueueInv, Filled, Empty
  <2>2. Types' /\ Filled'
    BY <1>1, <1>2, <2>1 DEF QueueInv, Types, Fits, Filled, Empty
  <2>3. ni = <<>> /\ nd = <<>> /\ Names(<<>>) = <<>>
    BY <2>1, ItemNames
  <2>4. w \o ni \o nd \o nr = w \o nr \o <<>> \o <<>>
    <3>1. \A u \in Seq(Name) : u \o <<>> = u
      OBVIOUS
    <3>2. w \o nr \in Seq(Name)
      BY <1>3
    <3> HIDE DEF w, ni, nd, nr
    <3> QED BY <1>3, <2>3, <3>1, <3>2
  <2>5. NothingLostOrReordered'
    BY <1>1, <1>3, <2>1, <2>3, <2>4 DEF NothingLostOrReordered
  <2> QED BY <2>2, <2>5
<1>5. CASE ~first
  <2>1. initialResponse' = initialResponse /\ deferResponses' = deferResponses \o resp
    BY <1>5 DEF Add
  <2>2. Fits(deferResponses')
    <3>1. /\ deferResponses \o resp \in Seq(Item)
          /\ \A i \in 1 .. Len(deferResponses) : (deferResponses \o resp)[i] = deferResponses[i]
          /\ \A i \in 1 .. Len(resp) : (deferResponses \o resp)[Len(deferResponses) + i] = resp[i]
          /\ Len(deferResponses \o resp) = Len(deferResponses) + Len(resp)
      BY <1>2, ConcatProperties
    <3>2. ASSUME NEW i \in 1 .. Len(deferResponses) + Len(resp)
          PROVE  (deferResponses \o resp)[i].at <= Len(arrays)
      <4>1. Len(deferResponses) \in Nat /\ Len(resp) \in Nat
        BY <1>2
      <4>2. CASE i <= Len(deferResponses)
        BY <3>1, <4>1, <4>2 DEF QueueInv, Types, Fits
      <4>3. CASE ~(i <= Len(deferResponses))
        <5>1. i - Len(deferResponses) \in 1 .. Len(resp)
              /\ i = Len(deferResponses) + (i - Len(deferResponses))
          BY <4>1, <4>3
        <5>2. (deferResponses \o resp)[i] = resp[i - Len(deferResponses)]
          BY <3>1, <5>1
        <5> QED BY <1>2, <5>1, <5>2 DEF QueueInv, Types, Fits
      <4> QED BY <4>2, <4>3
    <3> QED BY <2>1, <3>1, <3>2 DEF Fits
  <2>3. Types' /\ Filled'
    BY <1>1, <1>2, <2>1, <2>2 DEF QueueInv, Types, Fits, Filled, Empty
  <2>4. Names(deferResponses') = nd \o nr /\ Names(<<>>) = <<>>
    BY <1>2, <2>1, ItemNames
  <2>5. w \o ni \o nd \o nr = w \o ni \o (nd \o nr) \o <<>>
    <3> HIDE DEF w, ni, nd, nr
    <3>1. w \o ni \in Seq(Name)
      BY <1>3
    <3>2. w \o ni \o nd \o nr = w \o ni \o (nd \o nr)
      BY <1>3, <3>1, ConcatAssociative, SMTT(30)
    <3>3. w \o ni \o nd \o nr \in Seq(Name)
      BY <1>3
    <3>4. \A u \in Seq(Name) : u \o <<>> = u
      OBVIOUS
    <3> QED BY <3>2, <3>3, <3>4
  <2>6. NothingLostOrReordered'
    BY <1>1, <1>3, <2>1, <2>4, <2>5 DEF NothingLostOrReordered
  <2> QED BY <2>3, <2>6
<1> QED BY <1>4, <1>5

LEMMA WriteInitialQueue == ASSUME QueueInv, NEW p \in Flusher, WriteInitial(p) PROVE QueueInv'
<1> SUFFICES Types' /\ Filled' /\ NothingLostOrReordered'
  BY FlushInv DEF QueueInv, Flush
<1> DEFINE x == Part(initialResponse, initialResponse[1].more)
<1>1. /\ mu = p /\ stage = "initial" /\ initialResponse # <<>> /\ initialResponse' = <<>>
      /\ stage' = IF deferResponses # <<>> THEN "deferred" ELSE "boundary"
      /\ out' = out \o <<Delimiter, x>> \o (IF deferResponses # <<>> THEN <<Delimiter>> ELSE <<>>)
      /\ UNCHANGED <<delivered, arrays, hpc, first, resp, deferResponses, mu>>
  BY DEF WriteInitial, QueueInv, Filled, Flusher, ivars
<1>2. /\ initialResponse \in Seq(Item) /\ deferResponses \in Seq(Item) /\ resp \in Seq(Item)
      /\ out \in Seq(Chunk) /\ Written(out) \in Seq(Name)
  BY Chunks, WrittenAppend DEF QueueInv, Types, Fits
<1>3. x \in Chunk /\ PartOf(x) = Names(initialResponse)
  <2>1. initialResponse[1].more \in BOOLEAN
    BY <1>1, <1>2, Edges
  <2> QED BY <2>1, Parts DEF QueueInv, Types
<1> DEFINE o == Append(Append(out, Delimiter), x)
<1>4. o \in Seq(Chunk) /\ Written(o) = Written(out) \o Names(initialResponse)
  <2>1. Append(out, Delimiter) \in Seq(Chunk) /\ o \in Seq(Chunk)
    BY <1>2, <1>3, Chunks
  <2>2. Written(Append(out, Delimiter)) = Written(out)
    BY <1>2, WrittenBoundary
  <2> QED BY <1>3, <2>1, <2>2, WrittenAppend
<1>5. out' = o \/ out' = Append(o, Delimiter)
  <2>1. out \o <<Delimiter, x>> = o
    BY <1>2, <1>3, Chunks, Two, SMTT(30)
  <2> HIDE DEF o, x
  <2>2. o \o <<Delimiter>> = Append(o, Delimiter) /\ o \o <<>> = o
    BY <1>4, AppendIsConcat, Chunks
  <2> QED BY <1>1, <2>1, <2>2
<1>6. out' \in Seq(Chunk) /\ Written(out') = Written(out) \o Names(initialResponse)
  <2> HIDE DEF o
  <2> QED BY <1>4, <1>5, WrittenBoundary
<1>7. Types'
  BY <1>1, <1>6 DEF QueueInv, Types, Fits
<1>8. Filled'
  BY <1>1 DEF QueueInv, Filled, Empty
<1>9. NothingLostOrReordered'
  <2>1. Names(<<>>) = <<>> /\ Names(initialResponse) \in Seq(Name)
    BY <1>2, ItemNames
  <2>2. Written(out) \o Names(initialResponse) \in Seq(Name)
    BY <1>2, <2>1
  <2>3. (Written(out) \o Names(initialResponse)) \o <<>> = Written(out) \o Names(initialResponse)
    BY <2>2
  <2> QED BY <1>1, <1>6, <2>1, <2>3 DEF NothingLostOrReordered, QueueInv
<1> QED BY <1>7, <1>8, <1>9

LEMMA WriteDeferredQueue == ASSUME QueueInv, NEW p \in Flusher, WriteDeferred(p) PROVE QueueInv'
<1> SUFFICES Types' /\ Filled' /\ NothingLostOrReordered'
  BY FlushInv DEF QueueInv, Flush
<1> DEFINE x == Part(deferResponses, deferResponses[Len(deferResponses)].more)
<1>1. /\ mu = p /\ mu # "free" /\ stage = "deferred" /\ deferResponses # <<>> /\ initialResponse = <<>>
      /\ deferResponses' = <<>> /\ stage' = "boundary" /\ out' = Append(out, x)
      /\ UNCHANGED <<delivered, arrays, hpc, first, resp, initialResponse, mu>>
  BY DEF WriteDeferred, QueueInv, Filled, MInv, Remaining, Flusher, ivars
<1>2. deferResponses \in Seq(Item) /\ out \in Seq(Chunk)
  BY DEF QueueInv, Types, Fits
<1>3. x \in Chunk /\ PartOf(x) = Names(deferResponses)
  <2>1. deferResponses[Len(deferResponses)].more \in BOOLEAN
    BY <1>1, <1>2, Edges
  <2> QED BY <2>1, Parts DEF QueueInv, Types
<1>4. /\ out' \in Seq(Chunk) /\ Written(out) \in Seq(Name)
      /\ Written(out') = Written(out) \o Names(deferResponses)
  <2> HIDE DEF x
  <2>1. Append(out, x) \in Seq(Chunk)
    BY <1>2, <1>3
  <2> QED BY <1>1, <1>2, <1>3, <2>1, WrittenAppend
<1>5. Types'
  BY <1>1, <1>4 DEF QueueInv, Types, Fits
<1>6. Filled'
  BY <1>1 DEF QueueInv, Filled, Empty
<1>7. NothingLostOrReordered'
  <2>1. Names(<<>>) = <<>> /\ Names(deferResponses) \in Seq(Name)
    BY <1>2, ItemNames
  <2>2. \A u \in Seq(Name) : u \o <<>> = u
    OBVIOUS
  <2>3. Written(out') \in Seq(Name)
    BY <1>4, <2>1
  <2>4. Written(out) \o <<>> = Written(out) /\ Written(out') \o <<>> = Written(out')
    BY <1>4, <2>2, <2>3
  <2> QED BY <1>1, <1>4, <2>1, <2>4 DEF NothingLostOrReordered, QueueInv
<1> QED BY <1>5, <1>6, <1>7

\* A step that takes nothing out of the queue and writes at most boundaries.
LEMMA SameQueue ==
  ASSUME QueueInv, MInv', UNCHANGED <<delivered, arrays, first, resp, initialResponse, deferResponses>>,
         out' = out \/ out' = Append(out, Delimiter) \/ out' = Append(out, Closing),
         hpc' = hpc \/ (hpc # "add" /\ hpc' # "add"),
         \/ mu' = "free" \/ UNCHANGED <<mu, stage>>
         \/ ~Empty /\ stage' = IF initialResponse # <<>> THEN "initial" ELSE "deferred"
  PROVE  QueueInv'
<1>1. out' \in Seq(Chunk) /\ Written(out') = Written(out)
  <2>1. out \in Seq(Chunk)
    BY DEF QueueInv, Types
  <2> QED BY <2>1, WrittenBoundary
<1>2. Types'
  BY <1>1 DEF QueueInv, Types, Fits
<1>3. Filled'
  BY DEF QueueInv, Filled, Empty
<1>4. NothingLostOrReordered'
  BY <1>1 DEF QueueInv, NothingLostOrReordered
<1> QED BY <1>2, <1>3, <1>4 DEF QueueInv

LEMMA FlushQueue == ASSUME QueueInv, NEW p \in Flusher, Flush(p) PROVE QueueInv'
<1>1. MInv'
  BY FlushInv DEF QueueInv
<1>2. CASE FlushNothing(p)
  BY <1>1, <1>2, SameQueue DEF FlushNothing, Go, At, After, avars, wvars, ivars, Flusher
<1>3. CASE FlushBegins(p)
  BY <1>1, <1>3, SameQueue DEF FlushBegins, Go, At, Empty, avars, ivars, Flusher
<1>4. CASE WriteBoundary(p)
  BY <1>1, <1>4, SameQueue
     DEF WriteBoundary, Go, At, After, avars, ivars, Flusher, QueueInv, MInv, Excluded
<1>5. CASE MarshalPanics(p)
  BY <1>1, <1>5, SameQueue DEF MarshalPanics, Go, At, avars, ivars, Flusher, QueueInv, MInv, Excluded
<1> QED BY <1>2, <1>3, <1>4, <1>5, WriteInitialQueue, WriteDeferredQueue DEF Flush

LEMMA NextQueue == QueueInv /\ [Next]_vars => QueueInv'
<1> SUFFICES ASSUME QueueInv, [Next]_vars PROVE QueueInv'
  OBVIOUS
<1>1. MInv'
  BY NextInv DEF QueueInv
<1>2. CASE UNCHANGED vars
  BY <1>1, <1>2, SameQueue DEF vars, avars, ivars, wvars
<1>3. CASE HandlerReturnsNil \/ Environment \/ TickerStops \/ Done \/ Tick
  BY <1>1, <1>3, SameQueue
     DEF HandlerReturnsNil, End, Environment, Announce, TickerStops, Done, Tick, avars, ivars, wvars
<1>4. CASE \E p \in Flusher : Flush(p)
  BY <1>4, FlushQueue
<1> QED BY <1>2, <1>3, <1>4, CallQueue, AddQueue DEF Next, HandlerStep, TickerStep, Flusher

THEOREM QueueInvariant == Spec => []QueueInv
BY QueueInit, NextQueue, PTL DEF Spec

(***************************************************************************)
(* Add and flush in http_multipart_mixed.go: the two goroutines write what *)
(* the handler has returned once and in its order, for any number of       *)
(* groups or events and wherever the ticker cuts the batches.              *)
(***************************************************************************)
THEOREM InOrder == Spec => []NothingLostOrReordered
<1>1. QueueInv => NothingLostOrReordered
  BY DEF QueueInv
<1> QED BY <1>1, QueueInvariant, PTL
-----------------------------------------------------------------------------
(***************************************************************************)
(* The body of a query's response.  Every item in the queue says rightly   *)
(* whether something follows it, so the boundary that is written after a   *)
(* batch, from the batch's last item, agrees with what is still to come,   *)
(* and goes on agreeing with it while the handler owes and returns.        *)
(***************************************************************************)
Truthful(s, rest) == \A j \in DOMAIN s : s[j].at = 0 /\ (s[j].more <=> j < Len(s) \/ rest)

HeldTruthful ==
  /\ Truthful(resp, owed # {})
  /\ Truthful(deferResponses, resp # <<>> \/ owed # {})
  /\ Truthful(initialResponse, deferResponses # <<>> \/ resp # <<>> \/ owed # {})

Ending ==
  /\ delivered = <<>> => Empty /\ resp = <<>> /\ out = <<>>
  /\ hpc \notin {"call", "add"} => ended
  /\ ended => owed = {} /\ delivered # <<>>

More  == ~Empty \/ resp # <<>> \/ owed # {}
Whole == out = <<>> \/ Len(out) % 2 = 1  \* what has been written ends with a boundary

ChunkInPlace(o, i, more) ==
  IF i % 2 = 0 THEN IsPart(o[i]) /\ (o[i].hasNext <=> i < Len(o) - 1 \/ more)
               ELSE o[i] = IF i < Len(o) \/ more THEN Delimiter ELSE Closing

Body ==
  /\ \A i \in DOMAIN out : ChunkInPlace(out, i, More)
  /\ IF out = <<>> THEN first \/ initialResponse # <<>> ELSE ~first /\ initialResponse = <<>>
  /\ mu = "free" \/ stage # "boundary" => Whole
  /\ mu # "free" /\ stage = "boundary" => ~Whole /\ (hasNext <=> More)

QueryInv == QueueInv /\ (~subscription => HeldTruthful /\ Ending /\ Body)

LEMMA Parity == \A n \in Nat : n % 2 \in {0, 1} /\ (n % 2 = 0 <=> (n + 1) % 2 = 1)
OBVIOUS

LEMMA QueryInit == Init => QueryInv
<1> SUFFICES ASSUME Init PROVE HeldTruthful /\ Ending /\ Body
  BY QueueInit DEF QueryInv
<1> QED BY DEF Init, IInit, HeldTruthful, Truthful, Ending, Empty, Body, Whole

\* A step that writes nothing and does not touch the buffers.
LEMMA BodyKept ==
  ASSUME Body, UNCHANGED <<out, first, initialResponse, mu, stage, hasNext>>,
         out # <<>> => (More' <=> More)
  PROVE  Body'
<1>1. mu # "free" /\ stage = "boundary" => out # <<>>
  BY DEF Body, Whole
<1> QED BY <1>1 DEF Body, Whole, ChunkInPlace

LEMMA CallBody == QueryInv /\ ~subscription /\ CallHandler => HeldTruthful' /\ Ending' /\ Body'
<1> SUFFICES ASSUME QueryInv, ~subscription, CallHandler PROVE HeldTruthful' /\ Ending' /\ Body'
  OBVIOUS
<1>1. PICK p \in Deferrable \cup {Initial} : Deliver(p)
  BY DEF CallHandler, DeliverSome
<1>2. /\ hpc' = "add" /\ resp' = Returned(0) /\ ended' = ended /\ ~ended
      /\ UNCHANGED <<first, initialResponse, deferResponses, mu, stage, hasNext, out>>
  BY <1>1 DEF CallHandler, Deliver, wvars
<1>3. resp = <<>>
  BY DEF CallHandler, QueryInv, QueueInv, Filled
<1>4. PICK m \in BOOLEAN : m = (owed' # {}) /\ (m <=> owed' # {})
  <2>1. (owed' # {}) \in BOOLEAN
    OBVIOUS
  <2> QED BY <2>1
<1>5. resp' = <<[of |-> p, more |-> m, at |-> 0]>> /\ delivered' # <<>>
  <2> DEFINE d == [of |-> p, more |-> m]
  <2>1. delivered' = Append(delivered, d)
    BY <1>1, <1>4 DEF Deliver
  <2>2. d \in [of : Name, more : BOOLEAN] /\ delivered \in Seq([of : Name, more : BOOLEAN])
    BY DEF Name, QueryInv, QueueInv, Types
  <2> HIDE DEF d
  <2>3. delivered'[Len(delivered')] = d /\ delivered' # <<>>
    BY <2>1, <2>2
  <2> QED BY <1>2, <2>3 DEF Returned, d
<1>6. delivered # <<>> => owed # {}
  BY <1>1 DEF Deliver
<1>7. HeldTruthful'
  <2>1. Truthful(resp, owed # {})'
    <3>1. DOMAIN resp' = {1} /\ Len(resp') = 1 /\ resp'[1].at = 0 /\ resp'[1].more = m
      BY <1>5
    <3>2. resp'[1].more <=> owed' # {}
      <4>1. m <=> owed' # {}
        BY <1>4
      <4> QED BY <3>1, <4>1, Zenon
    <3>3. ASSUME NEW j \in DOMAIN resp'
          PROVE  resp'[j].at = 0 /\ (resp'[j].more <=> j < Len(resp') \/ owed' # {})
      BY <3>1, <3>2
    <3> QED BY <3>3 DEF Truthful
  <2>2. resp' # <<>>
    BY <1>5
  <2>3. delivered = <<>> => deferResponses = <<>> /\ initialResponse = <<>>
    BY DEF QueryInv, Ending, Empty
  <2> QED BY <1>2, <1>6, <2>1, <2>2, <2>3 DEF HeldTruthful, Truthful, QueryInv
<1>8. Ending'
  BY <1>2, <1>5 DEF Ending
<1>9. Body'
  <2>1. More'
    BY <1>5 DEF More
  <2>2. out # <<>> => More
    BY <1>6 DEF QueryInv, Ending, More
  <2> QED BY <1>2, <2>1, <2>2, BodyKept DEF QueryInv
<1> QED BY <1>7, <1>8, <1>9

LEMMA EnvironmentBody == QueryInv /\ Environment => HeldTruthful' /\ Ending' /\ Body'
<1> SUFFICES ASSUME QueryInv, Environment PROVE HeldTruthful' /\ Ending' /\ Body'
  OBVIOUS
<1>1. PICK g \in Deferrable : Announce(g)
  BY DEF Environment
<1>2. /\ ~subscription /\ owed' # {} /\ delivered' = delivered /\ ended' = ended /\ ~ended
      /\ delivered = <<>> \/ owed # {}
      /\ UNCHANGED <<hpc, first, resp, initialResponse, deferResponses, mu, stage, hasNext, out>>
  BY <1>1 DEF Environment, Announce, avars, wvars
<1>3. delivered = <<>> => Empty /\ resp = <<>> /\ out = <<>>
  BY <1>2 DEF QueryInv, Ending
<1>4. HeldTruthful'
  BY <1>2, <1>3 DEF HeldTruthful, Truthful, QueryInv, Empty
<1>5. Ending'
  BY <1>2, <1>3 DEF Ending, Empty, QueryInv
<1>6. Body'
  <2>1. out # <<>> => More /\ More'
    BY <1>2, <1>3 DEF More
  <2> QED BY <1>2, <2>1, BodyKept DEF QueryInv
<1> QED BY <1>4, <1>5, <1>6

LEMMA AddBody == QueryInv /\ ~subscription /\ Add => HeldTruthful' /\ Ending' /\ Body'
<1> SUFFICES ASSUME QueryInv, ~subscription, Add PROVE HeldTruthful' /\ Ending' /\ Body'
  OBVIOUS
<1>1. /\ hpc = "add" /\ hpc' = "call" /\ mu = "free" /\ first' = FALSE /\ resp' = <<>>
      /\ UNCHANGED <<owed, delivered, ended, mu, stage, hasNext, out>>
  BY DEF Add, ivars, wvars
<1>2. /\ deferResponses \in Seq(Item) /\ resp \in Seq(Item) /\ resp # <<>> /\ Len(resp) = 1
  <2>1. deferResponses \in Seq(Item) /\ resp \in Seq(Item)
    BY DEF QueryInv, QueueInv, Types, Fits
  <2>2. resp # <<>> /\ Len(resp) <= 1
    BY <1>1 DEF QueryInv, QueueInv, Filled
  <2>3. Len(resp) \in Nat /\ Len(resp) # 0
    BY <2>1, <2>2
  <2>4. Len(resp) = 1
    BY <2>2, <2>3
  <2> QED BY <2>1, <2>2, <2>4
<1>3. HeldTruthful /\ Ending /\ Body /\ (first => Empty)
  BY DEF QueryInv, QueueInv, Filled
<1>4. CASE first
  <2>1. initialResponse' = resp /\ deferResponses' = <<>> /\ deferResponses = <<>>
    BY <1>3, <1>4 DEF Add, Empty
  <2>2. HeldTruthful'
    BY <1>1, <1>3, <2>1 DEF HeldTruthful, Truthful
  <2>3. out = <<>>
    BY <1>3, <1>4 DEF Body
  <2> QED BY <1>1, <1>2, <1>3, <2>1, <2>2, <2>3 DEF Ending, Body, Whole
<1>5. CASE ~first
  <2>1. initialResponse' = initialResponse /\ deferResponses' = deferResponses \o resp
    BY <1>5 DEF Add
  <2>2. /\ Len(deferResponses') = Len(deferResponses) + 1 /\ deferResponses' # <<>>
        /\ deferResponses'[Len(deferResponses) + 1] = resp[1] /\ Len(deferResponses) \in Nat
        /\ \A j \in 1 .. Len(deferResponses) : deferResponses'[j] = deferResponses[j]
    <3>1. Len(deferResponses) \in Nat /\ 1 \in 1 .. Len(resp)
      BY <1>2
    <3>2. /\ deferResponses' \in Seq(Item) /\ Len(deferResponses') = Len(deferResponses) + 1
          /\ deferResponses'[Len(deferResponses) + 1] = resp[1]
      BY <1>2, <2>1, <3>1, ConcatProperties, SMTT(30)
    <3>3. \A j \in 1 .. Len(deferResponses) : deferResponses'[j] = deferResponses[j]
      BY <1>2, <2>1, <3>1, ConcatProperties
    <3>4. deferResponses' # <<>>
      BY <3>1, <3>2
    <3> QED BY <3>1, <3>2, <3>3, <3>4
  <2>3. Truthful(deferResponses, resp # <<>> \/ owed # {})'
    <3> SUFFICES ASSUME NEW j \in 1 .. Len(deferResponses) + 1
                 PROVE  /\ deferResponses'[j].at = 0
                        /\ deferResponses'[j].more <=> j < Len(deferResponses) + 1 \/ owed # {}
      BY <1>1, <2>1, <2>2, <1>2 DEF Truthful
    <3>1. CASE j \in 1 .. Len(deferResponses)
      BY <1>2, <1>3, <2>2, <3>1 DEF HeldTruthful, Truthful
    <3>2. CASE j = Len(deferResponses) + 1
      BY <1>2, <1>3, <2>2, <3>2 DEF HeldTruthful, Truthful
    <3> QED BY <2>2, <3>1, <3>2
  <2>4. HeldTruthful'
    <3>1. Truthful(resp, owed # {})'
      BY <1>1 DEF Truthful
    <3>2. Truthful(initialResponse, deferResponses # <<>> \/ resp # <<>> \/ owed # {})'
      BY <1>1, <1>2, <1>3, <2>1, <2>2 DEF HeldTruthful, Truthful
    <3> QED BY <2>3, <3>1, <3>2 DEF HeldTruthful
  <2>5. delivered # <<>>
    BY <1>2, <1>3 DEF Ending
  <2>6. Ending'
    BY <1>1, <1>3, <2>5 DEF Ending
  <2>7. More /\ More'
    BY <1>2, <2>2 DEF More, Empty
  <2>8. Body'
    BY <1>1, <1>3, <1>5, <2>1, <2>7 DEF Body, Whole, ChunkInPlace
  <2> QED BY <2>4, <2>6, <2>8
<1> QED BY <1>4, <1>5

\* A chunk more, in its place, leaves the others in theirs: a part when more was announced, a
\* boundary when it announces the same.
LEMMA BodyAppend ==
  ASSUME NEW o \in Seq(Chunk), NEW x \in Chunk, NEW was \in BOOLEAN, NEW is \in BOOLEAN,
         \A i \in DOMAIN o : ChunkInPlace(o, i, was),
         IF (Len(o) + 1) % 2 = 0
           THEN (was \/ o = <<>>) /\ IsPart(x) /\ (x.hasNext <=> is)
           ELSE (was <=> is) /\ x = IF is THEN Delimiter ELSE Closing
  PROVE  \A i \in DOMAIN Append(o, x) : ChunkInPlace(Append(o, x), i, is)
<1> DEFINE a == Append(o, x)
<1>1. PICK n \in Nat : n = Len(o)
  OBVIOUS
<1>2. /\ Len(a) = n + 1 /\ a[n + 1] = x /\ DOMAIN a = 1 .. n + 1
      /\ \A i \in 1 .. n : a[i] = o[i]
  BY <1>1
<1> HIDE DEF a
<1>3. ASSUME NEW i \in 1 .. n PROVE ChunkInPlace(a, i, is)
  <2>1. ChunkInPlace(o, i, was) /\ a[i] = o[i] /\ o # <<>> /\ i \in Nat
    BY <1>1, <1>2
  <2>2. CASE (n + 1) % 2 = 0
    <3>1. was
      BY <1>1, <2>1, <2>2
    <3>2. i % 2 = 0 => i < n
      BY <2>2, Parity
    <3>3. CASE i % 2 = 0
      BY <1>1, <1>2, <2>1, <3>1, <3>2, <3>3 DEF ChunkInPlace
    <3>4. CASE i % 2 # 0
      BY <1>1, <1>2, <2>1, <3>1, <3>4 DEF ChunkInPlace
    <3> QED BY <3>3, <3>4
  <2>3. CASE (n + 1) % 2 # 0
    <3>1. was <=> is
      BY <1>1, <2>3
    <3>2. n % 2 = 0
      BY <2>3, Parity
    <3>3. CASE i % 2 = 0
      <4>1. i = n \/ i < n - 1
        <5>1. i = n - 1 => n % 2 = 1
          BY <3>3, Parity
        <5> QED BY <3>2, <5>1
      <4> QED BY <1>1, <1>2, <2>1, <3>1, <3>3, <4>1 DEF ChunkInPlace
    <3>4. CASE i % 2 # 0
      <4>1. i < n
        BY <3>2, <3>4
      <4> QED BY <1>1, <1>2, <2>1, <3>4, <4>1 DEF ChunkInPlace
    <3> QED BY <3>3, <3>4
  <2> QED BY <2>2, <2>3
<1>4. ChunkInPlace(a, n + 1, is)
  BY <1>1, <1>2 DEF ChunkInPlace
<1>5. \A i \in DOMAIN a : ChunkInPlace(a, i, is)
  <2>1. \A i \in 1 .. n + 1 : i \in 1 .. n \/ i = n + 1
    OBVIOUS
  <2> QED BY <1>2, <1>3, <1>4, <2>1
<1> QED BY <1>5 DEF a

LEMMA BoundaryAppend ==
  ASSUME NEW o \in Seq(Chunk), NEW is \in BOOLEAN, Len(o) % 2 = 0,
         \A i \in DOMAIN o : ChunkInPlace(o, i, is),
         NEW x, x = IF is THEN Delimiter ELSE Closing
  PROVE  \A i \in DOMAIN Append(o, x) : ChunkInPlace(Append(o, x), i, is)
<1>1. (Len(o) + 1) % 2 # 0 /\ x \in Chunk
  BY Parity, Chunks
<1> QED BY <1>1, BodyAppend

LEMMA PartAppend ==
  ASSUME NEW o \in Seq(Chunk), NEW is \in BOOLEAN, Len(o) % 2 = 1,
         \A i \in DOMAIN o : ChunkInPlace(o, i, TRUE),
         NEW x \in Chunk, IsPart(x), x.hasNext <=> is
  PROVE  \A i \in DOMAIN Append(o, x) : ChunkInPlace(Append(o, x), i, is)
<1>1. (Len(o) + 1) % 2 = 0
  BY Parity
<1> QED BY <1>1, BodyAppend

LEMMA WriteInitialBody ==
  ASSUME QueryInv, ~subscription, NEW p \in Flusher, WriteInitial(p)
  PROVE  HeldTruthful' /\ Ending' /\ Body'
<1> DEFINE x == Part(initialResponse, initialResponse[1].more)
<1>1. /\ mu = p /\ mu # "free" /\ stage = "initial" /\ initialResponse # <<>> /\ initialResponse' = <<>>
      /\ stage' = IF deferResponses # <<>> THEN "deferred" ELSE "boundary"
      /\ hasNext' = initialResponse[1].more
      /\ out' = out \o <<Delimiter, x>> \o (IF deferResponses # <<>> THEN <<Delimiter>> ELSE <<>>)
      /\ UNCHANGED <<owed, delivered, ended, hpc, first, resp, deferResponses, mu>>
  BY DEF WriteInitial, QueryInv, QueueInv, Filled, Flusher, ivars
<1>2. HeldTruthful /\ Ending /\ Body /\ initialResponse \in Seq(Item) /\ Len(initialResponse) <= 1
      /\ (first => Empty)
  BY DEF QueryInv, QueueInv, Types, Fits, Filled
<1>3. out = <<>> /\ ~first /\ More
  BY <1>1, <1>2 DEF Body, Empty, More
<1>4. PICK m \in BOOLEAN : m = initialResponse[1].more /\ (m <=> More')
  <2>1. initialResponse[1].more \in BOOLEAN /\ 1 \in DOMAIN initialResponse /\ Len(initialResponse) = 1
    <3>1. Len(initialResponse) \in Nat /\ Len(initialResponse) # 0
      BY <1>1, <1>2
    <3>2. Len(initialResponse) = 1
      BY <1>2, <3>1
    <3> QED BY <1>1, <1>2, <3>2, Edges
  <2>2. initialResponse[1].more <=> deferResponses # <<>> \/ resp # <<>> \/ owed # {}
    BY <1>2, <2>1 DEF HeldTruthful, Truthful
  <2>3. More' <=> deferResponses # <<>> \/ resp # <<>> \/ owed # {}
    BY <1>1 DEF More, Empty
  <2> QED BY <2>1, <2>2, <2>3
<1>5. PICK y \in Chunk : y = x /\ IsPart(y) /\ y.hasNext = m
  <2>1. Fits(initialResponse) /\ arrays \in Seq(Event)
    BY DEF QueryInv, QueueInv, Types
  <2> QED BY <1>4, <2>1, Parts
<1> HIDE DEF x
<1>6. PICK o \in Seq(Chunk) : o = <<Delimiter, y>> /\ Len(o) = 2 /\ \A i \in DOMAIN o : ChunkInPlace(o, i, m)
  <2>1. <<Delimiter, y>> \in Seq(Chunk) /\ Len(<<Delimiter, y>>) = 2
    BY Chunks
  <2>2. \A i \in {1, 2} : ChunkInPlace(<<Delimiter, y>>, i, m)
    BY <1>5 DEF ChunkInPlace
  <2>3. DOMAIN <<Delimiter, y>> = {1, 2}
    OBVIOUS
  <2>4. \A i \in DOMAIN <<Delimiter, y>> : ChunkInPlace(<<Delimiter, y>>, i, m)
    BY <2>2, <2>3
  <2> QED BY <2>1, <2>4
<1>7. out' = IF deferResponses # <<>> THEN Append(o, Delimiter) ELSE o
  <2>1. <<>> \o <<Delimiter, y>> = o /\ o \o <<>> = o /\ o \o <<Delimiter>> = Append(o, Delimiter)
    BY <1>6, Chunks, AppendIsConcat
  <2> QED BY <1>1, <1>3, <1>5, <2>1
<1>8. HeldTruthful' /\ Ending'
  BY <1>1, <1>2, <1>3 DEF HeldTruthful, Truthful, Ending, Empty
<1>9. Body'
  <2>1. CASE deferResponses # <<>>
    <3>1. More'
      BY <1>1, <2>1 DEF More, Empty
    <3>2. m /\ out' = Append(o, Delimiter)
      BY <1>4, <1>7, <2>1, <3>1
    <3>3. (Len(o) + 1) % 2 = 1 /\ Len(o) % 2 = 0
      BY <1>6
    <3>4. \A i \in DOMAIN Append(o, Delimiter) : ChunkInPlace(Append(o, Delimiter), i, m)
      BY <1>6, <3>2, <3>3, BoundaryAppend
    <3>5. \A i \in DOMAIN out' : ChunkInPlace(out', i, More')
      BY <3>1, <3>2, <3>4 DEF ChunkInPlace
    <3>6. Len(out') = Len(o) + 1 /\ out' # <<>>
      BY <3>2, Chunks
    <3>7. stage' = "deferred"
      BY <1>1, <2>1
    <3> QED BY <1>1, <1>3, <3>3, <3>5, <3>6, <3>7 DEF Body, Whole
  <2>2. CASE deferResponses = <<>>
    <3>1. out' = o /\ stage' = "boundary" /\ (hasNext' <=> m)
      BY <1>1, <1>4, <1>7, <2>2
    <3>2. \A i \in DOMAIN out' : ChunkInPlace(out', i, More')
      BY <1>4, <1>6, <3>1 DEF ChunkInPlace
    <3>3. out' # <<>> /\ Len(out') = 2
      BY <1>6, <3>1
    <3> QED BY <1>1, <1>3, <1>4, <3>1, <3>2, <3>3 DEF Body, Whole
  <2> QED BY <2>1, <2>2
<1> QED BY <1>8, <1>9

LEMMA WriteDeferredBody ==
  ASSUME QueryInv, ~subscription, NEW p \in Flusher, WriteDeferred(p)
  PROVE  HeldTruthful' /\ Ending' /\ Body'
<1> DEFINE last == deferResponses[Len(deferResponses)]
           x == Part(deferResponses, last.more)
<1>1. /\ mu = p /\ mu # "free" /\ stage = "deferred" /\ deferResponses # <<>> /\ initialResponse = <<>>
      /\ deferResponses' = <<>> /\ stage' = "boundary" /\ hasNext' = last.more /\ out' = Append(out, x)
      /\ UNCHANGED <<owed, delivered, ended, hpc, first, resp, initialResponse, mu>>
  BY DEF WriteDeferred, QueryInv, QueueInv, Filled, MInv, Remaining, Flusher, ivars
<1>2. HeldTruthful /\ Ending /\ Body /\ deferResponses \in Seq(Item) /\ out \in Seq(Chunk)
      /\ (first => Empty)
  BY DEF QueryInv, QueueInv, Types, Fits, Filled
<1>3. ~first /\ out # <<>> /\ More /\ Len(out) % 2 = 1
  BY <1>1, <1>2 DEF Body, Whole, Empty, More
<1>4. PICK m \in BOOLEAN : m = last.more /\ (m <=> More')
  <2>1. last.more \in BOOLEAN /\ Len(deferResponses) \in DOMAIN deferResponses
    BY <1>1, <1>2, Edges
  <2>2. last.more <=> resp # <<>> \/ owed # {}
    BY <1>2, <2>1 DEF HeldTruthful, Truthful
  <2>3. More' <=> resp # <<>> \/ owed # {}
    BY <1>1 DEF More, Empty
  <2> QED BY <2>1, <2>2, <2>3
<1>5. PICK y \in Chunk : y = x /\ IsPart(y) /\ y.hasNext = m
  <2>1. Fits(deferResponses) /\ arrays \in Seq(Event)
    BY DEF QueryInv, QueueInv, Types
  <2> QED BY <1>4, <2>1, Parts
<1> HIDE DEF x, last
<1>6. HeldTruthful' /\ Ending'
  BY <1>1, <1>2, <1>3 DEF HeldTruthful, Truthful, Ending, Empty
<1>7. Body'
  <2>1. \A i \in DOMAIN out : ChunkInPlace(out, i, TRUE)
    BY <1>2, <1>3 DEF Body, ChunkInPlace
  <2>2. \A i \in DOMAIN Append(out, y) : ChunkInPlace(Append(out, y), i, m)
    BY <1>2, <1>3, <1>5, <2>1, PartAppend
  <2>3. \A i \in DOMAIN out' : ChunkInPlace(out', i, More')
    BY <1>1, <1>4, <1>5, <2>2 DEF ChunkInPlace
  <2>4. Len(out') = Len(out) + 1 /\ out' # <<>> /\ Len(out) \in Nat
    BY <1>1, <1>2, <1>5
  <2>5. Len(out') % 2 = 0
    BY <1>3, <2>4, Parity
  <2>6. ~Whole' /\ (hasNext' <=> More')
    BY <1>1, <1>4, <2>4, <2>5 DEF Whole
  <2> QED BY <1>1, <1>3, <2>3, <2>4, <2>6 DEF Body
<1> QED BY <1>6, <1>7

LEMMA WriteBoundaryBody ==
  ASSUME QueryInv, ~subscription, NEW p \in Flusher, WriteBoundary(p)
  PROVE  HeldTruthful' /\ Ending' /\ Body'
<1>1. /\ mu = p /\ mu # "free" /\ stage = "boundary" /\ mu' = "free"
      /\ out' = Append(out, IF hasNext THEN Delimiter ELSE Closing)
      /\ hpc' = hpc \/ (hpc' = "returned" /\ hpc = "flush")
      /\ UNCHANGED <<owed, delivered, ended, first, resp, initialResponse, deferResponses>>
  BY DEF WriteBoundary, Go, After, Flusher, ivars, avars, QueryInv, QueueInv, MInv, Excluded, At
<1>2. HeldTruthful /\ Ending /\ Body /\ out \in Seq(Chunk)
  BY DEF QueryInv, QueueInv, Types
<1>3. ~Whole /\ (hasNext <=> More) /\ (More' <=> More)
  BY <1>1, <1>2 DEF Body, More, Empty
<1>4. out # <<>> /\ delivered # <<>> /\ Len(out) % 2 = 0 /\ Len(out) \in Nat
  BY <1>2, <1>3, Parity DEF Whole, Ending
<1>5. HeldTruthful' /\ Ending'
  BY <1>1, <1>2, <1>4 DEF HeldTruthful, Truthful, Ending, Empty
<1>6. Body'
  <2>1. PICK m \in BOOLEAN : m <=> More
    OBVIOUS
  <2>2. PICK x : x = IF m THEN Delimiter ELSE Closing
    OBVIOUS
  <2>3. out' = Append(out, x)
    BY <1>1, <1>3, <2>1, <2>2
  <2>4. \A i \in DOMAIN out : ChunkInPlace(out, i, m)
    BY <1>2, <2>1 DEF Body, ChunkInPlace
  <2>5. \A i \in DOMAIN Append(out, x) : ChunkInPlace(Append(out, x), i, m)
    BY <1>2, <1>4, <2>2, <2>4, BoundaryAppend
  <2>6. \A i \in DOMAIN out' : ChunkInPlace(out', i, More')
    BY <1>3, <2>1, <2>3, <2>5 DEF ChunkInPlace
  <2>7. Len(out') = Len(out) + 1 /\ out' # <<>>
    BY <1>2, <1>4, <2>2, <2>3, Chunks, SMTT(30)
  <2>8. Len(out') % 2 = 1
    BY <1>4, <2>7, Parity
  <2> QED BY <1>1, <1>2, <1>4, <2>6, <2>7, <2>8 DEF Body, Whole
<1> QED BY <1>5, <1>6

\* The data of a query's response is its own, and nothing refuses it.
LEMMA NoPanic ==
  ASSUME QueryInv, ~subscription, NEW p \in Flusher
  PROVE  ~MarshalPanics(p)
<1>1. HeldTruthful
  BY DEF QueryInv
<1>2. ~Overwritten(initialResponse) /\ ~Overwritten(deferResponses)
  BY <1>1 DEF Overwritten, HeldTruthful, Truthful, Data
<1> QED BY <1>2 DEF MarshalPanics

LEMMA FlushBody ==
  ASSUME QueryInv, ~subscription, NEW p \in Flusher, Flush(p)
  PROVE  HeldTruthful' /\ Ending' /\ Body'
<1>1. HeldTruthful /\ Ending /\ Body
  BY DEF QueryInv
<1>2. CASE FlushNothing(p)
  <2>1. /\ hpc' = hpc \/ (hpc' = "returned" /\ hpc = "lock")
        /\ UNCHANGED <<owed, delivered, ended, first, resp, initialResponse, deferResponses>>
        /\ UNCHANGED <<mu, stage, hasNext, out>>
    BY <1>2 DEF FlushNothing, At, Go, After, Flusher, ivars, avars, wvars
  <2> QED BY <1>1, <2>1, BodyKept DEF HeldTruthful, Truthful, Ending, Empty, More
<1>3. CASE FlushBegins(p)
  <2>1. /\ mu = "free" /\ mu' = p /\ stage' # "boundary"
        /\ hpc' = hpc \/ (hpc' = "flush" /\ hpc = "lock")
        /\ UNCHANGED <<owed, delivered, ended, first, resp, initialResponse, deferResponses, out>>
    BY <1>3 DEF FlushBegins, At, Go, Flusher, ivars, avars
  <2>2. Body'
    BY <1>1, <2>1 DEF Body, Whole, ChunkInPlace, More, Empty
  <2> QED BY <1>1, <2>1, <2>2 DEF HeldTruthful, Truthful, Ending, Empty
<1> QED BY <1>2, <1>3, WriteInitialBody, WriteDeferredBody, WriteBoundaryBody, NoPanic DEF Flush

LEMMA NextQuery == QueryInv /\ [Next]_vars => QueryInv'
<1> SUFFICES ASSUME QueryInv, [Next]_vars PROVE QueryInv'
  OBVIOUS
<1>1. QueueInv'
  BY NextQueue DEF QueryInv
<1>2. subscription' = subscription
  BY DEF Next, HandlerStep, TickerStep, Flush, FlushNothing, FlushBegins, WriteInitial, WriteDeferred,
         WriteBoundary, MarshalPanics, CallHandler, HandlerReturnsNil, Environment, TickerStops, Tick,
         Add, Done, vars, avars
<1> SUFFICES ASSUME ~subscription PROVE HeldTruthful' /\ Ending' /\ Body'
  BY <1>1, <1>2 DEF QueryInv
<1>3. HeldTruthful /\ Ending /\ Body
  BY DEF QueryInv
<1>4. CASE HandlerReturnsNil \/ TickerStops \/ Done \/ Tick \/ UNCHANGED vars
  <2>1. /\ UNCHANGED <<owed, delivered, first, resp, initialResponse, deferResponses>>
        /\ UNCHANGED <<mu, stage, hasNext, out>>
        /\ \/ hpc' = hpc /\ ended' = ended
           \/ hpc' \notin {"call", "add"} /\ hpc \notin {"call", "add"} /\ ended' = ended
           \/ ended' /\ owed = {} /\ delivered # <<>>
    BY <1>4 DEF HandlerReturnsNil, End, TickerStops, Done, Tick, vars, ivars, avars, wvars
  <2> QED BY <1>3, <2>1, BodyKept DEF HeldTruthful, Truthful, Ending, Empty, More
<1>5. CASE \E p \in Flusher : Flush(p)
  BY <1>5, FlushBody
<1> QED BY <1>4, <1>5, CallBody, EnvironmentBody, AddBody DEF Next, HandlerStep, TickerStep, Flusher

THEOREM QueryInvariant == Spec => []QueryInv
BY QueryInit, NextQuery, PTL DEF Spec

(***************************************************************************)
(* flush in http_multipart_mixed.go: whatever the ticker does, a query's   *)
(* parts and boundaries alternate, and nothing follows the closing one.    *)
(***************************************************************************)
THEOREM BodyWellFormed == Spec => []WellFormedBody
<1>1. QueryInv => WellFormedBody
  <2> SUFFICES ASSUME QueryInv, ~subscription, NEW i \in DOMAIN out
               PROVE  (IsPart(out[i]) <=> i % 2 = 0) /\ (out[i] = Closing => i = Len(out))
    BY DEF WellFormedBody, ClosingIsLast
  <2>1. ChunkInPlace(out, i, More) /\ out \in Seq(Chunk)
    BY DEF QueryInv, Body, QueueInv, Types
  <2>2. CASE i % 2 = 0
    BY <2>1, <2>2, Chunks DEF ChunkInPlace
  <2>3. CASE i % 2 # 0
    <3>1. i < Len(out) \/ i = Len(out)
      BY <2>1
    <3> QED BY <2>1, <2>3, <3>1, Chunks DEF ChunkInPlace
  <2> QED BY <2>2, <2>3
<1> QED BY <1>1, QueryInvariant, PTL

(***************************************************************************)
(* Done in http_multipart_mixed.go: when Do returns the client has every   *)
(* response, and a query's body is closed and says hasNext rightly.        *)
(***************************************************************************)
THEOREM BodyComplete == Spec => []CompleteAtReturn
<1>1. QueryInv => CompleteAtReturn
  <2> SUFFICES ASSUME QueryInv, hpc = "returned" PROVE CompleteAtReturn
    BY DEF CompleteAtReturn
  <2>1. Empty /\ resp = <<>> /\ mu = "free" /\ out \in Seq(Chunk)
    BY DEF QueryInv, QueueInv, MInv, LeftNothing, Filled, Types
  <2>2. Written(out) = Names(delivered)
    <3>1. Written(out) \in Seq(Name)
      BY <2>1, Chunks, WrittenAppend
    <3>2. Written(out) \o <<>> = Written(out)
      BY <3>1
    <3>3. Names(delivered) = Written(out) \o <<>> \o <<>> \o <<>>
      BY <2>1, ItemNames DEF QueryInv, QueueInv, NothingLostOrReordered, Empty
    <3> QED BY <3>2, <3>3
  <2>3. ASSUME ~subscription
        PROVE  /\ out # <<>> /\ out[Len(out)] = Closing
               /\ \A i \in DOMAIN out : IsPart(out[i]) => (out[i].hasNext <=> i < Len(out) - 1)
    <3>1. Ending /\ Body /\ ~More
      BY <2>1, <2>3 DEF QueryInv, Ending, More
    <3>2. out # <<>>
      <4>1. delivered # <<>> /\ Len(delivered) \in Nat /\ DOMAIN delivered = 1 .. Len(delivered)
        BY <3>1 DEF Ending, QueryInv, QueueInv, Types
      <4>2. Names(delivered) # <<>>
        BY <4>1 DEF Names
      <4> QED BY <2>2, <4>2, WrittenNothing
    <3>3. Len(out) % 2 = 1 /\ Len(out) \in DOMAIN out
      BY <2>1, <3>1, <3>2 DEF Body, Whole
    <3>4. out[Len(out)] = Closing
      BY <3>1, <3>3 DEF Body, ChunkInPlace
    <3>5. ASSUME NEW i \in DOMAIN out, IsPart(out[i]) PROVE out[i].hasNext <=> i < Len(out) - 1
      <4>1. ChunkInPlace(out, i, More)
        BY <3>1 DEF Body
      <4> QED BY <3>1, <3>5, <4>1, Chunks DEF ChunkInPlace
    <3> QED BY <3>2, <3>4, <3>5
  <2> QED BY <2>2, <2>3 DEF CompleteAtReturn
<1> QED BY <1>1, QueryInvariant, PTL
=============================================================================
