------------------------- MODULE WsConnectionProofs -------------------------
(***************************************************************************)
(* A connection calls CloseFunc at most once, a stop finds its operation,  *)
(* and a client sees how each one ends; for any number of operations and   *)
(* ids and however run, closeOnCancel and the operations interleave.  The  *)
(* last part is about its pings: who answers them is not disconnected.     *)
(***************************************************************************)
EXTENDS WsConnection, WsPingPong, TLAPS

Goroutine == {"run", "cancel"}

\* p has taken the flag in close and has not called CloseFunc yet.
Closing(p) == At(p, "conn") \/ At(p, "func")

CloseInv ==
  /\ closeFuncs \in {0, 1}
  /\ closeFuncs = 1 => connClosed /\ closed
  /\ \A p \in Goroutine : Closing(p) => closed /\ closeFuncs = 0
  /\ \A p \in Goroutine : At(p, "func") => connClosed
  /\ ~(Closing("run") /\ Closing("cancel"))

LEMMA InitInv == Init => CloseInv
<1> SUFFICES ASSUME Init PROVE CloseInv
  OBVIOUS
<1>1. rpc = "init" /\ cpc = "off" /\ closed = FALSE /\ closeFuncs = 0
  BY DEF Init
<1>2. \A p \in Goroutine : ~Closing(p) /\ ~At(p, "func")
  BY <1>1 DEF At, Closing, Goroutine
<1>3. closeFuncs \in {0, 1} /\ closeFuncs # 1
  BY <1>1
<1> QED
  BY <1>2, <1>3, Zenon DEF CloseInv, Goroutine

\* A step that is none of close's own.
LEMMA OtherSteps ==
  ASSUME CloseInv, UNCHANGED connVars,
         rpc' = rpc \/ rpc' \notin {"conn", "func"},
         cpc' = cpc \/ cpc' \notin {"conn", "func"}
  PROVE  CloseInv'
BY DEF CloseInv, connVars, Closing, At, Goroutine

LEMMA CloseStep ==
  ASSUME CloseInv, NEW p \in Goroutine, Close(p)
  PROVE  CloseInv'
<1>1. CASE CloseAgain(p)
  BY <1>1, OtherSteps DEF CloseAgain, Go, At
<1>2. CASE CloseFirst(p)
  <2>1. closed' = TRUE /\ UNCHANGED <<connClosed, closeFuncs>> /\ ~closed
    BY <1>2 DEF CloseFirst
  <2>2. \A q \in Goroutine : ~Closing(q)
    BY <2>1 DEF CloseInv
  <2>3. closeFuncs = 0
    BY <2>1 DEF CloseInv
  <2> QED
    BY <1>2, <2>1, <2>2, <2>3 DEF CloseFirst, CloseInv, Closing, At, Go, Goroutine
<1>3. CASE CloseConn(p)
  BY <1>3 DEF CloseConn, CloseInv, Closing, At, Go, Goroutine
<1>4. CASE CallCloseFunc(p)
  <2>1. At(p, "func") /\ closeFuncs' = closeFuncs + 1 /\ UNCHANGED <<closed, connClosed>>
    BY <1>4 DEF CallCloseFunc, connVars
  <2>2. closed /\ connClosed /\ closeFuncs = 0
    BY <2>1 DEF CloseInv, Closing
  <2>3. \A q \in Goroutine : ~Closing(q)'
    BY <1>4 DEF CallCloseFunc, CloseInv, Closing, At, Go, Goroutine
  <2> QED
    BY <2>1, <2>2, <2>3 DEF CloseInv, Closing, Goroutine
<1> QED
  BY <1>1, <1>2, <1>3, <1>4 DEF Close

LEMMA Invariant == CloseInv /\ [Next]_vars => CloseInv'
<1> SUFFICES ASSUME CloseInv, [Next]_vars PROVE CloseInv'
  OBVIOUS
<1>1. CASE \E p \in Goroutine : Close(p)
  BY <1>1, CloseStep
<1>2. CASE \/ InitAccepted \/ InitRefused \/ Terminate \/ ReadFails \/ CloseOnCancel \/ CancelContext
           \/ \E o \in Op : \/ Subscribe(o) \/ SubscribeInvalid(o) \/ CompleteInvalid(o)
                            \/ HandlerPanics(o) \/ Complete(o) \/ Delete(o) \/ CancelOwn(o)
                            \/ Respond(o) \/ HandlerEnds(o)
           \/ \E i \in Id : Stop(i)
  BY <1>2, OtherSteps
     DEF InitAccepted, InitRefused, Terminate, ReadFails, CloseOnCancel, CancelContext, Subscribe,
         SubscribeInvalid, CompleteInvalid, HandlerPanics, Complete, Delete, CancelOwn, Respond,
         HandlerEnds, Stop
<1>3. CASE UNCHANGED vars
  BY <1>3, OtherSteps DEF vars
<1> QED
  BY <1>1, <1>2, <1>3 DEF Next, RunStep, OpStep, Goroutine

(***************************************************************************)
(* close in websocket.go: CloseFunc is called at most once, and not before *)
(* the connection is closed.                                               *)
(***************************************************************************)
THEOREM ClosedOnce == Spec => []CloseFuncOnce
<1>1. CloseInv => CloseFuncOnce
  BY DEF CloseInv, CloseFuncOnce
<1> QED
  BY InitInv, Invariant, <1>1, PTL DEF Spec
-----------------------------------------------------------------------------
(***************************************************************************)
(* The map of active operations.  Two operations that have the same id at  *)
(* the same time are both in overlap; so an operation that is not has lost *)
(* its entry neither to a later start nor to another one's deletion.       *)
(***************************************************************************)
Progress == {"unused", "rejected", "running", "ending", "deleting", "cancelling", "done"}

MapType ==
  /\ idOf \in [Op -> Id]
  /\ op \in [Op -> Progress]
  /\ active \in [Id -> Op \cup {None}]

SharersKnown ==
  \A o, p \in Op :
    o # p /\ Registered(o) /\ Registered(p) /\ idOf[o] = idOf[p] => o \in overlap

MapInv == MapType /\ SharersKnown /\ StopFindsOperation

LEMMA MapInit == Init => MapInv
BY DEF Init, MapInv, MapType, Progress, SharersKnown, StopFindsOperation, Registered

\* A step that leaves the map alone and registers nobody.
LEMMA MapUntouched ==
  ASSUME MapInv, UNCHANGED <<idOf, active, overlap>>, op' \in [Op -> Progress],
         \A o \in Op : Registered(o)' => Registered(o)
  PROVE  MapInv'
BY DEF MapInv, MapType, SharersKnown, StopFindsOperation

LEMMA MapNext == MapInv /\ [Next]_vars => MapInv'
<1> SUFFICES ASSUME MapInv, [Next]_vars PROVE MapInv'
  OBVIOUS
<1>1. CASE \/ InitAccepted \/ InitRefused \/ Terminate \/ ReadFails \/ CloseOnCancel \/ CancelContext
           \/ Close("run") \/ Close("cancel") \/ (\E i \in Id : Stop(i)) \/ UNCHANGED vars
  <2>1. UNCHANGED <<idOf, op, active, overlap>>
    BY <1>1 DEF InitAccepted, InitRefused, Terminate, ReadFails, CloseOnCancel, CancelContext,
                Close, CloseAgain, CloseFirst, CloseConn, CallCloseFunc, Stop, connVars, opVars, vars
  <2> QED
    BY <2>1, MapUntouched DEF MapInv, MapType, Registered
<1>2. ASSUME NEW o \in Op, Subscribe(o) PROVE MapInv'
  <2> DEFINE others == {p \in Op : Registered(p) /\ idOf[p] = idOf[o]}
  <2>1. /\ op[o] = "unused" /\ op' = [op EXCEPT ![o] = "running"]
        /\ active' = [active EXCEPT ![idOf[o]] = o]
        /\ overlap' = overlap \cup (IF others = {} THEN {} ELSE others \cup {o})
        /\ idOf' = idOf
    BY <1>2 DEF Subscribe, connVars
  <2>2. MapType'
    BY <2>1 DEF MapInv, MapType, Progress
  <2>3. \A p \in Op : Registered(p)' <=> Registered(p) \/ p = o
    BY <2>1 DEF MapInv, MapType, Registered
  <2>4. ~Registered(o)
    BY <2>1 DEF Registered
  <2>5. \A p \in Op : p # o /\ Registered(p) /\ idOf[p] = idOf[o] => {o, p} \subseteq overlap'
    BY <2>1
  <2>6. SharersKnown'
    BY <2>1, <2>3, <2>4, <2>5 DEF MapInv, SharersKnown
  <2>7. StopFindsOperation'
    <3> SUFFICES ASSUME NEW p \in Op, Registered(p)', p \notin overlap'
                 PROVE  active'[idOf[p]] = p
      BY <2>1 DEF StopFindsOperation
    <3>1. CASE p = o
      BY <3>1, <2>1 DEF MapInv, MapType
    <3>2. CASE p # o
      <4>1. Registered(p) /\ p \notin overlap /\ idOf[p] # idOf[o]
        BY <3>2, <2>1, <2>3, <2>5
      <4> QED
        BY <4>1, <2>1 DEF MapInv, MapType, StopFindsOperation
    <3> QED
      BY <3>1, <3>2
  <2> QED
    BY <2>2, <2>6, <2>7 DEF MapInv
<1>3. ASSUME NEW o \in Op, Delete(o) PROVE MapInv'
  <2>1. /\ op[o] = "deleting" /\ op' = [op EXCEPT ![o] = "cancelling"]
        /\ active' = [active EXCEPT ![idOf[o]] = None]
        /\ UNCHANGED <<overlap, idOf>>
    BY <1>3 DEF Delete, connVars
  <2>2. MapType'
    BY <2>1 DEF MapInv, MapType, Progress
  <2>3. \A p \in Op : Registered(p)' <=> Registered(p) /\ p # o
    BY <2>1 DEF MapInv, MapType, Registered
  <2>4. SharersKnown'
    BY <2>1, <2>3 DEF MapInv, SharersKnown
  <2>5. StopFindsOperation'
    <3> SUFFICES ASSUME NEW p \in Op, Registered(p)', p \notin overlap
                 PROVE  active'[idOf[p]] = p
      BY <2>1 DEF StopFindsOperation
    <3>1. Registered(o)
      BY <2>1 DEF Registered
    <3>2. Registered(p) /\ idOf[p] # idOf[o]
      BY <2>3, <3>1 DEF MapInv, SharersKnown
    <3> QED
      BY <3>2, <2>1 DEF MapInv, MapType, StopFindsOperation
  <2> QED
    BY <2>2, <2>4, <2>5 DEF MapInv
<1>4. ASSUME NEW o \in Op, \/ SubscribeInvalid(o) \/ CompleteInvalid(o) \/ HandlerPanics(o)
                          \/ Complete(o) \/ CancelOwn(o) \/ Respond(o) \/ HandlerEnds(o)
      PROVE  MapInv'
  <2>1. UNCHANGED <<idOf, active, overlap>>
    BY <1>4 DEF SubscribeInvalid, CompleteInvalid, HandlerPanics, Complete, CancelOwn, Respond,
                HandlerEnds, connVars
  <2>2. op' = op \/ \E l \in Progress : /\ op' = [op EXCEPT ![o] = l]
                                        /\ Registered(o) \/ l \in {"rejected", "done"}
    BY <1>4 DEF SubscribeInvalid, CompleteInvalid, HandlerPanics, Complete, CancelOwn, Respond,
                HandlerEnds, Registered, Progress
  <2> QED
    BY <2>1, <2>2, MapUntouched DEF MapInv, MapType, Registered
<1> QED
  BY <1>1, <1>2, <1>3, <1>4 DEF Next, RunStep, OpStep

(***************************************************************************)
(* subscribe in websocket.go: the entry of an operation that never shares  *)
(* its id is its own for as long as it runs, so a stop reaches it.         *)
(***************************************************************************)
THEOREM StopReaches == Spec => []StopFindsOperation
<1>1. MapInv => StopFindsOperation
  BY DEF MapInv
<1> QED
  BY MapInit, MapNext, <1>1, PTL DEF Spec
-----------------------------------------------------------------------------
(***************************************************************************)
(* What an operation writes.  Data comes before every end, because what is *)
(* written while an operation runs is data only.                           *)
(***************************************************************************)
Message == {"data", "error", "complete"}
Ended(o) == op[o] \in {"deleting", "cancelling", "done"}

DataFirst(s) ==
  \A i, j \in DOMAIN s : i < j /\ s[i] \in {"error", "complete"} => s[j] # "data"
HasEnd(s) == s # <<>> /\ s[Len(s)] \in {"error", "complete"}

\* What may have been sent of an operation at each point of its life.
Sent(o) ==
  /\ op[o] \in Progress /\ sent[o] \in Seq(Message)
  /\ op[o] = "unused" => sent[o] = <<>>
  /\ op[o] = "running" => \A i \in DOMAIN sent[o] : sent[o][i] = "data"
  /\ DataFirst(sent[o])
  /\ Ended(o) /\ ~closed => HasEnd(sent[o])

SentInv == op \in [Op -> Progress] /\ sent \in [Op -> Seq(Message)] /\ \A o \in Op : Sent(o)

LEMMA SentInit == Init => SentInv
BY DEF Init, SentInv, Sent, Progress, Ended, DataFirst, HasEnd

\* A message is added at the end.
LEMMA Appended ==
  ASSUME NEW s \in Seq(Message), NEW m \in Message
  PROVE  /\ Append(s, m) \in Seq(Message)
         /\ m # "data" => HasEnd(Append(s, m))
         /\ DataFirst(s) /\ (m # "data" \/ \A i \in DOMAIN s : s[i] = "data") => DataFirst(Append(s, m))
         /\ m = "data" /\ (\A i \in DOMAIN s : s[i] = "data")
              => \A i \in DOMAIN Append(s, m) : Append(s, m)[i] = "data"
BY DEF HasEnd, DataFirst, Message

\* An operation that writes m and goes on to l.
LEMMA WriteStep ==
  ASSUME SentInv, NEW o \in Op, NEW m \in Message, NEW l \in Progress,
         Write(o, m), op' = [op EXCEPT ![o] = l], closed' = closed,
         m = "data" => op[o] \in {"unused", "running"},
         l = "running" => op[o] = "running" /\ m = "data",
         l # "unused",
         l \in {"deleting", "cancelling", "done"} => m # "data"
  PROVE  SentInv'
<1>1. sent[o] \in Seq(Message) /\ Sent(o)
  BY DEF SentInv
<1>2. sent' = IF closed THEN sent ELSE [sent EXCEPT ![o] = Append(sent[o], m)]
  BY DEF Write
<1>3. sent'[o] = IF closed THEN sent[o] ELSE Append(sent[o], m)
  BY <1>2 DEF SentInv
<1>4. op' \in [Op -> Progress] /\ sent' \in [Op -> Seq(Message)]
  BY <1>1, <1>2, Appended DEF SentInv
<1>5. m = "data" => \A i \in DOMAIN sent[o] : sent[o][i] = "data"
  BY <1>1 DEF Sent
<1>6. op'[o] = l
  BY DEF SentInv
<1>7. Sent(o)'
  <2>1. op'[o] \in Progress /\ sent'[o] \in Seq(Message) /\ op'[o] # "unused"
    BY <1>4, <1>6
  <2>2. DataFirst(sent'[o])
    BY <1>1, <1>3, <1>5, Appended DEF Sent
  <2>3. op'[o] = "running" => \A i \in DOMAIN sent'[o] : sent'[o][i] = "data"
    BY <1>1, <1>3, <1>5, <1>6, Appended DEF Sent
  <2>4. Ended(o)' /\ ~closed' => HasEnd(sent'[o])
    BY <1>1, <1>3, <1>6, Appended DEF Ended
  <2> QED
    BY <2>1, <2>2, <2>3, <2>4 DEF Sent
<1>8. ASSUME NEW p \in Op, p # o PROVE Sent(p)'
  <2>1. op'[p] = op[p] /\ sent'[p] = sent[p]
    BY <1>2, <1>8 DEF SentInv
  <2> QED
    BY <2>1 DEF SentInv, Sent, Ended
<1> QED
  BY <1>4, <1>7, <1>8 DEF SentInv

\* An operation that goes on to l, having ended if l says so, and writes nothing.
LEMMA SilentStep ==
  ASSUME SentInv, NEW o \in Op, NEW l \in Progress,
         op' = [op EXCEPT ![o] = l], UNCHANGED sent, closed' = closed,
         l \notin {"unused", "running"},
         l \in {"deleting", "cancelling", "done"} => Ended(o)
  PROVE  SentInv'
<1>1. op' \in [Op -> Progress] /\ sent' \in [Op -> Seq(Message)]
  BY DEF SentInv
<1>2. ASSUME NEW p \in Op PROVE Sent(p)'
  <2>1. op'[p] = IF p = o THEN l ELSE op[p]
    BY DEF SentInv
  <2> QED
    BY <1>1, <2>1 DEF SentInv, Sent, Ended
<1> QED
  BY <1>1, <1>2 DEF SentInv

\* A step of nobody's operation; the connection may be closed, never opened.
LEMMA OutsideStep ==
  ASSUME SentInv, UNCHANGED <<op, sent>>, closed' = closed \/ closed' = TRUE
  PROVE  SentInv'
BY DEF SentInv, Sent, Ended

LEMMA SentNext == SentInv /\ [Next]_vars => SentInv'
<1> SUFFICES ASSUME SentInv, [Next]_vars PROVE SentInv'
  OBVIOUS
<1>1. CASE \/ InitAccepted \/ InitRefused \/ Terminate \/ ReadFails \/ CloseOnCancel \/ CancelContext
           \/ Close("run") \/ Close("cancel") \/ (\E i \in Id : Stop(i)) \/ UNCHANGED vars
  <2>1. UNCHANGED <<op, sent>> /\ (closed' = closed \/ closed' = TRUE)
    BY <1>1 DEF InitAccepted, InitRefused, Terminate, ReadFails, CloseOnCancel, CancelContext,
                Close, CloseAgain, CloseFirst, CloseConn, CallCloseFunc, Stop, connVars, opVars, vars
  <2> QED
    BY <2>1, OutsideStep
<1>2. ASSUME NEW o \in Op, Subscribe(o) PROVE SentInv'
  <2>1. op[o] = "unused" /\ op' = [op EXCEPT ![o] = "running"] /\ UNCHANGED <<sent, closed>>
    BY <1>2 DEF Subscribe, connVars
  <2>2. sent[o] = <<>>
    BY <2>1 DEF SentInv, Sent
  <2>3. op' \in [Op -> Progress]
    BY <2>1 DEF SentInv, Progress
  <2>4. ASSUME NEW p \in Op PROVE Sent(p)'
    <3>1. op'[p] = IF p = o THEN "running" ELSE op[p]
      BY <2>1 DEF SentInv
    <3> QED
      BY <2>1, <2>2, <2>3, <3>1 DEF SentInv, Sent, Ended
  <2> QED
    BY <2>1, <2>3, <2>4 DEF SentInv
<1>3. ASSUME NEW o \in Op, SubscribeInvalid(o) PROVE SentInv'
  <2>1. PICK m \in {"error", "data"} : Write(o, m)
    BY <1>3 DEF SubscribeInvalid
  <2> QED
    BY <1>3, <2>1, WriteStep DEF SubscribeInvalid, connVars, Message, Progress
<1>4. ASSUME NEW o \in Op, CompleteInvalid(o) PROVE SentInv'
  BY <1>4, WriteStep DEF CompleteInvalid, connVars, Message, Progress
<1>5. ASSUME NEW o \in Op, Respond(o) PROVE SentInv'
  <2>1. op[o] = "running" /\ Write(o, "data") /\ UNCHANGED <<op, closed>>
    BY <1>5 DEF Respond, connVars
  <2>2. op' = [op EXCEPT ![o] = "running"]
    BY <2>1 DEF SentInv
  <2> QED
    BY <2>1, <2>2, WriteStep DEF Message, Progress
<1>6. ASSUME NEW o \in Op, HandlerPanics(o) PROVE SentInv'
  BY <1>6, WriteStep DEF HandlerPanics, connVars, Message, Progress
<1>7. ASSUME NEW o \in Op, Complete(o) PROVE SentInv'
  <2>1. PICK m \in {"complete", "error"} : Write(o, m)
    BY <1>7 DEF Complete
  <2> QED
    BY <1>7, <2>1, WriteStep DEF Complete, connVars, Message, Progress
<1>8. ASSUME NEW o \in Op, HandlerEnds(o) \/ Delete(o) \/ CancelOwn(o) PROVE SentInv'
  <2>1. CASE HandlerEnds(o)
    BY <2>1, SilentStep DEF HandlerEnds, connVars, Progress
  <2>2. CASE Delete(o)
    BY <2>2, SilentStep DEF Delete, connVars, Progress, Ended
  <2>3. CASE CancelOwn(o)
    BY <2>3, SilentStep DEF CancelOwn, connVars, Progress, Ended
  <2> QED
    BY <1>8, <2>1, <2>2, <2>3
<1> QED
  BY <1>1, <1>2, <1>3, <1>4, <1>5, <1>6, <1>7, <1>8 DEF Next, RunStep, OpStep

(***************************************************************************)
(* subscribe in websocket.go: the client sees data, then the end, and sees *)
(* the end of every operation if the connection is still open.             *)
(***************************************************************************)
THEOREM ProperEnd == Spec => []EndsProperly
<1>1. SentInv => EndsProperly
  <2> SUFFICES ASSUME SentInv, NEW o \in Op
               PROVE  /\ \A i, j \in DOMAIN sent[o] :
                           i < j /\ (sent[o][i] = "complete" \/ (sent[o][i] = "error" /\ op[o] # "rejected"))
                             => sent[o][j] # "data"
                      /\ op[o] \in {"deleting", "cancelling", "done"} /\ ~closed
                           => sent[o] # <<>> /\ sent[o][Len(sent[o])] \in {"complete", "error"}
    BY DEF EndsProperly
  <2> QED
    BY DEF SentInv, Sent, DataFirst, Ended, HasEnd
<1> QED
  BY SentInit, SentNext, <1>1, PTL DEF Spec

(***************************************************************************)
(* Pings: a deadline is renewed for two intervals, and in the second one a *)
(* prompt client's pong is due, on its way, or about to clear the deadline.*)
(***************************************************************************)
PingTypes == left \in 0 .. 2 /\ pongs \in Nat /\ run \in {"read", "clear"}

Unlimited == missingPongOk => ~armed /\ alive

InTime ==
  prompt /\ ~silent =>
    /\ alive
    /\ armed /\ left = 0 => run = "clear"
    /\ armed /\ left = 1 => owes \/ pongs > 0 \/ run = "clear"

PingInv == PingTypes /\ Unlimited /\ InTime

LEMMA PingInitInv == PingInit => PingInv
<1> SUFFICES ASSUME PingInit PROVE PingInv
  OBVIOUS
<1>1. alive /\ left = 2 /\ pongs = 0 /\ run = "read"
  BY DEF PingInit
<1>2. Unlimited
  <2>1. armed = ~missingPongOk
    BY DEF PingInit
  <2> QED BY <1>1, <2>1, Zenon DEF Unlimited
<1> QED BY <1>1, <1>2 DEF PingInv, PingTypes, InTime

LEMMA PingStepInv == PingInv /\ [PingNext]_pingVars => PingInv'
<1> SUFFICES ASSUME PingInv, [PingNext]_pingVars PROVE PingInv'
  OBVIOUS
<1> USE DEF PingInv, PingTypes, Unlimited, InTime
<1>1. CASE Tick
  BY <1>1 DEF Tick
<1>2. CASE ArmDeadline
  BY <1>2 DEF ArmDeadline
<1>3. CASE ReceivePong
  BY <1>3 DEF ReceivePong
<1>4. CASE ClearDeadline
  BY <1>4 DEF ClearDeadline
<1>5. CASE DeadlinePasses
  BY <1>5 DEF DeadlinePasses
<1>6. CASE ClientPongs
  BY <1>6 DEF ClientPongs
<1>7. CASE ClientGoesSilent
  BY <1>7 DEF ClientGoesSilent
<1>8. CASE UNCHANGED pingVars
  BY <1>8 DEF pingVars
<1> QED BY <1>1, <1>2, <1>3, <1>4, <1>5, <1>6, <1>7, <1>8 DEF PingNext

\* run and ping: a client that answers each ping before the next one keeps its connection, however
\* the clearing of the deadline and its renewal interleave, and with MissingPongOk every client.
THEOREM AnsweringClientLives == PingSpec => []ResponsiveClientLives
<1>1. PingInv => ResponsiveClientLives
  BY DEF PingInv, Unlimited, InTime, ResponsiveClientLives
<1> QED BY <1>1, PingInitInv, PingStepInv, PTL DEF PingSpec
=============================================================================
