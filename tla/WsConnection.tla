---------------------------- MODULE WsConnection ----------------------------
(***************************************************************************)
(* One websocket connection (graphql/handler/transport/websocket.go).      *)
(*                                                                         *)
(*   run       reads the client's messages, starts operations, stops them  *)
(*   cancel    closeOnCancel: closes when the connection's context is done *)
(*   o \in Op  the goroutine of one subscribe message                      *)
(*                                                                         *)
(* They share the map "active" from operation id to the cancel function of *)
(* its context, and the flag "closed", both under c.mu.  A critical        *)
(* section is one step: nothing inside one waits for another goroutine.    *)
(* The client is any client: it may reuse an id at any time.  Messages     *)
(* that belong to no operation (ack, keep-alive, ping, pong, connection    *)
(* errors) change no state here and are not recorded; WsPingPong has the   *)
(* read deadline.  Both subprotocols are covered: the messages the run     *)
(* loop can be handed are the union of what the two accept.                *)
(***************************************************************************)
EXTENDS Naturals, Sequences, FiniteSets

CONSTANTS
  Op,      \* start messages the client sends, each one operation
  Id,      \* the ids of operations
  None,    \* no operation: an id the map does not hold
  MaxData  \* bound: responses one operation produces

ASSUME ConstAssumption == None \notin Op /\ MaxData \in Nat

VARIABLES
  idOf,      \* the id each start message carries, chosen initially
  rpc,       \* the goroutine of run (and of init before it)
  cpc,       \* the goroutine of closeOnCancel
  ctxDone,   \* the connection's context (c.ctx) is cancelled
  op,        \* progress of every operation
  cancelled, \* operations whose cancel function has been called
  sent,      \* per operation, the messages written to the client
  active,    \* c.active: id -> operation whose cancel function it holds
  closed,    \* c.closed
  connClosed,\* conn.Close has been called
  closeFuncs,\* history: how often CloseFunc has been called
  overlap    \* history: operations that shared their id with another one

connVars == <<idOf, closed, connClosed, closeFuncs>>
opVars   == <<op, cancelled, sent, active, overlap>>
vars     == <<rpc, cpc, ctxDone, opVars, connVars>>

Registered(o) == op[o] \in {"running", "ending", "deleting"}

Init ==
  /\ idOf \in [Op -> Id]
  /\ rpc = "init" /\ cpc = "off"
  /\ ctxDone = FALSE
  /\ op = [o \in Op |-> "unused"]
  /\ cancelled = {} /\ overlap = {}
  /\ sent = [o \in Op |-> <<>>]
  /\ active = [i \in Id |-> None]
  /\ closed = FALSE /\ connClosed = FALSE /\ closeFuncs = 0
-----------------------------------------------------------------------------
(***************************************************************************)
(* init: a good first message starts the run loop and closeOnCancel; one   *)
(* that is late, unreadable or unexpected, or that InitFunc refuses,       *)
(* closes the connection; one whose payload is no JSON object just returns.*)
(***************************************************************************)
InitAccepted ==
  /\ rpc = "init"
  /\ rpc' = "loop" /\ cpc' = "waiting"
  /\ UNCHANGED ctxDone /\ UNCHANGED opVars /\ UNCHANGED connVars

InitRefused ==
  /\ rpc = "init"
  /\ rpc' \in {"close", "returned"}
  /\ UNCHANGED <<cpc, ctxDone>> /\ UNCHANGED opVars /\ UNCHANGED connVars

(***************************************************************************)
(* The connection's context is cancelled from outside: the server stops,   *)
(* or a context that InitFunc derived expires.                             *)
(***************************************************************************)
CancelContext ==
  /\ ~ctxDone
  /\ ctxDone' = TRUE
  /\ UNCHANGED <<rpc, cpc>> /\ UNCHANGED opVars /\ UNCHANGED connVars
-----------------------------------------------------------------------------
(***************************************************************************)
(* A write reaches the client until the close frame has been sent; then    *)
(* the connection refuses it (the error goes to ErrorFunc).                *)
(***************************************************************************)
Write(o, m) == sent' = IF closed THEN sent ELSE [sent EXCEPT ![o] = Append(@, m)]

(***************************************************************************)
(* The run loop.                                                           *)
(***************************************************************************)
ReadFails ==  \* the client is gone, its message is invalid, the deadline passed,
  /\ rpc = "loop" \* or the connection was closed by closeOnCancel
  /\ rpc' = "returned"
  /\ UNCHANGED <<cpc, ctxDone>> /\ UNCHANGED opVars /\ UNCHANGED connVars

Terminate ==  \* the client terminates, or sends something unexpected
  /\ rpc = "loop" /\ ~connClosed
  /\ rpc' = "close"
  /\ UNCHANGED <<cpc, ctxDone>> /\ UNCHANGED opVars /\ UNCHANGED connVars

Subscribe(o) ==
  /\ rpc = "loop" /\ ~connClosed
  /\ op[o] = "unused"
  /\ op' = [op EXCEPT ![o] = "running"]
  /\ active' = [active EXCEPT ![idOf[o]] = o]
  /\ LET others == {p \in Op : Registered(p) /\ idOf[p] = idOf[o]} IN
       overlap' = overlap \cup (IF others = {} THEN {} ELSE others \cup {o})
  /\ UNCHANGED <<rpc, cpc, ctxDone, cancelled, sent>> /\ UNCHANGED connVars

(***************************************************************************)
(* The payload or the operation is invalid: an error (a response with the  *)
(* errors when they are the user's), then complete, nothing is registered. *)
(***************************************************************************)
SubscribeInvalid(o) ==
  /\ rpc = "loop" /\ ~connClosed
  /\ op[o] = "unused"
  /\ op' = [op EXCEPT ![o] = "rejected"]
  /\ \E m \in {"error", "data"} : Write(o, m)
  /\ rpc' = "reject"
  /\ UNCHANGED <<cpc, ctxDone, cancelled, active, overlap>> /\ UNCHANGED connVars

CompleteInvalid(o) ==
  /\ rpc = "reject" /\ op[o] = "rejected"
  /\ Write(o, "complete")
  /\ op' = [op EXCEPT ![o] = "done"]
  /\ rpc' = "loop"
  /\ UNCHANGED <<cpc, ctxDone, cancelled, active, overlap>> /\ UNCHANGED connVars

\* Mutant: stop also deletes the entry, while the operation still runs.
MutStopDeletes(i) ==
  /\ rpc = "loop" /\ ~connClosed
  /\ active[i] # None
  /\ cancelled' = cancelled \cup {active[i]}
  /\ active' = [active EXCEPT ![i] = None]
  /\ UNCHANGED <<rpc, cpc, ctxDone, op, sent, overlap>> /\ UNCHANGED connVars

Stop(i) ==
  /\ rpc = "loop" /\ ~connClosed
  /\ active[i] # None
  /\ cancelled' = cancelled \cup {active[i]}
  /\ UNCHANGED <<rpc, cpc, ctxDone, op, sent, active, overlap>> /\ UNCHANGED connVars
-----------------------------------------------------------------------------
(***************************************************************************)
(* The goroutine of an operation.  Its context is a child of c.ctx.        *)
(***************************************************************************)
ContextDone(o) == ctxDone \/ o \in cancelled

Respond(o) ==
  /\ op[o] = "running"
  /\ Len(SelectSeq(sent[o], LAMBDA m : m = "data")) < MaxData
  /\ Write(o, "data")
  /\ UNCHANGED <<rpc, cpc, ctxDone, op, cancelled, active, overlap>> /\ UNCHANGED connVars

\* Mutant: an operation that ends without an error sends no complete.
MutNoComplete(o) ==
  /\ op[o] = "running"
  /\ op' = [op EXCEPT ![o] = "deleting"]
  /\ UNCHANGED <<rpc, cpc, ctxDone, cancelled, sent, active, overlap>> /\ UNCHANGED connVars

HandlerEnds(o) ==  \* responses(ctx) returns nil
  /\ op[o] = "running"
  /\ op' = [op EXCEPT ![o] = "ending"]
  /\ UNCHANGED <<rpc, cpc, ctxDone, cancelled, sent, active, overlap>> /\ UNCHANGED connVars

HandlerPanics(o) ==
  /\ op[o] = "running"
  /\ Write(o, "error")
  /\ op' = [op EXCEPT ![o] = "ending"]
  /\ UNCHANGED <<rpc, cpc, ctxDone, cancelled, active, overlap>> /\ UNCHANGED connVars

Complete(o) ==  \* an error if AddSubscriptionError was used
  /\ op[o] = "ending"
  /\ \E m \in {"complete", "error"} : Write(o, m)
  /\ op' = [op EXCEPT ![o] = "deleting"]
  /\ UNCHANGED <<rpc, cpc, ctxDone, cancelled, active, overlap>> /\ UNCHANGED connVars

Delete(o) ==  \* whatever the id maps to by now
  /\ op[o] = "deleting"
  /\ active' = [active EXCEPT ![idOf[o]] = None]
  /\ op' = [op EXCEPT ![o] = "cancelling"]
  /\ UNCHANGED <<rpc, cpc, ctxDone, cancelled, sent, overlap>> /\ UNCHANGED connVars

CancelOwn(o) ==
  /\ op[o] = "cancelling"
  /\ cancelled' = cancelled \cup {o}
  /\ op' = [op EXCEPT ![o] = "done"]
  /\ UNCHANGED <<rpc, cpc, ctxDone, sent, active, overlap>> /\ UNCHANGED connVars
-----------------------------------------------------------------------------
(***************************************************************************)
(* closeOnCancel, and close itself, run by either goroutine p.             *)
(***************************************************************************)
At(p, l) == IF p = "run" THEN rpc = l ELSE cpc = l
Go(p, l) == IF p = "run" THEN rpc' = l /\ UNCHANGED cpc ELSE cpc' = l /\ UNCHANGED rpc

\* Mutant: it waits for the connection's context, not the one run cancels.
MutWaitsForParent ==
  /\ cpc = "waiting"
  /\ ctxDone
  /\ cpc' = "close"
  /\ UNCHANGED <<rpc, ctxDone>> /\ UNCHANGED opVars /\ UNCHANGED connVars

CloseOnCancel ==  \* the derived context is done when run has returned
  /\ cpc = "waiting"
  /\ ctxDone \/ rpc = "returned"
  /\ cpc' = "close"
  /\ UNCHANGED <<rpc, ctxDone>> /\ UNCHANGED opVars /\ UNCHANGED connVars

CloseAgain(p) ==
  /\ At(p, "close") /\ closed
  /\ Go(p, "returned")
  /\ UNCHANGED ctxDone /\ UNCHANGED opVars /\ UNCHANGED connVars

\* Mutant: close does not look at the flag.
MutCloseUnchecked(p) ==
  /\ At(p, "close")
  /\ closed' = TRUE
  /\ cancelled' = cancelled \cup {active[i] : i \in {j \in Id : active[j] # None}}
  /\ Go(p, "conn")
  /\ UNCHANGED <<ctxDone, op, sent, active, overlap, idOf, connClosed, closeFuncs>>

\* Mutant: close does not call the cancel functions.
MutCloseKeepsOperations(p) ==
  /\ At(p, "close") /\ ~closed
  /\ closed' = TRUE
  /\ Go(p, "conn")
  /\ UNCHANGED <<ctxDone, op, cancelled, sent, active, overlap, idOf, connClosed, closeFuncs>>

CloseFirst(p) ==  \* close frame, cancel functions, flag
  /\ At(p, "close") /\ ~closed
  /\ closed' = TRUE
  /\ cancelled' = cancelled \cup {active[i] : i \in {j \in Id : active[j] # None}}
  /\ Go(p, "conn")
  /\ UNCHANGED <<ctxDone, op, sent, active, overlap, idOf, connClosed, closeFuncs>>

CloseConn(p) ==
  /\ At(p, "conn")
  /\ connClosed' = TRUE
  /\ Go(p, "func")
  /\ UNCHANGED ctxDone /\ UNCHANGED opVars /\ UNCHANGED <<idOf, closed, closeFuncs>>

CallCloseFunc(p) ==
  /\ At(p, "func")
  /\ closeFuncs' = closeFuncs + 1
  /\ Go(p, "returned")
  /\ UNCHANGED ctxDone /\ UNCHANGED opVars /\ UNCHANGED <<idOf, closed, connClosed>>

Close(p) == CloseAgain(p) \/ CloseFirst(p) \/ CloseConn(p) \/ CallCloseFunc(p)
-----------------------------------------------------------------------------
RunStep == InitAccepted \/ InitRefused \/ Terminate \/ Close("run")
           \/ \E o \in Op : Subscribe(o) \/ SubscribeInvalid(o) \/ CompleteInvalid(o)
OpStep(o) == HandlerPanics(o) \/ Complete(o) \/ Delete(o) \/ CancelOwn(o)

Next ==
  \/ RunStep \/ ReadFails \/ (\E i \in Id : Stop(i))
  \/ CloseOnCancel \/ Close("cancel")
  \/ CancelContext
  \/ \E o \in Op : OpStep(o) \/ Respond(o) \/ HandlerEnds(o)
  \/ /\ rpc = "returned" /\ cpc \in {"off", "returned"}  \* the end
     /\ \A o \in Op : op[o] \in {"unused", "done"}
     /\ UNCHANGED vars

Spec == Init /\ [][Next]_vars

(***************************************************************************)
(* The goroutines run.  The client need not send anything, but a read of a *)
(* closed connection fails.  A handler whose context is done returns nil;  *)
(* nothing is assumed of one whose context is not.                         *)
(***************************************************************************)
Fairness ==
  /\ WF_vars(ReadFails /\ connClosed)
  /\ WF_vars(Close("run")) /\ WF_vars(\E o \in Op : CompleteInvalid(o))
  /\ WF_vars(CloseOnCancel \/ Close("cancel"))
  /\ \A o \in Op : WF_vars(Complete(o) \/ Delete(o) \/ CancelOwn(o))
                   /\ WF_vars(HandlerEnds(o) /\ ContextDone(o))

FairSpec == Spec /\ Fairness
-----------------------------------------------------------------------------
(***************************************************************************)
(* CloseFunc runs at most once although run and closeOnCancel may both     *)
(* close the connection, and not before the connection is closed.          *)
(***************************************************************************)
CloseFuncOnce == closeFuncs <= 1 /\ (closeFuncs = 1 => connClosed)

(***************************************************************************)
(* A stop reaches the operation it names: an operation that never shared   *)
(* its id is the one its id maps to for as long as it runs.  (One that did *)
(* may have lost its entry to the deletion at the end of the other, even   *)
(* to one that had completed before it was started.)                       *)
(***************************************************************************)
StopFindsOperation ==
  \A o \in Op : Registered(o) /\ o \notin overlap => active[idOf[o]] = o

(***************************************************************************)
(* What the client sees of an operation: data, then errors and complete;   *)
(* no data after the end, and no end missing on a connection still open.   *)
(***************************************************************************)
EndsProperly ==
  \A o \in Op :
    /\ \A i, j \in DOMAIN sent[o] :
         i < j /\ (sent[o][i] = "complete" \/ (sent[o][i] = "error" /\ op[o] # "rejected"))
           => sent[o][j] # "data"
    /\ op[o] \in {"deleting", "cancelling", "done"} /\ ~closed
         => sent[o] # <<>> /\ sent[o][Len(sent[o])] \in {"complete", "error"}

(***************************************************************************)
(* Liveness.  When the run loop returns, for whatever reason, the          *)
(* connection is closed and CloseFunc is called.                           *)
(***************************************************************************)
CloseFuncCalled == (rpc = "returned" /\ cpc # "off") ~> (closeFuncs = 1)

(***************************************************************************)
(* No operation outlives its connection (one that shared its id may, until *)
(* the request's context is cancelled).                                    *)
(***************************************************************************)
OperationsEnd ==
  \A o \in Op : (rpc = "returned" /\ op[o] = "running" /\ o \notin overlap) ~> (op[o] = "done")
=============================================================================
