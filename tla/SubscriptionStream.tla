------------------------- MODULE SubscriptionStream -------------------------
(***************************************************************************)
(* A subscription's events on their way from the resolver's channel to the *)
(* handler (ResolveFieldStream in graphql/resolve_field.go and the handler *)
(* in codegen/generated!.gotpl).  The handler of a server in one package   *)
(* reads the resolver's channel itself; in the split layout a goroutine of *)
(* the shard runtime (adaptStreamChannel) pumps the events into an         *)
(* untyped, unbuffered channel, and the handler reads that.                *)
(*                                                                         *)
(* A resolver that fails gives a handler of one response (OneShot), and a  *)
(* nil channel one that is silent until the subscriber leaves.  Neither is *)
(* a stream, and both are left out.                                        *)
(***************************************************************************)
EXTENDS EventStream

CONSTANT Capacity  \* of the resolver's channel; 1 stands for a sender that waits, too

ASSUME CapacityAssumption == Capacity \in Nat \ {0}

VARIABLES
  queue, \* what is in the resolver's channel
  pump,  \* where the pump's goroutine stands; "none": the layout has none
  hand   \* the event the pump offers

svars == <<evars, queue, pump, hand>>

SInit ==
  /\ EInit
  /\ queue = <<>> /\ hand = 0
  /\ pump \in {"none", "select"}

ResolverSends ==
  /\ Len(queue) < Capacity
  /\ Send
  /\ queue' = Append(queue, sent')
  /\ UNCHANGED <<pump, hand>>

ResolverCloses == Close /\ UNCHANGED <<queue, pump, hand>>

SubscriberLeaves == Leave /\ UNCHANGED <<queue, pump, hand>>
-----------------------------------------------------------------------------
(***************************************************************************)
(* adaptStreamChannel.  Both selects are left when the context is done; if *)
(* another case is ready, too, either may be taken.                        *)
(***************************************************************************)
PumpReceives ==
  /\ pump = "select" /\ queue # <<>>
  /\ hand' = Head(queue) /\ queue' = Tail(queue)
  /\ pump' = "send"
  /\ UNCHANGED evars

\* Mutant: the pump waits for its source, and for its reader, whatever becomes of the subscriber.
MutPumpIgnoresContext ==
  /\ pump = "select" /\ closed /\ queue = <<>>
  /\ pump' = "stopped"
  /\ UNCHANGED <<evars, queue, hand>>

\* Mutant: the pump looks whether its source is closed before it looks for an event.
MutPumpDropsRest ==
  /\ \/ pump = "select" /\ closed
     \/ pump \in {"select", "send"} /\ ctxDone
  /\ pump' = "stopped"
  /\ UNCHANGED <<evars, queue, hand>>

PumpStops ==
  /\ \/ pump = "select" /\ closed /\ queue = <<>>
     \/ pump \in {"select", "send"} /\ ctxDone
  /\ pump' = "stopped"
  /\ UNCHANGED <<evars, queue, hand>>
-----------------------------------------------------------------------------
(***************************************************************************)
(* A call of the handler: an event, or nil.  When the subscriber has gone  *)
(* an event that is ready may still win.                                   *)
(***************************************************************************)
Returns(e) == returned' = Append(returned, e) /\ UNCHANGED <<sent, closed, ctxDone, ended>>

StreamReturns ==
  /\ ~ended
  /\ \/ pump = "none" /\ queue # <<>>
        /\ Returns(Head(queue)) /\ queue' = Tail(queue) /\ UNCHANGED <<pump, hand>>
     \/ pump = "send"
        /\ Returns(hand) /\ pump' = "select" /\ UNCHANGED <<queue, hand>>

\* Mutant: the end of the source ends the stream, with an event still in the pump's hand.
MutEndsWithSource ==
  /\ ~ended
  /\ ctxDone \/ (closed /\ queue = <<>>)
  /\ ended' = TRUE
  /\ UNCHANGED <<sent, closed, ctxDone, returned, queue, pump, hand>>

StreamEnds ==
  /\ ~ended
  /\ \/ ctxDone
     \/ pump = "none" /\ closed /\ queue = <<>>
     \/ pump = "stopped"
  /\ ended' = TRUE
  /\ UNCHANGED <<sent, closed, ctxDone, returned, queue, pump, hand>>

PumpStep == PumpReceives \/ PumpStops
=============================================================================
