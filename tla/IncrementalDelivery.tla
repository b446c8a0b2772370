------------------------ MODULE IncrementalDelivery -------------------------
(***************************************************************************)
(* What a response handler promises to the transport that calls it: an     *)
(* initial payload, then the payload of every deferred group that has been *)
(* announced, each once and in any order, then nil.  A payload says        *)
(* whether more are owed.  A group may be announced only while something   *)
(* is still owed, so "no more" is final.                                   *)
(*                                                                         *)
(* DeferredExec implements it with two counters, an unbuffered channel and *)
(* a goroutine per group.                                                  *)
(***************************************************************************)
EXTENDS Naturals, Sequences

CONSTANTS Initial, Deferrable

ASSUME InitialIsNotDeferred == Initial \notin Deferrable

VARIABLES
  owed,      \* the announced groups whose payload has not been delivered
  delivered, \* the payloads delivered so far, with their "more is owed"
  ended      \* has the handler returned nil?

ivars == <<owed, delivered, ended>>

Happened(p) == \E i \in DOMAIN delivered : delivered[i].of = p

IInit == owed = {} /\ delivered = <<>> /\ ended = FALSE

Announce(g) ==
  /\ ~ended
  /\ delivered = <<>> \/ owed # {}
  /\ g \notin owed /\ ~Happened(g)
  /\ owed' = owed \cup {g}
  /\ UNCHANGED <<delivered, ended>>

Deliver(p) ==
  /\ ~ended
  /\ IF delivered = <<>> THEN p = Initial ELSE p \in owed
  /\ owed' = owed \ {p}
  /\ delivered' = Append(delivered, [of |-> p, more |-> owed' # {}])
  /\ UNCHANGED ended

End ==
  /\ ~ended
  /\ delivered # <<>> /\ owed = {}
  /\ ended' = TRUE
  /\ UNCHANGED <<owed, delivered>>

DeliverSome == \E p \in Deferrable \cup {Initial} : Deliver(p)

INext == (\E g \in Deferrable : Announce(g)) \/ DeliverSome \/ End

ISpec == IInit /\ [][INext]_ivars
IFairSpec == ISpec /\ WF_ivars(DeliverSome \/ End)
=============================================================================
