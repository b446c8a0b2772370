---------------------------- MODULE EventStream ----------------------------
(***************************************************************************)
(* What the response handler of a subscription promises to the transport   *)
(* that calls it: every event the resolver sends, once and in order, until *)
(* the subscriber has gone; then nil.  It ends for no other reason.        *)
(***************************************************************************)
EXTENDS Naturals, Sequences

CONSTANT MaxEvents  \* bound: the events a resolver sends

ASSUME EventsAssumption == MaxEvents \in Nat \ {0}

VARIABLES
  sent,     \* how many events the resolver has sent
  closed,   \* has it closed its channel?
  ctxDone,  \* has the subscriber gone?
  returned, \* the events the handler has returned
  ended     \* has it returned nil?

evars == <<sent, closed, ctxDone, returned, ended>>

EInit == sent = 0 /\ closed = FALSE /\ ctxDone = FALSE /\ returned = <<>> /\ ended = FALSE

Send ==
  /\ ~closed /\ sent < MaxEvents
  /\ sent' = sent + 1
  /\ UNCHANGED <<closed, ctxDone, returned, ended>>

Close ==
  /\ ~closed
  /\ closed' = TRUE
  /\ UNCHANGED <<sent, ctxDone, returned, ended>>

Leave ==
  /\ ~ctxDone
  /\ ctxDone' = TRUE
  /\ UNCHANGED <<sent, closed, returned, ended>>

Return ==
  /\ ~ended /\ Len(returned) < sent
  /\ returned' = Append(returned, Len(returned) + 1)
  /\ UNCHANGED <<sent, closed, ctxDone, ended>>

End ==
  /\ ~ended
  /\ ctxDone \/ (closed /\ Len(returned) = sent)
  /\ ended' = TRUE
  /\ UNCHANGED <<sent, closed, ctxDone, returned>>

ENext == Send \/ Close \/ Leave \/ Return \/ End
ESpec == EInit /\ [][ENext]_evars
=============================================================================
