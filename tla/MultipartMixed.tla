--------------------------- MODULE MultipartMixed ---------------------------
(***************************************************************************)
(* The multipart/mixed transport                                           *)
(* (graphql/handler/transport/http_multipart_mixed.go): the goroutine that *)
(* serves the request pulls responses from the handler and adds them to an *)
(* aggregator; a second goroutine, woken by a ticker, writes what has been *)
(* added.  Both write to the same ResponseWriter, under the aggregator's   *)
(* mutex, and only the first may use it until the request is over.         *)
(*                                                                         *)
(* The handler is the one IncrementalDelivery specifies (DeferredExec      *)
(* implements it).  A subscription's handler returns events instead, none  *)
(* of which has the hasNext field; the transport does not refuse it.  All  *)
(* its responses are slices of one buffer, so their data has to be         *)
(* followed into memory: an array holds the event last written to it.      *)
(***************************************************************************)
EXTENDS IncrementalDelivery, SequencesExt

CONSTANT Event  \* the events of a subscription

ASSUME EventsAreNotPayloads == Event \cap (Deferrable \cup {Initial}) = {}

VARIABLES
  subscription,    \* what the operation is, chosen initially: a subscription, or a query
  hpc,             \* the request's goroutine
  tpc,             \* the ticker's goroutine
  first,           \* Do's initialResponse flag: nothing has been added
  arrays,          \* what the arrays of the subscription's buffer hold; the last is in use
  resp,            \* the response Do has in hand, as a sequence of length at most 1
  initialResponse, \* a.initialResponse, likewise
  deferResponses,  \* a.deferResponses
  done,            \* is there a value in a.done?
  mu,              \* who holds a.mu
  stage,           \* what the flush in progress writes next
  hasNext,         \* its hasNext
  out              \* what has been written to the ResponseWriter

avars == <<subscription, arrays, first, resp, initialResponse, deferResponses, done>>
wvars == <<mu, stage, hasNext, out>>
vars  == <<ivars, hpc, tpc, avars, wvars>>

\* A response: what it is of, its hasNext, and the array its data is in (0: one of its own).
Name     == Deferrable \cup {Initial} \cup Event
Item     == [of : Name, more : BOOLEAN, at : Nat]
Data(r)  == IF r.at = 0 THEN r.of ELSE arrays[r.at]
Names(s)   == [i \in DOMAIN s |-> s[i].of]
Part(s, h) == [part |-> Names(s), data |-> [i \in DOMAIN s |-> Data(s[i])], hasNext |-> h]
Delimiter  == [boundary |-> "delimiter"]
Closing    == [boundary |-> "closing"]
IsPart(x)  == "part" \in DOMAIN x

Init ==
  /\ IInit
  /\ subscription \in BOOLEAN
  /\ hpc = "call" /\ tpc = "select"
  /\ arrays = <<>> /\ first = TRUE /\ resp = <<>>
  /\ initialResponse = <<>> /\ deferResponses = <<>> /\ done = FALSE
  /\ mu = "free" /\ stage = "initial" /\ hasNext = FALSE /\ out = <<>>
-----------------------------------------------------------------------------
(***************************************************************************)
(* Do: call the handler, add what it returns, until it returns nil.        *)
(***************************************************************************)
Emit(e) ==  \* a subscription's handler returns an event
  /\ ~ended /\ ~Happened(e)
  /\ delivered' = Append(delivered, [of |-> e, more |-> FALSE])
  /\ UNCHANGED <<owed, ended>>

(***************************************************************************)
(* The handler resets the buffer and marshals the event into it: over the  *)
(* last one, or into a new array when there is no room, which it may       *)
(* notice only after it has begun to write.                                *)
(***************************************************************************)
Marshal(e) ==
  \/ arrays # <<>> /\ arrays' = [arrays EXCEPT ![Len(arrays)] = e]
  \/ arrays' = Append(arrays, e)
  \/ arrays # <<>> /\ arrays' = Append([arrays EXCEPT ![Len(arrays)] = e], e)

Returned(at) == LET r == delivered'[Len(delivered')] IN <<[of |-> r.of, more |-> r.more, at |-> at]>>

CallHandler ==
  /\ hpc = "call"
  /\ \/ ~subscription /\ DeliverSome /\ resp' = Returned(0) /\ UNCHANGED arrays
     \/ subscription /\ \E e \in Event : Emit(e) /\ Marshal(e) /\ resp' = Returned(Len(arrays'))
  /\ hpc' = "add"
  /\ UNCHANGED <<subscription, tpc, first, initialResponse, deferResponses, done>> /\ UNCHANGED wvars

HandlerReturnsNil ==
  /\ hpc = "call"
  /\ IF subscription THEN ~ended /\ ended' = TRUE /\ UNCHANGED <<owed, delivered>> ELSE End
  /\ hpc' = "done"
  /\ UNCHANGED tpc /\ UNCHANGED avars /\ UNCHANGED wvars

\* Mutant: Do never resets its initialResponse flag.
MutAlwaysInitial ==
  /\ hpc = "add" /\ mu = "free"
  /\ initialResponse' = resp
  /\ first' = first /\ resp' = <<>>
  /\ hpc' = "call"
  /\ UNCHANGED ivars /\ UNCHANGED <<subscription, arrays, tpc, deferResponses, done>> /\ UNCHANGED wvars

Add ==  \* takes and releases the mutex
  /\ hpc = "add" /\ mu = "free"
  /\ IF first
       THEN initialResponse' = resp /\ UNCHANGED deferResponses
       ELSE deferResponses' = deferResponses \o resp /\ UNCHANGED initialResponse
  /\ first' = FALSE /\ resp' = <<>>
  /\ hpc' = "call"
  /\ UNCHANGED ivars /\ UNCHANGED <<subscription, arrays, tpc, done>> /\ UNCHANGED wvars

\* Mutant: the last flush is left to the ticker's goroutine.
MutNoLastFlush ==
  /\ hpc = "done" /\ ~done
  /\ done' = TRUE
  /\ hpc' = "returned"
  /\ UNCHANGED ivars /\ UNCHANGED <<subscription, arrays, tpc, first, resp, initialResponse, deferResponses>>
  /\ UNCHANGED wvars

\* Mutant: the ticker's goroutine is not told to stop.
MutNotSignalled ==
  /\ hpc = "done" /\ ~done
  /\ hpc' = "lock"
  /\ UNCHANGED ivars /\ UNCHANGED <<subscription, arrays, tpc, first, resp, initialResponse, deferResponses, done>>
  /\ UNCHANGED wvars

Done ==  \* the channel has room for one value, so the send does not block
  /\ hpc = "done" /\ ~done
  /\ done' = TRUE
  /\ hpc' = "lock"
  /\ UNCHANGED ivars /\ UNCHANGED <<subscription, arrays, tpc, first, resp, initialResponse, deferResponses>>
  /\ UNCHANGED wvars

(***************************************************************************)
(* The ticker's goroutine.  When the ticker has fired and done has a value *)
(* the select may take either.                                             *)
(***************************************************************************)
TickerStops ==
  /\ tpc = "select" /\ done
  /\ done' = FALSE
  /\ tpc' = "stopped"
  /\ UNCHANGED ivars /\ UNCHANGED <<subscription, arrays, hpc, first, resp, initialResponse, deferResponses>>
  /\ UNCHANGED wvars

Tick ==
  /\ tpc = "select"
  /\ tpc' = "lock"
  /\ UNCHANGED ivars /\ UNCHANGED hpc /\ UNCHANGED avars /\ UNCHANGED wvars
-----------------------------------------------------------------------------
(***************************************************************************)
(* flush, run by either goroutine.                                         *)
(***************************************************************************)
At(p, l) == IF p = "handler" THEN hpc = l ELSE tpc = l
Go(p, l) == IF p = "handler" THEN hpc' = l /\ UNCHANGED tpc ELSE tpc' = l /\ UNCHANGED hpc
After(p) == IF p = "handler" THEN "returned" ELSE "select"

\* Mutant: a flush that finds nothing to write ends the ticker's goroutine.
MutEmptyFlushStops(p) ==
  /\ At(p, "lock") /\ mu = "free"
  /\ initialResponse = <<>> /\ deferResponses = <<>>
  /\ Go(p, IF p = "handler" THEN "returned" ELSE "stopped")
  /\ UNCHANGED ivars /\ UNCHANGED avars /\ UNCHANGED wvars

FlushNothing(p) ==
  /\ At(p, "lock") /\ mu = "free"
  /\ initialResponse = <<>> /\ deferResponses = <<>>
  /\ Go(p, After(p))
  /\ UNCHANGED ivars /\ UNCHANGED avars /\ UNCHANGED wvars

FlushBegins(p) ==
  /\ At(p, "lock") /\ mu = "free"
  /\ initialResponse # <<>> \/ deferResponses # <<>>
  /\ mu' = p
  /\ stage' = IF initialResponse # <<>> THEN "initial" ELSE "deferred"
  /\ hasNext' = FALSE
  /\ Go(p, "flush")
  /\ UNCHANGED ivars /\ UNCHANGED avars /\ UNCHANGED out

\* Mutant: no delimiter between the initial part and the first incremental one.
MutNoDelimiterBetween(p) ==
  /\ mu = p /\ stage = "initial"
  /\ out' = out \o <<Delimiter, Part(initialResponse, initialResponse[1].more)>>
  /\ hasNext' = initialResponse[1].more
  /\ initialResponse' = <<>>
  /\ stage' = IF deferResponses # <<>> THEN "deferred" ELSE "boundary"
  /\ UNCHANGED ivars /\ UNCHANGED <<subscription, arrays, hpc, tpc, first, resp, deferResponses, done, mu>>

WriteInitial(p) ==
  /\ mu = p /\ stage = "initial"
  /\ out' = out \o <<Delimiter, Part(initialResponse, initialResponse[1].more)>>
                \o (IF deferResponses # <<>> THEN <<Delimiter>> ELSE <<>>)
  /\ hasNext' = initialResponse[1].more
  /\ initialResponse' = <<>>
  /\ stage' = IF deferResponses # <<>> THEN "deferred" ELSE "boundary"
  /\ UNCHANGED ivars /\ UNCHANGED <<subscription, arrays, hpc, tpc, first, resp, deferResponses, done, mu>>

\* Mutant: hasNext is taken from the first response of the batch, not the last.
MutHasNextOfFirst(p) ==
  /\ mu = p /\ stage = "deferred"
  /\ LET more == deferResponses[1].more IN
       /\ out' = Append(out, Part(deferResponses, more))
       /\ hasNext' = more
  /\ deferResponses' = <<>>
  /\ stage' = "boundary"
  /\ UNCHANGED ivars /\ UNCHANGED <<subscription, arrays, hpc, tpc, first, resp, initialResponse, done, mu>>

WriteDeferred(p) ==
  /\ mu = p /\ stage = "deferred"
  /\ LET more == deferResponses[Len(deferResponses)].more IN
       /\ out' = Append(out, Part(deferResponses, more))
       /\ hasNext' = more
  /\ deferResponses' = <<>>
  /\ stage' = "boundary"
  /\ UNCHANGED ivars /\ UNCHANGED <<subscription, arrays, hpc, tpc, first, resp, initialResponse, done, mu>>

WriteBoundary(p) ==
  /\ mu = p /\ stage = "boundary"
  /\ out' = Append(out, IF hasNext THEN Delimiter ELSE Closing)
  /\ mu' = "free"
  /\ Go(p, After(p))
  /\ UNCHANGED ivars /\ UNCHANGED avars /\ UNCHANGED <<stage, hasNext>>

(***************************************************************************)
(* Data that has been overwritten need not be JSON any more (the response  *)
(* keeps the length of its own), and writeJson panics if it is not.  In    *)
(* Do's goroutine the server recovers; in the ticker's nobody does, and    *)
(* the process ends.                                                       *)
(***************************************************************************)
Overwritten(s) == \E i \in DOMAIN s : Data(s[i]) # s[i].of

MarshalPanics(p) ==
  /\ mu = p
  /\ \/ stage = "initial" /\ Overwritten(initialResponse)
     \/ stage = "deferred" /\ Overwritten(deferResponses)
  /\ out' = IF stage = "initial" THEN Append(out, Delimiter) ELSE out
  /\ mu' = "free"
  /\ Go(p, "panicked")
  /\ UNCHANGED ivars /\ UNCHANGED avars /\ UNCHANGED <<stage, hasNext>>

Flush(p) == FlushNothing(p) \/ FlushBegins(p) \/ WriteInitial(p) \/ WriteDeferred(p)
            \/ WriteBoundary(p) \/ MarshalPanics(p)
-----------------------------------------------------------------------------
Environment ==  \* the query's goroutines start deferred groups
  /\ ~subscription
  /\ \E g \in Deferrable : Announce(g)
  /\ UNCHANGED <<hpc, tpc>> /\ UNCHANGED avars /\ UNCHANGED wvars

Alive       == tpc # "panicked"
HandlerStep == Alive /\ (Add \/ Done \/ Flush("handler"))
TickerStep  == Alive /\ (Tick \/ Flush("ticker"))
Over        == ~Alive \/ (hpc \in {"returned", "panicked"} /\ tpc = "stopped")

Next ==
  \/ Alive /\ (CallHandler \/ HandlerReturnsNil \/ Environment \/ TickerStops)
  \/ HandlerStep \/ TickerStep
  \/ Over /\ UNCHANGED vars

Spec == Init /\ [][Next]_vars

(***************************************************************************)
(* The goroutines run and the ticker ticks.  A select with two ready cases *)
(* chooses at random, so it does not pass over done for ever (SF).  The    *)
(* call of the handler may take for ever, since resolvers need not return; *)
(* only a query's handler that owes nothing returns nil at once.           *)
(***************************************************************************)
FairSpec ==
  /\ Spec
  /\ WF_vars(HandlerStep \/ (Alive /\ ~subscription /\ HandlerReturnsNil))
  /\ WF_vars(TickerStep) /\ SF_vars(Alive /\ TickerStops)
-----------------------------------------------------------------------------
(***************************************************************************)
(* The part of a response carries that response's own data, however long   *)
(* it has waited for its batch.  It does not: the next event of a          *)
(* subscription is marshalled over one that has not been written yet.      *)
(***************************************************************************)
DataIntact == \A i \in DOMAIN out : IsPart(out[i]) => out[i].data = out[i].part

(***************************************************************************)
(* What a client reads is a multipart body: delimiter, part, delimiter,    *)
(* part, ..., and at most one closing boundary, after which there is       *)
(* nothing.  Two goroutines write it, in batches cut by a timer.           *)
(***************************************************************************)
ClosingIsLast == \A i \in DOMAIN out : out[i] = Closing => i = Len(out)

WellFormedBody == ~subscription =>
  /\ \A i \in DOMAIN out : IsPart(out[i]) <=> i % 2 = 0
  /\ ClosingIsLast

(***************************************************************************)
(* No response is lost, repeated or reordered between the aggregator's two *)
(* buffers and the two goroutines that empty them: what has been written,  *)
(* is buffered and is in Do's hand, in this order, is what the handler     *)
(* returned.                                                               *)
(***************************************************************************)
PartOf(x)  == IF IsPart(x) THEN x.part ELSE <<>>
Written(o) == FlattenSeq([i \in DOMAIN o |-> PartOf(o[i])])

NothingLostOrReordered ==
  Names(delivered) = Written(out) \o Names(initialResponse) \o Names(deferResponses)
                     \o Names(resp)

(***************************************************************************)
(* When Do returns every response has been written.  A query's body is     *)
(* complete then: the closing boundary is there, the part before it says   *)
(* hasNext = false and every earlier part said true.                       *)
(***************************************************************************)
CompleteAtReturn ==
  hpc = "returned" =>
    /\ Written(out) = Names(delivered)
    /\ ~subscription =>
         /\ out # <<>> /\ out[Len(out)] = Closing
         /\ \A i \in DOMAIN out : IsPart(out[i]) => (out[i].hasNext <=> i < Len(out) - 1)

(***************************************************************************)
(* After Do has returned nobody uses the ResponseWriter any more, although *)
(* the ticker's goroutine may outlive it (net/http forbids such a use).    *)
(***************************************************************************)
NoWriteAfterReturn == [][hpc = "returned" => UNCHANGED <<out, mu>>]_vars

(***************************************************************************)
(* Liveness.  A response reaches the client even if no other one follows:  *)
(* the ticker flushes it while Do is waiting for slow deferred groups.     *)
(* Only overwritten events of a subscription may prevent it.               *)
(***************************************************************************)
WrittenOf(p) == \E i \in DOMAIN out : IsPart(out[i])
                  /\ \E k \in DOMAIN out[i].part : out[i].part[k] = p
Panicked        == subscription /\ "panicked" \in {hpc, tpc}
PromptlyWritten ==
  \A p \in Name : Happened(p) ~> (WrittenOf(p) \/ Panicked)

(***************************************************************************)
(* When the handler has returned nil Do gets the mutex from the ticker's   *)
(* goroutine and returns, and that goroutine ends: it does not leak.       *)
(***************************************************************************)
ShutsDown == ended ~> (Over /\ (hpc = "returned" \/ Panicked))
=============================================================================
