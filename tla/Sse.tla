-------------------------------- MODULE Sse --------------------------------
(***************************************************************************)
(* A subscription over server-sent events                                  *)
(* (graphql/handler/transport/sse.go): the resolver's channel, the handler *)
(* that reads it (SubscriptionStream), and two goroutines that write to    *)
(* the client.  The request's goroutine, Do, writes an event per response; *)
(* a second one, keepAlive, a comment whenever the ticker fires.  The      *)
(* mutex c.mu protects Flush and the ticker, not Write, and Do does not    *)
(* wait for keepAlive.                                                     *)
(*                                                                         *)
(* A Write or a Flush is two steps, entering the ResponseWriter and        *)
(* leaving it.  What two overlapping calls, or one made after Do has       *)
(* returned, leave of the body is undefined: "misused" records it, and     *)
(* from then on nothing is said about the body.                            *)
(***************************************************************************)
EXTENDS SubscriptionStream, SequencesExt

VARIABLES
  interval, \* KeepAlivePingInterval: negative, zero or positive
  hpc,      \* where Do stands
  cur,      \* what Do writes or has written last: an item of the stream
  kpc,      \* where keepAlive stands
  due,      \* the ticker has fired since its last reset
  mu,       \* the holder of c.mu
  buf,      \* what has been written and not flushed
  out,      \* what has been flushed
  misused   \* the ResponseWriter has been used by two at a time, or after the end

dvars == <<interval, hpc, cur>>
kvars == <<kpc, due>>
wvars == <<buf, out, misused>>
vars  == <<svars, dvars, kvars, mu, wvars>>

Opening       == <<"open", 0>>
ErrorEvent    == <<"error", 0>>
CompleteEvent == <<"complete", 0>>
PingComment   == <<"ping", 0>>
NextEvent(i)  == <<"next", i>>
InWriter      == {"writing", "flushing"}

Init ==
  /\ SInit
  /\ interval \in {"negative", "zero", "positive"}
  /\ hpc = "start" /\ kpc = "none" /\ cur = Opening
  /\ due = FALSE /\ mu = "free"
  /\ buf = <<>> /\ out = <<>> /\ misused = FALSE

\* A run of pings counts as one: their number is of no interest.
Join(s, t) ==
  IF s # <<>> /\ t # <<>> /\ Last(s) = PingComment /\ Head(t) = PingComment THEN s \o Tail(t) ELSE s \o t

(***************************************************************************)
(* The ResponseWriter                                                      *)
(***************************************************************************)
\* A call begins while the other goroutine is at pc.
Enter(pc) == misused' = (misused \/ pc \in InWriter \union {"returned"}) /\ UNCHANGED <<buf, out>>

Written(item) ==
  /\ buf' = IF misused THEN buf ELSE Join(buf, <<item>>)
  /\ UNCHANGED <<out, misused>>

Flushed ==
  /\ out' = IF misused THEN out ELSE Join(out, buf)
  /\ buf' = IF misused THEN buf ELSE <<>>
  /\ UNCHANGED misused

(***************************************************************************)
(* Do                                                                      *)
(***************************************************************************)
\* No Flusher, no body or no JSON: an ordinary error response.
Refuse ==
  /\ hpc = "start"
  /\ hpc' = "refused"
  /\ UNCHANGED <<svars, interval, cur, kvars, mu, wvars>>

\* The comment that opens the stream is written and flushed before there is a second goroutine.
\* Then comes the first response, or the error of CreateOperationContext, and no stream.
Open ==
  /\ hpc = "start"
  /\ out' = <<Opening>>
  /\ kpc' = IF interval = "positive" THEN "select" ELSE "none"
  /\ \/ hpc' = "call" /\ UNCHANGED <<cur, svars>>
     \/ hpc' = "writing" /\ cur' = ErrorEvent
        /\ Close /\ pump' = "none" /\ UNCHANGED <<queue, hand>>
  /\ UNCHANGED <<interval, due, mu, buf, misused>>

Write(item) ==
  /\ cur' = item
  /\ hpc' = "writing"
  /\ Enter(kpc)
  /\ UNCHANGED <<interval, kvars, mu>>

HandlerResponds == hpc = "call" /\ StreamReturns /\ Write(NextEvent(Last(returned')))
HandlerEnds     == hpc = "call" /\ StreamEnds /\ Write(CompleteEvent)
CompleteError   == hpc = "complete" /\ Write(CompleteEvent) /\ UNCHANGED svars

\* Mutant: no flush after an event.
MutNoFlush ==
  /\ hpc = "writing"
  /\ Written(cur)
  /\ hpc' = IF cur = ErrorEvent THEN "complete" ELSE IF cur = CompleteEvent THEN "flush" ELSE "reset"
  /\ UNCHANGED <<svars, interval, cur, kvars, mu>>

\* The error is not flushed before the end of the stream.
EndWrite ==
  /\ hpc = "writing"
  /\ Written(cur)
  /\ hpc' = IF cur = ErrorEvent THEN "complete" ELSE "flush"
  /\ UNCHANGED <<svars, interval, cur, kvars, mu>>

BeginFlush ==
  /\ hpc = "flush"
  /\ mu = "free"
  /\ mu' = "Do"
  /\ hpc' = "flushing"
  /\ Enter(kpc)
  /\ UNCHANGED <<svars, interval, cur, kvars>>

\* The flush after "complete" is the deferred one.
EndFlush ==
  /\ hpc = "flushing"
  /\ Flushed
  /\ mu' = "free"
  /\ hpc' = IF cur = CompleteEvent THEN "returned" ELSE "reset"
  /\ UNCHANGED <<svars, interval, cur, kvars>>

\* A negative interval starts no ticker, but resetTicker resets it: the panic leaves c.mu locked,
\* and the deferred flush waits for it.
ResetTicker ==
  /\ hpc = "reset"
  /\ \/ interval = "zero" /\ hpc' = "call" /\ UNCHANGED <<due, mu>>
     \/ interval = "positive" /\ mu = "free" /\ due' = FALSE /\ hpc' = "call" /\ UNCHANGED mu
     \/ interval = "negative" /\ mu = "free" /\ mu' = "Do" /\ hpc' = "stuck" /\ UNCHANGED due
  /\ UNCHANGED <<svars, interval, cur, kpc, wvars>>

(***************************************************************************)
(* keepAlive                                                               *)
(***************************************************************************)
Elapse ==
  /\ kpc \notin {"none", "stopped"}
  /\ ~due
  /\ due' = TRUE
  /\ UNCHANGED <<svars, dvars, kpc, mu, wvars>>

Ping ==
  /\ kpc = "select"
  /\ due
  /\ due' = FALSE
  /\ kpc' = "writing"
  /\ Enter(hpc)
  /\ UNCHANGED <<svars, dvars, mu>>

\* Mutant: a ping is not flushed.
MutPingNotFlushed ==
  /\ kpc = "writing"
  /\ Written(PingComment)
  /\ kpc' = "select"
  /\ UNCHANGED <<svars, dvars, due, mu>>

EndPing ==
  /\ kpc = "writing"
  /\ Written(PingComment)
  /\ kpc' = "flush"
  /\ UNCHANGED <<svars, dvars, due, mu>>

BeginPingFlush ==
  /\ kpc = "flush"
  /\ mu = "free"
  /\ mu' = "keepAlive"
  /\ kpc' = "flushing"
  /\ Enter(hpc)
  /\ UNCHANGED <<svars, dvars, due>>

EndPingFlush ==
  /\ kpc = "flushing"
  /\ Flushed
  /\ mu' = "free"
  /\ kpc' = "select"
  /\ UNCHANGED <<svars, dvars, due>>

Stop ==
  /\ kpc = "select"
  /\ ctxDone
  /\ kpc' = "stopped"
  /\ due' = FALSE
  /\ UNCHANGED <<svars, dvars, mu, wvars>>

(***************************************************************************)
(* net/http cancels the request's context when the client has gone, and    *)
(* after Do has returned.                                                  *)
(***************************************************************************)
OverStream(A) == A /\ UNCHANGED <<dvars, kvars, mu, wvars>>
RequestEnds   == hpc \in {"returned", "refused"} /\ OverStream(SubscriberLeaves)
Started(A)    == hpc # "start" /\ OverStream(A)
Source        == Started(ResolverSends) \/ Started(ResolverCloses) \/ Started(PumpStep)

Next ==
  \/ Refuse \/ Open \/ HandlerResponds \/ HandlerEnds \/ CompleteError
  \/ EndWrite \/ BeginFlush \/ EndFlush \/ ResetTicker
  \/ Elapse \/ Ping \/ EndPing \/ BeginPingFlush \/ EndPingFlush \/ Stop
  \/ OverStream(SubscriberLeaves) \/ Source

Spec == Init /\ [][Next]_vars

(***************************************************************************)
(* Goroutines run; a mutex is handed to a waiter that starves; a select    *)
(* with two ready cases does not neglect one for ever.  A resolver may     *)
(* never send another event, and the client may stay for ever.             *)
(***************************************************************************)
FairSpec ==
  /\ Spec
  /\ WF_vars(CompleteError \/ EndWrite \/ EndFlush)
  /\ SF_vars(BeginFlush \/ ResetTicker)
  /\ WF_vars(HandlerResponds) /\ SF_vars(HandlerEnds)
  /\ WF_vars(Started(PumpReceives)) /\ SF_vars(Started(PumpStops))
  /\ WF_vars(Ping \/ EndPing \/ EndPingFlush) /\ SF_vars(BeginPingFlush)
  /\ SF_vars(Stop) /\ WF_vars(RequestEnds)

(***************************************************************************)
(* Properties                                                              *)
(***************************************************************************)
NoPing(item)    == IF item = PingComment THEN <<>> ELSE <<item>>
WithoutPings(s) == FlattenSeq([i \in DOMAIN s |-> NoPing(s[i])])
Events == [i \in DOMAIN returned |-> NextEvent(returned[i])]

\* However the resolver, the pump and the subscriber's leaving interleave, the handler returns the
\* resolver's events once and in order, and ends only when all have been returned or nobody is there.
KeepsPromise == ESpec

\* Nothing that has been written waits for the next response: whenever Do calls the handler, which
\* may block for as long as a subscription is quiet, the client has been sent every event, once and
\* in order (writeJsonWithSSE and flush in Do's loop, against the flushes of keepAlive).  When Do
\* returns the client has been sent the whole stream: the events, or the error of an operation that
\* could not be created, and then "complete".
SentBeforeNextCall == hpc = "call" => WithoutPings(out) = <<Opening>> \o Events
WholeAtReturn ==
  hpc = "returned" =>
    \E body \in {Events, <<ErrorEvent>>} : WithoutPings(out) = <<Opening>> \o body \o <<CompleteEvent>>

NothingHeldBack == ~misused => SentBeforeNextCall /\ WholeAtReturn

\* An event the resolver has sent reaches a client that stays, through the pump, the handler and
\* both flushes, even if the resolver never sends another one.
EventsArrive ==
  \A i \in 1 .. MaxEvents :
    (hpc = "call" /\ sent >= i) ~>
      \/ NextEvent(i) \in Range(out)
      \/ ctxDone /\ hpc # "returned"
      \/ misused \/ hpc = "stuck"

\* The heartbeat of a quiet stream (docs/content/recipes/subscriptions.md:255): when an interval
\* passes without an event, a ping is written and does not stay in a buffer.
Heartbeat ==
  (hpc = "call" /\ due) ~>
    \/ ~due /\ buf = <<>> /\ out # <<>> /\ Last(out) = PingComment
    \/ hpc # "call" \/ ctxDone \/ misused

\* Do returns when the client has gone, whatever keepAlive does with the mutex, unless the interval
\* is negative; and neither keepAlive nor the pump outlives its request for ever.
DoReturns ==
  (interval # "negative" /\ hpc # "start" /\ ctxDone) ~> hpc \in {"returned", "refused"}
KeepAliveEnds == (hpc = "returned") ~> kpc \in {"none", "stopped"}
PumpEnds      == (hpc = "returned") ~> pump \in {"none", "stopped"}

GoroutinesEnd == DoReturns /\ KeepAliveEnds /\ PumpEnds
=============================================================================
