----------------------------- MODULE WsPingPong -----------------------------
(***************************************************************************)
(* Pings and the read deadline of a graphql-transport-ws connection        *)
(* (graphql/handler/transport/websocket.go).  The goroutine "ping" writes  *)
(* a ping on every tick and arms the read deadline when a pong has come    *)
(* since the last one; the run loop notes a pong under c.mu and clears the *)
(* deadline after it has released it.                                      *)
(*                                                                         *)
(* Time passes in ticks of PingPongInterval; a deadline of two intervals   *)
(* set while a tick is handled passes just after the second tick from it.  *)
(***************************************************************************)
EXTENDS Naturals

CONSTANT MaxPongs  \* bound: pongs on their way to the server

ASSUME PongsAssumption == MaxPongs \in Nat \ {0}

VARIABLES
  prompt,        \* does the client answer a ping, and the server read that, before the next tick?
  missingPongOk, \* the configuration, chosen initially
  alive,         \* no read has failed
  armed,         \* is a read deadline set?
  left,          \* ticks until it passes
  receivedPong,  \* c.receivedPong
  run,           \* the run loop: reading, or about to clear the deadline
  ppc,           \* the ping goroutine: waiting, or has written its ping
  pongs,         \* pongs on their way to the server
  owes,          \* the client has a ping to answer
  silent,        \* the client has stopped answering
  raced          \* history: the deadline has been armed between a pong and its clearing

pingVars ==
  <<prompt, missingPongOk, alive, armed, left, receivedPong, run, ppc, pongs, owes, silent, raced>>

PingInit ==  \* the run loop arms the deadline before it starts the ping goroutine
  /\ prompt \in BOOLEAN /\ missingPongOk \in BOOLEAN
  /\ alive = TRUE
  /\ armed = ~missingPongOk /\ left = 2
  /\ receivedPong = FALSE
  /\ run = "read" /\ ppc = "wait"
  /\ pongs = 0 /\ owes = FALSE /\ silent = FALSE /\ raced = FALSE

(***************************************************************************)
(* The ping goroutine.                                                     *)
(***************************************************************************)
Tick ==
  /\ alive /\ ppc = "wait"
  /\ armed => left > 0  \* a deadline that has passed fails the read within the interval
  /\ prompt => (silent \/ ~owes) /\ pongs = 0
  /\ left' = IF armed THEN left - 1 ELSE left
  /\ owes' = TRUE
  /\ ppc' = "written"
  /\ UNCHANGED <<prompt, missingPongOk, alive, armed, receivedPong, run, pongs, silent, raced>>

\* Mutant: the deadline is one interval away.
MutShortDeadline ==
  /\ alive /\ ppc = "written"
  /\ IF ~missingPongOk /\ receivedPong
       THEN armed' = TRUE /\ left' = 1 /\ raced' = (run = "clear")
       ELSE UNCHANGED <<armed, left, raced>>
  /\ receivedPong' = FALSE
  /\ ppc' = "wait"
  /\ UNCHANGED <<prompt, missingPongOk, alive, run, pongs, owes, silent>>

ArmDeadline ==
  /\ alive /\ ppc = "written"
  /\ IF ~missingPongOk /\ receivedPong
       THEN armed' = TRUE /\ left' = 2 /\ raced' = (run = "clear")
       ELSE UNCHANGED <<armed, left, raced>>
  /\ receivedPong' = FALSE
  /\ ppc' = "wait"
  /\ UNCHANGED <<prompt, missingPongOk, alive, run, pongs, owes, silent>>

\* Mutant: the pong is not noted.
MutPongForgotten ==
  /\ alive /\ run = "read" /\ pongs > 0
  /\ pongs' = pongs - 1
  /\ run' = "clear"
  /\ UNCHANGED <<prompt, missingPongOk, alive, armed, left, receivedPong, ppc, owes, silent, raced>>

(***************************************************************************)
(* The run loop.                                                           *)
(***************************************************************************)
ReceivePong ==
  /\ alive /\ run = "read" /\ pongs > 0
  /\ pongs' = pongs - 1
  /\ receivedPong' = TRUE
  /\ run' = "clear"
  /\ UNCHANGED <<prompt, missingPongOk, alive, armed, left, ppc, owes, silent, raced>>

ClearDeadline ==
  /\ alive /\ run = "clear"
  /\ armed' = FALSE
  /\ run' = "read"
  /\ UNCHANGED <<prompt, missingPongOk, alive, left, receivedPong, ppc, pongs, owes, silent, raced>>

DeadlinePasses ==  \* NextMessage fails, the run loop returns, the connection is closed
  /\ alive /\ run = "read"
  /\ armed /\ left = 0
  /\ alive' = FALSE
  /\ UNCHANGED <<prompt, missingPongOk, armed, left, receivedPong, run, ppc, pongs, owes, silent,
                 raced>>

(***************************************************************************)
(* The client: it may also send pongs nobody asked for.                    *)
(***************************************************************************)
ClientPongs ==
  /\ alive /\ ~silent /\ pongs < MaxPongs
  /\ pongs' = pongs + 1
  /\ owes' = FALSE
  /\ UNCHANGED <<prompt, missingPongOk, alive, armed, left, receivedPong, run, ppc, silent, raced>>

ClientGoesSilent ==
  /\ alive /\ ~silent
  /\ silent' = TRUE
  /\ UNCHANGED <<prompt, missingPongOk, alive, armed, left, receivedPong, run, ppc, pongs, owes,
                 raced>>

PingNext == Tick \/ ArmDeadline \/ ReceivePong \/ ClearDeadline \/ DeadlinePasses
        \/ ClientPongs \/ ClientGoesSilent
        \/ (~alive /\ UNCHANGED pingVars)

PingSpec == PingInit /\ [][PingNext]_pingVars

FairPingSpec ==  \* time passes, both goroutines run; nothing is assumed of the client
  /\ PingSpec
  /\ WF_pingVars(Tick) /\ WF_pingVars(ArmDeadline)
  /\ WF_pingVars(ReceivePong) /\ WF_pingVars(ClearDeadline) /\ WF_pingVars(DeadlinePasses)

(***************************************************************************)
(* A client that answers every ping before the next one is never           *)
(* disconnected, and with MissingPongOk nobody is.                         *)
(***************************************************************************)
ResponsiveClientLives == (prompt /\ ~silent) \/ missingPongOk => alive

(***************************************************************************)
(* A client that does not answer any more is disconnected (unless          *)
(* MissingPongOk), as the comment on PingPongInterval promises, or else    *)
(* the ping goroutine has armed the deadline between a pong and the        *)
(* run loop's clearing of the deadline: nothing else spares it.            *)
(***************************************************************************)
OnlyTheRaceSpares == (silent /\ ~missingPongOk /\ ~raced) ~> (~alive \/ raced)
=============================================================================
