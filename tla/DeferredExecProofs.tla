------------------------- MODULE DeferredExecProofs -------------------------
(***************************************************************************)
(* Proofs about DeferredExec, for every query (any number of objects,      *)
(* fields and groups) that satisfies QueryAssumption and TreeAssumption.   *)
(*                                                                         *)
(* The heart of it is Enclosed: whatever runs, the field set whose payload *)
(* it is written into is still running.  With the count of live groups     *)
(* (PendingCounts) it makes "PendingDeferred = 0 when the handler looks"   *)
(* mean "nothing is left" (lemma Quiescent).                               *)
(***************************************************************************)
EXTENDS DeferredExec, FiniteSetTheorems, SequenceTheorems, TLAPS

Busy(x) == fs[x] \in {"loop", "dispatch", "spawn"}

(***************************************************************************)
(* The inductive invariant.                                                *)
(***************************************************************************)
\* Groups and objects do not share states.
Kinds ==
  /\ \A g \in Group : fs[g] \in {"idle", "dispatch", "sending", "sent"}
  /\ \A o \in Object : fs[o] \notin {"sending", "sent"}

\* A field is worked on only while its field set runs.
TasksInside ==
  /\ \A t \in Task : task[t] = "objects" => fs[fieldSetOf[t]] \in {"loop", "dispatch"}
  /\ \A t \in Task : fs[fieldSetOf[t]] \in {"spawn", "sending"} => Resolved(t)

\* An object runs only inside the field that returned it.
ObjectsInside == \A t \in Task : \A c \in children[t] : Busy(c) => task[t] = "objects"

\* An object starts once, when its field resolves.
FreshObjects == \A t \in Task : task[t] = "idle" => \A c \in children[t] : fs[c] = "idle"

\* A group starts once, when its object has been dispatched.
GroupsAfterOwner ==
  \A g \in Group :
    /\ g \in unspawned => fs[g] = "idle" /\ fs[owner[g]] = "spawn"
    /\ fs[g] # "idle" => fs[owner[g]] \in {"spawn", "done"}

\* What is inlined below x runs only while x does.
Enclosed == \A y, x \in FieldSet : <<y, x>> \in Under /\ Busy(y) => Busy(x)

\* PendingDeferred counts the groups that have not been received.
PendingCounts == pending = Cardinality(Live) + (IF hpc = "decrement" THEN 1 ELSE 0)

\* Deferred is positive as soon as a group has been counted.
DeferredCounts == unspawned # {} \/ Started # {} => deferred > 0

\* Where the handler stands.
HandlerState ==
  /\ first => hpc = "idle" /\ log = <<>> /\ Live = {} /\ \A x \in FieldSet : ~Busy(x)
  /\ hpc = "idle" /\ ~first => log # <<>>
  /\ hpc \in {"recv", "decrement", "end", "dropped"} => log # <<>>
  /\ hpc = "root" => log = <<>>
  /\ ~first /\ hpc # "root" => fs[Root] = "done"
  /\ hpc = "decrement" => current \in Group
  /\ hpc = "emit" => (current = Root <=> log = <<>>)
  /\ hpc = "end" => pending = 0
  /\ hpc = "recv" => pending > 0

\* The payloads that were sent are the one in hand and those in the log.
SentDelivered ==
  /\ \A g \in Group : fs[g] = "sent" <=> g \in Delivered \cup InHand
  /\ InHand \cap Delivered = {}

\* An invalid field set has an error in its payload's response context.
InvalidHasError == \A x \in invalid : payloadOf[x] \in errs

\* What the last response said about there being more.
LastNext ==
  /\ \A i \in DOMAIN log : i < Len(log) => log[i].next = "yes"
  /\ log # <<>> /\ hpc \in {"recv", "decrement", "emit"} => log[Len(log)].next = "yes"
  /\ log # <<>> /\ hpc = "idle" => (log[Len(log)].next = "yes" <=> pending > 0)
  /\ log # <<>> /\ hpc = "end" => log[Len(log)].next # "yes"

IInv ==
  /\ TypeOK /\ Kinds /\ TasksInside /\ ObjectsInside /\ FreshObjects
  /\ GroupsAfterOwner /\ Enclosed
  /\ PendingCounts /\ DeferredCounts /\ HandlerState /\ SentDelivered
  /\ InvalidHasError /\ LastNext /\ NullPayloadCarriesError /\ DeliveredOnceInitialFirst
-----------------------------------------------------------------------------
(***************************************************************************)
(* The groups of an object are finitely many, so counting them gives a     *)
(* natural number, which is 0 only when there are none.                    *)
(***************************************************************************)
LEMMA CountGroups ==
  ASSUME NEW S \in SUBSET Group
  PROVE  /\ IsFiniteSet(S)
         /\ Cardinality(S) \in Nat
         /\ Cardinality(S) = 0 <=> S = {}
<1>1. IsFiniteSet(S)
  BY QueryAssumption, FS_Subset DEF QueryAssumption
<1>2. QED
  BY <1>1, FS_CardinalityType, FS_EmptySet

(***************************************************************************)
(* Type correctness.                                                       *)
(***************************************************************************)
LEMMA InitTypeOK == Init => TypeOK
  BY QueryAssumption DEF Init, TypeOK, FSState, TaskState, HandlerPc, Payload, FieldSet

LEMMA NextTypeOK == TypeOK /\ [Next]_vars => TypeOK'
<1> SUFFICES ASSUME TypeOK, [Next]_vars
             PROVE  TypeOK'
  OBVIOUS
<1> USE QueryAssumption DEF TypeOK, handlerVars, FSState, TaskState, HandlerPc
<1>1. ASSUME NEW t \in Task, TaskStep(t)
      PROVE  TypeOK'
  <2>1. CASE ResolveNull(t)
    BY <2>1 DEF ResolveNull, BecomeNull
  <2>2. CASE ResolveLeaf(t)
    BY <2>2 DEF ResolveLeaf
  <2>3. CASE ResolveObjects(t)
    BY <2>3 DEF ResolveObjects
  <2>4. CASE ObjectsDone(t)
    BY <2>4 DEF ObjectsDone, BecomeNull
  <2>5. QED
    BY <1>1, <2>1, <2>2, <2>3, <2>4 DEF TaskStep
<1>2. ASSUME NEW o \in Object, ObjectStep(o)
      PROVE  TypeOK'
  <2>1. CASE BeginDispatch(o)
    BY <2>1 DEF BeginDispatch
  <2>2. CASE AddDeferred(o)
    <3>1. Cardinality(GroupsOf(o)) \in Nat /\ GroupsOf(o) \subseteq Group
      BY CountGroups DEF GroupsOf
    <3>2. QED
      BY <2>2, <3>1 DEF AddDeferred
  <2>3. CASE DispatchReturns(o)
    BY <2>3 DEF DispatchReturns
  <2>4. QED
    BY <1>2, <2>1, <2>2, <2>3 DEF ObjectStep
<1>3. ASSUME NEW g \in Group, GroupStep(g)
      PROVE  TypeOK'
  BY <1>3 DEF GroupStep, ProcessDeferredGroup, GroupReady, Receive, Payload
<1>4. CASE HandlerStep
  <2>1. CASE ReturnResponse
    <3>1. [of |-> current, null |-> current \in invalid,
           err |-> current \in errs, next |-> HasNext] \in Response
      BY DEF Response, HasNext
    <3>2. QED
      BY <2>1, <3>1 DEF ReturnResponse
  <2>2. CASE CallFirst
    BY <2>2 DEF CallFirst
  <2>3. CASE RootReturns
    BY <2>3 DEF RootReturns, Payload
  <2>4. CASE CallNext
    BY <2>4 DEF CallNext
  <2>5. CASE DropHandler
    BY <2>5 DEF DropHandler
  <2>6. CASE DecrementPending
    BY <2>6 DEF DecrementPending
  <2>7. QED
    BY <1>4, <2>1, <2>2, <2>3, <2>4, <2>5, <2>6 DEF HandlerStep
<1>5. CASE UNCHANGED vars
  BY <1>5 DEF vars
<1>6. QED
  BY <1>1, <1>2, <1>3, <1>4, <1>5 DEF Next, Finished

(***************************************************************************)
(* Every variable keeps its type; in particular no Invalids counter, error *)
(* list or response of one payload is ever confused with another kind.     *)
(***************************************************************************)
THEOREM TypeCorrect == Spec => []TypeOK
  BY InitTypeOK, NextTypeOK, PTL DEF Spec
-----------------------------------------------------------------------------
(***************************************************************************)
(* What the invariant says at the points where it is used.                 *)
(***************************************************************************)

\* A field set all of whose fields are resolved has nothing running below it.
LEMMA NothingBelow ==
  ASSUME TypeOK, ObjectsInside, Enclosed,
         NEW x \in FieldSet, \A t \in TasksOf(x) : Resolved(t),
         NEW y \in FieldSet, <<y, x>> \in Under, y # x
  PROVE  ~Busy(y)
<1>1. PICK t \in Task : fieldSetOf[t] = x /\ \E c \in children[t] : <<y, c>> \in Under
  BY TreeAssumption DEF TreeAssumption
<1>2. PICK c \in children[t] : <<y, c>> \in Under
  BY <1>1
<1>3. ~Busy(c)
  BY <1>1 DEF TasksOf, Resolved, ObjectsInside
<1>4. c \in FieldSet
  BY QueryAssumption DEF QueryAssumption, FieldSet
<1>5. QED
  BY <1>2, <1>3, <1>4 DEF Enclosed

\* When no group is pending and the root is done, nothing runs.
LEMMA Quiescent ==
  ASSUME IInv, pending = 0, hpc \notin {"root", "decrement"}, ~first
  PROVE  Live = {} /\ \A x \in FieldSet : ~Running(x)
<1>1. Live = {}
  <2>1. Live \in SUBSET Group
    BY DEF Live
  <2>2. QED
    BY <2>1, CountGroups DEF IInv, PendingCounts
<1>2. fs[Root] = "done"
  BY DEF IInv, HandlerState
<1>3. ASSUME NEW x \in FieldSet, Running(x)
      PROVE  FALSE
  <2>1. CASE fs[x] = "sending"
    BY <1>1, <2>1 DEF IInv, Kinds, FieldSet, Live
  <2>2. CASE Busy(x)
    <3>1. payloadOf[x] \in FieldSet /\ Busy(payloadOf[x])
      <4>1. payloadOf[x] \in Payload /\ payloadOf[x] \in FieldSet
        BY QueryAssumption DEF QueryAssumption, FieldSet, Payload
      <4>2. <<x, payloadOf[x]>> \in Under
        BY TreeAssumption DEF TreeAssumption
      <4>3. QED
        BY <2>2, <4>1, <4>2 DEF IInv, Enclosed
    <3>2. payloadOf[x] # Root
      BY <1>2, <3>1 DEF Busy
    <3>3. payloadOf[x] \in Group
      BY <3>2, QueryAssumption DEF QueryAssumption, Payload
    <3>4. QED
      BY <1>1, <3>1, <3>3 DEF IInv, Kinds, Busy, Live
  <2>3. QED
    BY <1>3, <2>1, <2>2 DEF Running, Busy
<1>4. QED
  BY <1>1, <1>3

\* Conjuncts that do not mention the fields' progress.
LEMMA TaskFrame ==
  ASSUME IInv, UNCHANGED <<fs, unspawned>>, UNCHANGED handlerVars
  PROVE  /\ Kinds' /\ GroupsAfterOwner' /\ Enclosed'
         /\ PendingCounts' /\ DeferredCounts' /\ HandlerState' /\ SentDelivered'
         /\ LastNext' /\ NullPayloadCarriesError' /\ DeliveredOnceInitialFirst'
  BY DEF IInv, handlerVars, Kinds, GroupsAfterOwner, Enclosed, Busy, PendingCounts,
         DeferredCounts, Started, HandlerState, Live, SentDelivered, Delivered, InHand,
         LastNext, NullPayloadCarriesError, DeliveredOnceInitialFirst

\* Conjuncts about responses, when only objects make progress.
LEMMA LogFrame ==
  ASSUME IInv, UNCHANGED <<hpc, log, pending>>
  PROVE  LastNext' /\ NullPayloadCarriesError' /\ DeliveredOnceInitialFirst'
  BY DEF IInv, LastNext, NullPayloadCarriesError, DeliveredOnceInitialFirst

\* Conjuncts about groups, when no group makes progress.
LEMMA ObjectFrame ==
  ASSUME IInv, \A g \in Group : fs'[g] = fs[g],
         UNCHANGED <<pending, first, hpc, current, log>>
  PROVE  PendingCounts' /\ SentDelivered' /\ Live' = Live /\ Started' = Started
<1>1. Live' = Live /\ Started' = Started
  BY DEF Live, Started
<1>2. QED
  BY <1>1 DEF IInv, PendingCounts, SentDelivered, Delivered, InHand
-----------------------------------------------------------------------------
(***************************************************************************)
(* Every step preserves the invariant: one lemma per kind of step.         *)
(***************************************************************************)
LEMMA InitInv == Init => IInv
<1> SUFFICES ASSUME Init PROVE IInv
  OBVIOUS
<1> USE DEF Init
<1>1. TypeOK
  BY InitTypeOK
<1>2. Live = {} /\ Started = {}
  BY DEF Live, Started, FieldSet
<1>3. PendingCounts /\ DeferredCounts
  BY <1>2, FS_EmptySet DEF PendingCounts, DeferredCounts
<1>4. Kinds /\ TasksInside /\ ObjectsInside /\ FreshObjects /\ GroupsAfterOwner /\ Enclosed
  BY QueryAssumption DEF QueryAssumption, Kinds, TasksInside, ObjectsInside, FreshObjects,
     GroupsAfterOwner, Enclosed, Busy, FieldSet
<1>5. HandlerState /\ SentDelivered
  BY <1>2 DEF HandlerState, SentDelivered, Busy, FieldSet, Delivered, InHand
<1>6. InvalidHasError /\ LastNext /\ NullPayloadCarriesError /\ DeliveredOnceInitialFirst
  BY DEF InvalidHasError, LastNext, NullPayloadCarriesError, DeliveredOnceInitialFirst
<1>7. QED
  BY <1>1, <1>3, <1>4, <1>5, <1>6 DEF IInv

LEMMA TaskStepInv ==
  ASSUME IInv, TypeOK', NEW t \in Task, TaskStep(t)
  PROVE  IInv'
<1> USE QueryAssumption DEF QueryAssumption
<1>1. TypeOK /\ fieldSetOf[t] \in FieldSet /\ children[t] \subseteq FieldSet
  BY DEF IInv, FieldSet
<1>2. ASSUME MayRun(t)
      PROVE  /\ fs[fieldSetOf[t]] \in {"loop", "dispatch"}
             /\ task[t] = "idle"
             /\ \A c \in children[t] : fs[c] = "idle"
  BY <1>2 DEF MayRun, IInv, FreshObjects, TypeOK
<1>3. CASE ResolveNull(t) \/ ResolveLeaf(t)
  <2>1. /\ UNCHANGED <<fs, unspawned>> /\ UNCHANGED handlerVars
        /\ task' = [task EXCEPT ![t] = task'[t]] /\ task'[t] \in {"null", "data"}
        /\ MayRun(t)
    BY <1>1, <1>3 DEF ResolveNull, ResolveLeaf, BecomeNull, TypeOK
  <2>2. TasksInside' /\ ObjectsInside' /\ FreshObjects'
    BY <1>1, <1>2, <2>1 DEF TasksInside, ObjectsInside, FreshObjects, Busy, Resolved, IInv, TypeOK
  <2>3. InvalidHasError'
    <3>1. invalid' \subseteq invalid \cup {fieldSetOf[t]} /\ errs \subseteq errs'
      BY <1>3 DEF ResolveNull, ResolveLeaf, BecomeNull
    <3>2. fieldSetOf[t] \in invalid' => fieldSetOf[t] \in invalid \/ payloadOf[fieldSetOf[t]] \in errs'
      BY <1>3 DEF ResolveNull, ResolveLeaf, BecomeNull
    <3>3. QED
      BY <3>1, <3>2 DEF InvalidHasError, IInv
  <2>4. QED
    BY <2>1, <2>2, <2>3, TaskFrame DEF IInv
<1>4. CASE ObjectsDone(t)
  <2>1. /\ UNCHANGED <<fs, unspawned>> /\ UNCHANGED handlerVars
        /\ task' = [task EXCEPT ![t] = task'[t]] /\ task'[t] \in {"null", "data"}
        /\ \A c \in children[t] : fs[c] = "done"
    BY <1>1, <1>4 DEF ObjectsDone, BecomeNull, TypeOK
  <2>2. TasksInside' /\ ObjectsInside' /\ FreshObjects'
    BY <1>1, <2>1 DEF TasksInside, ObjectsInside, FreshObjects, Busy, Resolved, IInv, TypeOK
  <2>3. InvalidHasError'
    <3>1. errs' = errs /\ invalid' \subseteq invalid \cup {fieldSetOf[t]}
      BY <1>4 DEF ObjectsDone, BecomeNull
    <3>2. ASSUME fieldSetOf[t] \in invalid', fieldSetOf[t] \notin invalid
          PROVE  payloadOf[fieldSetOf[t]] \in errs
      <4>1. PICK c \in children[t] : c \in invalid
        BY <1>4, <3>2 DEF ObjectsDone, BecomeNull
      <4>2. payloadOf[c] = payloadOf[fieldSetOf[t]]
        BY TreeAssumption DEF TreeAssumption
      <4>3. QED
        BY <4>1, <4>2 DEF IInv, InvalidHasError
    <3>3. QED
      BY <3>1, <3>2 DEF InvalidHasError, IInv
  <2>4. QED
    BY <2>1, <2>2, <2>3, TaskFrame DEF IInv
<1>5. CASE ResolveObjects(t)
  <2>1. /\ UNCHANGED <<invalid, errs, unspawned>> /\ UNCHANGED handlerVars /\ MayRun(t)
        /\ task' = [task EXCEPT ![t] = "objects"]
        /\ fs' = [x \in FieldSet |-> IF x \in children[t] THEN "loop" ELSE fs[x]]
    BY <1>5 DEF ResolveObjects
  <2>2. /\ \A g \in Group : fs'[g] = fs[g]
        /\ fs'[Root] = fs[Root]
        /\ \A x \in FieldSet : x \notin children[t] => fs'[x] = fs[x]
        /\ \A x \in children[t] : fs[x] = "idle" /\ fs'[x] = "loop" /\ x \in Object
    BY <1>1, <1>2, <2>1 DEF FieldSet
  <2>3. Kinds'
    BY <2>2 DEF Kinds, IInv, FieldSet
  <2>4. TasksInside'
    BY <1>1, <1>2, <2>1, <2>2 DEF TasksInside, Resolved, IInv, TypeOK
  <2>5. ObjectsInside'
    <3> SUFFICES ASSUME NEW s \in Task, NEW c \in children[s], Busy(c)'
                 PROVE  task'[s] = "objects"
      BY DEF ObjectsInside
    <3>1. CASE s = t
      BY <1>1, <2>1, <3>1 DEF IInv, TypeOK
    <3>2. CASE s # t
      <4>1. c \notin children[t] /\ c \in FieldSet
        BY <3>2, TreeAssumption DEF TreeAssumption, FieldSet
      <4>2. Busy(c)
        BY <2>2, <4>1 DEF Busy
      <4>3. QED
        BY <1>1, <2>1, <3>2, <4>2 DEF IInv, ObjectsInside, TypeOK
    <3>3. QED
      BY <3>1, <3>2
  <2>6. FreshObjects'
    BY <1>1, <2>1, <2>2, TreeAssumption DEF FreshObjects, TreeAssumption, IInv, TypeOK, FieldSet
  <2>7. GroupsAfterOwner'
    BY <1>1, <2>1, <2>2 DEF GroupsAfterOwner, IInv, FieldSet
  <2>8. Enclosed'
    <3> SUFFICES ASSUME NEW y \in FieldSet, NEW x \in FieldSet, <<y, x>> \in Under, Busy(y)'
                 PROVE  Busy(x)'
      BY DEF Enclosed
    <3>1. \A z \in FieldSet : Busy(z) => Busy(z)'
      BY <2>2 DEF Busy
    <3>2. CASE y \in children[t] /\ y # x
      <4>1. <<fieldSetOf[t], x>> \in Under
        BY <3>2, TreeAssumption DEF TreeAssumption
      <4>2. QED
        BY <1>1, <1>2, <2>1, <3>1, <4>1 DEF IInv, Enclosed, Busy
    <3>3. CASE y \notin children[t]
      BY <2>2, <3>1, <3>3 DEF IInv, Enclosed, Busy
    <3>4. QED
      BY <3>2, <3>3
  <2>9. UNCHANGED <<deferred, pending, first, hpc, current, log>>
    BY <2>1 DEF handlerVars
  <2>10. PendingCounts' /\ SentDelivered' /\ DeferredCounts'
    BY <2>1, <2>2, <2>9, ObjectFrame DEF DeferredCounts, IInv
  <2>11. HandlerState'
    <3>1. ~first
      BY <1>1, <1>2, <2>1 DEF IInv, HandlerState, Busy
    <3>2. QED
      BY <2>2, <2>9, <3>1 DEF IInv, HandlerState
  <2>12. LastNext' /\ NullPayloadCarriesError' /\ DeliveredOnceInitialFirst'
    BY <2>9, LogFrame
  <2>13. InvalidHasError'
    BY <2>1 DEF InvalidHasError, IInv
  <2>14. QED
    BY <2>3, <2>4, <2>5, <2>6, <2>7, <2>8, <2>10, <2>11, <2>12, <2>13 DEF IInv
<1>6. QED
  BY <1>3, <1>4, <1>5 DEF TaskStep

LEMMA ObjectStepInv ==
  ASSUME IInv, TypeOK', NEW o \in Object, ObjectStep(o)
  PROVE  IInv'
<1> USE QueryAssumption DEF QueryAssumption
<1>1. TypeOK /\ o \in FieldSet /\ o \notin Group
  BY DEF IInv, FieldSet
\* All three actions move only the object itself, and no counter that a
\* response depends on.
<1>2. /\ fs' = [fs EXCEPT ![o] = fs'[o]]
      /\ UNCHANGED <<task, invalid, errs, pending, first, hpc, current, log>>
      /\ Busy(o)
      /\ fs'[o] \in {"dispatch", "spawn", "done"}
  BY <1>1 DEF ObjectStep, BeginDispatch, AddDeferred, DispatchReturns, Busy, handlerVars, TypeOK
<1>3. fs'[o] \in {"spawn", "done"} => \A t \in TasksOf(o) : Resolved(t)
  BY <1>1 DEF ObjectStep, BeginDispatch, AddDeferred, DispatchReturns, IInv, TypeOK, TasksInside,
     TasksOf
<1>4. \A x \in FieldSet : x # o => fs'[x] = fs[x]
  BY <1>1, <1>2 DEF IInv, TypeOK
<1>5. \A g \in Group : fs'[g] = fs[g]
  BY <1>1, <1>4 DEF FieldSet
<1>6. Kinds'
  BY <1>2, <1>4, <1>5 DEF Kinds, IInv, FieldSet
<1>7. TasksInside'
  BY <1>2, <1>3, <1>4 DEF TasksInside, IInv, TasksOf, Resolved
<1>8. ObjectsInside'
  BY <1>2, <1>4 DEF ObjectsInside, IInv, Busy, FieldSet
<1>9. FreshObjects'
  BY <1>2, <1>4 DEF FreshObjects, IInv, Busy, FieldSet
<1>10. GroupsAfterOwner'
  <2>1. CASE BeginDispatch(o)
    BY <1>4, <1>5, <2>1 DEF BeginDispatch, GroupsAfterOwner, IInv, FieldSet
  <2>2. CASE AddDeferred(o)
    <3>1. \A g \in GroupsOf(o) : fs[g] = "idle" /\ g \notin unspawned
      BY <2>2 DEF AddDeferred, GroupsAfterOwner, IInv, GroupsOf
    <3>2. CASE o \in invalid
      BY <1>4, <1>5, <2>2, <3>1, <3>2 DEF AddDeferred, GroupsAfterOwner, IInv, FieldSet, GroupsOf
    <3>3. CASE o \notin invalid
      <4>1. fs'[o] = "spawn" /\ unspawned' = unspawned \cup GroupsOf(o)
        BY <1>1, <2>2, <3>3 DEF AddDeferred, TypeOK
      <4>2. QED
        BY <1>4, <1>5, <3>1, <4>1 DEF GroupsAfterOwner, IInv, FieldSet, GroupsOf
    <3>4. QED
      BY <3>2, <3>3
  <2>3. CASE DispatchReturns(o)
    <3>1. fs'[o] = "done" /\ unspawned' = unspawned /\ \A g \in Group : owner[g] = o => g \notin unspawned
      BY <1>1, <2>3 DEF DispatchReturns, GroupsOf, TypeOK
    <3>2. QED
      BY <1>4, <1>5, <3>1 DEF GroupsAfterOwner, IInv, FieldSet
  <2>4. QED
    BY <2>1, <2>2, <2>3 DEF ObjectStep
<1>11. Enclosed'
  <2> SUFFICES ASSUME NEW y \in FieldSet, NEW x \in FieldSet, <<y, x>> \in Under, Busy(y)'
               PROVE  Busy(x)'
    BY DEF Enclosed
  <2>1. Busy(y)
    BY <1>2, <1>4 DEF Busy
  <2>2. CASE x # o
    BY <1>4, <2>1, <2>2 DEF IInv, Enclosed, Busy
  <2>3. CASE x = o /\ y # o
    <3>1. ~(\A t \in TasksOf(o) : Resolved(t))
      BY <1>1, <2>1, <2>3, NothingBelow DEF IInv
    <3>2. QED
      BY <1>2, <1>3, <2>3, <3>1 DEF Busy
  <2>4. QED
    BY <2>2, <2>3
<1>12. PendingCounts' /\ SentDelivered' /\ Live' = Live /\ Started' = Started
  BY <1>2, <1>5, ObjectFrame
<1>13. DeferredCounts'
  <2>1. CASE AddDeferred(o) /\ o \notin invalid
    <3>1. /\ Cardinality(GroupsOf(o)) \in Nat
          /\ Cardinality(GroupsOf(o)) = 0 <=> GroupsOf(o) = {}
      BY CountGroups DEF GroupsOf
    <3>2. unspawned' = unspawned \cup GroupsOf(o) /\ deferred' = deferred + Cardinality(GroupsOf(o))
      BY <2>1 DEF AddDeferred
    <3>3. QED
      BY <1>1, <1>12, <3>1, <3>2 DEF DeferredCounts, IInv, TypeOK
  <2>2. CASE ~(AddDeferred(o) /\ o \notin invalid)
    <3>1. UNCHANGED <<unspawned, deferred>>
      BY <2>2 DEF ObjectStep, BeginDispatch, AddDeferred, DispatchReturns, handlerVars
    <3>2. QED
      BY <1>12, <3>1 DEF DeferredCounts, IInv
  <2>3. QED
    BY <2>1, <2>2
<1>14. HandlerState'
  <2>1. ~first
    BY <1>1, <1>2 DEF IInv, HandlerState
  <2>2. fs[Root] = "done" => fs'[Root] = "done"
    BY <1>2, <1>4 DEF Busy, FieldSet
  <2>3. QED
    BY <1>2, <2>1, <2>2 DEF IInv, HandlerState
<1>15. LastNext' /\ NullPayloadCarriesError' /\ DeliveredOnceInitialFirst'
  BY <1>2, LogFrame
<1>16. InvalidHasError'
  BY <1>2 DEF InvalidHasError, IInv
<1>17. QED
  BY <1>6, <1>7, <1>8, <1>9, <1>10, <1>11, <1>12, <1>13, <1>14, <1>15, <1>16 DEF IInv

LEMMA GroupStepInv ==
  ASSUME IInv, TypeOK', NEW g \in Group, GroupStep(g)
  PROVE  IInv'
<1> USE QueryAssumption DEF QueryAssumption
<1>1. TypeOK /\ g \in FieldSet /\ g \notin Object /\ g # Root
  BY DEF IInv, FieldSet
<1>2. /\ fs' = [fs EXCEPT ![g] = fs'[g]]
      /\ fs'[g] \in {"dispatch", "sending", "sent"}
      /\ UNCHANGED <<task, invalid, errs, deferred, first, log>>
  BY <1>1 DEF GroupStep, ProcessDeferredGroup, GroupReady, Receive, handlerVars, TypeOK
<1>3. \A x \in FieldSet : x # g => fs'[x] = fs[x]
  BY <1>1, <1>2 DEF TypeOK
<1>4. \A o \in Object : fs'[o] = fs[o]
  BY <1>1, <1>3 DEF FieldSet
<1>5. Kinds'
  BY <1>2, <1>3, <1>4 DEF Kinds, IInv, FieldSet
<1>6. ObjectsInside' /\ FreshObjects'
  BY <1>2, <1>4 DEF ObjectsInside, FreshObjects, IInv, Busy
<1>7. InvalidHasError' /\ NullPayloadCarriesError' /\ DeliveredOnceInitialFirst'
  BY <1>2 DEF IInv, InvalidHasError, NullPayloadCarriesError, DeliveredOnceInitialFirst
<1>8. Delivered' = Delivered
  BY <1>2 DEF Delivered
<1>9. Live \in SUBSET Group /\ Cardinality(Live) \in Nat /\ IsFiniteSet(Live)
  BY CountGroups DEF Live
<1>10. CASE ProcessDeferredGroup(g)
  <2>1. /\ fs[owner[g]] = "spawn" /\ g \in unspawned /\ unspawned' = unspawned \ {g}
        /\ pending' = pending + 1 /\ fs'[g] = "dispatch" /\ fs[g] = "idle"
        /\ owner[g] \in FieldSet
        /\ UNCHANGED <<hpc, current>>
    BY <1>1, <1>10 DEF ProcessDeferredGroup, IInv, GroupsAfterOwner, TypeOK, FieldSet
  \* Somebody is running, so the handler has not concluded that all is done.
  <2>2. Running(owner[g]) /\ Busy(owner[g])
    BY <2>1 DEF Running, Busy
  <2>3. ~first
    BY <2>1, <2>2 DEF IInv, HandlerState
  <2>4. hpc \in {"idle", "end"} => pending > 0
    <3>1. pending \in Nat
      BY <1>9 DEF IInv, PendingCounts
    <3>2. QED
      BY <2>1, <2>2, <2>3, <3>1, Quiescent
  <2>5. TasksInside'
    BY <1>2, <1>3, <2>1 DEF TasksInside, IInv, Resolved
  <2>6. GroupsAfterOwner'
    BY <1>3, <1>4, <2>1 DEF GroupsAfterOwner, IInv, FieldSet
  <2>7. Enclosed'
    BY <1>3, <2>1, TreeAssumption DEF Enclosed, IInv, Busy, TreeAssumption, Payload
  <2>8. PendingCounts'
    <3>1. Live' = Live \cup {g} /\ g \notin Live
      BY <1>3, <2>1 DEF Live, FieldSet
    <3>2. Cardinality(Live') = Cardinality(Live) + 1
      BY <1>9, <3>1, FS_AddElement
    <3>3. QED
      BY <1>9, <2>1, <3>2 DEF PendingCounts, IInv
  <2>9. DeferredCounts'
    BY <1>2, <2>1 DEF DeferredCounts, IInv
  <2>10. HandlerState'
    BY <1>1, <1>2, <1>3, <2>1, <2>3, <2>4 DEF HandlerState, IInv, FieldSet, TypeOK
  <2>11. SentDelivered'
    BY <1>3, <1>8, <2>1 DEF SentDelivered, IInv, InHand, FieldSet
  <2>12. LastNext'
    <3>1. pending \in Int
      BY <1>1 DEF TypeOK
    <3>2. QED
      BY <1>2, <2>1, <2>4, <3>1 DEF LastNext, IInv
  <2>13. QED
    BY <1>5, <1>6, <1>7, <2>5, <2>6, <2>7, <2>8, <2>9, <2>10, <2>11, <2>12 DEF IInv
<1>11. CASE GroupReady(g)
  <2>1. /\ fs[g] = "dispatch" /\ fs'[g] = "sending"
        /\ \A t \in TasksOf(g) : Resolved(t)
        /\ UNCHANGED <<unspawned, pending, hpc, current>>
    BY <1>1, <1>11 DEF GroupReady, handlerVars, TypeOK
  <2>2. TasksInside'
    BY <1>2, <1>3, <2>1 DEF TasksInside, IInv, Resolved, TasksOf
  <2>3. GroupsAfterOwner'
    BY <1>3, <1>4, <2>1 DEF GroupsAfterOwner, IInv, FieldSet
  <2>4. Enclosed'
    <3> SUFFICES ASSUME NEW y \in FieldSet, NEW x \in FieldSet, <<y, x>> \in Under, Busy(y)'
                 PROVE  Busy(x)'
      BY DEF Enclosed
    <3>1. y # g /\ Busy(y)
      BY <1>3, <2>1 DEF Busy
    <3>2. x # g
      BY <1>1, <2>1, <3>1, NothingBelow DEF IInv
    <3>3. QED
      BY <1>3, <3>1, <3>2 DEF IInv, Enclosed, Busy
  <2>5. Live' = Live /\ Started' = Started
    BY <1>2, <1>3, <2>1 DEF Live, Started, FieldSet
  <2>6. PendingCounts' /\ DeferredCounts'
    BY <1>2, <2>1, <2>5 DEF PendingCounts, DeferredCounts, IInv
  <2>7. HandlerState'
    <3>1. ~first
      BY <2>1 DEF HandlerState, IInv, Live
    <3>2. QED
      BY <1>1, <1>2, <1>3, <2>1, <3>1 DEF HandlerState, IInv, FieldSet
  <2>8. SentDelivered'
    BY <1>3, <1>8, <2>1 DEF SentDelivered, IInv, InHand, FieldSet
  <2>9. LastNext'
    BY <1>2, <2>1 DEF LastNext, IInv
  <2>10. QED
    BY <1>5, <1>6, <1>7, <2>2, <2>3, <2>4, <2>6, <2>7, <2>8, <2>9 DEF IInv
<1>12. CASE Receive(g)
  <2>1. /\ fs[g] = "sending" /\ fs'[g] = "sent" /\ hpc = "recv" /\ hpc' = "decrement"
        /\ current' = g /\ UNCHANGED <<unspawned, pending>>
    BY <1>1, <1>12 DEF Receive, TypeOK
  <2>2. TasksInside'
    BY <1>2, <1>3, <2>1 DEF TasksInside, IInv, Resolved
  <2>3. GroupsAfterOwner'
    BY <1>3, <1>4, <2>1 DEF GroupsAfterOwner, IInv, FieldSet
  <2>4. Enclosed'
    BY <1>3, <2>1 DEF Enclosed, IInv, Busy
  <2>5. PendingCounts'
    <3>1. Live' = Live \ {g} /\ g \in Live
      BY <1>3, <2>1 DEF Live, FieldSet
    <3>2. Cardinality(Live') = Cardinality(Live) - 1
      BY <1>9, <3>1, FS_RemoveElement
    <3>3. QED
      BY <1>9, <2>1, <3>2 DEF PendingCounts, IInv
  <2>6. DeferredCounts'
    <3>1. Started' = Started
      BY <1>3, <2>1 DEF Started, FieldSet
    <3>2. QED
      BY <1>2, <2>1, <3>1 DEF DeferredCounts, IInv
  <2>7. HandlerState'
    <3>1. ~first
      BY <2>1 DEF HandlerState, IInv
    <3>2. QED
      BY <1>1, <1>2, <1>3, <2>1, <3>1 DEF HandlerState, IInv, FieldSet
  <2>8. SentDelivered'
    <3>1. InHand = {} /\ InHand' = {g}
      BY <2>1 DEF InHand
    <3>2. QED
      BY <1>3, <1>8, <2>1, <3>1 DEF SentDelivered, IInv, FieldSet
  <2>9. LastNext'
    BY <1>2, <2>1 DEF LastNext, IInv
  <2>10. QED
    BY <1>5, <1>6, <1>7, <2>2, <2>3, <2>4, <2>5, <2>6, <2>7, <2>8, <2>9 DEF IInv
<1>13. QED
  BY <1>10, <1>11, <1>12 DEF GroupStep

LEMMA HandlerStepInv ==
  ASSUME IInv, TypeOK', HandlerStep
  PROVE  IInv'
<1> USE QueryAssumption DEF QueryAssumption
<1>1. TypeOK /\ Root \in FieldSet /\ Root \notin Group
  BY DEF IInv, FieldSet
<1>2. UNCHANGED <<task, invalid, errs, unspawned, deferred>> /\ InvalidHasError'
  BY DEF HandlerStep, CallFirst, RootReturns, CallNext, DropHandler, DecrementPending,
         ReturnResponse, InvalidHasError, IInv
<1>3. Live \in SUBSET Group /\ Cardinality(Live) \in Nat /\ (Cardinality(Live) = 0 <=> Live = {})
  BY CountGroups DEF Live
<1>4. CASE CallFirst
  <2>1. /\ hpc = "idle" /\ first /\ first' = FALSE /\ hpc' = "root"
        /\ UNCHANGED <<pending, current, log>>
        /\ fs'[Root] = "loop" /\ \A x \in FieldSet : x # Root => fs'[x] = fs[x]
    BY <1>1, <1>4 DEF CallFirst, TypeOK
  <2>2. /\ log = <<>> /\ Live = {} /\ \A x \in FieldSet : ~Busy(x)
        /\ \A g \in Group : fs'[g] = fs[g]
    BY <1>1, <2>1 DEF IInv, HandlerState, FieldSet
  <2>3. Kinds'
    BY <1>1, <2>1, <2>2 DEF Kinds, IInv, FieldSet
  <2>4. TasksInside' /\ ObjectsInside' /\ FreshObjects'
    BY <1>2, <2>1 DEF TasksInside, ObjectsInside, FreshObjects, IInv, Busy, Resolved, FieldSet
  <2>5. GroupsAfterOwner'
    BY <1>2, <2>1, <2>2 DEF GroupsAfterOwner, IInv, FieldSet
  <2>6. Enclosed'
    BY <2>1, <2>2, TreeAssumption DEF Enclosed, Busy, TreeAssumption, Payload
  <2>7. Live' = Live /\ Started' = Started
    BY <2>2 DEF Live, Started
  <2>8. PendingCounts' /\ DeferredCounts'
    BY <1>2, <2>1, <2>7 DEF PendingCounts, DeferredCounts, IInv
  <2>9. HandlerState'
    BY <2>1, <2>2 DEF HandlerState
  <2>10. SentDelivered'
    BY <2>1, <2>2 DEF SentDelivered, IInv, InHand, Delivered
  <2>11. LastNext' /\ NullPayloadCarriesError' /\ DeliveredOnceInitialFirst'
    BY <2>1, <2>2 DEF LastNext, NullPayloadCarriesError, DeliveredOnceInitialFirst
  <2>12. QED
    BY <1>2, <2>3, <2>4, <2>5, <2>6, <2>8, <2>9, <2>10, <2>11 DEF IInv
\* The other steps of the handler leave every field set where it is.
<1>5. ASSUME UNCHANGED <<fs, first>>
      PROVE  /\ Kinds' /\ TasksInside' /\ ObjectsInside' /\ FreshObjects' /\ GroupsAfterOwner'
             /\ Enclosed' /\ DeferredCounts' /\ Live' = Live
  BY <1>2, <1>5 DEF Kinds, TasksInside, ObjectsInside, FreshObjects, GroupsAfterOwner, Enclosed,
     DeferredCounts, Started, Live, IInv, Busy, Resolved
<1>6. CASE RootReturns
  <2>1. /\ hpc = "root" /\ fs[Root] = "done" /\ hpc' = "emit" /\ current' = Root
        /\ UNCHANGED <<fs, pending, first, log>>
    BY <1>6 DEF RootReturns
  <2>2. log = <<>> /\ ~first /\ InHand = {} /\ InHand' = {}
    BY <1>1, <2>1 DEF IInv, HandlerState, InHand
  <2>3. PendingCounts' /\ SentDelivered' /\ HandlerState'
    BY <1>5, <2>1, <2>2 DEF PendingCounts, SentDelivered, HandlerState, IInv, Delivered
  <2>4. LastNext' /\ NullPayloadCarriesError' /\ DeliveredOnceInitialFirst'
    BY <1>2, <2>1, <2>2 DEF LastNext, NullPayloadCarriesError, DeliveredOnceInitialFirst
  <2>5. QED
    BY <1>2, <1>5, <2>1, <2>3, <2>4 DEF IInv
<1>7. CASE CallNext \/ DropHandler
  <2>1. /\ hpc = "idle" /\ ~first
        /\ \/ hpc' = "recv" /\ pending > 0
           \/ hpc' = "end" /\ ~(pending > 0)
           \/ hpc' = "dropped"
        /\ UNCHANGED <<fs, pending, first, current, log>>
    BY <1>7 DEF CallNext, DropHandler
  <2>2. pending \in Nat
    BY <1>3, <2>1 DEF IInv, PendingCounts
  <2>3. PendingCounts' /\ SentDelivered'
    BY <1>5, <2>1 DEF PendingCounts, SentDelivered, IInv, Delivered, InHand
  <2>4. HandlerState'
    BY <2>1, <2>2 DEF HandlerState, IInv
  <2>5. LastNext'
    BY <2>1 DEF LastNext, IInv
  <2>6. NullPayloadCarriesError' /\ DeliveredOnceInitialFirst'
    BY <2>1 DEF NullPayloadCarriesError, DeliveredOnceInitialFirst, IInv
  <2>7. QED
    BY <1>2, <1>5, <2>1, <2>3, <2>4, <2>5, <2>6 DEF IInv
<1>8. CASE DecrementPending
  <2>1. /\ hpc = "decrement" /\ hpc' = "emit" /\ pending' = pending - 1
        /\ UNCHANGED <<fs, first, current, log>>
    BY <1>8 DEF DecrementPending
  <2>2. current \in Group /\ log # <<>> /\ ~first
    BY <2>1 DEF IInv, HandlerState
  <2>3. PendingCounts'
    BY <1>3, <1>5, <2>1 DEF PendingCounts, IInv
  <2>4. SentDelivered'
    BY <2>1 DEF SentDelivered, IInv, Delivered, InHand
  <2>5. HandlerState'
    BY <1>1, <2>1, <2>2 DEF HandlerState, IInv
  <2>6. LastNext'
    BY <2>1 DEF LastNext, IInv
  <2>7. NullPayloadCarriesError' /\ DeliveredOnceInitialFirst'
    BY <2>1 DEF NullPayloadCarriesError, DeliveredOnceInitialFirst, IInv
  <2>8. QED
    BY <1>2, <1>5, <2>1, <2>3, <2>4, <2>5, <2>6, <2>7 DEF IInv
<1>9. CASE ReturnResponse
  <2> DEFINE r == [of |-> current, null |-> current \in invalid,
                   err |-> current \in errs, next |-> HasNext]
  <2>1. /\ hpc = "emit" /\ hpc' = "idle" /\ log' = Append(log, r)
        /\ UNCHANGED <<fs, pending, first, current>>
    BY <1>9 DEF ReturnResponse
  <2>2. /\ Len(log') = Len(log) + 1 /\ log' # <<>> /\ log'[Len(log')] = r
        /\ DOMAIN log' = 1 .. Len(log) + 1 /\ DOMAIN log = 1 .. Len(log) /\ Len(log) \in Nat
        /\ \A i \in DOMAIN log : log'[i] = log[i]
    BY <1>1, <2>1 DEF TypeOK
  <2>3. ~first
    BY <2>1 DEF IInv, HandlerState
  <2>4. current \notin Delivered
    <3>1. CASE log = <<>>
      BY <3>1 DEF Delivered
    <3>2. CASE log # <<>>
      <4>1. current \in Group
        BY <1>1, <2>1, <3>2 DEF IInv, HandlerState, TypeOK, Payload
      <4>2. QED
        BY <2>1, <4>1 DEF IInv, SentDelivered, InHand
    <3>3. QED
      BY <3>1, <3>2
  <2>5. Delivered' = Delivered \cup {current}
    BY <2>2 DEF Delivered
  <2>6. PendingCounts'
    BY <1>5, <2>1 DEF PendingCounts, IInv
  <2>7. SentDelivered'
    BY <1>1, <2>1, <2>5 DEF SentDelivered, IInv, InHand, TypeOK, Payload
  <2>8. HandlerState'
    BY <2>1, <2>2, <2>3 DEF HandlerState, IInv
  <2>9. HasNext = "yes" <=> pending > 0
    <3>1. pending > 0 => deferred > 0
      BY <1>3, <2>1 DEF IInv, PendingCounts, DeferredCounts, Live, Started
    <3>2. QED
      BY <3>1 DEF HasNext
  <2>10. LastNext'
    <3>1. \A i \in DOMAIN log : log[i].next = "yes"
      BY <2>1, <2>2 DEF IInv, LastNext
    <3>2. QED
      BY <2>1, <2>2, <2>9, <3>1 DEF LastNext
  <2>11. NullPayloadCarriesError'
    <3>1. current \in invalid => current \in errs
      BY <1>1, TreeAssumption DEF IInv, InvalidHasError, TreeAssumption, TypeOK
    <3>2. r.null => r.err
      BY <3>1
    <3>3. \A i \in DOMAIN log' : i \in DOMAIN log \/ log'[i] = r
      BY <2>2
    <3>4. QED
      BY <2>2, <3>2, <3>3 DEF NullPayloadCarriesError, IInv
  <2>12. DeliveredOnceInitialFirst'
    <3>1. \A i \in DOMAIN log : log[i].of # current
      BY <2>4 DEF Delivered
    <3>2. r.of = current
      OBVIOUS
    <3>3. log = <<>> => current = Root
      BY <2>1 DEF IInv, HandlerState
    <3>4. \A i \in DOMAIN log' : i \in DOMAIN log \/ i = Len(log) + 1
      BY <2>2
    <3>5. log'[Len(log) + 1].of = current
      BY <2>2, <3>2
    <3>6. \A i, j \in DOMAIN log' : log'[i].of = log'[j].of => i = j
      BY <2>2, <3>1, <3>4, <3>5 DEF DeliveredOnceInitialFirst, IInv
    <3>7. log'[1].of = Root
      BY <1>1, <2>2, <3>3, <3>5 DEF DeliveredOnceInitialFirst, IInv, TypeOK
    <3>8. QED
      BY <3>6, <3>7 DEF DeliveredOnceInitialFirst
  <2>13. QED
    BY <1>2, <1>5, <2>1, <2>6, <2>7, <2>8, <2>10, <2>11, <2>12 DEF IInv
<1>10. QED
  BY <1>4, <1>6, <1>7, <1>8, <1>9 DEF HandlerStep

LEMMA StutterInv ==
  ASSUME IInv, UNCHANGED vars
  PROVE  IInv'
<1>1. UNCHANGED <<fs, unspawned>> /\ UNCHANGED handlerVars /\ UNCHANGED <<task, invalid, errs>>
  BY DEF vars, handlerVars
<1>2. TypeOK'
  BY NextTypeOK DEF IInv
<1>3. TasksInside' /\ ObjectsInside' /\ FreshObjects' /\ InvalidHasError'
  BY <1>1 DEF TasksInside, ObjectsInside, FreshObjects, InvalidHasError, Resolved, Busy, IInv
<1>4. QED
  BY <1>1, <1>2, <1>3, TaskFrame DEF IInv

(***************************************************************************)
(* The inductive invariant holds of every execution of every query.        *)
(***************************************************************************)
THEOREM Invariance == Spec => []IInv
<1>1. ASSUME IInv, [Next]_vars
      PROVE  IInv'
  <2>1. TypeOK'
    BY <1>1, NextTypeOK DEF IInv
  <2>2. CASE \E t \in Task : TaskStep(t)
    BY <1>1, <2>1, <2>2, TaskStepInv
  <2>3. CASE \E o \in Object : ObjectStep(o)
    BY <1>1, <2>1, <2>3, ObjectStepInv
  <2>4. CASE \E g \in Group : GroupStep(g)
    BY <1>1, <2>1, <2>4, GroupStepInv
  <2>5. CASE HandlerStep
    BY <1>1, <2>1, <2>5, HandlerStepInv
  <2>6. CASE UNCHANGED vars
    BY <1>1, <2>6, StutterInv
  <2>7. QED
    BY <1>1, <2>2, <2>3, <2>4, <2>5, <2>6 DEF Next, Finished
<1>2. QED
  BY <1>1, InitInv, PTL DEF Spec
-----------------------------------------------------------------------------
(***************************************************************************)
(* hasNext is right in every response, however the groups' goroutines      *)
(* interleave with the handler: "yes" before the last, not "yes" in it.    *)
(***************************************************************************)
THEOREM HasNextCorrect == Spec => []HasNextTruthful
<1>1. IInv => HasNextTruthful
  BY DEF IInv, HasNextTruthful, HandlerState, LastNext
<1>2. QED
  BY <1>1, Invariance, PTL

(***************************************************************************)
(* When the handler returns nil nothing of the query is running any more   *)
(* and every group that was started has been delivered.                    *)
(***************************************************************************)
THEOREM EndIsTheEnd == Spec => []EndsDrained
<1>1. ASSUME IInv, hpc = "end"
      PROVE  Started \subseteq Delivered /\ \A x \in FieldSet : ~Running(x)
  <2>1. pending = 0 /\ ~first
    BY <1>1 DEF IInv, HandlerState
  <2>2. Live = {} /\ \A x \in FieldSet : ~Running(x)
    BY <1>1, <2>1, Quiescent
  <2>3. \A g \in Started : fs[g] = "sent"
    BY <1>1, <2>2 DEF IInv, Kinds, Live, Started
  <2>4. QED
    BY <1>1, <2>2, <2>3 DEF IInv, SentDelivered, InHand, Started
<1>2. IInv => EndsDrained
  BY <1>1 DEF EndsDrained
<1>3. QED
  BY <1>2, Invariance, PTL

(***************************************************************************)
(* MarshalGQL of a payload never overlaps with a goroutine that still      *)
(* writes a value or an error of that payload.                             *)
(***************************************************************************)
THEOREM MarshalledWhenDone == Spec => []MarshalAfterWrites
<1>1. ASSUME IInv, hpc = "emit", NEW x \in FieldSet, payloadOf[x] = current, x # current
      PROVE  ~Running(x)
  <2>1. current \in Payload /\ current \in FieldSet /\ x \in Object
    <3>1. current \in Payload /\ x \notin Payload
      BY <1>1, TreeAssumption DEF IInv, TypeOK, TreeAssumption
    <3>2. QED
      BY <3>1, QueryAssumption DEF QueryAssumption, Payload, FieldSet
  <2>2. <<x, current>> \in Under
    BY <1>1, TreeAssumption DEF TreeAssumption
  <2>3. ~Busy(current)
    <3>1. CASE current = Root
      BY <1>1, <3>1 DEF IInv, HandlerState, Busy
    <3>2. CASE current \in Group
      BY <1>1, <3>2 DEF IInv, SentDelivered, InHand, Busy
    <3>3. QED
      BY <2>1, <3>1, <3>2 DEF Payload
  <2>4. ~Busy(x)
    BY <1>1, <2>1, <2>2, <2>3 DEF IInv, Enclosed
  <2>5. QED
    BY <1>1, <2>1, <2>4 DEF IInv, Kinds, Running, Busy
<1>2. IInv => MarshalAfterWrites
  BY <1>1 DEF MarshalAfterWrites
<1>3. QED
  BY <1>2, Invariance, PTL

(***************************************************************************)
(* The error that explains a null payload is in that payload, and nothing  *)
(* is delivered twice or before the initial payload.                       *)
(***************************************************************************)
THEOREM NullsExplained == Spec => []NullPayloadCarriesError
<1>1. IInv => NullPayloadCarriesError
  BY DEF IInv
<1>2. QED
  BY <1>1, Invariance, PTL

(***************************************************************************)
(* No payload is delivered twice and the initial one comes first.          *)
(***************************************************************************)
THEOREM DeliveredOnce == Spec => []DeliveredOnceInitialFirst
<1>1. IInv => DeliveredOnceInitialFirst
  BY DEF IInv
<1>2. QED
  BY <1>1, Invariance, PTL
-----------------------------------------------------------------------------
(***************************************************************************)
(* Refinement.                                                             *)
(***************************************************************************)
Owed == Live \cup InHand

\* Appending to a sequence, point by point.
LEMMA AppendPointwise ==
  ASSUME NEW S, NEW s \in Seq(S), NEW e
  PROVE  Append(s, e) = [i \in 1 .. Len(s) + 1 |-> IF i = Len(s) + 1 THEN e ELSE s[i]]
<1> DEFINE T == S \cup {e}
           q == Append(s, e)
<1>1. s \in Seq(T) /\ e \in T /\ Len(s) \in Nat
  OBVIOUS
<1>2. /\ q \in Seq(T) /\ Len(q) = Len(s) + 1
      /\ \A i \in 1 .. Len(s) : q[i] = s[i]
      /\ q[Len(s) + 1] = e
  <2> HIDE DEF T
  <2>1. QED
    BY <1>1, AppendProperties
<1>3. q = [i \in 1 .. Len(q) |-> q[i]]
  <2> HIDE DEF T, q
  <2>1. QED
    BY <1>2
<1> HIDE DEF q
<1>4. \A i \in 1 .. Len(s) + 1 : q[i] = IF i = Len(s) + 1 THEN e ELSE s[i]
  BY <1>1, <1>2
<1>5. q = [i \in 1 .. Len(s) + 1 |-> IF i = Len(s) + 1 THEN e ELSE s[i]]
  BY <1>2, <1>3, <1>4
<1>6. QED
  BY <1>5 DEF q

LEMMA EmptyPayloads == log = <<>> => Payloads = <<>>
  BY DEF Payloads

LEMMA PayloadsFacts ==
  ASSUME TypeOK
  PROVE  /\ Payloads = <<>> <=> log = <<>>
         /\ \A p : Abstract!Happened(p) <=> p \in Delivered
<1>1. DOMAIN Payloads = DOMAIN log /\ \A i \in DOMAIN log : Payloads[i].of = log[i].of
  BY DEF Payloads, Entry
<1>2. log # <<>> => 1 \in DOMAIN log
  BY DEF TypeOK
<1>3. Payloads = <<>> <=> log = <<>>
  <2>1. DOMAIN <<>> = {}
    OBVIOUS
  <2>2. QED
    BY <1>1, <1>2, <2>1, EmptyPayloads
<1>4. QED
  BY <1>1, <1>3 DEF Abstract!Happened, Delivered

\* While something runs, either no payload has been returned or one is owed.
LEMMA RunningIsOwed ==
  ASSUME IInv, ~first, NEW x \in FieldSet, Running(x)
  PROVE  hpc # "end" /\ (log = <<>> \/ Owed # {})
<1>1. Live \in SUBSET Group
  BY DEF Live
<1>2. pending = 0 => hpc \in {"root", "decrement"}
  BY Quiescent
<1>3. hpc = "end" => pending = 0
  BY DEF IInv, HandlerState
<1>4. hpc = "root" => log = <<>>
  BY DEF IInv, HandlerState
<1>5. hpc = "decrement" => InHand # {}
  BY DEF IInv, HandlerState, InHand
<1>6. pending # 0 /\ hpc # "decrement" => Live # {}
  BY <1>1, CountGroups, FS_EmptySet DEF IInv, PendingCounts
<1>7. QED
  BY <1>2, <1>3, <1>4, <1>5, <1>6 DEF Owed

LEMMA StepImplements ==
  ASSUME IInv, [Next]_vars
  PROVE  [Abstract!INext]_(Abstract!ivars)
<1> USE QueryAssumption DEF QueryAssumption
<1>1. TypeOK /\ Root \notin Group
  BY DEF IInv
<1> DEFINE Same == Owed' = Owed /\ Payloads' = Payloads /\ (hpc' = "end") = (hpc = "end")
<1>2. Same => UNCHANGED Abstract!ivars
  BY DEF Abstract!ivars, Owed
<1>3. ASSUME UNCHANGED <<hpc, current, log>>, \A g \in Group : fs'[g] = fs[g]
      PROVE  Same
  BY <1>3 DEF Owed, Live, InHand, Payloads
<1>4. ASSUME NEW t \in Task, TaskStep(t)
      PROVE  Same
  <2>1. UNCHANGED handlerVars /\ \A g \in Group : fs'[g] = fs[g]
    BY <1>1, <1>4 DEF TaskStep, ResolveNull, ResolveLeaf, ResolveObjects, ObjectsDone, FieldSet
  <2>2. QED
    BY <1>3, <2>1 DEF handlerVars
<1>5. ASSUME NEW o \in Object, ObjectStep(o)
      PROVE  Same
  <2>1. UNCHANGED <<hpc, current, log>> /\ \A g \in Group : fs'[g] = fs[g]
    BY <1>1, <1>5 DEF ObjectStep, BeginDispatch, AddDeferred, DispatchReturns, handlerVars,
       TypeOK, FieldSet
  <2>2. QED
    BY <1>3, <2>1
<1>6. ASSUME NEW g \in Group, GroupStep(g)
      PROVE  Same \/ Abstract!INext
  <2>1. g \in FieldSet /\ owner[g] \in FieldSet
    BY DEF FieldSet
  <2>2. CASE ProcessDeferredGroup(g)
    <3>1. /\ fs[owner[g]] = "spawn" /\ fs[g] = "idle" /\ fs'[g] = "dispatch"
          /\ \A h \in Group : h # g => fs'[h] = fs[h]
          /\ UNCHANGED <<hpc, current, log>>
      BY <1>1, <2>1, <2>2 DEF ProcessDeferredGroup, IInv, GroupsAfterOwner, TypeOK, FieldSet
    <3>2. ~first
      BY <2>1, <3>1 DEF IInv, HandlerState, Busy
    <3>3. hpc # "end" /\ (log = <<>> \/ Owed # {})
      BY <2>1, <3>1, <3>2, RunningIsOwed DEF Running
    <3>4. Owed' = Owed \cup {g} /\ Payloads' = Payloads
      BY <3>1 DEF Owed, Live, InHand, Payloads
    <3>5. g \notin Owed /\ g \notin Delivered
      BY <3>1 DEF IInv, SentDelivered, Owed, Live
    <3>6. Abstract!Announce(g)
      BY <1>1, <3>1, <3>3, <3>4, <3>5, PayloadsFacts DEF Abstract!Announce, Owed
    <3>7. QED
      BY <3>6 DEF Abstract!INext
  <2>3. CASE GroupReady(g)
    BY <1>1, <2>1, <2>3 DEF GroupReady, handlerVars, TypeOK, Owed, Live, InHand, Payloads, FieldSet
  <2>4. CASE Receive(g)
    <3>1. /\ fs[g] = "sending" /\ hpc = "recv" /\ hpc' = "decrement" /\ current' = g
          /\ log' = log /\ fs'[g] = "sent" /\ \A h \in Group : h # g => fs'[h] = fs[h]
      BY <1>1, <2>1, <2>4 DEF Receive, TypeOK, FieldSet
    <3>2. QED
      BY <3>1 DEF Owed, Live, InHand, Payloads
  <2>5. QED
    BY <1>6, <2>2, <2>3, <2>4 DEF GroupStep
<1>7. CASE CallFirst \/ RootReturns \/ DropHandler \/ DecrementPending
  <2>1. UNCHANGED log /\ hpc' # "end" /\ hpc # "end" /\ InHand' = InHand
    BY <1>1, <1>7 DEF CallFirst, RootReturns, DropHandler, DecrementPending, InHand
  <2>2. \A g \in Group : fs'[g] = fs[g]
    BY <1>1, <1>7 DEF CallFirst, RootReturns, DropHandler, DecrementPending, TypeOK, FieldSet
  <2>3. QED
    BY <1>2, <2>1, <2>2 DEF Owed, Live, Payloads
<1>8. CASE CallNext
  <2>1. /\ hpc = "idle" /\ ~first /\ hpc' = IF pending > 0 THEN "recv" ELSE "end"
        /\ UNCHANGED <<fs, pending, current, log>>
    BY <1>8 DEF CallNext
  <2>2. Owed' = Owed /\ Payloads' = Payloads
    BY <2>1 DEF Owed, Live, InHand, Payloads
  <2>3. CASE pending > 0
    BY <1>2, <2>1, <2>2, <2>3
  <2>4. CASE ~(pending > 0)
    <3>1. pending = 0
      <4>1. Live \in SUBSET Group
        BY DEF Live
      <4>2. QED
        BY <2>1, <2>4, <4>1, CountGroups DEF IInv, PendingCounts
    <3>2. Owed = {}
      BY <2>1, <3>1, Quiescent DEF Owed, InHand
    <3>3. Payloads # <<>>
      BY <1>1, <2>1, PayloadsFacts DEF IInv, HandlerState
    <3>4. Abstract!End
      BY <2>1, <2>2, <2>4, <3>2, <3>3 DEF Abstract!End, Owed
    <3>5. QED
      BY <3>4 DEF Abstract!INext
  <2>5. QED
    BY <2>3, <2>4
<1>9. CASE ReturnResponse
  <2> DEFINE r == [of |-> current, null |-> current \in invalid,
                   err |-> current \in errs, next |-> HasNext]
             a == [of |-> current, more |-> Owed' # {}]
  <2>1. /\ hpc = "emit" /\ hpc' = "idle" /\ log' = Append(log, r)
        /\ UNCHANGED <<fs, pending, deferred, current>>
    BY <1>9 DEF ReturnResponse
  <2>2. Live' = Live /\ InHand' = {} /\ Owed' = Live
    BY <2>1 DEF Live, InHand, Owed
  <2>3. current \notin Live /\ Owed' = Owed \ {current}
    <3>1. current \in Group => fs[current] = "sent"
      BY <2>1 DEF IInv, SentDelivered, InHand
    <3>2. QED
      BY <2>2, <3>1 DEF Live, InHand, Owed
  <2>4. HasNext = "yes" <=> Live # {}
    <3>1. Live \in SUBSET Group
      BY DEF Live
    <3>2. pending > 0 <=> Live # {}
      BY <2>1, <3>1, CountGroups DEF IInv, PendingCounts
    <3>3. Live # {} => deferred > 0
      BY DEF IInv, DeferredCounts, Live, Started
    <3>4. QED
      BY <3>2, <3>3 DEF HasNext
  <2>5. Payloads' = Append(Payloads, a)
    <3> DEFINE S == {Entry(x) : x \in Response}
    <3>1. log \in Seq(Response) /\ log' \in Seq(Response)
      BY <1>1, NextTypeOK DEF TypeOK
    <3>2. /\ Len(log) \in Nat /\ DOMAIN log = 1 .. Len(log)
          /\ DOMAIN log' = 1 .. Len(log) + 1
          /\ \A i \in 1 .. Len(log) : log'[i] = log[i] /\ log[i] \in Response
          /\ log'[Len(log) + 1] = r
      BY <2>1, <3>1
    <3>3. Entry(r) = a
      BY <2>2, <2>4 DEF Entry
    <3>4. Payloads' = [i \in 1 .. Len(log) + 1 |-> Entry(log'[i])]
      BY <3>2 DEF Payloads
    <3>5. Payloads = [i \in 1 .. Len(log) |-> Entry(log[i])]
      BY <3>2 DEF Payloads
    <3> HIDE DEF r, a
    <3>6. Payloads \in [1 .. Len(log) -> S]
      BY <3>2, <3>5
    <3>7. Payloads \in Seq(S) /\ Len(Payloads) = Len(log)
      <4> HIDE DEF S
      <4>1. QED
        BY <3>2, <3>6
    <3>8. Append(Payloads, a) = [i \in 1 .. Len(log) + 1 |->
                                   IF i = Len(log) + 1 THEN a ELSE Payloads[i]]
      BY <3>7, AppendPointwise
    <3>9. \A i \in 1 .. Len(log) + 1 :
            Entry(log'[i]) = IF i = Len(log) + 1 THEN a ELSE Payloads[i]
      BY <3>2, <3>3, <3>5
    <3>10. QED
      BY <3>4, <3>8, <3>9
  <2>6. Payloads = <<>> => current = Root
    BY <1>1, <2>1, PayloadsFacts DEF IInv, HandlerState
  <2>7. Payloads # <<>> => current \in InHand
    BY <1>1, <2>1, PayloadsFacts DEF IInv, HandlerState, InHand, TypeOK, Payload
  <2>8. Abstract!Deliver(current)
    BY <2>1, <2>2, <2>3, <2>5, <2>6, <2>7 DEF Abstract!Deliver, Owed
  <2>9. current \in Group \cup {Root}
    BY <1>1 DEF TypeOK, Payload
  <2>10. QED
    BY <2>8, <2>9 DEF Abstract!INext, Abstract!DeliverSome
<1>10. CASE UNCHANGED vars
  BY <1>3, <1>2, <1>10 DEF vars
<1>11. QED
  BY <1>2, <1>4, <1>5, <1>6, <1>7, <1>8, <1>9, <1>10 DEF Next, HandlerStep, Finished

(***************************************************************************)
(* The counters, the channel and the goroutines implement the abstract     *)
(* promise of IncrementalDelivery, for every query.                        *)
(***************************************************************************)
THEOREM Implements == Spec => ImplementsDelivery
<1>1. Init => Abstract!IInit
  <2>1. ASSUME Init
        PROVE  Live = {} /\ InHand = {} /\ Payloads = <<>> /\ hpc # "end"
    BY <2>1, EmptyPayloads DEF Init, Live, InHand, FieldSet
  <2>2. QED
    BY <2>1 DEF Abstract!IInit
<1>2. QED
  BY <1>1, StepImplements, Invariance, PTL DEF Spec, ImplementsDelivery, Abstract!ISpec
=============================================================================
