---------------------------- MODULE DeferredExec ----------------------------
(***************************************************************************)
(* Execution of one query with @defer: the object dispatcher               *)
(* (graphql/dispatch.go and its inlined twin codegen/object.gotpl), the    *)
(* concurrent field sets it builds (graphql/fieldset.go), the goroutine    *)
(* per deferred group (graphql/execution_context_state.go) and the         *)
(* response handler that a transport calls for one payload after another   *)
(* (codegen/generated!.gotpl).                                             *)
(*                                                                         *)
(* The query and the schema are constants: which fields each field set     *)
(* holds, which objects each field returns, which groups each object       *)
(* defers.  What a resolver does is chosen when it runs.                   *)
(***************************************************************************)
EXTENDS Integers, Sequences, FiniteSets

CONSTANTS
  Object,      \* calls of DispatchObject the query can make
  Root,        \* the one for the query type
  Group,       \* deferred groups: one per object and @defer label
  Task,        \* selected fields
  SyncTask,    \* those resolved in the dispatch loop (Concurrent = FALSE)
  NonNull,     \* fields of a non-null type
  Strict,      \* fields that are null as soon as one of their objects is
  fieldSetOf,  \* field -> the object or group whose FieldSet holds it
  children,    \* field -> the objects it returns ({} for a leaf)
  owner,       \* group -> the object that defers it
  payloadOf,   \* object or group -> the payload it is marshalled into
  Under,       \* <<y, x>>: y is x or is inlined somewhere below x
  DrainsHandler \* does the transport call the handler until it returns nil?

FieldSet == Object \cup Group
Payload  == {Root} \cup Group

ASSUME QueryAssumption ==
  /\ Root \in Object
  /\ Object \cap Group = {}
  /\ IsFiniteSet(Group)
  /\ SyncTask \subseteq Task /\ NonNull \subseteq Task /\ Strict \subseteq Task
  /\ fieldSetOf \in [Task -> FieldSet]
  /\ children \in [Task -> SUBSET (Object \ {Root})]
  /\ owner \in [Group -> Object \ {Root}]  \* DispatchObject ignores @defer at the root
  /\ payloadOf \in [FieldSet -> Payload]
  /\ Under \subseteq FieldSet \X FieldSet
  /\ DrainsHandler \in BOOLEAN

(***************************************************************************)
(* The fields form a tree, and payloadOf and Under are the payload and the *)
(* subtree relation that this tree defines.                                *)
(***************************************************************************)
ASSUME TreeAssumption ==
  /\ \A t \in SyncTask : fieldSetOf[t] \in Object
  /\ \A s, t \in Task : children[s] \cap children[t] # {} => s = t
  /\ \A p \in Payload : payloadOf[p] = p /\ \A x \in FieldSet : <<p, x>> \in Under => x = p
  /\ \A t \in Task : \A c \in children[t] : payloadOf[c] = payloadOf[fieldSetOf[t]]
  /\ \A x \in FieldSet : <<x, x>> \in Under /\ <<x, payloadOf[x]>> \in Under
  /\ \A t \in Task : \A c \in children[t] : \A x \in FieldSet :
       <<c, x>> \in Under /\ c # x => <<fieldSetOf[t], x>> \in Under
  /\ \A x, y \in FieldSet : <<y, x>> \in Under /\ y # x =>
       \E t \in Task : fieldSetOf[t] = x /\ \E c \in children[t] : <<y, c>> \in Under

VARIABLES
  fs,        \* progress of every FieldSet
  task,      \* progress of every field
  invalid,   \* the field sets whose Invalids counter is not zero
  errs,      \* the payloads whose response context has collected an error
  unspawned, \* groups their object has counted and not yet started
  deferred,  \* ec.Deferred
  pending,   \* ec.PendingDeferred
  first,     \* the handler's own flag: no call of it has begun
  hpc,       \* where the transport's current call of the handler stands
  current,   \* the payload that call is about to return
  log        \* history: the responses returned so far

vars == <<fs, task, invalid, errs, unspawned, deferred, pending, first, hpc, current, log>>

FSState   == {"idle", "loop", "dispatch", "spawn", "done", "sending", "sent"}
TaskState == {"idle", "objects", "null", "data"}
HandlerPc == {"idle", "root", "recv", "decrement", "emit", "end", "dropped"}
Response  == [of : Payload, null : BOOLEAN, err : BOOLEAN, next : {"absent", "yes", "no"}]

TasksOf(x)  == {t \in Task : fieldSetOf[t] = x}
GroupsOf(o) == {g \in Group : owner[g] = o}
Resolved(t) == task[t] \in {"null", "data"}
Started     == {g \in Group : fs[g] # "idle"}
Delivered   == {log[i].of : i \in DOMAIN log}

TypeOK ==
  /\ fs \in [FieldSet -> FSState]
  /\ task \in [Task -> TaskState]
  /\ invalid \subseteq FieldSet
  /\ errs \subseteq Payload
  /\ unspawned \subseteq Group
  /\ deferred \in Nat
  /\ pending \in Int
  /\ first \in BOOLEAN
  /\ hpc \in HandlerPc
  /\ current \in Payload
  /\ log \in Seq(Response)

Init ==
  /\ fs = [x \in FieldSet |-> "idle"]
  /\ task = [t \in Task |-> "idle"]
  /\ invalid = {} /\ errs = {} /\ unspawned = {}
  /\ deferred = 0 /\ pending = 0
  /\ first = TRUE /\ hpc = "idle" /\ current = Root
  /\ log = <<>>

handlerVars == <<deferred, pending, first, hpc, current, log>>
-----------------------------------------------------------------------------
(***************************************************************************)
(* Fields.  A synchronous field runs inside the dispatch loop, one at a    *)
(* time; the others run concurrently once Dispatch has been called.        *)
(***************************************************************************)
MayRun(t) ==
  /\ task[t] = "idle"
  /\ IF t \in SyncTask
       THEN /\ fs[fieldSetOf[t]] = "loop"
            /\ \A u \in SyncTask : fieldSetOf[u] = fieldSetOf[t] => task[u] # "objects"
       ELSE fs[fieldSetOf[t]] = "dispatch"

(***************************************************************************)
(* A field comes out null.  A non-null one raises Invalids of its set.     *)
(***************************************************************************)
BecomeNull(t) ==
  /\ task' = [task EXCEPT ![t] = "null"]
  /\ invalid' = IF t \in NonNull THEN invalid \cup {fieldSetOf[t]} ELSE invalid

\* Mutant: ResolveField does not add "must not be null".
MutNullWithoutError(t) ==
  /\ MayRun(t)
  /\ BecomeNull(t)
  /\ errs' \in {errs, errs \cup {payloadOf[fieldSetOf[t]]}}
  /\ UNCHANGED <<fs, unspawned>> /\ UNCHANGED handlerVars

(***************************************************************************)
(* The resolver fails, panics or returns nil; without an error only a      *)
(* nullable field does, ResolveField adds "must not be null" otherwise.    *)
(***************************************************************************)
ResolveNull(t) ==
  /\ MayRun(t)
  /\ BecomeNull(t)
  /\ errs' \in {errs \cup {payloadOf[fieldSetOf[t]]}}
               \cup (IF t \in NonNull THEN {} ELSE {errs})
  /\ UNCHANGED <<fs, unspawned>> /\ UNCHANGED handlerVars

ResolveLeaf(t) ==
  /\ MayRun(t)
  /\ children[t] = {}
  /\ task' = [task EXCEPT ![t] = "data"]
  /\ UNCHANGED <<fs, invalid, errs, unspawned>> /\ UNCHANGED handlerVars

(***************************************************************************)
(* The resolver returns objects: the field's goroutine marshals them, each *)
(* with its own DispatchObject.                                            *)
(***************************************************************************)
ResolveObjects(t) ==
  /\ MayRun(t)
  /\ children[t] # {}
  /\ task' = [task EXCEPT ![t] = "objects"]
  /\ fs' = [x \in FieldSet |-> IF x \in children[t] THEN "loop" ELSE fs[x]]
  /\ UNCHANGED <<invalid, errs, unspawned>> /\ UNCHANGED handlerVars

\* Mutant: the field does not wait for the objects it marshals.
MutObjectsNotAwaited(t) ==
  /\ task[t] = "objects"
  /\ task' = [task EXCEPT ![t] = "data"]
  /\ UNCHANGED <<fs, invalid, errs, unspawned>> /\ UNCHANGED handlerVars

ObjectsDone(t) ==
  /\ task[t] = "objects"
  /\ \A c \in children[t] : fs[c] = "done"
  /\ IF t \in Strict /\ children[t] \cap invalid # {}
       THEN BecomeNull(t)
       ELSE task' = [task EXCEPT ![t] = "data"] /\ UNCHANGED invalid
  /\ UNCHANGED <<fs, errs, unspawned>> /\ UNCHANGED handlerVars
-----------------------------------------------------------------------------
(***************************************************************************)
(* The object dispatcher.                                                  *)
(***************************************************************************)
BeginDispatch(o) ==
  /\ fs[o] = "loop"
  /\ \A t \in SyncTask : fieldSetOf[t] = o => Resolved(t)
  /\ fs' = [fs EXCEPT ![o] = "dispatch"]
  /\ UNCHANGED <<task, invalid, errs, unspawned>> /\ UNCHANGED handlerVars

(***************************************************************************)
(* Dispatch has returned.  An object with an invalid field is Null and     *)
(* drops its groups; another counts them all before it starts the first.   *)
(***************************************************************************)
AddDeferred(o) ==
  /\ fs[o] = "dispatch"
  /\ \A t \in TasksOf(o) : Resolved(t)
  /\ IF o \in invalid
       THEN /\ fs' = [fs EXCEPT ![o] = "done"]
            /\ UNCHANGED <<unspawned, deferred>>
       ELSE /\ fs' = [fs EXCEPT ![o] = "spawn"]
            /\ unspawned' = unspawned \cup GroupsOf(o)
            /\ deferred' = deferred + Cardinality(GroupsOf(o))
  /\ UNCHANGED <<task, invalid, errs, pending, first, hpc, current, log>>

\* Mutant: a group does not count as pending before its goroutine counts itself,
\* which it never gets to do.
MutGroupNotCounted(g) ==
  /\ fs[owner[g]] = "spawn"
  /\ g \in unspawned
  /\ unspawned' = unspawned \ {g}
  /\ fs' = [fs EXCEPT ![g] = "dispatch"]
  /\ UNCHANGED <<task, invalid, errs, deferred, pending, first, hpc, current, log>>

(***************************************************************************)
(* ProcessDeferredGroup: count the group as pending, start its goroutine.  *)
(***************************************************************************)
ProcessDeferredGroup(g) ==
  /\ fs[owner[g]] = "spawn"
  /\ g \in unspawned
  /\ unspawned' = unspawned \ {g}
  /\ pending' = pending + 1
  /\ fs' = [fs EXCEPT ![g] = "dispatch"]
  /\ UNCHANGED <<task, invalid, errs, deferred, first, hpc, current, log>>

DispatchReturns(o) ==
  /\ fs[o] = "spawn"
  /\ GroupsOf(o) \cap unspawned = {}
  /\ fs' = [fs EXCEPT ![o] = "done"]
  /\ UNCHANGED <<task, invalid, errs, unspawned>> /\ UNCHANGED handlerVars

\* Mutant: the channel of results has a buffer.
MutBufferedResults(g) ==
  /\ fs[g] = "dispatch"
  /\ \A t \in TasksOf(g) : Resolved(t)
  /\ fs' = [fs EXCEPT ![g] = "sent"]
  /\ UNCHANGED <<task, invalid, errs, unspawned>> /\ UNCHANGED handlerVars

(***************************************************************************)
(* The group's goroutine has run all its fields; it now blocks on the      *)
(* unbuffered channel until the handler receives.                          *)
(***************************************************************************)
GroupReady(g) ==
  /\ fs[g] = "dispatch"
  /\ \A t \in TasksOf(g) : Resolved(t)
  /\ fs' = [fs EXCEPT ![g] = "sending"]
  /\ UNCHANGED <<task, invalid, errs, unspawned>> /\ UNCHANGED handlerVars
-----------------------------------------------------------------------------
(***************************************************************************)
(* The response handler and the transport that calls it.                   *)
(***************************************************************************)
CallFirst ==
  /\ hpc = "idle" /\ first
  /\ first' = FALSE
  /\ hpc' = "root"
  /\ fs' = [fs EXCEPT ![Root] = "loop"]
  /\ UNCHANGED <<task, invalid, errs, unspawned, deferred, pending, current, log>>

RootReturns ==
  /\ hpc = "root" /\ fs[Root] = "done"
  /\ hpc' = "emit"
  /\ current' = Root
  /\ UNCHANGED <<fs, task, invalid, errs, unspawned, deferred, pending, first, log>>

\* Mutant: the handler stops when one group is still pending.
MutStopsOneEarly ==
  /\ hpc = "idle" /\ ~first
  /\ DrainsHandler
  /\ hpc' = IF pending > 1 THEN "recv" ELSE "end"
  /\ UNCHANGED <<fs, task, invalid, errs, unspawned, deferred, pending, first, current, log>>

CallNext ==
  /\ hpc = "idle" /\ ~first
  /\ DrainsHandler
  /\ hpc' = IF pending > 0 THEN "recv" ELSE "end"
  /\ UNCHANGED <<fs, task, invalid, errs, unspawned, deferred, pending, first, current, log>>

(***************************************************************************)
(* A transport that wants a single response (POST, GET) never calls again. *)
(***************************************************************************)
DropHandler ==
  /\ hpc = "idle" /\ ~first /\ ~DrainsHandler
  /\ hpc' = "dropped"
  /\ UNCHANGED <<fs, task, invalid, errs, unspawned, deferred, pending, first, current, log>>

Receive(g) ==
  /\ hpc = "recv" /\ fs[g] = "sending"
  /\ fs' = [fs EXCEPT ![g] = "sent"]
  /\ hpc' = "decrement"
  /\ current' = g
  /\ UNCHANGED <<task, invalid, errs, unspawned, deferred, pending, first, log>>

\* Mutant: a delivered group stays pending.
MutNoDecrement ==
  /\ hpc = "decrement"
  /\ hpc' = "emit"
  /\ UNCHANGED <<fs, task, invalid, errs, unspawned, deferred, pending, first, current, log>>

DecrementPending ==
  /\ hpc = "decrement"
  /\ pending' = pending - 1
  /\ hpc' = "emit"
  /\ UNCHANGED <<fs, task, invalid, errs, unspawned, deferred, first, current, log>>

\* Mutant: off by one, as if the group in hand were still counted.
MutHasNext == IF deferred > 0 THEN (IF pending > 1 THEN "yes" ELSE "no") ELSE "absent"

(***************************************************************************)
(* Marshal the payload and read the two counters.  Deferred never falls,   *)
(* and while it is 0 nothing runs that could raise it, so the two loads    *)
(* are one step taken at the load of PendingDeferred.                      *)
(***************************************************************************)
HasNext == IF deferred > 0 THEN (IF pending > 0 THEN "yes" ELSE "no") ELSE "absent"

ReturnResponse ==
  /\ hpc = "emit"
  /\ log' = Append(log, [of |-> current, null |-> current \in invalid,
                         err |-> current \in errs, next |-> HasNext])
  /\ hpc' = "idle"
  /\ UNCHANGED <<fs, task, invalid, errs, unspawned, deferred, pending, first, current>>

Finished ==  \* the transport is done with the handler; stutter
  /\ hpc \in {"end", "dropped"}
  /\ UNCHANGED vars

TaskStep(t) == ResolveNull(t) \/ ResolveLeaf(t) \/ ResolveObjects(t) \/ ObjectsDone(t)
ObjectStep(o) == BeginDispatch(o) \/ AddDeferred(o) \/ DispatchReturns(o)
GroupStep(g) == ProcessDeferredGroup(g) \/ GroupReady(g) \/ Receive(g)
HandlerStep == CallFirst \/ RootReturns \/ CallNext \/ DropHandler
               \/ DecrementPending \/ ReturnResponse

Next ==
  \/ \E t \in Task : TaskStep(t)
  \/ \E o \in Object : ObjectStep(o)
  \/ \E g \in Group : GroupStep(g)
  \/ HandlerStep
  \/ Finished

(***************************************************************************)
(* Every step is one of a runnable goroutine, and resolvers are assumed to *)
(* return: each goroutine is weakly fair.                                  *)
(***************************************************************************)
Fairness ==
  /\ \A t \in Task : WF_vars(TaskStep(t))
  /\ \A o \in Object : WF_vars(ObjectStep(o))
  /\ \A g \in Group : WF_vars(ProcessDeferredGroup(g)) /\ WF_vars(GroupReady(g))
  /\ WF_vars(HandlerStep \/ \E g \in Group : Receive(g))

Spec == Init /\ [][Next]_vars
FairSpec == Spec /\ Fairness
-----------------------------------------------------------------------------
(***************************************************************************)
(* hasNext tells the truth: every response but the last carries hasNext =  *)
(* true, and once the handler has returned nil the last one did not.       *)
(* A client that trusted a wrong hasNext would hang up too early or wait   *)
(* for ever.  (PendingDeferred is read while other groups start and send.) *)
(***************************************************************************)
HasNextTruthful ==
  /\ \A i \in DOMAIN log : i < Len(log) => log[i].next = "yes"
  /\ hpc = "end" => log # <<>> /\ log[Len(log)].next # "yes"

(***************************************************************************)
(* The handler returns nil only when every group that was started has been *)
(* delivered and nothing of the query is still running, although it looks  *)
(* at nothing but a counter the groups' goroutines change concurrently.    *)
(***************************************************************************)
Running(x) == fs[x] \in {"loop", "dispatch", "spawn", "sending"}

EndsDrained ==
  hpc = "end" => /\ Started \subseteq Delivered
                 /\ \A x \in FieldSet : ~Running(x)

(***************************************************************************)
(* A payload is marshalled only after every field below it has been        *)
(* written: no goroutine still stores into a FieldSet that MarshalGQL      *)
(* reads, or adds errors to a response context that was already copied.    *)
(***************************************************************************)
MarshalAfterWrites ==
  hpc = "emit" => \A x \in FieldSet :
    payloadOf[x] = current /\ x # current => ~Running(x)

(***************************************************************************)
(* A payload whose data is null because a non-null field bubbled up        *)
(* carries an error of its own, not one that went to another payload.      *)
(***************************************************************************)
NullPayloadCarriesError ==
  \A i \in DOMAIN log : log[i].null => log[i].err

(***************************************************************************)
(* No payload is delivered twice, and the initial one comes first.         *)
(***************************************************************************)
DeliveredOnceInitialFirst ==
  /\ \A i, j \in DOMAIN log : log[i].of = log[j].of => i = j
  /\ log # <<>> => log[1].of = Root

(***************************************************************************)
(* The handler implements IncrementalDelivery.  A group is owed from the   *)
(* moment ProcessDeferredGroup counts it until the handler has returned    *)
(* its payload, the time between the receive and the return included.      *)
(***************************************************************************)
Live      == {g \in Group : fs[g] \in {"dispatch", "sending"}}
InHand    == IF hpc \in {"decrement", "emit"} /\ current \in Group THEN {current} ELSE {}
Entry(r)  == [of |-> r.of, more |-> r.next = "yes"]
Payloads  == [i \in DOMAIN log |-> Entry(log[i])]

Abstract == INSTANCE IncrementalDelivery WITH
  Initial <- Root, Deferrable <- Group,
  owed <- Live \cup InHand, delivered <- Payloads, ended <- hpc = "end"

ImplementsDelivery == Abstract!ISpec
ImplementsFairDelivery == Abstract!IFairSpec

(***************************************************************************)
(* Liveness: when the transport drains the handler, the goroutine of every *)
(* group that was started gets rid of its result instead of blocking on    *)
(* the channel for ever.                                                   *)
(***************************************************************************)
NoStuckGroup == \A g \in Group : fs[g] = "dispatch" ~> fs[g] = "sent"

(***************************************************************************)
(* A transport that calls the handler once has no receiver for the groups: *)
(* the goroutine of every one that was started ends up blocked on its send *)
(* for ever, and none of them holds up the response.                       *)
(***************************************************************************)
SingleCallStrandsGroups ==
  /\ <>(hpc = "dropped")
  /\ \A g \in Group : fs[g] = "dispatch" ~> [](fs[g] = "sending")
=============================================================================
