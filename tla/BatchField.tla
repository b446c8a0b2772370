----------------------------- MODULE BatchField -----------------------------
(***************************************************************************)
(* A field with a batch resolver in the elements of a list                 *)
(* (graphql/batch.go, codegen/type.gotpl, codegen/field.gotpl).  Every     *)
(* element's goroutine asks for the field; the first of its group calls    *)
(* the resolver for the parents of all of them, the others wait and each   *)
(* takes its own result.  The goroutines are those of MarshalSlice.        *)
(*                                                                         *)
(* The list is one of object pointers, of an interface, whose elements are *)
(* grouped by their concrete type, or of struct values.                    *)
(***************************************************************************)
EXTENDS MarshalSlice, SequencesExt

CONSTANTS
  Kinds, \* which lists are considered: a subset of {"objects", "mixed", "values"}
  Type   \* the concrete types of an interface's elements

ASSUME KindsAssumption == Kinds \subseteq {"objects", "mixed", "values"} /\ Type # {}

VARIABLES
  kind,   \* of the list
  typ,    \* of the elements
  bpc,    \* where an element's field stands
  once,   \* the BatchFieldResult of a group: once and done
  reply,  \* Results and Err of a group
  calls,  \* history: the resolver's calls for the elements of a type
  out,    \* an element's value, as the set of parents it is the result of: empty for null
  errAt   \* the list indices in the paths of an element's errors

batchVars == <<kind, typ, bpc, once, reply, calls, out, errAt>>
vars == <<sliceVars, batchVars>>

(***************************************************************************)
(* Results: as many as parents, or not, or nil after a panic.  Err: none,  *)
(* an error, or BatchErrors, as many as parents or not; bad are the        *)
(* parents whose error is not nil.                                         *)
(***************************************************************************)
Reply(parents) ==
  [results : {"right", "wrong"}, err : {"none", "plain"}, bad : {{}}]
  \union [results : {"right", "wrong"}, err : {"list", "wrongList"}, bad : SUBSET parents]

NoReply == [results |-> "nil", err |-> "none", bad |-> {}]

BatchInit ==
  /\ Init
  /\ kind \in Kinds
  /\ typ \in IF kind = "mixed" THEN [Index -> Type] ELSE {[i \in Index |-> t] : t \in Type}
  /\ bpc = [i \in Index |-> "idle"]
  /\ once = [t \in Type |-> "new"]
  /\ reply = [t \in Type |-> NoReply]
  /\ calls = [t \in Type |-> 0]
  /\ out = [i \in Index |-> {}] /\ errAt = [i \in Index |-> {}]

\* Mutant: the place in the list is taken for the place in the group.
MutListIndex(i) == i

\* The loop that groups an interface's list: the elements of type t among the first n.
BatchItems(t) ==
  LET items[n \in 0 .. MaxLength] ==
        IF n = 0 THEN <<>>
        ELSE IF typ[n - 1] = t THEN Append(items[n - 1], n - 1) ELSE items[n - 1]
  IN items

\* The parents of a group, and an element's place among them (IndexMap; a list of objects is its
\* own group and has none).
Parents(t) == IF kind = "mixed" THEN BatchItems(t)[length] ELSE [k \in 1 .. length |-> k - 1]
ResultIndex(i) == IF kind = "mixed" THEN Len(BatchItems(typ[i])[i]) ELSE i

(***************************************************************************)
(* The steps of an element's field                                         *)
(***************************************************************************)
Alive(i) == lpc \in {"loop", "wait"} /\ el[i] = "running"

\* The parents of a list of values are no []*T: the resolver is called for the one parent.
Ask(i) ==
  /\ Alive(i) /\ bpc[i] = "idle"
  /\ IF kind = "values"
       THEN bpc' = [bpc EXCEPT ![i] = "resolving"] /\ calls' = [calls EXCEPT ![typ[i]] = @ + 1]
       ELSE bpc' = [bpc EXCEPT ![i] = "once"] /\ UNCHANGED calls
  /\ UNCHANGED <<sliceVars, kind, typ, once, reply, out, errAt>>

\* Mutant: a flag that is set when the resolver has returned instead of once.
MutFlag(i) ==
  /\ Alive(i) /\ bpc[i] = "once"
  /\ once[typ[i]] # "done"
  /\ once' = [once EXCEPT ![typ[i]] = "running"]
  /\ calls' = [calls EXCEPT ![typ[i]] = @ + 1]
  /\ bpc' = [bpc EXCEPT ![i] = "resolving"]
  /\ UNCHANGED <<sliceVars, kind, typ, reply, out, errAt>>

First(i) ==
  /\ Alive(i) /\ bpc[i] = "once"
  /\ once[typ[i]] = "new"
  /\ once' = [once EXCEPT ![typ[i]] = "running"]
  /\ calls' = [calls EXCEPT ![typ[i]] = @ + 1]
  /\ bpc' = [bpc EXCEPT ![i] = "resolving"]
  /\ UNCHANGED <<sliceVars, kind, typ, reply, out, errAt>>

ResolverReturns(i) ==
  /\ Alive(i) /\ bpc[i] = "resolving" /\ kind # "values"
  /\ \E r \in Reply(ToSet(Parents(typ[i]))) : reply' = [reply EXCEPT ![typ[i]] = r]
  /\ once' = [once EXCEPT ![typ[i]] = "done"]
  /\ bpc' = [bpc EXCEPT ![i] = "read"]
  /\ UNCHANGED <<sliceVars, kind, typ, calls, out, errAt>>

\* Mutant: done is closed after the resolver has returned, not deferred.
MutNoDefer(i) ==
  /\ Alive(i) /\ bpc[i] = "resolving"
  /\ \/ Unrecovered /\ UNCHANGED batchVars
     \/ /\ ~omit
        /\ errAt' = [errAt EXCEPT ![i] = {i}]
        /\ bpc' = [bpc EXCEPT ![i] = "ended"]
        /\ UNCHANGED <<sliceVars, kind, typ, once, reply, calls, out>>

\* The field recovers; the deferred close lets the others go on.
ResolverPanics(i) ==
  /\ Alive(i) /\ bpc[i] = "resolving"
  /\ \/ Unrecovered /\ UNCHANGED batchVars
     \/ /\ ~omit
        /\ once' = IF kind = "values" THEN once ELSE [once EXCEPT ![typ[i]] = "done"]
        /\ errAt' = [errAt EXCEPT ![i] = {i}]
        /\ bpc' = [bpc EXCEPT ![i] = "ended"]
        /\ UNCHANGED <<sliceVars, kind, typ, reply, calls, out>>

Follow(i) ==
  /\ Alive(i) /\ bpc[i] = "once"
  /\ once[typ[i]] = "done"
  /\ bpc' = [bpc EXCEPT ![i] = "read"]
  /\ UNCHANGED <<sliceVars, kind, typ, once, reply, calls, out, errAt>>

\* Mutant: no error without Err.
MutNilWithoutError(i) ==
  /\ Alive(i) /\ bpc[i] = "read"
  /\ LET r == reply[typ[i]]
         parents == Parents(typ[i])
         k == ResultIndex(i) + 1
         succeeds == /\ r.results = "right"
                     /\ r.err \in {"none", "list"}
                     /\ k \in DOMAIN parents
                     /\ parents[k] \notin r.bad
     IN IF succeeds
          THEN out' = [out EXCEPT ![i] = {parents[k]}] /\ UNCHANGED errAt
          ELSE errAt' = [errAt EXCEPT ![i] = IF r.err = "none" THEN {} ELSE {i}] /\ UNCHANGED out
  /\ bpc' = [bpc EXCEPT ![i] = "ended"]
  /\ UNCHANGED <<sliceVars, kind, typ, once, reply, calls>>

\* ResolveBatchGroupResult.  A reply without Results is one of an unexpected type.
TakeResult(i) ==
  /\ Alive(i) /\ bpc[i] = "read"
  /\ LET r == reply[typ[i]]
         parents == Parents(typ[i])
         k == ResultIndex(i) + 1
         succeeds == /\ r.results = "right"
                     /\ r.err \in {"none", "list"}
                     /\ k \in DOMAIN parents
                     /\ parents[k] \notin r.bad
     IN IF succeeds
          THEN out' = [out EXCEPT ![i] = {parents[k]}] /\ UNCHANGED errAt
          ELSE errAt' = [errAt EXCEPT ![i] = {i}] /\ UNCHANGED out
  /\ bpc' = [bpc EXCEPT ![i] = "ended"]
  /\ UNCHANGED <<sliceVars, kind, typ, once, reply, calls>>

\* ResolveBatchSingleResult reports an error for the index 0 of a batch of one, and the path is
\* made from that index.
ResolveAlone(i) ==
  /\ Alive(i) /\ bpc[i] = "resolving" /\ kind = "values"
  /\ \E r \in Reply({i}) :
       IF r.results = "right" /\ r.err \in {"none", "list"} /\ i \notin r.bad
         THEN out' = [out EXCEPT ![i] = {i}] /\ UNCHANGED errAt
         ELSE errAt' = [errAt EXCEPT ![i] = {0}] /\ UNCHANGED out
  /\ bpc' = [bpc EXCEPT ![i] = "ended"]
  /\ UNCHANGED <<sliceVars, kind, typ, once, reply, calls>>

FieldStep(i) ==
  \/ Ask(i) \/ First(i) \/ ResolverReturns(i) \/ ResolverPanics(i)
  \/ Follow(i) \/ TakeResult(i) \/ ResolveAlone(i)

\* Fields recover their own panics; the marshaller of the element can panic before them.
ElementStep(i) ==
  \/ bpc[i] = "ended" /\ ElementEnds(i) /\ UNCHANGED batchVars
  \/ bpc[i] = "idle" /\ ElementPanics(i) /\ UNCHANGED batchVars

BatchNext ==
  \/ (CallerStep \/ ContextDone) /\ UNCHANGED batchVars
  \/ \E i \in Index : FieldStep(i) \/ ElementStep(i)

BatchSpec == BatchInit /\ [][BatchNext]_vars

\* Goroutines run, and batch resolvers return or panic.
FairBatchSpec ==
  /\ BatchSpec
  /\ WF_vars(CallerStep /\ UNCHANGED batchVars)
  /\ \A i \in Index : WF_vars(FieldStep(i) \/ ElementStep(i))

(***************************************************************************)
(* Properties                                                              *)
(***************************************************************************)
Ended(i) == bpc[i] = "ended"

\* Every element gets the result computed for it, whatever its place in the list and in its group
\* (IndexMap), and gets it although other parents of the batch have failed.
OwnResult ==
  \A i \in Elements : Ended(i) =>
    /\ out[i] \subseteq {i}
    /\ kind # "values" /\ reply[typ[i]].results = "right" /\ reply[typ[i]].err \in {"none", "list"} =>
         (out[i] = {i} <=> i \notin reply[typ[i]].bad)

\* A null carries an error at its own place, also when another parent's call of the resolver has
\* panicked (lists of pointers and interfaces).
NullHasOwnError ==
  \A i \in Elements : Ended(i) /\ kind # "values" =>
    errAt[i] = IF out[i] = {} THEN {i} ELSE {}

\* A batch resolver is called once for all parents of a group (sync.Once; lists of pointers and
\* interfaces).
OneCallPerGroup == kind # "values" => \A t \in Type : calls[t] <= 1

\* Nobody waits for ever for the result of a batch: the list returns, with a worker limit, a panic
\* of the resolver and a cancelled context too.
ListReturns == <>(lpc \in {"returned", "panicked", "crashed"})

\* The batch resolver's errors have the paths that the resolver without batching gives them
\* (_examples/batchresolver/batchresolver_test.go:145-148).
ErrorAtOwnIndex == \A i \in Elements : Ended(i) => errAt[i] \subseteq {i}
=============================================================================
