---------------------------- MODULE MarshalSlice ----------------------------
(***************************************************************************)
(* MarshalSliceConcurrently (graphql/slice.go): a goroutine per element of *)
(* a list, as many at a time as the worker limit allows.  The elements are *)
(* marshalled by somebody else: ElementEnds and ElementPanics say when.    *)
(***************************************************************************)
EXTENDS Integers, FiniteSets

CONSTANTS
  MaxLength,   \* bound: elements of the list
  WorkerLimit  \* 0: no limit

ASSUME SliceAssumption == MaxLength \in Nat \ {0} /\ WorkerLimit \in Nat

VARIABLES
  length,  \* of the list, chosen initially
  omit,    \* omitPanicHandler
  lpc,     \* the calling goroutine: in the loop, waiting for the others, and how it ended
  next,    \* the loop's i
  el,      \* the element goroutines
  retNil,  \* retNilFlag
  errs,    \* elements whose field context got an error here
  result,  \* what is returned: nil, or an array
  ctxDone

sliceVars == <<length, omit, lpc, next, el, retNil, errs, result, ctxDone>>

Index == 0 .. MaxLength - 1
Elements == {i \in Index : i < length}
Running == {i \in Index : el[i] = "running"}

TypeOK ==
  /\ length \in 0 .. MaxLength
  /\ omit \in BOOLEAN /\ retNil \in BOOLEAN /\ ctxDone \in BOOLEAN
  /\ lpc \in {"loop", "wait", "returned", "panicked", "crashed"}
  /\ next \in 0 .. length
  /\ el \in [Index -> {"idle", "running", "done", "panicked"}]
  /\ errs \subseteq Elements
  /\ result \in {"none", "nil", "array"}

Init ==
  /\ length \in 0 .. MaxLength
  /\ omit \in BOOLEAN
  /\ lpc = "loop" /\ next = 0
  /\ el = [i \in Index |-> "idle"]
  /\ retNil = FALSE /\ errs = {} /\ result = "none"
  /\ ctxDone \in BOOLEAN

\* A single element is marshalled by the caller itself, without the semaphore.
StartOnly ==
  /\ lpc = "loop" /\ length = 1
  /\ el' = [el EXCEPT ![0] = "running"]
  /\ next' = 1
  /\ lpc' = "wait"
  /\ UNCHANGED <<length, omit, retNil, errs, result, ctxDone>>

\* semaphore.Acquire succeeds only while the context is not done.
Start ==
  /\ lpc = "loop" /\ length > 1 /\ next < length
  /\ WorkerLimit > 0 => ~ctxDone /\ Cardinality(Running) < WorkerLimit
  /\ el' = [el EXCEPT ![next] = "running"]
  /\ next' = next + 1
  /\ UNCHANGED <<length, omit, lpc, retNil, errs, result, ctxDone>>

\* Mutant: retNilFlag is not set.
MutHoles ==
  /\ lpc = "loop" /\ length > 1 /\ next < length
  /\ WorkerLimit > 0 /\ ctxDone
  /\ errs' = errs \union {next}
  /\ lpc' = "wait"
  /\ UNCHANGED <<length, omit, next, el, retNil, result, ctxDone>>

AcquireFails ==
  /\ lpc = "loop" /\ length > 1 /\ next < length
  /\ WorkerLimit > 0 /\ ctxDone
  /\ errs' = errs \union {next}
  /\ retNil' = TRUE
  /\ lpc' = "wait"
  /\ UNCHANGED <<length, omit, next, el, result, ctxDone>>

LoopEnds ==
  /\ lpc = "loop" /\ length # 1 /\ next = length
  /\ lpc' = "wait"
  /\ UNCHANGED <<length, omit, next, el, retNil, errs, result, ctxDone>>

Return ==
  /\ lpc = "wait"
  /\ Running = {}
  /\ result' = IF retNil THEN "nil" ELSE "array"
  /\ lpc' = "returned"
  /\ UNCHANGED <<length, omit, next, el, retNil, errs, ctxDone>>

ElementEnds(i) ==
  /\ lpc \in {"loop", "wait"} /\ el[i] = "running"
  /\ el' = [el EXCEPT ![i] = "done"]
  /\ UNCHANGED <<length, omit, lpc, next, retNil, errs, result, ctxDone>>

\* The caller's panic goes to its caller; nobody can recover another goroutine's.
Unrecovered ==
  /\ omit
  /\ lpc' = IF length = 1 THEN "panicked" ELSE "crashed"
  /\ UNCHANGED <<length, omit, next, el, retNil, errs, result, ctxDone>>

ElementPanics(i) ==
  /\ lpc \in {"loop", "wait"} /\ el[i] = "running"
  /\ \/ Unrecovered
     \/ /\ ~omit
        /\ el' = [el EXCEPT ![i] = "panicked"]
        /\ errs' = errs \union {i}
        /\ retNil' = TRUE
        /\ UNCHANGED <<length, omit, lpc, next, result, ctxDone>>

ContextDone ==
  /\ ~ctxDone /\ lpc \in {"loop", "wait"}
  /\ ctxDone' = TRUE
  /\ UNCHANGED <<length, omit, lpc, next, el, retNil, errs, result>>

CallerStep == StartOnly \/ Start \/ AcquireFails \/ LoopEnds \/ Return

Next == CallerStep \/ ContextDone \/ \E i \in Index : ElementEnds(i) \/ ElementPanics(i)

SliceSpec == Init /\ [][Next]_sliceVars

(***************************************************************************)
(* Properties, with any marshaller of elements                             *)
(***************************************************************************)
\* When an array is returned each of its elements has been stored: Array.MarshalGQL would call a
\* method of nil otherwise.  A list that is cut short because of a panic or the context is nil
\* instead, and says so in an error.
ArrayIsComplete == result = "array" => \A i \in Elements : el[i] = "done"
NilHasError == result = "nil" => errs # {}

WholeOrExplained == ArrayIsComplete /\ NilHasError

\* Nothing writes into the array any more when the caller has it (wg.Wait before the return).
NobodyWritesAfterReturn == lpc = "returned" => Running = {}

\* No more than the limit at a time; an only element counts as one.
WithinWorkerLimit == WorkerLimit > 0 => Cardinality(Running) <= WorkerLimit
=============================================================================
