---------------------------- MODULE BatchProofs ----------------------------
(***************************************************************************)
(* Theorems about one call that resolves many elements, and about the      *)
(* lists that the results are stored in.                                   *)
(*                                                                         *)
(* BatchField, and MarshalSlice, whose steps its elements take: for lists  *)
(* of every length, every worker limit and every set of types.             *)
(*                                                                         *)
(* EntityResolution: for any number of representations and of resolvers.   *)
(***************************************************************************)
EXTENDS BatchField, EntityResolution, Recursion, FiniteSetTheorems

(***************************************************************************)
(* MarshalSlice: what its properties rest on.                              *)
(***************************************************************************)
\* The loop starts the elements in order.
StartedInOrder == \A i \in Index : el[i] # "idle" <=> i < next

\* A panic is never forgotten.
PanicsAreRecorded == \A i \in Index : el[i] = "panicked" => retNil

\* The flag comes with an error.
FlagHasError == retNil => errs # {}

\* The loop is left early only with the flag set.
AllStarted == lpc \in {"wait", "returned"} => retNil \/ next = length

\* The result is what the flag said when the last element had ended.
ResultFromFlag ==
  /\ result = "nil" => retNil
  /\ result = "array" => ~retNil
  /\ result # "none" <=> lpc = "returned"

SliceInv ==
  /\ TypeOK /\ StartedInOrder /\ PanicsAreRecorded /\ FlagHasError /\ AllStarted
  /\ ResultFromFlag /\ NobodyWritesAfterReturn

LEMMA SliceInit == Init => SliceInv
<1> SUFFICES ASSUME Init PROVE SliceInv
  OBVIOUS
<1> USE SliceAssumption DEF Init, Index
<1>1. TypeOK
  <2>1. omit \in BOOLEAN /\ retNil \in BOOLEAN /\ ctxDone \in BOOLEAN
    OBVIOUS
  <2>2. length \in 0 .. MaxLength /\ next \in 0 .. length
    OBVIOUS
  <2>3. el \in [Index -> {"idle", "running", "done", "panicked"}]
    OBVIOUS
  <2>4. errs \subseteq Elements /\ lpc = "loop" /\ result = "none"
    OBVIOUS
  <2> QED BY <2>1, <2>2, <2>3, <2>4 DEF TypeOK
<1>2. StartedInOrder /\ PanicsAreRecorded
  BY DEF StartedInOrder, PanicsAreRecorded
<1>3. FlagHasError /\ AllStarted /\ ResultFromFlag /\ NobodyWritesAfterReturn
  BY DEF FlagHasError, AllStarted, ResultFromFlag, NobodyWritesAfterReturn
<1> QED BY <1>1, <1>2, <1>3 DEF SliceInv

LEMMA SliceStep == SliceInv /\ [Next]_sliceVars => SliceInv'
<1> SUFFICES ASSUME SliceInv, [Next]_sliceVars PROVE SliceInv'
  OBVIOUS
<1> USE SliceAssumption
    DEF SliceInv, TypeOK, StartedInOrder, PanicsAreRecorded, FlagHasError, AllStarted,
        ResultFromFlag, NobodyWritesAfterReturn, Index, Elements, Running
<1>1. CASE StartOnly
  BY <1>1 DEF StartOnly
<1>2. CASE Start
  BY <1>2 DEF Start
<1>3. CASE AcquireFails
  BY <1>3 DEF AcquireFails
<1>4. CASE LoopEnds
  BY <1>4 DEF LoopEnds
<1>5. CASE Return
  BY <1>5 DEF Return
<1>6. ASSUME NEW i \in Index, ElementEnds(i) PROVE SliceInv'
  BY <1>6 DEF ElementEnds
<1>7. ASSUME NEW i \in Index, ElementPanics(i) PROVE SliceInv'
  <2>1. CASE Unrecovered
    BY <1>7, <2>1 DEF ElementPanics, Unrecovered
  <2>2. CASE ~omit
    <3>1. /\ lpc \in {"loop", "wait"} /\ el[i] = "running"
          /\ el' = [el EXCEPT ![i] = "panicked"]
          /\ errs' = errs \union {i}
          /\ retNil' = TRUE
          /\ UNCHANGED <<length, omit, lpc, next, result, ctxDone>>
      BY <1>7, <2>2 DEF ElementPanics, Unrecovered
    <3>2. i \in Elements
      BY <3>1
    <3>3. TypeOK'
      BY <3>1, <3>2
    <3>4. StartedInOrder' /\ PanicsAreRecorded'
      BY <3>1
    <3>5. FlagHasError' /\ AllStarted' /\ ResultFromFlag' /\ NobodyWritesAfterReturn'
      BY <3>1
    <3> QED BY <3>3, <3>4, <3>5
  <2> QED BY <1>7, <2>1, <2>2 DEF ElementPanics
<1>8. CASE ContextDone
  BY <1>8 DEF ContextDone
<1>9. CASE UNCHANGED sliceVars
  BY <1>9 DEF sliceVars
<1> QED BY <1>1, <1>2, <1>3, <1>4, <1>5, <1>6, <1>7, <1>8, <1>9 DEF Next, CallerStep

(***************************************************************************)
(* The batch protocol                                                      *)
(***************************************************************************)
\* The steps of the fields leave the list alone or take a step of it.
LEMMA BatchStepIsSliceStep == [BatchNext]_vars => [Next]_sliceVars
<1> SUFFICES ASSUME [BatchNext]_vars PROVE [Next]_sliceVars
  OBVIOUS
<1>1. ASSUME NEW i \in Index, FieldStep(i) PROVE [Next]_sliceVars
  <2>1. CASE ResolverPanics(i)
    <3>1. CASE Unrecovered
      BY <1>1, <2>1, <3>1 DEF ResolverPanics, Alive, ElementPanics, Next
    <3> QED BY <2>1, <3>1 DEF ResolverPanics
  <2> QED BY <1>1, <2>1 DEF FieldStep, Ask, First, ResolverReturns, Follow, TakeResult, ResolveAlone
<1>2. ASSUME NEW i \in Index, ElementStep(i) PROVE [Next]_sliceVars
  BY <1>2 DEF ElementStep, Next
<1>3. CASE CallerStep \/ ContextDone
  BY <1>3 DEF Next
<1>4. CASE UNCHANGED vars
  BY <1>4 DEF vars
<1> QED BY <1>1, <1>2, <1>3, <1>4 DEF BatchNext

\* A list whose elements have batch resolvers is marshalled as any other: what is proved of
\* MarshalSliceConcurrently with arbitrary element marshallers holds with these.
THEOREM BatchImplementsSlice == BatchSpec => SliceSpec
BY BatchStepIsSliceStep, PTL DEF BatchSpec, BatchInit, SliceSpec

THEOREM SliceInvariant == SliceSpec => []SliceInv
BY SliceInit, SliceStep, PTL DEF SliceSpec

\* Once the array is returned every element has been stored in it and nobody writes any more.
THEOREM ArrayComplete == BatchSpec => [](ArrayIsComplete /\ NobodyWritesAfterReturn)
<1>1. SliceInv => ArrayIsComplete /\ NobodyWritesAfterReturn
  <2> SUFFICES ASSUME SliceInv, result = "array", NEW i \in Elements PROVE el[i] = "done"
    BY DEF ArrayIsComplete, SliceInv
  <2>1. lpc = "returned" /\ ~retNil /\ next = length
    BY DEF SliceInv, ResultFromFlag, AllStarted
  <2>2. i \in Index /\ i < next
    BY <2>1 DEF Elements
  <2>3. el[i] \notin {"idle", "running", "panicked"}
    BY <2>1, <2>2 DEF SliceInv, StartedInOrder, PanicsAreRecorded, NobodyWritesAfterReturn, Running
  <2> QED BY <2>2, <2>3 DEF SliceInv, TypeOK
<1> QED BY <1>1, BatchImplementsSlice, SliceInvariant, PTL

\* A list that is nil because of a panic or of the context has an error.
THEOREM NilListHasError == BatchSpec => []NilHasError
<1>1. SliceInv => NilHasError
  BY DEF SliceInv, ResultFromFlag, FlagHasError, NilHasError
<1> QED BY <1>1, BatchImplementsSlice, SliceInvariant, PTL

\* What is returned is whole, or nil with an error.
THEOREM ListWholeOrExplained == BatchSpec => []WholeOrExplained
BY ArrayComplete, NilListHasError, PTL DEF WholeOrExplained

LEMMA RunningFinite == IsFiniteSet(Running) /\ Cardinality(Running) \in Nat
<1>1. IsFiniteSet(Index)
  BY SliceAssumption, FS_Interval DEF Index
<1> QED BY <1>1, FS_Subset, FS_CardinalityType DEF Running

LEMMA LimitStep == SliceInv /\ WithinWorkerLimit /\ [Next]_sliceVars => WithinWorkerLimit'
<1> SUFFICES ASSUME SliceInv, WithinWorkerLimit, [Next]_sliceVars, WorkerLimit > 0
             PROVE Cardinality(Running') <= WorkerLimit
  BY DEF WithinWorkerLimit
<1> USE SliceAssumption
<1>1. CASE Start
  <2>1. Running' = Running \union {next} /\ next \notin Running
    BY <1>1 DEF Start, SliceInv, TypeOK, StartedInOrder, Running, Index
  <2>2. Cardinality(Running') = Cardinality(Running) + 1
    BY <2>1, RunningFinite, FS_AddElement
  <2> QED BY <1>1, <2>2, RunningFinite DEF Start
<1>2. CASE StartOnly
  <2>1. Running' \subseteq {0}
    BY <1>2 DEF StartOnly, SliceInv, TypeOK, StartedInOrder, Running, Index
  <2>2. IsFiniteSet({0}) /\ Cardinality({0}) = 1
    BY FS_Singleton
  <2>3. Cardinality(Running') <= 1
    BY <2>1, <2>2, FS_Subset
  <2>4. Cardinality(Running') \in Nat
    BY <2>1, <2>2, FS_Subset, FS_CardinalityType
  <2> QED BY <2>3, <2>4
<1>3. CASE ~Start /\ ~StartOnly
  <2>1. Running' \subseteq Running
    BY <1>3 DEF Next, CallerStep, AcquireFails, LoopEnds, Return, ElementEnds, ElementPanics,
       Unrecovered, ContextDone, sliceVars, SliceInv, TypeOK, Running
  <2>2. Cardinality(Running') <= Cardinality(Running) /\ Cardinality(Running') \in Nat
    BY <2>1, RunningFinite, FS_Subset, FS_CardinalityType
  <2> QED BY <2>2, RunningFinite DEF WithinWorkerLimit
<1> QED BY <1>1, <1>2, <1>3

\* The semaphore keeps its promise for every length and limit.
THEOREM WorkerLimitKept == BatchSpec => []WithinWorkerLimit
<1>1. Init => WithinWorkerLimit
  <2> SUFFICES ASSUME Init, WorkerLimit > 0 PROVE Cardinality(Running) <= WorkerLimit
    BY DEF WithinWorkerLimit
  <2>1. Running = {}
    BY DEF Init, Running
  <2> QED BY <2>1, FS_EmptySet, SliceAssumption
<1>2. SliceSpec => []WithinWorkerLimit
  BY <1>1, LimitStep, SliceInvariant, PTL DEF SliceSpec
<1> QED BY <1>2, BatchImplementsSlice, PTL

(***************************************************************************)
(* once and the errors                                                     *)
(***************************************************************************)
Functions ==
  /\ typ \in [Index -> Type]
  /\ bpc \in [Index -> {"idle", "once", "resolving", "read", "ended"}]
  /\ once \in [Type -> {"new", "running", "done"}]
  /\ calls \in [Type -> Nat]
  /\ DOMAIN out = Index /\ DOMAIN errAt = Index

\* A call of the resolver is the one that once allows.
CallsCounted ==
  kind # "values" =>
    /\ \A t \in Type : calls[t] = IF once[t] = "new" THEN 0 ELSE 1
    /\ \A i \in Index : bpc[i] \in {"resolving", "read"} => once[typ[i]] # "new"

\* A field has neither a value nor an error before it has ended.
NothingBeforeEnd == \A i \in Index : ~Ended(i) => out[i] = {} /\ errAt[i] = {}

ErrorIffNull ==
  \A i \in Index : Ended(i) /\ kind # "values" => errAt[i] = IF out[i] = {} THEN {i} ELSE {}

BatchInv == Functions /\ CallsCounted /\ NothingBeforeEnd /\ ErrorIffNull

LEMMA BatchInvInit == BatchInit => BatchInv
BY DEF BatchInit, BatchInv, Functions, CallsCounted, NothingBeforeEnd, ErrorIffNull, Ended

LEMMA BatchInvStep == BatchInv /\ [BatchNext]_vars => BatchInv'
<1> SUFFICES ASSUME BatchInv, [BatchNext]_vars PROVE BatchInv'
  OBVIOUS
<1> USE DEF BatchInv, Functions, CallsCounted, NothingBeforeEnd, ErrorIffNull, Ended
<1>1. CASE UNCHANGED batchVars
  BY <1>1 DEF batchVars
<1>2. ASSUME NEW i \in Index, Ask(i) PROVE BatchInv'
  BY <1>2 DEF Ask
<1>3. ASSUME NEW i \in Index, First(i) PROVE BatchInv'
  BY <1>3 DEF First
<1>4. ASSUME NEW i \in Index, ResolverReturns(i) PROVE BatchInv'
  BY <1>4 DEF ResolverReturns
<1>5. ASSUME NEW i \in Index, ResolverPanics(i) PROVE BatchInv'
  <2>1. CASE Unrecovered /\ UNCHANGED batchVars
    BY <1>1, <2>1
  <2>2. ASSUME bpc[i] = "resolving",
               once' = IF kind = "values" THEN once ELSE [once EXCEPT ![typ[i]] = "done"],
               errAt' = [errAt EXCEPT ![i] = {i}],
               bpc' = [bpc EXCEPT ![i] = "ended"],
               UNCHANGED <<kind, typ, calls, out>>
        PROVE  BatchInv'
    <3>1. Functions' /\ CallsCounted'
      BY <2>2
    <3>2. NothingBeforeEnd' /\ ErrorIffNull'
      BY <2>2
    <3> QED BY <3>1, <3>2
  <2> QED BY <1>5, <2>1, <2>2 DEF ResolverPanics
<1>6. ASSUME NEW i \in Index, Follow(i) PROVE BatchInv'
  BY <1>6 DEF Follow
<1>7. ASSUME NEW i \in Index, TakeResult(i) PROVE BatchInv'
  <2>1. /\ bpc[i] = "read"
        /\ bpc' = [bpc EXCEPT ![i] = "ended"]
        /\ UNCHANGED <<kind, typ, once, calls>>
        /\ \/ \E v : out' = [out EXCEPT ![i] = {v}] /\ UNCHANGED errAt
           \/ errAt' = [errAt EXCEPT ![i] = {i}] /\ UNCHANGED out
    BY <1>7 DEF TakeResult
  <2>2. Functions' /\ CallsCounted'
    BY <2>1
  <2>3. CASE errAt' = [errAt EXCEPT ![i] = {i}] /\ UNCHANGED out
    BY <2>1, <2>2, <2>3
  <2>4. ASSUME NEW v, out' = [out EXCEPT ![i] = {v}], UNCHANGED errAt PROVE BatchInv'
    <3>1. {v} # {}
      OBVIOUS
    <3> QED BY <2>1, <2>2, <2>4, <3>1
  <2> QED BY <2>1, <2>3, <2>4
<1>8. ASSUME NEW i \in Index, ResolveAlone(i) PROVE BatchInv'
  <2>1. /\ kind = "values"
        /\ bpc' = [bpc EXCEPT ![i] = "ended"]
        /\ UNCHANGED <<kind, typ, once, calls>>
        /\ \/ out' = [out EXCEPT ![i] = {i}] /\ UNCHANGED errAt
           \/ errAt' = [errAt EXCEPT ![i] = {0}] /\ UNCHANGED out
    BY <1>8 DEF ResolveAlone
  <2>2. Functions' /\ CallsCounted' /\ ErrorIffNull'
    BY <2>1
  <2>3. NothingBeforeEnd'
    BY <2>1
  <2> QED BY <2>2, <2>3
<1> QED BY <1>1, <1>2, <1>3, <1>4, <1>5, <1>6, <1>7, <1>8
        DEF BatchNext, FieldStep, ElementStep, vars

THEOREM BatchInvariant == BatchSpec => []BatchInv
BY BatchInvInit, BatchInvStep, PTL DEF BatchSpec

\* However the goroutines of the parents interleave, the batch resolver runs once for a group.
THEOREM OneCall == BatchSpec => []OneCallPerGroup
<1>1. BatchInv => OneCallPerGroup
  BY DEF BatchInv, CallsCounted, OneCallPerGroup
<1> QED BY <1>1, BatchInvariant, PTL

\* A parent without a result has an error of its own, also when the resolver has panicked in the
\* goroutine of another one.
THEOREM EveryNullExplained == BatchSpec => []NullHasOwnError
<1>1. BatchInv => NullHasOwnError
  BY DEF BatchInv, ErrorIffNull, NullHasOwnError, Elements
<1> QED BY <1>1, BatchInvariant, PTL

(***************************************************************************)
(* Results                                                                 *)
(***************************************************************************)
\* The loop's items by type, step by step.
LEMMA ItemsSolved ==
  ASSUME typ \in [Index -> Type], NEW t
  PROVE  LET items == BatchItems(t)
         IN /\ items \in [0 .. MaxLength -> Seq(Nat)] /\ items[0] = <<>>
            /\ \A n \in 1 .. MaxLength :
                 items[n] = IF typ[n - 1] = t THEN Append(items[n - 1], n - 1) ELSE items[n - 1]
<1> DEFINE step == [n \in 1 .. MaxLength |->
                     [s \in Seq(Nat) |-> IF typ[n - 1] = t THEN Append(s, n - 1) ELSE s]]
           E(f) == [n \in 0 .. MaxLength |->
                     IF n = 0 THEN <<>>
                     ELSE IF typ[n - 1] = t THEN Append(f[n - 1], n - 1) ELSE f[n - 1]]
           items == CHOOSE f : f = E(f)
<1>1. MaxLength \in Nat /\ <<>> \in Seq(Nat) /\ step \in [1 .. MaxLength -> [Seq(Nat) -> Seq(Nat)]]
  BY SliceAssumption
<1>2. \E f : Solves(f, Seq(Nat), <<>>, step, MaxLength)
  <2> HIDE DEF step
  <2> QED BY <1>1, Solvable
<1>3. PICK f : Solves(f, Seq(Nat), <<>>, step, MaxLength)
  BY <1>2
<1>4. f \in [0 .. MaxLength -> Seq(Nat)] /\ f[0] = <<>>
      /\ \A n \in 1 .. MaxLength : f[n] = step[n][f[n - 1]]
  <2> HIDE DEF step
  <2> QED BY <1>3 DEF Solves
<1>5. ASSUME NEW n \in 1 .. MaxLength
      PROVE  f[n] = IF typ[n - 1] = t THEN Append(f[n - 1], n - 1) ELSE f[n - 1]
  <2>1. f[n - 1] \in Seq(Nat)
    BY <1>1, <1>4
  <2> QED BY <1>4, <2>1
<1>6. f = E(f)
  <2>1. ASSUME NEW n \in 0 .. MaxLength
        PROVE  f[n] = IF n = 0 THEN <<>>
                      ELSE IF typ[n - 1] = t THEN Append(f[n - 1], n - 1) ELSE f[n - 1]
    <3> HIDE DEF step, E, items
    <3>1. n # 0 => n \in 1 .. MaxLength
      BY SliceAssumption
    <3> QED BY <1>4, <1>5, <3>1
  <2> HIDE DEF step, items
  <2> QED BY <1>4, <2>1
<1>7. items = E(items)
  <2> HIDE DEF E
  <2> QED BY <1>6
<1>8. BatchItems(t) = items
  BY DEF BatchItems
<1> HIDE DEF items, step
<1>9. /\ items[0] = <<>>
      /\ \A n \in 1 .. MaxLength :
           items[n] = IF typ[n - 1] = t THEN Append(items[n - 1], n - 1) ELSE items[n - 1]
  <2>1. 0 \in 0 .. MaxLength /\ \A n \in 1 .. MaxLength : n \in 0 .. MaxLength /\ n # 0
    BY SliceAssumption
  <2> QED BY <1>7, <2>1
<1>10. \A n \in 0 .. MaxLength : items[n] = f[n]
  <2>1. items[0] = f[0]
    BY <1>4, <1>9
  <2>2. \A n \in 1 .. MaxLength : items[n - 1] = f[n - 1] => items[n] = f[n]
    BY <1>5, <1>9
  <2> HIDE DEF E
  <2>3. MaxLength \in Nat
    BY SliceAssumption
  <2> QED BY <2>1, <2>2, <2>3, Agree, ZenonT(40)
<1>11. items \in [0 .. MaxLength -> Seq(Nat)]
  <2>1. items = [n \in 0 .. MaxLength |-> items[n]]
    BY <1>7
  <2> QED BY <1>4, <1>10, <2>1
<1> QED BY <1>8, <1>9, <1>11

\* An element's place in its group is its own, in a list of objects and in one of an interface.
LEMMA OwnPlace ==
  ASSUME typ \in [Index -> Type], length \in 0 .. MaxLength, NEW i \in Elements
  PROVE  ResultIndex(i) + 1 \in DOMAIN Parents(typ[i]) /\ Parents(typ[i])[ResultIndex(i) + 1] = i
<1> USE SliceAssumption
<1>1. i \in Nat /\ i < length /\ i \in Index
  BY DEF Elements, Index
<1>2. CASE kind = "mixed"
  <2>1. PICK items : items = BatchItems(typ[i])
    OBVIOUS
  <2>2. /\ items \in [0 .. MaxLength -> Seq(Nat)]
        /\ \A n \in 1 .. MaxLength :
             items[n] = IF typ[n - 1] = typ[i] THEN Append(items[n - 1], n - 1) ELSE items[n - 1]
    BY <2>1, ItemsSolved
  <2>3. PICK k \in Nat : k = Len(items[i]) + 1
    BY <1>1, <2>2
  <2> DEFINE Placed == {n \in Nat : i < n /\ n <= MaxLength => k \in 1 .. Len(items[n])
                                                              /\ items[n][k] = i}
  <2>4. 0 \in Placed
    BY <1>1
  <2>5. ASSUME NEW n \in Nat, n \in Placed PROVE n + 1 \in Placed
    <3> SUFFICES ASSUME i < n + 1, n + 1 <= MaxLength
                 PROVE  k \in 1 .. Len(items[n + 1]) /\ items[n + 1][k] = i
      OBVIOUS
    <3>1. items[n] \in Seq(Nat) /\ (n + 1) - 1 = n /\ n + 1 \in 1 .. MaxLength
      BY <2>2
    <3>2. items[n + 1] = IF typ[n] = typ[i] THEN Append(items[n], n) ELSE items[n]
      BY <2>2, <3>1
    <3>3. CASE n = i
      <4>1. items[n + 1] = Append(items[i], i) /\ items[i] \in Seq(Nat)
        BY <3>1, <3>2, <3>3
      <4> QED BY <2>3, <4>1
    <3>4. CASE n # i
      <4>1. k \in 1 .. Len(items[n]) /\ items[n][k] = i
        BY <1>1, <2>5, <3>4
      <4> QED BY <3>1, <3>2, <4>1
    <3> QED BY <3>3, <3>4
  <2> HIDE DEF Placed
  <2>6. length \in Placed
    BY <2>4, <2>5, Induction
  <2>7. k \in 1 .. Len(items[length]) /\ items[length][k] = i /\ items[length] \in Seq(Nat)
    BY <1>1, <2>2, <2>6 DEF Placed
  <2>8. ResultIndex(i) + 1 = k /\ Parents(typ[i]) = items[length]
    BY <1>2, <2>1, <2>3 DEF ResultIndex, Parents
  <2> QED BY <2>7, <2>8
<1>3. CASE kind # "mixed"
  BY <1>1, <1>3 DEF ResultIndex, Parents
<1> QED BY <1>2, <1>3

\* The field of one element at a time resolves for a group, which has its reply once it has been
\* done: nobody reads it earlier, and nobody changes it later.
GroupResolvedOnce ==
  kind # "values" =>
    /\ \A i \in Index : /\ bpc[i] = "resolving" => once[typ[i]] = "running"
                        /\ bpc[i] \in {"read", "ended"} => once[typ[i]] = "done"
    /\ \A i, j \in Index :
         bpc[i] = "resolving" /\ bpc[j] = "resolving" /\ typ[i] = typ[j] => i = j
    /\ \A t \in Type : once[t] # "done" => reply[t] = NoReply

ReplyInv == DOMAIN reply = Type /\ GroupResolvedOnce /\ OwnResult

LEMMA ReplyInvInit == BatchInit => ReplyInv
BY DEF BatchInit, ReplyInv, GroupResolvedOnce, OwnResult, Ended, Elements

LEMMA ReplyInvStep == SliceInv /\ BatchInv /\ ReplyInv /\ [BatchNext]_vars => ReplyInv'
<1> SUFFICES ASSUME SliceInv, BatchInv, ReplyInv, [BatchNext]_vars PROVE ReplyInv'
  OBVIOUS
<1>1. length \in 0 .. MaxLength /\ typ \in [Index -> Type] /\ NoReply.results # "right"
  BY DEF SliceInv, TypeOK, BatchInv, Functions, NoReply
<1>2. UNCHANGED <<length, kind, typ>> /\ UNCHANGED Elements
  <2>1. UNCHANGED length
    BY BatchStepIsSliceStep DEF Next, CallerStep, StartOnly, Start, AcquireFails, LoopEnds, Return,
       ElementEnds, ElementPanics, Unrecovered, ContextDone, sliceVars
  <2>2. UNCHANGED <<kind, typ>>
    BY DEF BatchNext, FieldStep, Ask, First, ResolverReturns, ResolverPanics, Follow, TakeResult,
       ResolveAlone, ElementStep, batchVars, vars
  <2> QED BY <2>1, <2>2 DEF Elements
<1> USE <1>2 DEF ReplyInv, GroupResolvedOnce, OwnResult, BatchInv, Functions, Ended
<1>3. CASE UNCHANGED batchVars
  BY <1>3 DEF batchVars
<1>4. ASSUME NEW i \in Index, Ask(i) PROVE ReplyInv'
  <2>1. /\ bpc[i] = "idle" /\ UNCHANGED <<once, reply, out>>
        /\ \/ kind = "values" /\ bpc' = [bpc EXCEPT ![i] = "resolving"]
           \/ kind # "values" /\ bpc' = [bpc EXCEPT ![i] = "once"]
    BY <1>4 DEF Ask
  <2>2. GroupResolvedOnce'
    BY <2>1
  <2>3. \A j \in Elements : j \in Index /\ (Ended(j)' => Ended(j))
    BY <2>1 DEF Elements
  <2>4. OwnResult'
    BY <2>1, <2>3
  <2> QED BY <2>1, <2>2, <2>4
<1>5. ASSUME NEW i \in Index, First(i) PROVE ReplyInv'
  BY <1>5 DEF First
<1>6. ASSUME NEW i \in Index, ResolverReturns(i) PROVE ReplyInv'
  <2>1. /\ bpc[i] = "resolving" /\ kind # "values"
        /\ \E r : reply' = [reply EXCEPT ![typ[i]] = r]
        /\ once' = [once EXCEPT ![typ[i]] = "done"]
        /\ bpc' = [bpc EXCEPT ![i] = "read"]
        /\ UNCHANGED <<out, errAt>>
    BY <1>6 DEF ResolverReturns
  <2>2. DOMAIN reply' = Type /\ GroupResolvedOnce'
    BY <2>1
  <2>3. ASSUME NEW j \in Elements, Ended(j)' PROVE Ended(j) /\ reply'[typ[j]] = reply[typ[j]]
    <3>1. j \in Index /\ bpc[j] = "ended" /\ once[typ[i]] = "running"
      BY <2>1, <2>3 DEF Elements
    <3>2. typ[j] # typ[i]
      BY <2>1, <3>1
    <3> QED BY <2>1, <3>1, <3>2
  <2>4. OwnResult'
    BY <2>1, <2>3
  <2> QED BY <2>2, <2>4
<1>7. ASSUME NEW i \in Index, ResolverPanics(i) PROVE ReplyInv'
  <2>1. CASE UNCHANGED batchVars
    BY <1>3, <2>1
  <2>2. CASE ~UNCHANGED batchVars
    <3>1. /\ bpc[i] = "resolving"
          /\ once' = IF kind = "values" THEN once ELSE [once EXCEPT ![typ[i]] = "done"]
          /\ bpc' = [bpc EXCEPT ![i] = "ended"]
          /\ UNCHANGED <<reply, out>>
      BY <1>7, <2>2 DEF ResolverPanics
    <3>2. DOMAIN reply' = Type /\ GroupResolvedOnce'
      BY <3>1
    <3>3. out[i] = {}
      BY <3>1 DEF NothingBeforeEnd
    <3>4. kind # "values" => reply[typ[i]].results # "right"
      BY <1>1, <3>1
    <3>5. \A j \in Elements : j \in Index /\ (j # i => bpc'[j] = bpc[j])
      BY <3>1 DEF Elements
    <3>6. OwnResult'
      BY <3>1, <3>3, <3>4, <3>5
    <3> QED BY <3>2, <3>6
  <2> QED BY <2>1, <2>2
<1>8. ASSUME NEW i \in Index, Follow(i) PROVE ReplyInv'
  BY <1>8 DEF Follow
<1>9. ASSUME NEW i \in Index, TakeResult(i) PROVE ReplyInv'
  <2>1. i \in Elements
    BY <1>9 DEF TakeResult, Alive, SliceInv, TypeOK, StartedInOrder, Elements, Index
  <2>2. ResultIndex(i) + 1 \in DOMAIN Parents(typ[i]) /\ Parents(typ[i])[ResultIndex(i) + 1] = i
    BY <1>1, <2>1, OwnPlace
  <2> DEFINE succeeds == /\ reply[typ[i]].results = "right"
                         /\ reply[typ[i]].err \in {"none", "list"}
                         /\ i \notin reply[typ[i]].bad
  <2>3. /\ bpc[i] = "read"
        /\ bpc' = [bpc EXCEPT ![i] = "ended"]
        /\ UNCHANGED <<once, reply>>
        /\ IF succeeds THEN out' = [out EXCEPT ![i] = {i}] ELSE UNCHANGED out
    BY <1>9, <2>2 DEF TakeResult
  <2>4. DOMAIN reply' = Type /\ GroupResolvedOnce'
    BY <2>3
  <2>5. out[i] = {} /\ \A j \in Elements : j \in Index /\ (j # i => bpc'[j] = bpc[j])
    BY <2>3 DEF NothingBeforeEnd, Elements
  <2>6. out'[i] = IF succeeds THEN {i} ELSE {}
    <3> HIDE DEF succeeds
    <3>1. CASE succeeds
      BY <2>3, <3>1
    <3>2. CASE ~succeeds
      BY <2>3, <2>5, <3>2
    <3> QED BY <3>1, <3>2
  <2>7. \A j \in Elements : j # i => out'[j] = out[j]
    <3>1. out' = [out EXCEPT ![i] = {i}] \/ out' = out
      BY <2>3
    <3> QED BY <2>5, <3>1
  <2>8. OwnResult'
    BY <2>3, <2>5, <2>6, <2>7
  <2> QED BY <2>4, <2>8
<1>10. ASSUME NEW i \in Index, ResolveAlone(i) PROVE ReplyInv'
  <2>1. /\ bpc[i] = "resolving" /\ kind = "values"
        /\ bpc' = [bpc EXCEPT ![i] = "ended"]
        /\ UNCHANGED <<once, reply>>
        /\ out' = [out EXCEPT ![i] = {i}] \/ UNCHANGED out
    BY <1>10 DEF ResolveAlone
  <2>2. out[i] = {} /\ \A j \in Elements : j \in Index /\ (j # i => bpc'[j] = bpc[j])
    BY <2>1 DEF NothingBeforeEnd, Elements
  <2>3. out'[i] \subseteq {i} /\ \A j \in Elements : j # i => out'[j] = out[j]
    BY <2>1, <2>2
  <2>4. OwnResult'
    BY <2>1, <2>2, <2>3
  <2> QED BY <2>1, <2>4
<1> QED BY <1>3, <1>4, <1>5, <1>6, <1>7, <1>8, <1>9, <1>10
        DEF BatchNext, FieldStep, ElementStep, vars

\* Every element gets the result that was computed for it, by the place that the loop has noted in
\* the index map, and gets it although other parents of its batch have failed.
THEOREM ResultsOwn == BatchSpec => []OwnResult
<1>1. BatchSpec => [](SliceInv /\ BatchInv)
  BY BatchImplementsSlice, SliceInvariant, BatchInvariant, PTL
<1>2. ReplyInv => OwnResult
  BY DEF ReplyInv
<1> QED BY <1>1, <1>2, ReplyInvInit, ReplyInvStep, PTL DEF BatchSpec


(***************************************************************************)
(* EntityResolution.  First, that the group in multi mode has the          *)
(* representations of its type, and no others.                             *)
(***************************************************************************)
LEMMA GroupSolved ==
  ASSUME NEW rs \in Seq(Representation)
  PROVE  \E group : /\ group \in [0 .. Len(rs) -> Seq(Nat)] /\ group[0] = <<>>
                    /\ \A i \in 1 .. Len(rs) :
                         group[i] = IF rs[i].kind = "multi" THEN Append(group[i - 1], i) ELSE group[i - 1]
                    /\ GroupOf(rs) = group[Len(rs)]
<1> DEFINE n == Len(rs)
           step == [i \in 1 .. n |-> [s \in Seq(Nat) |-> IF rs[i].kind = "multi" THEN Append(s, i) ELSE s]]
           E(f) == [i \in 0 .. n |->
                     IF i = 0 THEN <<>> ELSE IF rs[i].kind = "multi" THEN Append(f[i - 1], i) ELSE f[i - 1]]
           group == CHOOSE f : f = E(f)
<1>1. n \in Nat /\ <<>> \in Seq(Nat) /\ step \in [1 .. n -> [Seq(Nat) -> Seq(Nat)]]
  OBVIOUS
<1>2. PICK f : Solves(f, Seq(Nat), <<>>, step, n)
  <2> HIDE DEF step, n
  <2> QED BY <1>1, Solvable
<1>3. f \in [0 .. n -> Seq(Nat)] /\ f[0] = <<>> /\ \A i \in 1 .. n : f[i] = step[i][f[i - 1]]
  <2> HIDE DEF step, n
  <2> QED BY <1>2 DEF Solves
<1>4. ASSUME NEW i \in 1 .. n
      PROVE  f[i] = IF rs[i].kind = "multi" THEN Append(f[i - 1], i) ELSE f[i - 1]
  <2>1. f[i - 1] \in Seq(Nat)
    <3>1. n \in Nat /\ f \in [0 .. n -> Seq(Nat)]
      BY <1>1, <1>3
    <3> HIDE DEF n, step, E, group
    <3> QED BY <3>1
  <2> QED BY <1>3, <2>1
<1>5. f = E(f)
  <2>1. ASSUME NEW i \in 0 .. n
        PROVE  f[i] = IF i = 0 THEN <<>>
                      ELSE IF rs[i].kind = "multi" THEN Append(f[i - 1], i) ELSE f[i - 1]
    <3> HIDE DEF step, E, group
    <3>1. i # 0 => i \in 1 .. n
      BY <1>1
    <3> QED BY <1>3, <1>4, <3>1
  <2> HIDE DEF step, group, n
  <2> QED BY <1>3, <2>1
<1>6. group = E(group)
  <2> HIDE DEF E
  <2> QED BY <1>5
<1>7. GroupOf(rs) = group[n]
  BY DEF GroupOf
<1> HIDE DEF group, step, n
<1>8. /\ group[0] = <<>> /\ group = [i \in 0 .. n |-> group[i]]
      /\ \A i \in 1 .. n :
           group[i] = IF rs[i].kind = "multi" THEN Append(group[i - 1], i) ELSE group[i - 1]
  <2>1. 0 \in 0 .. n /\ \A i \in 1 .. n : i \in 0 .. n /\ i # 0
    BY <1>1
  <2> QED BY <1>6, <2>1
<1>9. \A i \in 0 .. n : group[i] = f[i]
  <2> HIDE DEF E
  <2>1. group[0] = f[0] /\ \A i \in 1 .. n : group[i - 1] = f[i - 1] => group[i] = f[i]
    BY <1>3, <1>4, <1>8
  <2>2. group[0] = f[0]
    BY <2>1
  <2>3. \A i \in 1 .. n : group[i - 1] = f[i - 1] => group[i] = f[i]
    BY <2>1
  <2>4. n \in Nat
    BY <1>1
  <2> QED BY <2>2, <2>3, <2>4, Agree, ZenonT(40)
<1>10. group \in [0 .. n -> Seq(Nat)]
  BY <1>3, <1>8, <1>9
<1> QED BY <1>7, <1>8, <1>10 DEF n

LEMMA GroupMembers ==
  ASSUME NEW rs \in Seq(Representation)
  PROVE  /\ GroupOf(rs) \in Seq(Nat)
         /\ \A j \in DOMAIN GroupOf(rs) :
              GroupOf(rs)[j] \in DOMAIN rs /\ rs[GroupOf(rs)[j]].kind = "multi"
         /\ \A i \in DOMAIN rs : rs[i].kind = "multi" =>
              \E j \in DOMAIN GroupOf(rs) : GroupOf(rs)[j] = i
<1>1. PICK group : /\ group \in [0 .. Len(rs) -> Seq(Nat)] /\ group[0] = <<>>
                   /\ \A i \in 1 .. Len(rs) :
                        group[i] = IF rs[i].kind = "multi" THEN Append(group[i - 1], i) ELSE group[i - 1]
                   /\ GroupOf(rs) = group[Len(rs)]
  BY GroupSolved
<1>2. PICK n \in Nat : n = Len(rs) /\ DOMAIN rs = 1 .. n
  OBVIOUS
<1> DEFINE Members(i) == {group[i][j] : j \in 1 .. Len(group[i])}
           Good == {i \in Nat : i <= n => Members(i) = {k \in 1 .. i : rs[k].kind = "multi"}}
<1>3. 0 \in Good
  BY <1>1
<1>4. ASSUME NEW i \in Nat, i \in Good PROVE i + 1 \in Good
  <2> SUFFICES ASSUME i + 1 <= n PROVE Members(i + 1) = {k \in 1 .. i + 1 : rs[k].kind = "multi"}
    OBVIOUS
  <2>1. Members(i) = {k \in 1 .. i : rs[k].kind = "multi"}
    BY <1>4
  <2>2. i + 1 \in 1 .. n /\ (i + 1) - 1 = i /\ group[i] \in Seq(Nat)
    BY <1>1, <1>2
  <2>3. group[i + 1] = IF rs[i + 1].kind = "multi" THEN Append(group[i], i + 1) ELSE group[i]
    BY <1>1, <1>2, <2>2
  <2>4. {k \in 1 .. i + 1 : rs[k].kind = "multi"}
          = {k \in 1 .. i : rs[k].kind = "multi"} \cup {k \in {i + 1} : rs[k].kind = "multi"}
    OBVIOUS
  <2>5. CASE rs[i + 1].kind = "multi"
    <3>1. Members(i + 1) = Members(i) \cup {i + 1}
      <4>1. PICK t \in Seq(Nat) : t = group[i]
        BY <2>2
      <4>2. group[i + 1] = Append(t, i + 1)
        BY <2>3, <2>5, <4>1
      <4>3. {Append(t, i + 1)[j] : j \in 1 .. Len(Append(t, i + 1))} = {t[j] : j \in 1 .. Len(t)} \cup {i + 1}
        OBVIOUS
      <4> QED BY <4>1, <4>2, <4>3
    <3> QED BY <2>1, <2>4, <2>5, <3>1
  <2>6. CASE rs[i + 1].kind # "multi"
    BY <2>1, <2>3, <2>4, <2>6
  <2> QED BY <2>5, <2>6
<1> HIDE DEF Good
<1>5. n \in Good
  BY <1>3, <1>4, Induction
<1>6. group[n] \in Seq(Nat) /\ GroupOf(rs) = group[n] /\ DOMAIN GroupOf(rs) = 1 .. Len(group[n])
  BY <1>1, <1>2
<1>7. {GroupOf(rs)[j] : j \in DOMAIN GroupOf(rs)} = {k \in DOMAIN rs : rs[k].kind = "multi"}
  BY <1>2, <1>5, <1>6 DEF Good
<1> QED BY <1>6, <1>7

(***************************************************************************)
(* EntityResolution: the invariant.                                        *)
(***************************************************************************)
Quiet == gpc \in {"none", "done"} /\ \A i \in RepIndex : rpc[i] \in {"none", "done"}

\* A representation of a type in multi mode has no goroutine of its own.
Alone == \A i \in RepIndex : rpc[i] # "none" => reps[i].kind # "multi"

NotStarted == gpc = "none" /\ \A i \in RepIndex : rpc[i] = "none"

EntTypes ==
  /\ reps \in Seq(Representation)
  /\ list \in [RepIndex -> Nat] /\ rpc \in [RepIndex -> {"none", "resolve", "done"}]
  /\ gpc \in {"none", "resolve", "store", "done"}
  /\ answer \in Seq(BOOLEAN) /\ pos \in 1 .. Len(answer) + 1
  /\ pc \in {"group", "wait", "returned"}

\* What a representation without an entity is owed, while its goroutine or its group is at work.
Explained ==
  pc # "group" =>
    \A i \in RepIndex : list[i] = None =>
      CASE reps[i].kind \in {"single", "unknown"} -> rpc[i] = "resolve" \/ i \in failed
        [] reps[i].kind = "noType"                -> i \in failed
        [] OTHER                                  -> TRUE

\* The places in the answer that the loop has passed have been stored, but for that of the turn in
\* which the group has failed.  The loop has had a resolver to ask.
GroupStored ==
  /\ \A j \in DOMAIN answer : j < pos /\ j <= Len(Multi) =>
       list[Multi[j]] # None \/ (0 \in failed /\ j + 1 = pos)
  /\ 0 \in failed => gpc = "done"
  /\ gpc = "done" => 0 \in failed \/ pos > Len(answer)
  /\ gpc \in {"none", "resolve"} => answer = <<>> /\ pos = 1
  /\ gpc = "store" => HasResolver(reps[Multi[1]])

EntInv ==
  /\ EntTypes
  /\ OwnEntity
  /\ Alone
  /\ Explained
  /\ GroupStored
  /\ pc = "group" => NotStarted
  /\ pc = "returned" => Quiet

LEMMA RepsFunction ==
  ASSUME NEW n \in Nat, NEW r \in [1 .. n -> Representation]
  PROVE  r \in Seq(Representation)
OBVIOUS

LEMMA EntInitInv == EntInit => EntInv
<1> SUFFICES ASSUME EntInit PROVE EntInv
  OBVIOUS
<1>1. reps \in Seq(Representation)
  BY RepsFunction DEF EntInit
<1>2. EntTypes
  BY <1>1 DEF EntInit, EntTypes, None, RepIndex
<1>3. OwnEntity /\ Alone /\ Explained /\ GroupStored /\ NotStarted /\ pc = "group"
  BY DEF EntInit, OwnEntity, Alone, Explained, GroupStored, NotStarted
<1> QED
  BY <1>2, <1>3 DEF EntInv

\* The values that stand for no entity are not the number of a representation's own.
LEMMA EntityNumbers ==
  /\ NilEntity \in Nat \ {0} /\ MadeUp \in Nat \ {0} /\ None = 0
  /\ EntTypes => RepIndex \subseteq Nat \ {0}
BY RepsAssumption DEF EntTypes, RepIndex, NilEntity, MadeUp, None

\* The members of the group.
LEMMA MultiMembers ==
  ASSUME EntTypes
  PROVE  /\ Multi \in Seq(Nat)
         /\ \A j \in DOMAIN Multi : Multi[j] \in RepIndex /\ reps[Multi[j]].kind = "multi"
         /\ \A i \in RepIndex : reps[i].kind = "multi" => \E j \in DOMAIN Multi : Multi[j] = i
BY GroupMembers DEF EntTypes, Multi, RepIndex

\* What may be stored for a representation: its own entity, a nil one, or one for a made-up key.
Admissible(i, e) ==
  \/ e \in {None, NilEntity, i}
  \/ /\ e = MadeUp
     /\ \E k \in Resolver : reps[i].keys[k] # "whole" /\ reps[Deciding(i)].keys[k] # "lacking"

LEMMA AskedAdmissible ==
  ASSUME NEW i, HasResolver(reps[Deciding(i)])
  PROVE  Admissible(i, Asked(i, ResolverName(reps[Deciding(i)])))
<1>1. PICK r : r = reps[Deciding(i)]
  OBVIOUS
<1>2. Accepted(r) \subseteq Nat /\ Accepted(r) # {}
  BY <1>1, ResolverAssumption DEF Accepted, HasResolver
<1>3. PICK k : k = ResolverName(r)
  OBVIOUS
<1>4. k \in Resolver /\ r.keys[k] # "lacking"
  <2>1. k \in Accepted(r)
    BY <1>2, <1>3, Smallest DEF ResolverName
  <2> QED BY <2>1 DEF Accepted
<1> QED BY <1>1, <1>3, <1>4 DEF Admissible, Asked

LEMMA BuildInv == EntInv /\ BuildRepresentationGroups => EntInv'
<1> SUFFICES ASSUME EntInv, BuildRepresentationGroups PROVE EntInv'
  OBVIOUS
<1> USE DEF BuildRepresentationGroups
<1>1. EntTypes'
  BY DEF EntInv, EntTypes, RepIndex
<1>2. UNCHANGED <<RepIndex, Multi, NilEntity, MadeUp>>
  BY DEF RepIndex, Multi, NilEntity, MadeUp
<1>3. OwnEntity'
  BY <1>2 DEF EntInv, OwnEntity, Deciding
<1>4. \A i \in RepIndex : reps[i] \in Representation
  BY DEF EntInv, EntTypes, RepIndex
<1>5. Explained' /\ Alone'
  BY <1>4 DEF Explained, Alone, Representation, RepIndex
<1>6. 0 \notin failed'
  BY EntityNumbers DEF EntInv
<1>7. GroupStored'
  BY <1>2, <1>6 DEF EntInv, GroupStored, NotStarted
<1> QED
  BY <1>1, <1>3, <1>5, <1>7 DEF EntInv

LEMMA ResolveInv ==
  ASSUME EntInv, NEW i \in RepIndex, ResolveEntity(i)
  PROVE  EntInv'
<1> USE DEF ResolveEntity
<1>1. \/ /\ HasResolver(reps[i]) /\ UNCHANGED failed
         /\ \E e \in {Asked(i, ResolverName(reps[i])), NilEntity} : list' = [list EXCEPT ![i] = e]
      \/ UNCHANGED list /\ failed' = failed \cup {i}
  BY DEF Found, Fails
<1>2. i \in Nat \ {0} /\ NilEntity \in Nat \ {0} /\ MadeUp \in Nat \ {0} /\ None = 0
  BY EntityNumbers DEF EntInv
<1>3. UNCHANGED <<RepIndex, Multi, NilEntity, MadeUp>>
  BY DEF RepIndex, Multi, NilEntity, MadeUp
<1>4. reps[i].kind # "multi" /\ reps[i] \in Representation /\ pc = "wait"
  <2>1. rpc[i] = "resolve" /\ reps[i].kind # "multi"
    BY DEF EntInv, Alone
  <2>2. reps[i] \in Representation
    <3>1. reps \in Seq(Representation) /\ i \in DOMAIN reps
      BY DEF EntInv, EntTypes, RepIndex
    <3> HIDE DEF ResolveEntity
    <3> QED BY <3>1
  <2>3. pc = "wait"
    BY <2>1 DEF EntInv, EntTypes, Quiet, NotStarted
  <2> QED BY <2>1, <2>2, <2>3
<1>5. \A e : e = Asked(i, ResolverName(reps[i])) /\ HasResolver(reps[i]) =>
        Admissible(i, e) /\ e \in Nat \ {0}
  <2>1. Deciding(i) = i
    BY <1>4 DEF Deciding
  <2> QED BY <1>2, <2>1, AskedAdmissible DEF Asked
<1>6. /\ failed \subseteq failed' /\ failed' \subseteq failed \cup {i}
      /\ i \in failed' \/ list'[i] # None
      /\ list' \in [RepIndex -> Nat]
      /\ \A k \in RepIndex : list'[k] = list[k] \/ (k = i /\ list'[k] # None /\ Admissible(k, list'[k]))
  BY <1>1, <1>2, <1>5 DEF EntInv, EntTypes, Admissible
<1>7. EntTypes' /\ Alone'
  BY <1>3, <1>4, <1>6 DEF EntInv, EntTypes, Alone
<1>8. OwnEntity'
  BY <1>3, <1>6 DEF EntInv, OwnEntity, Admissible, Deciding
<1>9. \A k \in RepIndex : k # i => rpc'[k] = rpc[k]
  BY DEF EntInv, EntTypes
<1>10. Explained'
  BY <1>3, <1>6, <1>9 DEF EntInv, Explained
<1>11. GroupStored'
  <2>1. \A j \in DOMAIN Multi : list[Multi[j]] # None => list'[Multi[j]] # None
    BY <1>6, MultiMembers DEF EntInv
  <2>2. 0 \in failed' => 0 \in failed
    BY <1>2, <1>6
  <2> QED BY <1>3, <1>6, <2>1, <2>2, MultiMembers DEF EntInv, GroupStored, EntTypes
<1> QED
  BY <1>4, <1>7, <1>8, <1>10, <1>11 DEF EntInv

LEMMA GroupStepInv == EntInv /\ GroupStep => EntInv'
<1> SUFFICES ASSUME EntInv, GroupStep PROVE EntInv'
  OBVIOUS
<1>1. UNCHANGED <<reps, rpc, pc>> /\ UNCHANGED <<RepIndex, Multi, NilEntity, MadeUp>>
  BY DEF GroupStep, ResolveManyEntities, StoreEntity, AllStored, RepIndex, Multi, NilEntity, MadeUp
<1>2. gpc \in {"resolve", "store"} /\ pc = "wait" /\ 0 \notin failed
  BY DEF EntInv, EntTypes, NotStarted, Quiet, GroupStored, GroupStep, ResolveManyEntities, StoreEntity,
         AllStored
<1>3. failed \subseteq failed' /\ Alone'
  BY <1>1 DEF EntInv, Alone, GroupStep, ResolveManyEntities, StoreEntity, AllStored, GroupFails
<1>4. CASE ResolveManyEntities
  <2>1. UNCHANGED <<list, pos>>
    BY <1>4 DEF ResolveManyEntities
  <2>2. \/ 0 \in failed' /\ gpc' = "done" /\ UNCHANGED answer
        \/ /\ answer' \in Seq(BOOLEAN) /\ gpc' = "store" /\ UNCHANGED failed
           /\ HasResolver(reps[Multi[1]])
    BY <1>4 DEF ResolveManyEntities, GroupFails, Answers
  <2>3. pos = 1
    BY <1>4 DEF EntInv, GroupStored, ResolveManyEntities
  <2>4. EntTypes'
    <3>1. answer' \in Seq(BOOLEAN) /\ gpc' \in {"none", "resolve", "store", "done"}
      BY <2>2 DEF EntInv, EntTypes
    <3>2. pos' \in 1 .. Len(answer') + 1
      BY <2>1, <2>3, <3>1
    <3> QED BY <1>1, <2>1, <3>1, <3>2 DEF EntInv, EntTypes
  <2>5. OwnEntity' /\ Explained'
    BY <1>1, <1>3, <2>1 DEF EntInv, OwnEntity, Explained, Deciding
  <2>6. GroupStored'
    BY <1>1, <1>2, <2>1, <2>2, <2>3 DEF GroupStored, EntInv, EntTypes
  <2> QED
    BY <1>1, <1>2, <1>3, <2>4, <2>5, <2>6 DEF EntInv
<1>5. CASE StoreEntity
  <2>1. UNCHANGED answer /\ pos' = pos + 1 /\ gpc = "store" /\ pos <= Len(answer)
    BY <1>5 DEF StoreEntity
  <2>2. \/ /\ pos <= Len(Multi) /\ UNCHANGED <<failed, gpc>>
           /\ \E e \in {Entity(pos), NilEntity} : list' = [list EXCEPT ![Multi[pos]] = e]
        \/ 0 \in failed' /\ gpc' = "done" /\ UNCHANGED list
    BY <1>5 DEF StoreEntity, GroupFails, GroupIndex
  <2>3. NilEntity \in Nat \ {0} /\ MadeUp \in Nat \ {0} /\ None = 0 /\ RepIndex \subseteq Nat \ {0}
    BY EntityNumbers DEF EntInv
  <2>4. pos \in Nat \ {0} /\ Multi \in Seq(Nat)
    BY MultiMembers DEF EntInv, EntTypes
  <2>5. ASSUME pos <= Len(Multi)
        PROVE  /\ Multi[pos] \in RepIndex
               /\ Admissible(Multi[pos], Entity(pos)) /\ Entity(pos) \in Nat \ {0}
    <3>1. Multi[pos] \in RepIndex /\ reps[Multi[pos]].kind = "multi"
      BY <2>4, <2>5, MultiMembers DEF EntInv
    <3>2. Deciding(Multi[pos]) = Multi[1] /\ HasResolver(reps[Multi[1]])
      BY <2>1, <3>1 DEF EntInv, GroupStored, Deciding
    <3> QED BY <2>3, <3>1, <3>2, AskedAdmissible DEF Entity, Asked
  <2>6. /\ list' \in [RepIndex -> Nat]
        /\ \A k \in RepIndex : \/ list'[k] = list[k]
                               \/ k = Multi[pos] /\ list'[k] # None /\ Admissible(k, list'[k])
    BY <2>2, <2>3, <2>5 DEF EntInv, EntTypes, Admissible
  <2>7. EntTypes'
    BY <1>1, <2>1, <2>2, <2>4, <2>6 DEF EntInv, EntTypes
  <2>8. OwnEntity'
    BY <1>1, <2>6 DEF EntInv, OwnEntity, Admissible, Deciding
  <2>9. Explained'
    BY <1>1, <1>3, <2>6 DEF EntInv, Explained
  <2>10. ASSUME NEW j \in DOMAIN answer, j < pos', j <= Len(Multi)
         PROVE  list'[Multi[j]] # None \/ (0 \in failed' /\ j + 1 = pos')
    <3>1. j \in Nat \ {0} /\ Multi[j] \in RepIndex
      BY <2>4, <2>10, MultiMembers DEF EntInv, EntTypes
    <3>2. CASE j < pos
      BY <1>2, <2>6, <2>10, <3>1, <3>2 DEF EntInv, GroupStored
    <3>3. CASE j = pos
      BY <2>1, <2>2, <2>3, <2>5, <2>10, <3>1, <3>3 DEF EntInv, EntTypes
    <3> QED
      BY <2>1, <2>4, <2>10, <3>1, <3>2, <3>3
  <2>11. GroupStored'
    BY <1>1, <1>2, <2>1, <2>2, <2>10 DEF EntInv, GroupStored
  <2> QED
    BY <1>1, <1>2, <1>3, <2>7, <2>8, <2>9, <2>11 DEF EntInv
<1>6. CASE AllStored
  <2>1. UNCHANGED <<list, failed, answer, pos>> /\ gpc' = "done" /\ pos > Len(answer)
    BY <1>6 DEF AllStored
  <2>2. EntTypes'
    BY <1>1, <2>1 DEF EntInv, EntTypes
  <2>3. OwnEntity' /\ Explained' /\ GroupStored'
    BY <1>1, <2>1 DEF EntInv, OwnEntity, Explained, GroupStored, Deciding
  <2> QED
    BY <1>1, <1>2, <1>3, <2>2, <2>3 DEF EntInv
<1> QED
  BY <1>4, <1>5, <1>6 DEF GroupStep

LEMMA ReturnInv == EntInv /\ ReturnList => EntInv'
<1> SUFFICES ASSUME EntInv, ReturnList PROVE EntInv'
  OBVIOUS
<1>1. UNCHANGED <<reps, list, failed, rpc, gpc, answer, pos, RepIndex, Multi, NilEntity, MadeUp>>
  BY DEF ReturnList, RepIndex, Multi, NilEntity, MadeUp
<1>2. pc = "wait" /\ pc' = "returned" /\ Quiet'
  BY <1>1 DEF ReturnList, WaitedFor, Quiet
<1>3. EntTypes' /\ OwnEntity' /\ Alone' /\ Explained' /\ GroupStored'
  BY <1>1, <1>2 DEF EntInv, EntTypes, OwnEntity, Alone, Explained, GroupStored, Deciding
<1> QED
  BY <1>2, <1>3 DEF EntInv

LEMMA EntStutterInv == EntInv /\ UNCHANGED entvars => EntInv'
<1> SUFFICES ASSUME EntInv, UNCHANGED entvars PROVE EntInv'
  OBVIOUS
<1>1. UNCHANGED <<reps, list, failed, rpc, gpc, answer, pos, pc, RepIndex, Multi, NilEntity, MadeUp>>
  BY DEF entvars, RepIndex, Multi, NilEntity, MadeUp
<1> QED
  BY <1>1 DEF EntInv, EntTypes, OwnEntity, Alone, Explained, GroupStored, NotStarted, Quiet, Deciding

(***************************************************************************)
(* The invariant that the theorems rest on.                                *)
(***************************************************************************)
THEOREM EntInvariance == EntSpec => []EntInv
<1>1. EntInv /\ [EntNext]_entvars => EntInv'
  BY BuildInv, ResolveInv, GroupStepInv, ReturnInv, EntStutterInv DEF EntNext
<1> QED
  BY EntInitInv, <1>1, PTL DEF EntSpec

(***************************************************************************)
(* resolveEntity and resolveManyEntities: in every mix of types and modes  *)
(* the entity at the place of a representation is its own, a nil one, or   *)
(* one for a made-up key; the last only if it is not whole in some key     *)
(* that the representation that decides on the resolver is not lacking.    *)
(***************************************************************************)
THEOREM EntitiesOwn == EntSpec => []OwnEntity
<1>1. EntInv => OwnEntity
  BY DEF EntInv
<1> QED
  BY EntInvariance, <1>1, PTL

(***************************************************************************)
(* __resolve_entities: a hole in the list that is returned is explained by *)
(* an error of the representation, by one of its group before its entity   *)
(* has been stored, or by a resolver that has returned too few.            *)
(***************************************************************************)
THEOREM NoUnexplainedHole == EntSpec => []HolesExplained
<1>1. ASSUME EntInv PROVE HolesExplained
  <2> SUFFICES ASSUME pc = "returned", NEW i \in RepIndex, list[i] = None, i \notin failed
               PROVE  \E j \in DOMAIN Multi :
                        Multi[j] = i /\ IF 0 \in failed THEN j + 1 >= pos ELSE j > Len(answer)
    BY DEF HolesExplained
  <2>1. rpc[i] # "resolve" /\ gpc \in {"none", "done"}
    BY <1>1 DEF EntInv, Quiet
  <2>2. reps[i] \in Representation
    BY <1>1 DEF EntInv, EntTypes, RepIndex
  <2>3. reps[i].kind = "multi"
    BY <1>1, <2>1, <2>2 DEF EntInv, Explained, Representation
  <2>4. PICK j \in DOMAIN Multi : Multi[j] = i
    BY <1>1, <2>3, MultiMembers DEF EntInv
  <2>5. j \in Nat \ {0} /\ j <= Len(Multi) /\ pos \in Nat \ {0} /\ answer \in Seq(BOOLEAN)
    BY <1>1, <2>4, MultiMembers DEF EntInv, EntTypes
  <2>6. j \in DOMAIN answer /\ j < pos => 0 \in failed /\ j + 1 = pos
    BY <1>1, <2>4, <2>5 DEF EntInv, GroupStored
  <2>7. CASE 0 \in failed
    <3>1. pos <= Len(answer) + 1
      BY <1>1 DEF EntInv, EntTypes
    <3> QED BY <2>4, <2>5, <2>6, <2>7, <3>1
  <2>8. CASE 0 \notin failed
    <3>1. pos > Len(answer) \/ answer = <<>>
      BY <1>1, <2>1, <2>8 DEF EntInv, GroupStored
    <3> QED BY <2>4, <2>5, <2>6, <2>8, <3>1
  <2> QED BY <2>7, <2>8
<1> QED
  BY EntInvariance, <1>1, PTL

(***************************************************************************)
(* g.Wait(): when the list has been returned no goroutine stores into it   *)
(* or adds an error.                                                       *)
(***************************************************************************)
THEOREM QuietOnceReturned == EntSpec => QuietAfterReturn
<1>1. ASSUME EntInv, EntNext, pc = "returned" PROVE UNCHANGED <<list, failed>>
  <2>1. Quiet
    BY <1>1 DEF EntInv
  <2> QED
    BY <1>1, <2>1 DEF Quiet, EntNext, BuildRepresentationGroups, ResolveEntity, GroupStep,
                      ResolveManyEntities, StoreEntity, AllStored, ReturnList
<1>2. EntInv /\ [EntNext]_entvars => [pc = "returned" => UNCHANGED <<list, failed>>]_entvars
  BY <1>1
<1> QED
  BY EntInvariance, <1>2, PTL DEF EntSpec, QuietAfterReturn
=============================================================================
