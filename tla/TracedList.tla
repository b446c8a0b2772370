----------------------------- MODULE TracedList -----------------------------
(***************************************************************************)
(* The objects of a list, marshalled at the same time under the extension  *)
(* that traces their fields.  Each object collects its fields              *)
(* (DispatchObject in graphql/dispatch.go, codegen/object.gotpl), which    *)
(* the objects of one type share in the cache of the operation             *)
(* (graphql/collect_fields_cache_store.go), then resolves them, each in a  *)
(* goroutine of its own.  The fields of a deferred group are started when  *)
(* the others are done, and the response does not wait for them.           *)
(*                                                                         *)
(* A slice of the Go program is told from an equal one by the object that  *)
(* has made it: the keys of the cache hold addresses.                      *)
(***************************************************************************)
EXTENDS TraceTree, Complexity

CONSTANTS
  List,       \* the path of the list's field
  Object,     \* the paths of the elements, and of the objects below them
  Type,       \* of an object
  Satisfies,  \* a type to what it satisfies
  Selection   \* of the list's field

VARIABLES
  cache,  \* opCtx.collectFieldsCache
  fields, \* the slice of fields that an object uses
  opc     \* where DispatchObject stands for an object

lvars == <<nodes, tree, walk, stopped, cache, fields, opc>>

NoSlice  == [by |-> <<>>, fields |-> <<>>]
Elements == {o \in Object : Len(o) = Len(List) + 1}

\* A field is the list's or one of an object, an object an element of the list or a field's value.
ASSUME ObjectAssumption ==
  /\ List \in Path /\ Object \subseteq Seq(STRING)
  /\ \A p \in Path : p = List \/ Front(p) \in Object
  /\ \A o \in Object :
       Len(o) > Len(List) /\ IF o \in Elements THEN Front(o) = List ELSE o \in Path

LInit ==
  /\ TInit
  /\ cache = [k \in {} |-> NoSlice]
  /\ fields = [o \in Object |-> NoSlice]
  /\ opc = [o \in Object |-> "idle"]

FieldOf(p) ==
  LET fs == fields[Front(p)].fields IN fs[CHOOSE i \in DOMAIN fs : fs[i].key = Last(p)]

\* The selections of an element are the document's, those of another object in a slice of collected
\* fields.
SelectionSet(o) == IF o \in Elements THEN Selection ELSE FieldOf(o).sels

Key(o) ==
  [of   |-> IF o \in Elements THEN <<<<>>, "">> ELSE <<fields[Front(o)].by, Last(o)>>,
   type |-> Type[o]]

\* The resolver of the field whose value the object is has returned.
Exists(o) == IF o \in Elements THEN Over(List) ELSE Over(o)

Uses(o, slice) ==
  /\ fields' = [fields EXCEPT ![o] = slice]
  /\ opc' = [opc EXCEPT ![o] = "dispatch"]

Get(o) ==
  /\ opc[o] = "idle" /\ Exists(o)
  /\ IF Key(o) \in DOMAIN cache THEN Uses(o, cache[Key(o)])
     ELSE opc' = [opc EXCEPT ![o] = "collect"] /\ UNCHANGED fields
  /\ UNCHANGED <<tvars, cache>>

\* Mutant: an object that has collected its fields uses its own slice.
MutOwnSlice(o, slice) ==
  /\ cache' = IF Key(o) \in DOMAIN cache THEN cache ELSE Added(cache, Key(o), slice)
  /\ Uses(o, slice)

\* Add: the first slice stays.
AddOrExisting(o, slice) ==
  /\ cache' = IF Key(o) \in DOMAIN cache THEN cache ELSE Added(cache, Key(o), slice)
  /\ Uses(o, cache'[Key(o)])

Collect(o) ==
  /\ opc[o] = "collect"
  /\ AddOrExisting(o, [by |-> o, fields |-> CollectFields(SelectionSet(o), Satisfies[Type[o]])])
  /\ UNCHANGED tvars

Selected(o)  == {Append(o, f.key) : f \in ToSet(fields[o].fields)}
Immediate(o) == {p \in Selected(o) : FieldOf(p).defer = ""}

ResolveField(p) ==
  /\ \/ p = List
     \/ /\ Front(p) \in Object
        /\ IF opc[Front(p)] = "dispatch" THEN p \in Immediate(Front(p))
           ELSE opc[Front(p)] = "done" /\ p \in Selected(Front(p))
  /\ WillResolveField(p)
  /\ UNCHANGED <<cache, fields, opc>>

\* out.Dispatch has returned; the deferred groups are processed.
Dispatched(o) ==
  /\ opc[o] = "dispatch"
  /\ \A p \in Immediate(o) : Over(p) /\ (p \in Object => opc[p] = "done")
  /\ opc' = [opc EXCEPT ![o] = "done"]
  /\ UNCHANGED <<tvars, cache, fields>>

InterceptResponse ==
  /\ Over(List) /\ \A o \in Elements : opc[o] = "done"
  /\ StopTimer
  /\ UNCHANGED <<cache, fields, opc>>

LNext ==
  \/ \E p \in Path :
       \/ ResolveField(p)
       \/ (EnsureParentNode(p) \/ InsertNode(p) \/ Resolved(p)) /\ UNCHANGED <<cache, fields, opc>>
  \/ \E o \in Object : Get(o) \/ Collect(o) \/ Dispatched(o)
  \/ InterceptResponse

LSpec == LInit /\ [][LNext]_lvars
-----------------------------------------------------------------------------
(***************************************************************************)
(* The objects of one type that come from one selection use one slice, the *)
(* cached one, also those that have collected their fields at the same     *)
(* time.  So a selection whose address is in a key of the cache is the     *)
(* document's or belongs to a slice the cache retains, and the address     *)
(* cannot come to mean another selection.                                  *)
(***************************************************************************)
OneSlice ==
  /\ \A o \in Object : opc[o] \in {"dispatch", "done"} =>
       Key(o) \in DOMAIN cache /\ fields[o] = cache[Key(o)]
  /\ \A k \in DOMAIN cache : k.of[1] # <<>> => \E l \in DOMAIN cache : cache[l].by = k.of[1]
-----------------------------------------------------------------------------
(***************************************************************************)
(* Two properties of pure operators.  They do not depend on the state, so  *)
(* they are stated of the one in which no field has been resolved yet,     *)
(* which is when the code computes the cost and first collects fields.     *)
(***************************************************************************)

(***************************************************************************)
(* The fields collected for a type are those that the selections ask for   *)
(* of it, whatever the fragments, with all their selections, in the order  *)
(* of the response, also for empty satisfies.  A key is collected twice    *)
(* only for two types of which neither implements the other, like two      *)
(* interfaces of the object, or a union and its member.                    *)
(***************************************************************************)
CollectedRight ==
  walk[List].at = "idle" =>
    \A sels \in SelectionSets :
      Right(sels, {}) /\ \A type \in DOMAIN Satisfies : Right(sels, Satisfies[type])

(***************************************************************************)
(* Nothing that safeAdd sums up overflows, wherever in the operation the   *)
(* sum leaves the range of int, and whatever the users' functions return   *)
(* for a cost that has been cut off: the cost is that of wider ints, cut   *)
(* off at the largest.  (A user's own product may overflow before.)        *)
(***************************************************************************)
CostSaturates ==
  walk[List].at = "idle" =>
    \A sels \in SelectionSets : \A opts \in Options : Saturates(sels, opts)
=============================================================================
