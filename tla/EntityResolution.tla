-------------------------- MODULE EntityResolution --------------------------
(***************************************************************************)
(* The root field _entities of a federated server                          *)
(* (plugin/federation/federation.gotpl): the router sends representations, *)
(* the server groups them by type and resolves the groups at the same      *)
(* time.  A type in single mode has a goroutine per representation, one in *)
(* multi mode a single call of its resolver for the whole group.  They all *)
(* store into one list, at the index of the representation.                *)
(*                                                                         *)
(* There is one type of each mode, and one without a resolver.  A          *)
(* representation is what its type is and how much it has of the key       *)
(* fields of each of the type's resolvers: the whole, a part (each field   *)
(* is there, some but not all are null), or it is lacking (a field is not  *)
(* there, or all are null).                                                *)
(***************************************************************************)
EXTENDS Naturals, SequencesExt

CONSTANTS MaxReps, Resolver  \* bounds: representations, and resolvers of a type, in their order

ASSUME RepsAssumption == MaxReps \in Nat
ASSUME ResolverAssumption == Resolver \subseteq Nat

VARIABLES
  reps,   \* the representations
  list,   \* the entities found so far: that of a representation, of a made-up key, nil, or none
  failed, \* whose errors have been added to the response (0: those of the group)
  rpc,    \* where the goroutine of a representation stands
  gpc,    \* where the group in multi mode stands
  answer, \* what its resolver has returned: is the entity at a place there, or nil?
  pos,    \* the place in the answer that the loop has come to
  pc      \* where __resolve_entities stands

entvars == <<reps, list, failed, rpc, gpc, answer, pos, pc>>

Representation ==
  [kind : {"single", "multi"}, keys : [Resolver -> {"whole", "part", "lacking"}]]
    \cup [kind : {"unknown", "noType"}, keys : [Resolver -> {"lacking"}]]

RepIndex  == DOMAIN reps
None      == 0
NilEntity == MaxReps + 1
MadeUp    == MaxReps + 2

\* The loop of buildRepresentationGroups, for the type in multi mode.
GroupOf(rs) ==
  LET group[i \in 0 .. Len(rs)] ==
        IF i = 0 THEN <<>> ELSE IF rs[i].kind = "multi" THEN Append(group[i - 1], i) ELSE group[i - 1]
  IN group[Len(rs)]

Multi == GroupOf(reps)

\* entityResolverNameFor...: the first resolver whose key fields are all there and not all null.
Accepted(r)     == {k \in Resolver : r.keys[k] # "lacking"}
HasResolver(r)  == Accepted(r) # {}
ResolverName(r) == Min(Accepted(r))

\* Whose entity resolver k is asked for.  A field that is missing or null is unmarshalled from nil,
\* which IDs, strings and numbers accept: the key is made up of "null", "" and 0 then.
Asked(i, k) == IF reps[i].keys[k] = "whole" THEN i ELSE MadeUp

EntInit ==
  /\ reps \in UNION {[1 .. n -> Representation] : n \in 0 .. MaxReps}
  /\ list = [i \in RepIndex |-> None] /\ failed = {}
  /\ rpc = [i \in RepIndex |-> "none"] /\ gpc = "none"
  /\ answer = <<>> /\ pos = 1 /\ pc = "group"

BuildRepresentationGroups ==
  /\ pc = "group"
  /\ failed' = {i \in RepIndex : reps[i].kind = "noType"}
  /\ rpc' = [i \in RepIndex |->
               IF reps[i].kind \in {"single", "unknown"} THEN "resolve" ELSE "none"]
  /\ gpc' = IF Multi = <<>> THEN "none" ELSE "resolve"
  /\ pc' = "wait"
  /\ UNCHANGED <<reps, list, answer, pos>>
-----------------------------------------------------------------------------
(***************************************************************************)
(* resolveEntity, in a goroutine per representation.  A panic of the       *)
(* resolver is recovered and counts as its error, like a key that its      *)
(* unmarshaller refuses; a nil entity is stored.                           *)
(***************************************************************************)
Found(i) ==
  /\ HasResolver(reps[i])
  /\ \E e \in {Asked(i, ResolverName(reps[i])), NilEntity} : list' = [list EXCEPT ![i] = e]
  /\ UNCHANGED failed

\* Mutant: the error of a representation is not added.
MutErrorDropped(i) == UNCHANGED <<failed, list>>

Fails(i) == failed' = failed \cup {i} /\ UNCHANGED list

ResolveEntity(i) ==
  /\ rpc[i] = "resolve"
  /\ Found(i) \/ Fails(i)
  /\ rpc' = [rpc EXCEPT ![i] = "done"]
  /\ UNCHANGED <<reps, gpc, answer, pos, pc>>
-----------------------------------------------------------------------------
(***************************************************************************)
(* resolveManyEntities.  The first representation decides on the resolver; *)
(* one that lacks its keys is asked for with a made-up one, or fails the   *)
(* group when the unmarshaller refuses nil.  The resolver may return more  *)
(* entities than it was asked for, or fewer; entity j is the one it was    *)
(* asked for by representation j of the group, as the documentation        *)
(* demands of it (docs/content/recipes/federation.md).                     *)
(***************************************************************************)
GroupFails == failed' = failed \cup {0} /\ gpc' = "done"

Entity(j) == Asked(Multi[j], ResolverName(reps[Multi[1]]))

Answers == UNION {[1 .. n -> BOOLEAN] : n \in 0 .. Len(Multi) + 1}

ResolveManyEntities ==
  /\ gpc = "resolve"
  /\ \/ GroupFails /\ UNCHANGED answer
     \/ /\ HasResolver(reps[Multi[1]])
        /\ answer' \in Answers /\ gpc' = "store" /\ UNCHANGED failed
  /\ UNCHANGED <<reps, list, rpc, pos, pc>>

\* Mutant: the place in the group is taken for the place in the list.
MutGroupIndex(j) == j

GroupIndex(j) == Multi[j]

\* One turn of the loop.  The fields that the entity requires may fail, and an entity too many is an
\* index out of range; what has been stored stays.
StoreEntity ==
  /\ gpc = "store" /\ pos <= Len(answer)
  /\ \/ /\ pos <= Len(Multi)
        /\ list' = [list EXCEPT ![GroupIndex(pos)] = IF answer[pos] THEN Entity(pos) ELSE NilEntity]
        /\ UNCHANGED <<failed, gpc>>
     \/ GroupFails /\ UNCHANGED list
  /\ pos' = pos + 1
  /\ UNCHANGED <<reps, rpc, answer, pc>>

AllStored ==
  /\ gpc = "store" /\ pos > Len(answer)
  /\ gpc' = "done"
  /\ UNCHANGED <<reps, list, failed, rpc, answer, pos, pc>>

\* Mutant: the goroutines of the representations are not waited for.
MutGroupsOnly == gpc \in {"none", "done"}

WaitedFor == gpc \in {"none", "done"} /\ \A i \in RepIndex : rpc[i] \in {"none", "done"}

ReturnList ==
  /\ pc = "wait" /\ WaitedFor
  /\ pc' = "returned"
  /\ UNCHANGED <<reps, list, failed, rpc, gpc, answer, pos>>

GroupStep == ResolveManyEntities \/ StoreEntity \/ AllStored
EntNext   ==
  BuildRepresentationGroups \/ (\E i \in RepIndex : ResolveEntity(i)) \/ GroupStep \/ ReturnList
EntSpec   == EntInit /\ [][EntNext]_entvars
-----------------------------------------------------------------------------
\* The representation that decides on the resolver.
Deciding(i) == IF reps[i].kind = "multi" THEN Multi[1] ELSE i

(***************************************************************************)
(* At the place of a representation is its own entity, never another       *)
(* one's, whatever types are mixed and however the goroutines interleave;  *)
(* or a nil one, or one for a made-up key, but only if it is not whole in  *)
(* some key that the representation that decides is not lacking.  If every *)
(* one is whole in those keys, each entity is its representation's own.    *)
(***************************************************************************)
OwnEntity ==
  \A i \in RepIndex :
    \/ list[i] \in {None, NilEntity, i}
    \/ /\ list[i] = MadeUp
       /\ \E k \in Resolver : reps[i].keys[k] # "whole" /\ reps[Deciding(i)].keys[k] # "lacking"

(***************************************************************************)
(* The list that is returned has no unexplained hole: a representation     *)
(* without an entity has failed itself and its error is in the response;   *)
(* or its group has failed before its turn or in it, and that error is     *)
(* there; or the group's resolver has returned too few.  So a failure      *)
(* costs nobody in single mode but its own representation, and in multi    *)
(* mode nobody whose entity has been stored.                               *)
(***************************************************************************)
HolesExplained ==
  pc = "returned" =>
    \A i \in RepIndex : list[i] = None =>
      \/ i \in failed
      \/ \E j \in DOMAIN Multi : Multi[j] = i /\ IF 0 \in failed THEN j + 1 >= pos ELSE j > Len(answer)

(***************************************************************************)
(* Nobody stores into the list or adds an error once the list has been     *)
(* returned, when the elements are being marshalled.                       *)
(***************************************************************************)
QuietAfterReturn == [][pc = "returned" => UNCHANGED <<list, failed>>]_entvars
=============================================================================
