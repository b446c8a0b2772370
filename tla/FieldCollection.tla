-------------------------- MODULE FieldCollection --------------------------
(***************************************************************************)
(* The fields to resolve on an object (CollectFields in                    *)
(* graphql/executable_schema.go), for a validated document.                *)
(*                                                                         *)
(* An item of a selection set is a field (key, its name and alias; def,    *)
(* the type it is selected on; its arguments; its own selections), an      *)
(* inline fragment, or the spread of a named one; "on" is what @skip and   *)
(* @include say, and "defer" the label of a fragment with @defer (""       *)
(* without, or with if: false).                                            *)
(***************************************************************************)
EXTENDS Integers, SequencesExt

CONSTANTS
  SelectionSets, \* of the document: of its operation, its fields and its fragments
  Depth,         \* of one: how far fields and fragments nest in it
  Fragments,     \* the named fragments of the document: name to its type condition and selections
  Interfaces     \* a type to the interfaces it implements

Item == UNION {ToSet(sels) : sels \in SelectionSets}

\* What an item has below it: the selections of the named fragment, or its own.
Body(sel) == IF sel.kind = "spread" THEN Fragments[sel.name].sels ELSE sel.sels
Cond(sel) == IF sel.kind = "spread" THEN Fragments[sel.name].cond ELSE sel.cond

\* A field has no @defer, what is spread is defined, and no fragment is part of itself.
ASSUME DocumentAssumption ==
  /\ SelectionSets \subseteq Seq(Item) /\ Depth \in [SelectionSets -> Nat]
  /\ \A name \in DOMAIN Fragments : Fragments[name].sels \in SelectionSets
  /\ \A sel \in Item : /\ sel.kind = "field" => sel.defer = ""
                       /\ sel.kind = "spread" => sel.name \in DOMAIN Fragments
  /\ \A sels \in SelectionSets : \A i \in DOMAIN sels :
       Body(sels[i]) \in SelectionSets /\ Depth[Body(sels[i])] < Depth[sels]

\* No type satisfies nothing: an empty set asks for the fields of all fragments.
Matches(cond, satisfies) == satisfies = {} \/ cond = "" \/ cond \in satisfies

\* Mutant: a field that is selected on an interface and on the object is two fields.
MutSameType(d, e) == d = e

Related(d, e) == d = e \/ d \in Interfaces[e] \/ e \in Interfaces[d]

Place(fs, f) == SelectInSeq(fs, LAMBDA g : g.key = f.key /\ Related(g.def, f.def))

Collectable(f, given) == [key |-> f.key, def |-> f.def, sels |-> given \o f.sels, defer |-> f.defer]

\* getOrCreateAndAppendField.  A new field starts with the selections given, then gets its own: one
\* of a fragment, which has them already, gets them twice.
Merged(fs, f, given) ==
  IF Place(fs, f) # 0 THEN [fs EXCEPT ![Place(fs, f)].sels = @ \o f.sels]
  ELSE Append(fs, Collectable(f, given))

\* A field of a fragment: @defer applies to the fields that are there already, too.
Taken(fs, f, defer) ==
  LET m  == Merged(fs, f, f.sels)
      at == IF Place(fs, f) # 0 THEN Place(fs, f) ELSE Len(m)
  IN IF defer = "" THEN m ELSE [m EXCEPT ![at].defer = defer]

TakenAll(fs, new, defer) ==
  LET taken[i \in 0 .. Len(new)] == IF i = 0 THEN fs ELSE Taken(taken[i - 1], new[i], defer)
  IN taken[Len(new)]

\* One item, when acc are the fields so far and the named fragments seen, and inner collects the
\* fields of a fragment.
Visit(inner, acc, sel, satisfies) ==
  IF ~sel.on \/ (sel.kind = "spread" /\ sel.name \in acc.visited) THEN acc
  ELSE IF sel.kind = "field" THEN [acc EXCEPT !.fields = Merged(@, sel, <<>>)]
  ELSE LET seen == acc.visited \cup (IF sel.kind = "spread" THEN {sel.name} ELSE {})
           sub  == inner[Body(sel)][seen]
       IN IF ~Matches(Cond(sel), satisfies) THEN [acc EXCEPT !.visited = seen]
          ELSE [fields |-> TakenAll(acc.fields, sub.fields, sel.defer), visited |-> sub.visited]

VisitAll(inner, sels, satisfies, visited) ==
  LET acc[i \in 0 .. Len(sels)] ==
        IF i = 0 THEN [fields |-> <<>>, visited |-> visited]
        ELSE Visit(inner, acc[i - 1], sels[i], satisfies)
  IN acc[Len(sels)]

Collected(satisfies) ==
  LET inner[sels \in SelectionSets] ==
        [visited \in SUBSET DOMAIN Fragments |-> VisitAll(inner, sels, satisfies, visited)]
  IN inner

CollectFields(sels, satisfies) == VisitAll(Collected(satisfies), sels, satisfies, {}).fields
-----------------------------------------------------------------------------
(***************************************************************************)
(* What there is to compute: every fragment that applies is put into the   *)
(* place of its spread, and the fields of one key become one, at the place *)
(* where the key is first met, with the selections of all of them; or      *)
(* several, if their types are unrelated.                                  *)
(***************************************************************************)
Labelled(fs, label) ==
  [i \in DOMAIN fs |-> IF fs[i].defer = "" THEN [fs[i] EXCEPT !.defer = label] ELSE fs[i]]

Parts(inner, sels, satisfies) ==
  [i \in DOMAIN sels |->
     IF ~sels[i].on THEN <<>>
     ELSE IF sels[i].kind = "field" THEN <<Collectable(sels[i], <<>>)>>
     ELSE IF Matches(Cond(sels[i]), satisfies) THEN Labelled(inner[Body(sels[i])], sels[i].defer)
     ELSE <<>>]

Flattened(satisfies) ==
  LET inner[sels \in SelectionSets] == FlattenSeq(Parts(inner, sels, satisfies)) IN inner

Flat(sels, satisfies) == FlattenSeq(Parts(Flattened(satisfies), sels, satisfies))

\* What the schema says of two types: they are one, or one implements the other.
OneImplements(d, e) == \E t \in {d, e} : {d, e} \subseteq {t} \cup Interfaces[t]

\* The first of the keys is met before the second.
Before(fs, key, other) == \E m \in DOMAIN fs : fs[m].key = key /\ \A n \in 1 .. m : fs[n].key # other

\* What is asked for is there, with all its selections, and in order.
AllThere(got, all) ==
  /\ \A f \in ToSet(all) : \E g \in ToSet(got) : g.key = f.key /\ ToSet(f.sels) \subseteq ToSet(g.sels)
  /\ \A key, other \in {f.key : f \in ToSet(got)} : Before(got, key, other) => Before(all, key, other)

\* Both are deferred, or neither is.
Likewise(f, g) == (f.defer = "") = (g.defer = "")

\* Nothing is there that is not asked for.  No field is deferred that is nowhere asked for in a
\* fragment with @defer, nor delivered at once when it is asked for in such fragments only.  (One
\* asked for both ways may be either.)
NothingElse(got, all) ==
  \A g \in ToSet(got) : LET same == {f \in ToSet(all) : f.key = g.key} IN
    /\ ToSet(g.sels) \subseteq UNION {ToSet(f.sels) : f \in same}
    /\ \E f \in same : f.def = g.def
    /\ \E f \in same : Likewise(f, g)

\* A key is there twice only when it is selected on two types neither of which implements the other.
Apart(got) ==
  \A i, j \in DOMAIN got : i < j /\ got[i].key = got[j].key => ~OneImplements(got[i].def, got[j].def)

FieldsOf(got, all) == AllThere(got, all) /\ NothingElse(got, all) /\ Apart(got)

Right(sels, satisfies) == FieldsOf(CollectFields(sels, satisfies), Flat(sels, satisfies))
=============================================================================
