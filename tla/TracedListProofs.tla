-------------------------- MODULE TracedListProofs --------------------------
(***************************************************************************)
(* Proofs about a traced list, in three parts.                             *)
(*                                                                         *)
(* The trace and the cache. IInv is all that the tracer keeps whichever    *)
(* fields start when: what hangs below a node is connected. CacheInv says  *)
(* how an object comes to be dispatched, from which the key of one that is *)
(* dispatched no longer changes; OrderInv what the order of the fields     *)
(* adds to the trace, that no goroutine takes another field's place.       *)
(*                                                                         *)
(* The collected fields. A fragment that has been seen is skipped, so what *)
(* is collected is not built from what is asked for item by item. It is    *)
(* proved instead that it is built so from a part of that (Explains), and  *)
(* that this part asks for the same (Serves), given that the fields of the *)
(* fragments seen are there (Covers).                                      *)
(*                                                                         *)
(* The cost. With every int that is computed, the one that wider ints      *)
(* would have is cut off at the largest int (Capped).                      *)
(***************************************************************************)
EXTENDS TracedList, Recursion, TLAPS

\* A node that others may hang below, and the one for a path.
Reached(n)  == n = Root \/ n \in DOMAIN tree
NodeOf(n, p) == n.path = p /\ Reached(n)

Walking(p) ==
  /\ walk[p].level \in 1 .. Len(p)
  /\ walk[p].at = "insert" => NodeOf(walk[p].parent, Prefix(p, walk[p].level - 1))

IInv ==
  /\ DOMAIN walk = Path
  /\ <<>> \in DOMAIN nodes
  /\ \A q \in DOMAIN nodes : NodeOf(nodes[q], q)
  /\ \A p \in Path : Walking(p)
  /\ Connected

LEMMA PrefixLaws ==
  ASSUME NEW p \in Path, NEW k \in 1 .. Len(p)
  PROVE  /\ Len(Prefix(p, k)) = k /\ Prefix(p, k) # <<>>
         /\ Prefix(Prefix(p, k), Len(Prefix(p, k)) - 1) = Prefix(p, k - 1)
         /\ Prefix(p, 0) = <<>>
<1>1. p \in Seq(STRING) /\ Len(p) \in Nat
  BY PathAssumption
<1>2. Prefix(p, k) \in Seq(STRING) /\ Len(Prefix(p, k)) = k
  BY <1>1 DEF Prefix
<1>3. \A i \in 1 .. k : Prefix(p, k)[i] = p[i]
  BY <1>1 DEF Prefix
<1>4. Prefix(Prefix(p, k), k - 1) = Prefix(p, k - 1)
  BY <1>1, <1>2, <1>3 DEF Prefix
<1> QED
  BY <1>1, <1>2, <1>4 DEF Prefix

LEMMA InitInv == TInit => IInv
<1> SUFFICES ASSUME TInit PROVE IInv
  OBVIOUS
<1>1. \A p \in Path : Len(p) \in Nat \ {0}
  BY PathAssumption
<1> QED
  BY <1>1 DEF TInit, IInv, NodeOf, Reached, Root, Walking, Connected

LEMMA GotoInv ==
  ASSUME IInv, NEW p \in Path, NEW at, NEW level \in 1 .. Len(p), NEW parent,
         Goto(p, at, level, parent), UNCHANGED <<nodes, tree>>,
         at = "insert" => NodeOf(parent, Prefix(p, level - 1))
  PROVE  IInv'
<1>1. Connected' /\ \A q \in DOMAIN nodes' : NodeOf(nodes[q], q)'
  BY DEF IInv, Connected, NodeOf, Reached
<1>2. ASSUME NEW q \in Path PROVE Walking(q)'
  <2>1. q # p => walk'[q] = walk[q]
    BY DEF Goto, IInv
  <2>2. walk'[p] = [at |-> at, level |-> level, parent |-> parent]
    BY DEF Goto, IInv
  <2>3. Walking(q)
    BY DEF IInv
  <2> QED
    BY <2>1, <2>2, <2>3 DEF Walking, NodeOf, Reached
<1> QED
  BY <1>1, <1>2 DEF IInv, Goto

LEMMA WillResolveInv ==
  ASSUME IInv, NEW p \in Path, WillResolveField(p)
  PROVE  IInv'
<1>1. Len(p) \in 1 .. Len(p)
  BY PathAssumption
<1>2. PICK at \in {"untraced", "look"} : Goto(p, at, Len(p), Root)
  BY DEF WillResolveField
<1> QED
  BY <1>1, <1>2, GotoInv DEF WillResolveField

LEMMA EnsureInv ==
  ASSUME IInv, NEW p \in Path, EnsureParentNode(p)
  PROVE  IInv'
<1> DEFINE k  == walk[p].level
           up == Prefix(p, k - 1)
<1>1. k \in 1 .. Len(p) /\ Len(p) \in Nat
  BY PathAssumption DEF IInv, Walking
<1>2. CASE up \in DOMAIN nodes
  <2>1. Goto(p, "insert", k, nodes[up]) /\ UNCHANGED <<nodes, tree>>
    BY <1>2 DEF EnsureParentNode
  <2>2. NodeOf(nodes[up], up)
    BY <1>2 DEF IInv
  <2> QED
    BY <1>1, <2>1, <2>2, GotoInv
<1>3. CASE up \notin DOMAIN nodes
  <2>1. Goto(p, "look", k - 1, Root) /\ UNCHANGED <<nodes, tree>>
    BY <1>3 DEF EnsureParentNode
  <2>2. k # 1
    BY <1>1, <1>3, PrefixLaws DEF IInv
  <2> QED
    BY <1>1, <2>1, <2>2, GotoInv
<1> QED
  BY <1>2, <1>3

LEMMA ResolvedInv ==
  ASSUME IInv, NEW p \in Path, Resolved(p)
  PROVE  IInv'
<1>1. Len(p) \in 1 .. Len(p)
  BY PathAssumption
<1> QED
  BY <1>1, GotoInv DEF Resolved

LEMMA InsertInv ==
  ASSUME IInv, NEW p \in Path, InsertNode(p)
  PROVE  IInv'
<1>1. PICK k, up : /\ k = walk[p].level /\ k \in 1 .. Len(p) /\ Len(p) \in Nat
                   /\ up = walk[p].parent /\ NodeOf(up, Prefix(p, k - 1))
  BY PathAssumption DEF IInv, Walking, InsertNode
<1> DEFINE self == Node(p, k)
<1>2. nodes' = Added(nodes, self.path, self) /\ tree' = Added(tree, self, up)
  BY <1>1 DEF InsertNode, Insert
<1>3. self.path = Prefix(p, k) /\ self.path # <<>>
      /\ Prefix(self.path, Len(self.path) - 1) = Prefix(p, k - 1)
  BY <1>1, PrefixLaws DEF Node
<1>4. DOMAIN tree' = DOMAIN tree \cup {self}
      /\ \A n \in DOMAIN tree' : tree'[n] = IF n = self THEN up ELSE tree[n]
  BY <1>2 DEF Added
<1>5. DOMAIN nodes' = DOMAIN nodes \cup {self.path}
      /\ \A q \in DOMAIN nodes' : nodes'[q] = IF q = self.path THEN self ELSE nodes[q]
  BY <1>2 DEF Added
<1>6. \A n : Reached(n) => Reached(n)'
  BY <1>4 DEF Reached
<1>7. NodeOf(self, Prefix(p, k))'
  BY <1>3, <1>4 DEF NodeOf, Reached
<1>8. Connected'
  <2> SUFFICES ASSUME NEW n \in DOMAIN tree'
               PROVE  /\ n.path # <<>>
                      /\ tree'[n].path = Prefix(n.path, Len(n.path) - 1)
                      /\ tree'[n] = Root \/ tree'[n] \in DOMAIN tree'
    BY DEF Connected, Root
  <2>1. CASE n = self
    BY <1>1, <1>3, <1>4, <2>1 DEF NodeOf, Reached
  <2>2. CASE n # self
    BY <1>4, <2>2 DEF IInv, Connected
  <2> QED
    BY <2>1, <2>2
<1>9. \A q \in DOMAIN nodes' : NodeOf(nodes[q], q)'
  BY <1>3, <1>5, <1>6, <1>7 DEF IInv, NodeOf
<1>10. ASSUME NEW q \in Path PROVE Walking(q)'
  <2>1. CASE q # p
    <3>1. walk'[q] = walk[q]
      BY <2>1 DEF InsertNode, Insert, Goto, IInv
    <3> QED
      BY <1>6, <3>1 DEF IInv, Walking, NodeOf
  <2>2. CASE q = p /\ k = Len(p)
    <3>1. walk'[p] = [at |-> "resolve", level |-> k, parent |-> self]
      BY <1>1, <2>2 DEF InsertNode, Insert, Goto, IInv
    <3> QED
      BY <1>1, <2>2, <3>1 DEF Walking
  <2>3. CASE q = p /\ k # Len(p)
    <3>1. walk'[p] = [at |-> "insert", level |-> k + 1, parent |-> self]
      BY <1>1, <2>3 DEF InsertNode, Insert, Goto, IInv
    <3> QED
      BY <1>1, <1>7, <2>3, <3>1 DEF Walking, NodeOf, Reached
  <2> QED
    BY <2>1, <2>2, <2>3
<1> QED
  BY <1>5, <1>8, <1>9, <1>10 DEF IInv, InsertNode, Insert, Goto

LEMMA QuietInv ==
  ASSUME IInv, UNCHANGED <<nodes, tree, walk>>
  PROVE  IInv'
BY DEF IInv, Connected, NodeOf, Reached, Walking

LEMMA TraceStep == IInv /\ [TNext]_tvars => IInv'
BY WillResolveInv, EnsureInv, InsertInv, ResolvedInv, QuietInv DEF TNext, StopTimer, tvars

(***************************************************************************)
(* newNode and ensureParentNode: whatever is marshalled is a tree, each    *)
(* node below the one of the path above its own.                           *)
(***************************************************************************)
THEOREM TreeConnected == TSpec => []Connected
<1>1. IInv => Connected
  BY DEF IInv
<1> QED
  BY InitInv, TraceStep, <1>1, PTL DEF TSpec
-----------------------------------------------------------------------------
LEMMA ListStep == [LNext]_lvars => [TNext]_tvars
BY DEF LNext, lvars, TNext, tvars, ResolveField, Get, Collect, Dispatched, InterceptResponse

\* What the goroutines of a traced list do to the trace is what any set of fields may do
\* (tree_builder.go's methods, called by the dispatcher of object.gotpl).
THEOREM ListTraces == LSpec => TSpec
<1>1. LInit => TInit
  BY DEF LInit
<1> QED
  BY <1>1, ListStep, PTL DEF LSpec, TSpec

Using(o)  == opc[o] \in {"dispatch", "done"}
Traced(p) == walk[p].at \notin {"idle", "untraced"}

\* What is dispatched has been reached from above: an object through its field, a field through its
\* object.
Reachable ==
  /\ \A p \in Path : walk[p].at # "idle" => p = List \/ Using(Front(p))
  /\ \A p \in Path : walk[p].at = "untraced" => stopped
  /\ \A o \in Object : opc[o] # "idle" => Exists(o)

CacheInv ==
  /\ DOMAIN fields = Object /\ DOMAIN opc = Object
  /\ \A o \in Object : opc[o] \in {"idle", "collect", "dispatch", "done"}
  /\ Reachable
  /\ OneSlice

LEMMA FrontUsed ==
  ASSUME CacheInv, NEW o \in Object, o \notin Elements, Exists(o)
  PROVE  Front(o) \in Object /\ Using(Front(o))
<1>1. o \in Path /\ Len(o) > Len(List)
  BY ObjectAssumption
<1>2. o # List
  BY <1>1, PathAssumption, ObjectAssumption
<1>3. walk[o].at # "idle"
  BY DEF Exists, Over
<1> QED
  BY <1>1, <1>2, <1>3, ObjectAssumption DEF CacheInv, Reachable

\* A step of the goroutines of the fields.
LEMMA WalkCacheInv ==
  ASSUME IInv, CacheInv, NEW p \in Path, NEW at, NEW level, NEW parent,
         Goto(p, at, level, parent), UNCHANGED <<stopped, cache, fields, opc>>,
         at # "idle", ~Over(p),
         walk[p].at = "idle" => p = List \/ Using(Front(p)),
         at = "untraced" => stopped
  PROVE  CacheInv'
<1>1. \A q \in Path : walk'[q] = IF q = p THEN [at |-> at, level |-> level, parent |-> parent]
                                          ELSE walk[q]
  BY DEF Goto, IInv
<1>2. \A q \in Path : walk'[q].at # "idle" => q = List \/ Using(Front(q))
  BY <1>1 DEF CacheInv, Reachable
<1>3. \A q \in Path : walk'[q].at = "untraced" => stopped
  BY <1>1 DEF CacheInv, Reachable
<1>4. \A q \in Path : Over(q) => Over(q)'
  BY <1>1 DEF Over
<1>5. \A o \in Object : Exists(o) => Exists(o)'
  BY <1>4, ObjectAssumption DEF Exists
<1>6. Reachable'
  BY <1>2, <1>3, <1>5 DEF Reachable, CacheInv, Using
<1> QED
  BY <1>6 DEF CacheInv, OneSlice, Key

\* An object takes its slice from the cache, to which it may have added it.
LEMMA UsesInv ==
  ASSUME CacheInv, NEW o \in Object, ~Using(o), Exists(o), UNCHANGED tvars,
         Key(o) \in DOMAIN cache', DOMAIN cache' \subseteq DOMAIN cache \cup {Key(o)},
         \A k \in DOMAIN cache : k \in DOMAIN cache' /\ cache'[k] = cache[k],
         Uses(o, cache'[Key(o)])
  PROVE  CacheInv'
<1>1. \A x \in Object : /\ fields'[x] = IF x = o THEN cache'[Key(o)] ELSE fields[x]
                        /\ opc'[x] = IF x = o THEN "dispatch" ELSE opc[x]
  BY DEF Uses, CacheInv
<1>2. DOMAIN fields' = Object /\ DOMAIN opc' = Object
  BY DEF Uses, CacheInv
<1>3. \A x \in Object : Using(x)' <=> x = o \/ Using(x)
  BY <1>1 DEF Using
<1>4. \A x \in Object : Exists(x)' <=> Exists(x)
  BY DEF tvars, Exists, Over
<1>5. Reachable'
  <2>1. \A p \in Path : walk[p].at # "idle" => p = List \/ Using(Front(p))'
    BY <1>3, ObjectAssumption DEF CacheInv, Reachable
  <2> QED
    BY <1>1, <1>4, <2>1 DEF CacheInv, Reachable, tvars
<1>6. ASSUME NEW x \in Object, Using(x)'
      PROVE  Key(x)' = Key(x)
  <2>1. Exists(x)
    BY <1>3, <1>6 DEF CacheInv, Reachable, Using
  <2>2. CASE x \in Elements
    BY <2>2 DEF Key, Elements
  <2>3. CASE x \notin Elements
    <3>1. Front(x) \in Object /\ Front(x) # o
      BY <2>1, <2>3, FrontUsed
    <3> QED
      BY <1>1, <2>3, <3>1 DEF Key, Elements
  <2> QED
    BY <2>2, <2>3
<1>7. ASSUME NEW x \in Object, Using(x)'
      PROVE  Key(x)' \in DOMAIN cache' /\ fields'[x] = cache'[Key(x)']
  <2>1. CASE x = o
    BY <1>1, <1>6, <1>7, <2>1
  <2>2. CASE x # o
    <3>1. Key(x) \in DOMAIN cache /\ fields[x] = cache[Key(x)]
      BY <1>3, <1>7, <2>2 DEF CacheInv, OneSlice, Using
    <3> QED
      BY <1>1, <1>6, <1>7, <2>2, <3>1
  <2> QED
    BY <2>1, <2>2
<1>8. ASSUME NEW k \in DOMAIN cache', k.of[1] # <<>>
      PROVE  \E l \in DOMAIN cache' : cache'[l].by = k.of[1]
  <2>1. CASE k \in DOMAIN cache
    <3>1. PICK l \in DOMAIN cache : cache[l].by = k.of[1]
      BY <1>8, <2>1 DEF CacheInv, OneSlice
    <3> QED
      BY <3>1
  <2>2. CASE k = Key(o)
    <3>1. o \notin Elements /\ k.of[1] = fields[Front(o)].by
      BY <1>8, <2>2 DEF Key
    <3>2. Front(o) \in Object /\ Using(Front(o))
      BY <3>1, FrontUsed
    <3>3. Key(Front(o)) \in DOMAIN cache /\ fields[Front(o)] = cache[Key(Front(o))]
      BY <3>2 DEF CacheInv, OneSlice, Using
    <3> QED
      BY <3>1, <3>3
  <2> QED
    BY <2>1, <2>2
<1> QED
  BY <1>1, <1>2, <1>5, <1>7, <1>8 DEF CacheInv, OneSlice, Using

LEMMA GetInv ==
  ASSUME CacheInv, NEW o \in Object, Get(o)
  PROVE  CacheInv'
<1>1. CASE Key(o) \in DOMAIN cache
  <2>1. Uses(o, cache[Key(o)]) /\ UNCHANGED <<tvars, cache>> /\ ~Using(o) /\ Exists(o)
    BY <1>1 DEF Get, Using
  <2> QED
    BY <1>1, <2>1, UsesInv
<1>2. CASE Key(o) \notin DOMAIN cache
  <2>1. /\ opc' = [opc EXCEPT ![o] = "collect"] /\ UNCHANGED <<tvars, cache, fields>>
        /\ opc[o] = "idle" /\ Exists(o)
    BY <1>2 DEF Get
  <2>2. \A x \in Object : opc'[x] = IF x = o THEN "collect" ELSE opc[x]
    BY <2>1 DEF CacheInv
  <2>3. \A x \in Object : Using(x)' <=> Using(x)
    BY <2>1, <2>2 DEF Using
  <2>4. \A x \in Object : Exists(x)' <=> Exists(x)
    BY <2>1 DEF tvars, Exists, Over
  <2>5. \A p \in Path : walk[p].at # "idle" => p = List \/ Using(Front(p))'
    BY <2>3, ObjectAssumption DEF CacheInv, Reachable
  <2>6. Reachable'
    BY <2>1, <2>2, <2>4, <2>5 DEF CacheInv, Reachable, tvars
  <2>7. OneSlice'
    BY <2>1, <2>2 DEF CacheInv, OneSlice, Key, Elements
  <2> QED
    BY <2>1, <2>2, <2>6, <2>7 DEF CacheInv
<1> QED
  BY <1>1, <1>2

LEMMA CollectInv ==
  ASSUME CacheInv, NEW o \in Object, Collect(o)
  PROVE  CacheInv'
<1>1. PICK slice : AddOrExisting(o, slice)
  BY DEF Collect
<1>2. ~Using(o) /\ Exists(o) /\ UNCHANGED tvars
  BY DEF Collect, Using, CacheInv, Reachable
<1>3. cache' = IF Key(o) \in DOMAIN cache THEN cache ELSE Added(cache, Key(o), slice)
  BY <1>1 DEF AddOrExisting
<1>4. /\ Key(o) \in DOMAIN cache' /\ DOMAIN cache' \subseteq DOMAIN cache \cup {Key(o)}
      /\ \A k \in DOMAIN cache : k \in DOMAIN cache' /\ cache'[k] = cache[k]
  BY <1>3 DEF Added
<1>5. Uses(o, cache'[Key(o)])
  BY <1>1 DEF AddOrExisting
<1> QED
  BY <1>2, <1>4, <1>5, UsesInv

LEMMA DispatchedInv ==
  ASSUME CacheInv, NEW o \in Object, Dispatched(o)
  PROVE  CacheInv'
<1>1. /\ opc' = [opc EXCEPT ![o] = "done"] /\ UNCHANGED <<tvars, cache, fields>>
      /\ opc[o] = "dispatch"
  BY DEF Dispatched
<1>2. \A x \in Object : opc'[x] = IF x = o THEN "done" ELSE opc[x]
  BY <1>1 DEF CacheInv
<1>3. \A x \in Object : Using(x)' <=> Using(x)
  BY <1>1, <1>2 DEF Using
<1>4. \A x \in Object : Exists(x)' <=> Exists(x)
  BY <1>1 DEF tvars, Exists, Over
<1>5. \A p \in Path : walk[p].at # "idle" => p = List \/ Using(Front(p))'
  BY <1>3, ObjectAssumption DEF CacheInv, Reachable
<1>6. Reachable'
  BY <1>1, <1>2, <1>4, <1>5 DEF CacheInv, Reachable, tvars
<1>7. OneSlice'
  BY <1>1, <1>2 DEF CacheInv, OneSlice, Key, Elements
<1> QED
  BY <1>1, <1>2, <1>6, <1>7 DEF CacheInv

LEMMA CacheStep == IInv /\ CacheInv /\ [LNext]_lvars => CacheInv'
<1> SUFFICES ASSUME IInv, CacheInv, [LNext]_lvars PROVE CacheInv'
  OBVIOUS
<1>1. ASSUME NEW p \in Path, ResolveField(p) PROVE CacheInv'
  <2>1. PICK at : /\ Goto(p, at, Len(p), Root) /\ at \in {"untraced", "look"}
                  /\ at = "untraced" => stopped
    BY <1>1 DEF ResolveField, WillResolveField
  <2>2. walk[p].at = "idle" /\ UNCHANGED <<stopped, cache, fields, opc>>
    BY <1>1 DEF ResolveField, WillResolveField
  <2>3. p = List \/ Using(Front(p))
    BY <1>1 DEF ResolveField, Using
  <2> QED
    BY <2>1, <2>2, <2>3, WalkCacheInv DEF Over
<1>2. ASSUME NEW p \in Path, EnsureParentNode(p), UNCHANGED <<cache, fields, opc>> PROVE CacheInv'
  <2>1. PICK at, level, parent : Goto(p, at, level, parent) /\ at \in {"insert", "look"}
    BY <1>2 DEF EnsureParentNode
  <2> QED
    BY <1>2, <2>1, WalkCacheInv DEF EnsureParentNode, Over
<1>3. ASSUME NEW p \in Path, InsertNode(p), UNCHANGED <<cache, fields, opc>> PROVE CacheInv'
  <2>1. PICK at, level, parent : Goto(p, at, level, parent) /\ at \in {"insert", "resolve"}
    BY <1>3 DEF InsertNode, Insert
  <2> QED
    BY <1>3, <2>1, WalkCacheInv DEF InsertNode, Insert, Over
<1>4. ASSUME NEW p \in Path, Resolved(p), UNCHANGED <<cache, fields, opc>> PROVE CacheInv'
  BY <1>4, WalkCacheInv DEF Resolved, Over
<1>5. CASE InterceptResponse \/ UNCHANGED lvars
  <2>1. UNCHANGED <<walk, cache, fields, opc>> /\ (stopped => stopped')
    BY <1>5 DEF InterceptResponse, StopTimer, lvars
  <2> QED
    BY <2>1 DEF CacheInv, Reachable, Exists, Over, Using, OneSlice, Key
<1> QED
  BY <1>1, <1>2, <1>3, <1>4, <1>5, GetInv, CollectInv, DispatchedInv DEF LNext

LEMMA ListInit == LInit => IInv /\ CacheInv
<1>1. LInit => IInv
  BY InitInv DEF LInit
<1>2. LInit => CacheInv
  BY DEF LInit, TInit, CacheInv, Reachable, OneSlice
<1> QED
  BY <1>1, <1>2

(***************************************************************************)
(* collectFieldsCacheStore.Add: whichever of the objects that collect at   *)
(* the same time is first, all of one key use its slice, and the slice     *)
(* that a key of the cache points into is one the cache retains.           *)
(***************************************************************************)
THEOREM SlicesShared == LSpec => []OneSlice
<1>1. IInv /\ CacheInv /\ [LNext]_lvars => (IInv /\ CacheInv)'
  BY CacheStep, ListStep, TraceStep
<1>2. CacheInv => OneSlice
  BY DEF CacheInv
<1> QED
  BY ListInit, <1>1, <1>2, PTL DEF LSpec

\* A field's goroutine adds no node to a path that belongs to another field: those above its own
\* are done and have theirs.
AboveDone(p) == \A k \in 1 .. Len(p) - 1 : Prefix(p, k) \in Path => walk[Prefix(p, k)].at = "done"
Stays(p)     == \A k \in walk[p].level .. Len(p) - 1 : Prefix(p, k) \notin Path
Has(p)       == Node(p, Len(p)) \in DOMAIN tree /\ p \in DOMAIN nodes

OrderInv ==
  /\ \A p \in Path : Traced(p) => AboveDone(p)
  /\ \A p \in Path : Stays(p)
  /\ \A p \in Path : walk[p].at \in {"resolve", "done"} => Has(p)
  /\ \A n \in DOMAIN tree : n.path \in Path => n.by = n.path

\* Where a field stands below the others.
LEMMA Lengths ==
  ASSUME NEW p \in Path
  PROVE  /\ p \in Seq(STRING) /\ Len(p) \in Nat \ {0} /\ Len(List) \in Nat
         /\ p = List \/ (Front(p) \in Object /\ Len(p) >= Len(List) + 2)
         /\ Prefix(p, Len(p)) = p /\ Front(p) = Prefix(p, Len(p) - 1)
<1>1. p \in Seq(STRING) /\ p # <<>> /\ List \in Seq(STRING)
  BY PathAssumption, ObjectAssumption
<1>2. Len(p) \in Nat \ {0} /\ Len(List) \in Nat
  BY <1>1
<1>3. Front(p) = Prefix(p, Len(p) - 1) /\ Prefix(p, Len(p)) = p
  BY <1>1 DEF Front, Prefix
<1>4. Len(Front(p)) = Len(p) - 1
  <2>1. CASE Len(p) = 1
    BY <1>3, <2>1, PrefixLaws
  <2>2. CASE Len(p) # 1
    BY <1>2, <1>3, <2>2, PrefixLaws
  <2> QED
    BY <2>1, <2>2
<1>5. Front(p) \in Object => Len(Front(p)) > Len(List)
  BY ObjectAssumption
<1> QED
  BY <1>1, <1>2, <1>3, <1>4, <1>5, ObjectAssumption

LEMMA AboveStart ==
  ASSUME CacheInv, OrderInv, NEW p \in Path, ~stopped, p = List \/ Using(Front(p))
  PROVE  AboveDone(p)
<1> SUFFICES ASSUME NEW k \in 1 .. Len(p) - 1, Prefix(p, k) \in Path
             PROVE  walk[Prefix(p, k)].at = "done"
  BY DEF AboveDone
<1>1. p \in Seq(STRING) /\ Len(p) \in Nat \ {0} /\ Len(List) \in Nat /\ k \in 1 .. Len(p)
  BY Lengths
<1>2. Len(Prefix(p, k)) = k
  BY <1>1, PrefixLaws
<1>3. Prefix(p, k) = List \/ k >= Len(List) + 2
  BY <1>2, Lengths
<1>4. p # List /\ Front(p) \in Object /\ Using(Front(p)) /\ Len(p) >= Len(List) + 2
  BY <1>1, <1>2, <1>3, Lengths
<1> DEFINE o == Front(p)
<1>5. Len(o) = Len(p) - 1 /\ o = Prefix(p, Len(p) - 1) /\ Exists(o)
  BY <1>1, <1>4 DEF Front, Prefix, CacheInv, Reachable, Using
<1>6. \A q \in Path : Over(q) => walk[q].at = "done"
  BY DEF Over, CacheInv, Reachable
<1>7. CASE o \in Elements
  <2>1. Prefix(p, k) = List
    BY <1>1, <1>3, <1>5, <1>7 DEF Elements
  <2> QED
    BY <1>5, <1>6, <1>7, <2>1, ObjectAssumption DEF Exists
<1>8. CASE o \notin Elements
  <2>1. o \in Path /\ walk[o].at = "done"
    BY <1>4, <1>5, <1>6, <1>8, ObjectAssumption DEF Exists
  <2>2. AboveDone(o)
    BY <2>1 DEF OrderInv, Traced
  <2>3. CASE k = Len(p) - 1
    BY <1>5, <2>1, <2>3
  <2>4. CASE k # Len(p) - 1
    <3>1. Prefix(o, k) = Prefix(p, k)
      BY <1>1, <1>5, <2>4 DEF Prefix
    <3>2. k \in 1 .. Len(o) - 1
      BY <1>1, <1>5, <2>4
    <3> QED
      BY <2>2, <3>1, <3>2 DEF AboveDone
  <2> QED
    BY <2>3, <2>4
<1> QED
  BY <1>7, <1>8

LEMMA GotoOrder ==
  ASSUME IInv, OrderInv, NEW p \in Path, NEW at, NEW level, NEW parent,
         Goto(p, at, level, parent), walk[p].at # "done",
         at \notin {"idle", "untraced"} => AboveDone(p),
         \A k \in level .. Len(p) - 1 : Prefix(p, k) \notin Path,
         at \in {"resolve", "done"} => Has(p)',
         DOMAIN tree \subseteq DOMAIN tree', DOMAIN nodes \subseteq DOMAIN nodes',
         \A n \in DOMAIN tree' \ DOMAIN tree : n.path \in Path => n.by = n.path
  PROVE  OrderInv'
<1>1. \A q \in Path : walk'[q] = IF q = p THEN [at |-> at, level |-> level, parent |-> parent]
                                          ELSE walk[q]
  BY DEF Goto, IInv
<1>2. \A q \in Path : walk[q].at = "done" => walk'[q].at = "done"
  BY <1>1
<1>3. \A q \in Path : AboveDone(q) => AboveDone(q)'
  BY <1>2 DEF AboveDone
<1>4. \A q \in Path : Traced(q)' => AboveDone(q)'
  BY <1>1, <1>3 DEF Traced, OrderInv
<1>5. \A q \in Path : Stays(q)'
  BY <1>1 DEF Stays, OrderInv
<1>6. \A q \in Path : Has(q) => Has(q)'
  BY DEF Has
<1>7. \A q \in Path : walk'[q].at \in {"resolve", "done"} => Has(q)'
  BY <1>1, <1>6 DEF OrderInv
<1>8. \A n \in DOMAIN tree' : n.path \in Path => n.by = n.path
  BY DEF OrderInv
<1> QED
  BY <1>4, <1>5, <1>7, <1>8 DEF OrderInv

LEMMA EnsureOrder ==
  ASSUME IInv, OrderInv, NEW p \in Path, EnsureParentNode(p)
  PROVE  OrderInv'
<1> DEFINE k  == walk[p].level
           up == Prefix(p, k - 1)
<1>1. walk[p].at = "look" /\ UNCHANGED <<nodes, tree>>
  BY DEF EnsureParentNode
<1>2. AboveDone(p) /\ Stays(p) /\ k \in 1 .. Len(p) /\ Len(p) \in Nat
  BY <1>1, Lengths DEF OrderInv, Traced, IInv, Walking
<1>3. CASE up \in DOMAIN nodes
  <2>1. Goto(p, "insert", k, nodes[up])
    BY <1>3 DEF EnsureParentNode
  <2> QED
    BY <1>1, <1>2, <2>1, GotoOrder DEF Stays
<1>4. CASE up \notin DOMAIN nodes
  <2>1. Goto(p, "look", k - 1, Root)
    BY <1>4 DEF EnsureParentNode
  <2>2. k # 1
    BY <1>2, <1>4, PrefixLaws DEF IInv
  <2>3. up \notin Path
    <3>1. ASSUME up \in Path PROVE walk[up].at = "done"
      BY <1>2, <2>2, <3>1 DEF AboveDone
    <3> QED
      BY <1>4, <3>1 DEF OrderInv, Has
  <2>4. \A j \in k - 1 .. Len(p) - 1 : Prefix(p, j) \notin Path
    BY <1>2, <2>3 DEF Stays
  <2> QED
    BY <1>1, <1>2, <2>1, <2>4, GotoOrder
<1> QED
  BY <1>3, <1>4

LEMMA InsertOrder ==
  ASSUME IInv, OrderInv, NEW p \in Path, InsertNode(p)
  PROVE  OrderInv'
<1>1. walk[p].at = "insert"
  BY DEF InsertNode
<1>2. AboveDone(p) /\ Stays(p)
  BY <1>1 DEF OrderInv, Traced
<1>3. PICK k, self : /\ k = walk[p].level /\ k \in 1 .. Len(p) /\ Len(p) \in Nat
                     /\ self = Node(p, k)
  BY Lengths DEF IInv, Walking
<1>4. self.path = Prefix(p, k) /\ self.by = p /\ Prefix(p, Len(p)) = p
  BY <1>3, Lengths DEF Node
<1>5. DOMAIN tree' = DOMAIN tree \cup {self} /\ DOMAIN nodes' = DOMAIN nodes \cup {self.path}
  BY <1>3 DEF InsertNode, Insert, Added
<1>6. self.path \in Path => self.by = self.path
  BY <1>2, <1>3, <1>4 DEF Stays
<1>7. CASE k = Len(p)
  <2>1. Goto(p, "resolve", k, self)
    BY <1>3, <1>7 DEF InsertNode, Insert
  <2>2. Has(p)'
    BY <1>3, <1>4, <1>5, <1>7 DEF Has
  <2> QED
    BY <1>1, <1>2, <1>3, <1>5, <1>6, <2>1, <2>2, GotoOrder DEF Stays
<1>8. CASE k # Len(p)
  <2>1. Goto(p, "insert", k + 1, self)
    BY <1>3, <1>8 DEF InsertNode, Insert
  <2>2. \A j \in k + 1 .. Len(p) - 1 : Prefix(p, j) \notin Path
    BY <1>2, <1>3 DEF Stays
  <2> QED
    BY <1>1, <1>2, <1>5, <1>6, <2>1, <2>2, GotoOrder
<1> QED
  BY <1>7, <1>8

LEMMA OrderStep == IInv /\ CacheInv /\ OrderInv /\ [LNext]_lvars => OrderInv'
<1> SUFFICES ASSUME IInv, CacheInv, OrderInv, [LNext]_lvars PROVE OrderInv'
  OBVIOUS
<1>1. ASSUME NEW p \in Path, ResolveField(p) PROVE OrderInv'
  <2>1. PICK at : /\ Goto(p, at, Len(p), Root) /\ at \in {"untraced", "look"}
                  /\ at = "look" => ~stopped
    BY <1>1 DEF ResolveField, WillResolveField
  <2>2. walk[p].at = "idle" /\ UNCHANGED <<nodes, tree>>
    BY <1>1 DEF ResolveField, WillResolveField
  <2>3. p = List \/ Using(Front(p))
    BY <1>1 DEF ResolveField, Using
  <2>4. \A k \in Len(p) .. Len(p) - 1 : Prefix(p, k) \notin Path
    BY Lengths
  <2> QED
    BY <2>1, <2>2, <2>3, <2>4, AboveStart, GotoOrder
<1>2. ASSUME NEW p \in Path, Resolved(p) PROVE OrderInv'
  <2>1. walk[p].at = "resolve" /\ Goto(p, "done", Len(p), Root) /\ UNCHANGED <<nodes, tree>>
    BY <1>2 DEF Resolved
  <2>2. AboveDone(p) /\ Has(p)'
    BY <2>1 DEF OrderInv, Traced, Has
  <2>3. \A k \in Len(p) .. Len(p) - 1 : Prefix(p, k) \notin Path
    BY Lengths
  <2> QED
    BY <2>1, <2>2, <2>3, GotoOrder
<1>3. CASE UNCHANGED <<nodes, tree, walk>>
  BY <1>3 DEF OrderInv, Traced, AboveDone, Stays, Has
<1> QED
  BY <1>1, <1>2, <1>3, EnsureOrder, InsertOrder
  DEF LNext, lvars, tvars, Get, Collect, Dispatched, InterceptResponse, StopTimer

LEMMA OrderInit == LInit => OrderInv
<1> SUFFICES ASSUME LInit PROVE OrderInv
  OBVIOUS
<1>1. \A p \in Path : walk[p].at = "idle" /\ walk[p].level = Len(p)
  BY DEF LInit, TInit
<1>2. ASSUME NEW p \in Path PROVE Stays(p)
  BY <1>1, Lengths DEF Stays
<1>3. DOMAIN tree = {}
  BY DEF LInit, TInit
<1>4. \A p \in Path : ~Traced(p) /\ walk[p].at \notin {"resolve", "done"}
  BY <1>1 DEF Traced
<1> QED
  BY <1>2, <1>3, <1>4 DEF OrderInv

(***************************************************************************)
(* The tracer and the dispatcher of objects together: because a field      *)
(* starts only when those above it are resolved, no goroutine adds the     *)
(* node of another one's field in its place.  So what is marshalled is a   *)
(* tree in which each traced field has its own node, and just that one.    *)
(***************************************************************************)
THEOREM TraceWhole == LSpec => []TraceIsTree
<1> DEFINE Inv == IInv /\ CacheInv /\ OrderInv
<1>1. Inv /\ [LNext]_lvars => Inv'
  BY CacheStep, OrderStep, ListStep, TraceStep
<1>2. Inv => TraceIsTree
  <2> SUFFICES ASSUME Inv PROVE FieldsTraced
    BY DEF TraceIsTree, IInv
  <2> SUFFICES ASSUME NEW p \in Path, walk[p].at \in {"resolve", "done"}
               PROVE  /\ Node(p, Len(p)) \in DOMAIN tree
                      /\ nodes[p].by = p
                      /\ \A n \in DOMAIN tree : n.path = p => n.by = p
    BY DEF FieldsTraced
  <2>1. Has(p) /\ \A n \in DOMAIN tree : n.path = p => n.by = p
    BY DEF OrderInv
  <2>2. nodes[p].path = p /\ Reached(nodes[p])
    BY <2>1 DEF Has, IInv, NodeOf
  <2>3. nodes[p] # Root
    BY <2>2, PathAssumption DEF Root
  <2> QED
    BY <2>1, <2>2, <2>3 DEF Has, Reached
<1> QED
  BY ListInit, OrderInit, <1>1, <1>2, PTL DEF LSpec
-----------------------------------------------------------------------------
\* What CollectFields makes of the fields of a document.
Keys   == {sel.key : sel \in Item}
Types  == {sel.def : sel \in Item}
Labels == {""} \cup {sel.defer : sel \in Item}
Found  == [key : Keys, def : Types, sels : Seq(Item), defer : Labels]

LEMMA Document ==
  /\ Depth \in [SelectionSets -> Nat]
  /\ \A sels \in SelectionSets :
       sels \in Seq(Item) /\ Len(sels) \in Nat /\ DOMAIN sels = 1 .. Len(sels)
<1>1. SelectionSets \subseteq Seq(Item) /\ Depth \in [SelectionSets -> Nat]
  BY DocumentAssumption
<1> HIDE DEF Item
<1> QED BY <1>1

LEMMA RecordChange ==
  ASSUME NEW r, NEW a, NEW b, NEW c, NEW d, r = [key |-> a, def |-> b, sels |-> c, defer |-> d]
  PROVE  /\ \A v : [r EXCEPT !.sels = v] = [key |-> a, def |-> b, sels |-> v, defer |-> d]
         /\ \A v : [r EXCEPT !.defer = v] = [key |-> a, def |-> b, sels |-> c, defer |-> v]
         /\ r.key = a /\ r.def = b /\ r.sels = c /\ r.defer = d
OBVIOUS

LEMMA AppendChange ==
  ASSUME NEW X, NEW s \in Seq(X), NEW x \in X, NEW y \in X
  PROVE  [Append(s, x) EXCEPT ![Len(s) + 1] = y] = Append(s, y)
<1>1. PICK t \in Seq(X) : t = Append(s, x)
  <2>1. Append(s, x) \in Seq(X)
    OBVIOUS
  <2> QED BY <2>1
<1>2. PICK u \in Seq(X) : u = Append(s, y)
  <2>1. Append(s, y) \in Seq(X)
    OBVIOUS
  <2> QED BY <2>1
<1>3. PICK n \in Nat : n = Len(s)
  OBVIOUS
<1>4. Len(t) = n + 1 /\ Len(u) = n + 1 /\ u[n + 1] = y /\ \A i \in 1 .. n : t[i] = u[i]
  BY <1>1, <1>2, <1>3
<1>5. PICK v \in Seq(X) : v = [t EXCEPT ![n + 1] = y]
  <2>1. [t EXCEPT ![n + 1] = y] \in Seq(X)
    BY <1>4, ExceptSeq
  <2> QED BY <2>1
<1>6. Len(v) = n + 1 /\ v[n + 1] = y /\ \A i \in 1 .. n : v[i] = t[i]
  BY <1>4, <1>5
<1>7. \A i \in 1 .. n + 1 : i = n + 1 \/ i \in 1 .. n
  OBVIOUS
<1>8. v = u
  BY <1>4, <1>6, <1>7, SeqEqual
<1> QED BY <1>1, <1>2, <1>3, <1>5, <1>8

LEMMA FoundRecord ==
  ASSUME NEW r \in Found
  PROVE  /\ r = [key |-> r.key, def |-> r.def, sels |-> r.sels, defer |-> r.defer]
         /\ r.key \in Keys /\ r.def \in Types /\ r.sels \in Seq(Item) /\ r.defer \in Labels
<1>1. \A A, B, C, D : \A x \in [key : A, def : B, sels : C, defer : D] :
        /\ x = [key |-> x.key, def |-> x.def, sels |-> x.sels, defer |-> x.defer]
        /\ x.key \in A /\ x.def \in B /\ x.sels \in C /\ x.defer \in D
  OBVIOUS
<1>2. r \in [key : Keys, def : Types, sels : Seq(Item), defer : Labels]
  BY DEF Found
<1> QED BY <1>1, <1>2

\* t is fs with f taken in: into the field that is there, or as a new one.
Put(t, fs, f, given, label) ==
  \/ \E p \in 1 .. Len(fs) :
       /\ fs[p].key = f.key
       /\ t = [fs EXCEPT ![p] =
                 [key |-> fs[p].key, def |-> fs[p].def, sels |-> fs[p].sels \o f.sels,
                  defer |-> IF label = "" THEN fs[p].defer ELSE label]]
  \/ /\ \A i \in 1 .. Len(fs) : ~(fs[i].key = f.key /\ Related(fs[i].def, f.def))
     /\ t = Append(fs, [key |-> f.key, def |-> f.def, sels |-> given \o f.sels,
                        defer |-> IF label = "" THEN f.defer ELSE label])

LEMMA PlaceLaws ==
  ASSUME NEW fs \in Seq(Found), NEW f
  PROVE  /\ Place(fs, f) \in 0 .. Len(fs)
         /\ Place(fs, f) # 0 => fs[Place(fs, f)].key = f.key
         /\ Place(fs, f) = 0 =>
              \A i \in 1 .. Len(fs) : ~(fs[i].key = f.key /\ Related(fs[i].def, f.def))
<1> DEFINE I == {i \in 1 .. Len(fs) : fs[i].key = f.key /\ Related(fs[i].def, f.def)}
<1>1. Place(fs, f) = IF I # {} THEN Min(I) ELSE 0
  BY DEF Place, SelectInSeq
<1>2. CASE I = {}
  BY <1>1, <1>2
<1>3. CASE I # {}
  <2>1. I \subseteq Nat /\ Len(fs) \in Nat
    OBVIOUS
  <2>2. Min(I) \in I
    <3> HIDE DEF I
    <3> QED BY <1>3, <2>1, Smallest
  <2>3. Min(I) \in 1 .. Len(fs) /\ fs[Min(I)].key = f.key
    BY <2>2
  <2>4. Place(fs, f) = Min(I)
    BY <1>1, <1>3
  <2> HIDE DEF I
  <2> QED BY <2>1, <2>3, <2>4
<1> QED BY <1>2, <1>3

LEMMA MergedPut ==
  ASSUME NEW fs \in Seq(Found), NEW f, NEW given
  PROVE  Put(Merged(fs, f, given), fs, f, given, "")
<1> DEFINE p == Place(fs, f)
<1>1. CASE p # 0
  <2>1. p \in 1 .. Len(fs) /\ fs[p].key = f.key
    BY <1>1, PlaceLaws
  <2>2. Merged(fs, f, given) = [fs EXCEPT ![p].sels = @ \o f.sels]
    BY <1>1 DEF Merged
  <2> HIDE DEF p
  <2>3. fs[p] \in Found
    BY <2>1
  <2>4. [fs[p] EXCEPT !.sels = @ \o f.sels]
          = [key |-> fs[p].key, def |-> fs[p].def, sels |-> fs[p].sels \o f.sels, defer |-> fs[p].defer]
    <3> HIDE DEF Keys, Types, Labels
    <3>1. PICK r : r = fs[p]
      OBVIOUS
    <3>2. r = [key |-> r.key, def |-> r.def, sels |-> r.sels, defer |-> r.defer]
      BY <2>3, <3>1, FoundRecord
    <3>3. \A v : [r EXCEPT !.sels = v] = [key |-> r.key, def |-> r.def, sels |-> v, defer |-> r.defer]
      BY <3>2, RecordChange
    <3> QED BY <3>1, <3>3
  <2>5. Merged(fs, f, given) = [fs EXCEPT ![p] =
          [key |-> fs[p].key, def |-> fs[p].def, sels |-> fs[p].sels \o f.sels, defer |-> fs[p].defer]]
    BY <2>2, <2>4
  <2> QED BY <2>1, <2>5 DEF Put
<1>2. CASE p = 0
  <2>1. Merged(fs, f, given) = Append(fs, [key |-> f.key, def |-> f.def, sels |-> given \o f.sels,
                                           defer |-> f.defer])
    BY <1>2 DEF Merged, Collectable
  <2>2. \A i \in 1 .. Len(fs) : ~(fs[i].key = f.key /\ Related(fs[i].def, f.def))
    BY <1>2, PlaceLaws
  <2> QED BY <2>1, <2>2 DEF Put
<1> QED BY <1>1, <1>2

LEMMA TakenPut ==
  ASSUME NEW fs \in Seq(Found), NEW f, NEW label
  PROVE  Put(Taken(fs, f, label), fs, f, f.sels, label)
<1> DEFINE p == Place(fs, f)
           m == Merged(fs, f, f.sels)
<1>1. CASE label = ""
  <2>1. Taken(fs, f, label) = m
    BY <1>1 DEF Taken
  <2> QED BY <1>1, <2>1, MergedPut
<1>2. CASE label # "" /\ p # 0
  <2>1. p \in 1 .. Len(fs) /\ fs[p].key = f.key
    <3>1. Place(fs, f) \in 0 .. Len(fs) /\ Len(fs) \in Nat
          /\ (Place(fs, f) # 0 => fs[Place(fs, f)].key = f.key)
      BY PlaceLaws
    <3>2. p # 0
      BY <1>2
    <3> QED BY <3>1, <3>2
  <2>2. Taken(fs, f, label) = [m EXCEPT ![p].defer = label] /\ m = [fs EXCEPT ![p].sels = @ \o f.sels]
    BY <1>2 DEF Taken, Merged
  <2> HIDE DEF p, m
  <2>3. fs[p] \in Found /\ DOMAIN fs = 1 .. Len(fs)
    BY <2>1
  <2>4. m[p] = [fs[p] EXCEPT !.sels = @ \o f.sels] /\ DOMAIN m = 1 .. Len(fs)
        /\ \A i \in 1 .. Len(fs) : i # p => m[i] = fs[i]
    BY <2>1, <2>2, <2>3
  <2>5. [m[p] EXCEPT !.defer = label]
          = [key |-> fs[p].key, def |-> fs[p].def, sels |-> fs[p].sels \o f.sels, defer |-> label]
    <3>1. PICK r : r = fs[p]
      OBVIOUS
    <3>2. r = [key |-> r.key, def |-> r.def, sels |-> r.sels, defer |-> r.defer]
      BY <2>3, <3>1, FoundRecord
    <3>3. \A v : [r EXCEPT !.sels = v] = [key |-> r.key, def |-> r.def, sels |-> v, defer |-> r.defer]
      BY <3>2, RecordChange
    <3>4. PICK q : q = m[p]
      OBVIOUS
    <3>5. PICK x : x = r.sels \o f.sels
      OBVIOUS
    <3>6. q = [key |-> r.key, def |-> r.def, sels |-> x, defer |-> r.defer]
      BY <2>4, <3>1, <3>3, <3>4, <3>5
    <3>7. \A v : [q EXCEPT !.defer = v] = [key |-> r.key, def |-> r.def, sels |-> x, defer |-> v]
      BY <3>6, RecordChange
    <3> QED BY <3>1, <3>4, <3>5, <3>7
  <2>6. Taken(fs, f, label) = [fs EXCEPT ![p] =
          [key |-> fs[p].key, def |-> fs[p].def, sels |-> fs[p].sels \o f.sels, defer |-> label]]
    BY <2>2, <2>3, <2>4, <2>5
  <2> QED BY <1>2, <2>1, <2>6 DEF Put
<1>3. CASE label # "" /\ p = 0
  <2>1. PICK new : new = [key |-> f.key, def |-> f.def, sels |-> f.sels \o f.sels, defer |-> f.defer]
    OBVIOUS
  <2>2. m = Append(fs, new) /\ Taken(fs, f, label) = [m EXCEPT ![Len(m)].defer = label]
    BY <1>3, <2>1 DEF Taken, Merged, Collectable
  <2>3. \A i \in 1 .. Len(fs) : ~(fs[i].key = f.key /\ Related(fs[i].def, f.def))
    BY <1>3, PlaceLaws
  <2> HIDE DEF p, m
  <2>4. Len(m) = Len(fs) + 1 /\ DOMAIN m = 1 .. Len(fs) + 1 /\ m[Len(fs) + 1] = new
        /\ Len(fs) \in Nat /\ \A i \in 1 .. Len(fs) : m[i] = fs[i]
    BY <2>2
  <2>5. PICK last : last = [key |-> f.key, def |-> f.def, sels |-> f.sels \o f.sels, defer |-> label]
    OBVIOUS
  <2>6. [new EXCEPT !.defer = label] = last
    <3>1. PICK a, b, c, d : a = f.key /\ b = f.def /\ c = f.sels \o f.sels /\ d = f.defer
      OBVIOUS
    <3>2. new = [key |-> a, def |-> b, sels |-> c, defer |-> d]
      BY <2>1, <3>1
    <3>3. \A v : [new EXCEPT !.defer = v] = [key |-> a, def |-> b, sels |-> c, defer |-> v]
      BY <3>2, RecordChange
    <3> QED BY <2>5, <3>1, <3>3
  <2>7. [m EXCEPT ![Len(m)].defer = label] = [m EXCEPT ![Len(m)] = last]
    BY <2>4, <2>6
  <2>8. [m EXCEPT ![Len(m)] = last] = Append(fs, last)
    <3>1. fs \in Seq(Found \cup {new, last})
      OBVIOUS
    <3>2. [Append(fs, new) EXCEPT ![Len(fs) + 1] = last] = Append(fs, last)
      BY <3>1, AppendChange
    <3> QED BY <2>2, <2>4, <3>2
  <2> QED BY <1>3, <2>2, <2>3, <2>5, <2>7, <2>8 DEF Put
<1> QED BY <1>1, <1>2, <1>3

LEMMA PutTyped ==
  ASSUME NEW fs \in Seq(Found), NEW f, NEW given \in Seq(Item), NEW label \in Labels, NEW t,
         Put(t, fs, f, given, label),
         f.key \in Keys, f.def \in Types,
         f.sels \in Seq(Item), f.defer \in Labels
  PROVE  t \in Seq(Found)
<1>1. ASSUME NEW a \in Keys, NEW b \in Types, NEW c \in Seq(Item), NEW d \in Labels
      PROVE  [key |-> a, def |-> b, sels |-> c, defer |-> d] \in Found
  BY DEF Found
<1>2. CASE \E p \in 1 .. Len(fs) :
             /\ fs[p].key = f.key
             /\ t = [fs EXCEPT ![p] =
                       [key |-> fs[p].key, def |-> fs[p].def, sels |-> fs[p].sels \o f.sels,
                        defer |-> IF label = "" THEN fs[p].defer ELSE label]]
  <2>1. PICK p \in 1 .. Len(fs) :
             t = [fs EXCEPT ![p] =
                    [key |-> fs[p].key, def |-> fs[p].def, sels |-> fs[p].sels \o f.sels,
                     defer |-> IF label = "" THEN fs[p].defer ELSE label]]
    BY <1>2
  <2>2. fs[p] \in Found
    OBVIOUS
  <2>3. fs[p].key \in Keys /\ fs[p].def \in Types /\ fs[p].sels \o f.sels \in Seq(Item)
        /\ fs[p].defer \in Labels
    BY <2>2, FoundRecord
  <2> HIDE DEF Found, Labels, Keys, Types
  <2>4. PICK x \in Found : t = [fs EXCEPT ![p] = x]
    BY <1>1, <2>1, <2>3
  <2> QED BY <2>4
<1>3. CASE t = Append(fs, [key |-> f.key, def |-> f.def, sels |-> given \o f.sels,
                           defer |-> IF label = "" THEN f.defer ELSE label])
  <2>1. given \o f.sels \in Seq(Item)
    OBVIOUS
  <2> HIDE DEF Found, Labels, Keys, Types
  <2>2. PICK x \in Found : t = Append(fs, x)
    BY <1>1, <1>3, <2>1
  <2> QED BY <2>2
<1> QED BY <1>2, <1>3 DEF Put
-----------------------------------------------------------------------------
LEMMA SetsOf ==
  ASSUME NEW X
  PROVE  /\ \A s \in Seq(X), t \in Seq(X) : ToSet(s \o t) = ToSet(s) \cup ToSet(t)
         /\ \A s \in Seq(X), x \in X : ToSet(Append(s, x)) = ToSet(s) \cup {x}
         /\ \A s \in Seq(X) : ToSet(s) = {s[i] : i \in 1 .. Len(s)} /\ ToSet(s) \subseteq X
<1>1. ASSUME NEW s \in Seq(X), NEW t \in Seq(X) PROVE ToSet(s \o t) = ToSet(s) \cup ToSet(t)
  <2>1. PICK u \in Seq(X) : u = s \o t
    <3>1. s \o t \in Seq(X)
      OBVIOUS
    <3> QED BY <3>1
  <2>2. PICK m \in Nat, n \in Nat :
          m = Len(s) /\ n = Len(t) /\ DOMAIN s = 1 .. m /\ DOMAIN t = 1 .. n
    OBVIOUS
  <2>3. /\ Len(u) = m + n /\ DOMAIN u = 1 .. m + n /\ \A i \in 1 .. m : u[i] = s[i]
        /\ \A i \in m + 1 .. m + n : u[i] = t[i - m]
    BY <2>1, <2>2
  <2>4. ASSUME NEW x \in ToSet(u) PROVE x \in ToSet(s) \cup ToSet(t)
    <3>1. PICK i \in 1 .. m + n : x = u[i]
      BY <2>3 DEF ToSet
    <3>2. CASE i <= m
      BY <2>2, <2>3, <3>1, <3>2 DEF ToSet
    <3>3. CASE i > m
      <4>1. i - m \in 1 .. n /\ x = t[i - m]
        BY <2>3, <3>1, <3>3
      <4> QED BY <2>2, <4>1 DEF ToSet
    <3> QED BY <3>2, <3>3
  <2>5. ASSUME NEW x \in ToSet(s) PROVE x \in ToSet(u)
    <3>1. PICK i \in 1 .. m : x = s[i]
      BY <2>2 DEF ToSet
    <3>2. i \in 1 .. m + n /\ x = u[i]
      BY <2>3, <3>1
    <3> QED BY <2>3, <3>2 DEF ToSet
  <2>6. ASSUME NEW x \in ToSet(t) PROVE x \in ToSet(u)
    <3>1. PICK i \in 1 .. n : x = t[i]
      BY <2>2 DEF ToSet
    <3>2. i + m \in m + 1 .. m + n /\ i + m \in 1 .. m + n /\ (i + m) - m = i
      OBVIOUS
    <3>3. x = u[i + m]
      BY <2>3, <3>1, <3>2
    <3> QED BY <2>3, <3>2, <3>3 DEF ToSet
  <2> QED BY <2>1, <2>4, <2>5, <2>6
<1>2. ASSUME NEW s \in Seq(X), NEW x \in X PROVE ToSet(Append(s, x)) = ToSet(s) \cup {x}
  <2>1. <<x>> \in Seq(X) /\ Append(s, x) = s \o <<x>> /\ ToSet(<<x>>) = {x}
    BY DEF ToSet
  <2> QED BY <1>1, <2>1
<1>3. ASSUME NEW s \in Seq(X) PROVE ToSet(s) = {s[i] : i \in 1 .. Len(s)} /\ ToSet(s) \subseteq X
  BY DEF ToSet
<1> QED BY <1>1, <1>2, <1>3

KeysOf(fs)    == {f.key : f \in ToSet(fs)}
SelsOf(fs, k) == UNION {ToSet(f.sels) : f \in {f \in ToSet(fs) : f.key = k}}

LEMMA KeysOfAll ==
  ASSUME NEW fs, NEW n, ToSet(fs) = {fs[i] : i \in 1 .. n}
  PROVE  KeysOf(fs) = {fs[i].key : i \in 1 .. n}
<1>1. ASSUME NEW k \in KeysOf(fs) PROVE k \in {fs[i].key : i \in 1 .. n}
  BY DEF KeysOf
<1>2. ASSUME NEW i \in 1 .. n PROVE fs[i].key \in KeysOf(fs)
  <2>1. fs[i] \in ToSet(fs)
    OBVIOUS
  <2> QED BY <2>1 DEF KeysOf
<1> QED BY <1>1, <1>2

LEMMA BeforeConcat ==
  ASSUME NEW P \in Seq(Found), NEW S \in Seq(Found), NEW k, NEW l
  PROVE  Before(P \o S, k, l) <=> Before(P, k, l) \/ (l \notin KeysOf(P) /\ Before(S, k, l))
<1>1. PICK u \in Seq(Found) : u = P \o S
  <2>1. P \o S \in Seq(Found)
    OBVIOUS
  <2> QED BY <2>1
<1>2. PICK m \in Nat, n \in Nat : m = Len(P) /\ n = Len(S)
  OBVIOUS
<1>3. /\ Len(u) = m + n /\ \A i \in 1 .. m : u[i] = P[i]
      /\ \A i \in m + 1 .. m + n : u[i] = S[i - m]
      /\ DOMAIN u = 1 .. m + n /\ DOMAIN P = 1 .. m /\ DOMAIN S = 1 .. n
  BY <1>1, <1>2
<1>4. l \notin KeysOf(P) <=> \A i \in 1 .. m : P[i].key # l
  BY <1>3 DEF KeysOf, ToSet
<1>5. ASSUME Before(P, k, l) PROVE Before(u, k, l)
  <2>1. PICK i \in 1 .. m : P[i].key = k /\ \A j \in 1 .. i : P[j].key # l
    BY <1>3, <1>5 DEF Before
  <2>2. i \in 1 .. m + n /\ \A j \in 1 .. i : j \in 1 .. m
    OBVIOUS
  <2>3. u[i].key = k /\ \A j \in 1 .. i : u[j].key # l
    BY <1>3, <2>1, <2>2
  <2> QED BY <1>3, <2>2, <2>3 DEF Before
<1>6. ASSUME l \notin KeysOf(P), Before(S, k, l) PROVE Before(u, k, l)
  <2>1. PICK i \in 1 .. n : S[i].key = k /\ \A j \in 1 .. i : S[j].key # l
    BY <1>3, <1>6 DEF Before
  <2>2. i + m \in m + 1 .. m + n /\ i + m \in 1 .. m + n /\ (i + m) - m = i
    OBVIOUS
  <2>3. ASSUME NEW j \in 1 .. i + m PROVE u[j].key # l
    <3>1. CASE j <= m
      BY <1>3, <1>4, <1>6, <3>1
    <3>2. CASE j > m
      <4>1. j \in m + 1 .. m + n /\ j - m \in 1 .. i
        BY <3>2
      <4> QED BY <1>3, <2>1, <4>1
    <3> QED BY <3>1, <3>2
  <2>4. u[i + m].key = k
    BY <1>3, <2>1, <2>2
  <2> QED BY <1>3, <2>2, <2>3, <2>4 DEF Before
<1>7. ASSUME Before(u, k, l)
      PROVE  Before(P, k, l) \/ (l \notin KeysOf(P) /\ Before(S, k, l))
  <2>1. PICK i \in 1 .. m + n : u[i].key = k /\ \A j \in 1 .. i : u[j].key # l
    BY <1>3, <1>7 DEF Before
  <2>2. CASE i <= m
    <3>1. i \in 1 .. m /\ \A j \in 1 .. i : j \in 1 .. m
      BY <2>2
    <3>2. P[i].key = k /\ \A j \in 1 .. i : P[j].key # l
      BY <1>3, <2>1, <3>1
    <3> QED BY <1>3, <3>1, <3>2 DEF Before
  <2>3. CASE i > m
    <3>1. \A j \in 1 .. m : j \in 1 .. i
      BY <2>3
    <3>2. \A j \in 1 .. m : P[j].key # l
      BY <1>3, <2>1, <3>1
    <3>3. i - m \in 1 .. n /\ i \in m + 1 .. m + n
      BY <2>3
    <3>4. ASSUME NEW j \in 1 .. i - m PROVE S[j].key # l
      <4>1. j + m \in 1 .. i /\ j + m \in m + 1 .. m + n /\ (j + m) - m = j
        BY <2>3
      <4> QED BY <1>3, <2>1, <4>1
    <3>5. S[i - m].key = k
      BY <1>3, <2>1, <3>3
    <3>6. Before(S, k, l)
      BY <1>3, <3>3, <3>4, <3>5 DEF Before
    <3> QED BY <1>4, <3>2, <3>6
  <2> QED BY <2>2, <2>3
<1> QED BY <1>1, <1>5, <1>6, <1>7

LEMMA RelatedLaw == ASSUME NEW d, NEW e PROVE OneImplements(d, e) <=> Related(d, e)
BY DEF OneImplements, Related

\* What is there for its keys and selections, whatever the types and however often.
Ordered(got, all) ==
  KeysOf(got) = KeysOf(all) /\ \A k, l : Before(got, k, l) => Before(all, k, l)
Asked(got, all) == \A g \in ToSet(got) : ToSet(g.sels) \subseteq SelsOf(all, g.key)
Kept(got, all) ==
  \A f \in ToSet(all) : \E g \in ToSet(got) : g.key = f.key /\ ToSet(f.sels) \subseteq ToSet(g.sels)
Typed(got, all) == \A g \in ToSet(got) : \E f \in ToSet(all) : f.key = g.key /\ f.def = g.def
Timed(got, all) == \A g \in ToSet(got) : \E f \in ToSet(all) : f.key = g.key /\ Likewise(f, g)

Carries(got, all) ==
  Ordered(got, all) /\ Asked(got, all) /\ Kept(got, all) /\ Typed(got, all) /\ Timed(got, all)

Gathers(fs, all) == Carries(fs, all) /\ Apart(fs)

LEMMA GathersAll ==
  ASSUME NEW fs, NEW all, Gathers(fs, all)
  PROVE  FieldsOf(fs, all)
<1>1. AllThere(fs, all)
  <2>1. Ordered(fs, all) /\ Kept(fs, all)
    BY DEF Gathers, Carries
  <2> QED BY <2>1 DEF Ordered, Kept, AllThere
<1>2. NothingElse(fs, all)
  <2>1. Asked(fs, all) /\ Typed(fs, all) /\ Timed(fs, all)
    BY DEF Gathers, Carries
  <2>2. ASSUME NEW g \in ToSet(fs)
        PROVE  /\ ToSet(g.sels) \subseteq UNION {ToSet(f.sels) : f \in {f \in ToSet(all) : f.key = g.key}}
               /\ \E f \in {f \in ToSet(all) : f.key = g.key} : f.def = g.def
               /\ \E f \in {f \in ToSet(all) : f.key = g.key} : Likewise(f, g)
    <3>1. ToSet(g.sels) \subseteq SelsOf(all, g.key)
      BY <2>1 DEF Asked
    <3>2. \E f \in ToSet(all) : f.key = g.key /\ f.def = g.def
      BY <2>1 DEF Typed
    <3>3. \E f \in ToSet(all) : f.key = g.key /\ Likewise(f, g)
      BY <2>1 DEF Timed
    <3> QED BY <3>1, <3>2, <3>3, Zenon DEF SelsOf
  <2> QED BY <2>2, Zenon DEF NothingElse
<1> QED BY <1>1, <1>2 DEF Gathers, FieldsOf

LEMMA LikewiseLaws ==
  /\ \A f : Likewise(f, f)
  /\ \A f, g, h : Likewise(f, g) /\ Likewise(g, h) => Likewise(f, h)
  /\ \A f, g : f.defer = "" /\ g.defer = "" => Likewise(f, g)
  /\ \A f, g : f.defer # "" /\ g.defer # "" => Likewise(f, g)
BY DEF Likewise

LEMMA CarriesChain ==
  ASSUME NEW s, NEW t, NEW u, Carries(s, t), Carries(t, u)
  PROVE  Carries(s, u)
<1>1. Ordered(s, u)
  BY DEF Carries, Ordered
<1>2. Asked(s, u)
  <2>1. \A g \in ToSet(s) : ToSet(g.sels) \subseteq SelsOf(t, g.key)
    BY DEF Carries, Asked
  <2>2. \A f \in ToSet(t) : ToSet(f.sels) \subseteq SelsOf(u, f.key)
    BY DEF Carries, Asked
  <2> QED BY <2>1, <2>2 DEF Asked, SelsOf
<1>3. Kept(s, u)
  BY DEF Carries, Kept
<1>4. Typed(s, u)
  BY DEF Carries, Typed
<1>5. Timed(s, u)
  BY LikewiseLaws DEF Carries, Timed
<1> QED BY <1>1, <1>2, <1>3, <1>4, <1>5 DEF Carries

LEMMA CarriesItself == ASSUME NEW s PROVE Carries(s, s)
<1>1. Asked(s, s)
  BY DEF Asked, SelsOf
<1>2. Timed(s, s)
  BY LikewiseLaws DEF Timed
<1> QED BY <1>1, <1>2 DEF Carries, Ordered, Kept, Typed

LEMMA ConcatTyped ==
  ASSUME NEW s \in Seq(Found), NEW t \in Seq(Found)
  PROVE  /\ s \o t \in Seq(Found) /\ ToSet(s \o t) = ToSet(s) \cup ToSet(t)
         /\ KeysOf(s \o t) = KeysOf(s) \cup KeysOf(t)
<1>1. s \o t \in Seq(Found) /\ ToSet(s \o t) = ToSet(s) \cup ToSet(t)
  BY SetsOf
<1> QED BY <1>1 DEF KeysOf

LEMMA CarriesConcat ==
  ASSUME NEW s \in Seq(Found), NEW t \in Seq(Found), NEW u \in Seq(Found), NEW v \in Seq(Found),
         Carries(s, t), Carries(u, v)
  PROVE  Carries(s \o u, t \o v)
<1>1. PICK a \in Seq(Found), b \in Seq(Found) : a = s \o u /\ b = t \o v
  BY ConcatTyped
<1>2. /\ ToSet(a) = ToSet(s) \cup ToSet(u) /\ KeysOf(a) = KeysOf(s) \cup KeysOf(u)
      /\ ToSet(b) = ToSet(t) \cup ToSet(v) /\ KeysOf(b) = KeysOf(t) \cup KeysOf(v)
  BY <1>1, ConcatTyped
<1>3. Ordered(a, b)
  <2>1. KeysOf(s) = KeysOf(t) /\ KeysOf(u) = KeysOf(v)
    BY DEF Carries, Ordered
  <2>2. ASSUME NEW k, NEW l, Before(a, k, l) PROVE Before(b, k, l)
    <3>1. Before(s, k, l) \/ (l \notin KeysOf(s) /\ Before(u, k, l))
      BY <1>1, <2>2, BeforeConcat
    <3>2. Before(t, k, l) \/ (l \notin KeysOf(t) /\ Before(v, k, l))
      BY <2>1, <3>1 DEF Carries, Ordered
    <3> QED BY <1>1, <3>2, BeforeConcat
  <2> QED BY <1>2, <2>1, <2>2 DEF Ordered
<1>4. Asked(a, b)
  <2>1. \A k : SelsOf(b, k) = SelsOf(t, k) \cup SelsOf(v, k)
    BY <1>2 DEF SelsOf
  <2> QED BY <1>2, <2>1 DEF Carries, Asked
<1>5. Kept(a, b)
  BY <1>2 DEF Carries, Kept
<1>6. Typed(a, b)
  BY <1>2 DEF Carries, Typed
<1>7. Timed(a, b)
  BY <1>2 DEF Carries, Timed
<1>8. Carries(a, b)
  BY <1>3, <1>4, <1>5, <1>6, <1>7 DEF Carries
<1> QED BY <1>1, <1>8

LEMMA SameKeys ==
  ASSUME NEW s \in Seq(Found), NEW t \in Seq(Found), Len(s) = Len(t),
         \A i \in 1 .. Len(s) : s[i].key = t[i].key
  PROVE  KeysOf(s) = KeysOf(t) /\ \A k, l : Before(s, k, l) <=> Before(t, k, l)
<1>1. PICK n \in Nat : n = Len(s) /\ n = Len(t) /\ DOMAIN s = 1 .. n /\ DOMAIN t = 1 .. n
  OBVIOUS
<1>2. \A i \in 1 .. n : s[i].key = t[i].key
  BY <1>1, Zenon
<1>3. KeysOf(s) = KeysOf(t)
  <2>1. KeysOf(s) = {s[i].key : i \in 1 .. n}
    <3>1. ToSet(s) = {s[i] : i \in 1 .. n}
      BY <1>1 DEF ToSet
    <3> QED BY <3>1, KeysOfAll, Zenon
  <2>2. KeysOf(t) = {t[i].key : i \in 1 .. n}
    <3>1. ToSet(t) = {t[i] : i \in 1 .. n}
      BY <1>1 DEF ToSet
    <3> QED BY <3>1, KeysOfAll, Zenon
  <2>3. ASSUME NEW i \in 1 .. n PROVE s[i].key \in KeysOf(t) /\ t[i].key \in KeysOf(s)
    BY <1>2, <2>1, <2>2, Zenon
  <2>4. KeysOf(s) \subseteq KeysOf(t)
    BY <2>1, <2>3, Zenon
  <2>5. KeysOf(t) \subseteq KeysOf(s)
    BY <2>2, <2>3, Zenon
  <2> QED BY <2>4, <2>5
<1>4. ASSUME NEW k, NEW l PROVE Before(s, k, l) <=> Before(t, k, l)
  <2>1. \A i \in 1 .. n : \A j \in 1 .. i : j \in 1 .. n
    OBVIOUS
  <2> QED BY <1>1, <1>2, <2>1 DEF Before
<1> QED BY <1>3, <1>4

\* e is f with the label, if f has none.
Stamped(e, f, label) == /\ e.key = f.key /\ e.def = f.def /\ e.sels = f.sels
                        /\ e.defer = IF f.defer = "" THEN label ELSE f.defer

LEMMA StampedLikewise ==
  ASSUME NEW d, NEW e, NEW f, NEW g, NEW label,
         Likewise(d, e), Stamped(f, d, label), Stamped(g, e, label)
  PROVE  Likewise(f, g)
<1>1. CASE d.defer = ""
  <2>1. e.defer = ""
    BY <1>1 DEF Likewise
  <2>2. f.defer = label /\ g.defer = label
    BY <1>1, <2>1, Zenon DEF Stamped
  <2> QED BY <2>2, Zenon DEF Likewise
<1>2. CASE d.defer # ""
  <2>1. e.defer # ""
    BY <1>2 DEF Likewise
  <2>2. f.defer # "" /\ g.defer # ""
    BY <1>2, <2>1, Zenon DEF Stamped
  <2> QED BY <2>2, LikewiseLaws
<1> QED BY <1>1, <1>2

\* Putting f into fs is as good as having it after fs, with the label it is given there.
LEMMA PutCarries ==
  ASSUME NEW fs \in Seq(Found), NEW f, NEW label, f.key \in Keys, f.def \in Types,
         f.sels \in Seq(Item), NEW given \in Seq(Item), ToSet(given) \subseteq ToSet(f.sels),
         NEW t \in Seq(Found), Put(t, fs, f, given, label),
         NEW e \in Found, Stamped(e, f, label)
  PROVE  Carries(t, fs \o <<e>>)
<1>0. e.key = f.key /\ e.def = f.def /\ e.sels = f.sels
  BY DEF Stamped
<1>1. PICK all \in Seq(Found) : all = fs \o <<e>>
  <2>1. fs \o <<e>> \in Seq(Found)
    OBVIOUS
  <2> QED BY <2>1
<1>2. PICK n \in Nat : n = Len(fs) /\ DOMAIN fs = 1 .. n
  OBVIOUS
<1>3. /\ ToSet(all) = ToSet(fs) \cup {e} /\ KeysOf(all) = KeysOf(fs) \cup {f.key}
      /\ ToSet(fs) = {fs[i] : i \in 1 .. n} /\ ToSet(fs) \subseteq Found
  <2>1. all = Append(fs, e)
    BY <1>1
  <2>2. ToSet(all) = ToSet(fs) \cup {e}
    BY <2>1, SetsOf
  <2>3. KeysOf(all) = KeysOf(fs) \cup {f.key}
    BY <1>0, <2>2 DEF KeysOf
  <2> QED BY <1>2, <2>2, <2>3, SetsOf
<1>4. \A k : SelsOf(all, k) = SelsOf(fs, k) \cup (IF k = f.key THEN ToSet(f.sels) ELSE {})
  BY <1>0, <1>3 DEF SelsOf
<1>5. \A g \in ToSet(fs) : ToSet(g.sels) \subseteq SelsOf(fs, g.key)
  BY DEF SelsOf
<1>6. \A i \in 1 .. n : fs[i] \in ToSet(fs)
  BY <1>3
<1>7. CASE \E p \in 1 .. n :
             /\ fs[p].key = f.key
             /\ t = [fs EXCEPT ![p] =
                       [key |-> fs[p].key, def |-> fs[p].def, sels |-> fs[p].sels \o f.sels,
                        defer |-> IF label = "" THEN fs[p].defer ELSE label]]
  <2>0. PICK p \in 1 .. n :
             /\ fs[p].key = f.key
             /\ t = [fs EXCEPT ![p] =
                       [key |-> fs[p].key, def |-> fs[p].def, sels |-> fs[p].sels \o f.sels,
                        defer |-> IF label = "" THEN fs[p].defer ELSE label]]
    BY <1>7
  <2>1. PICK r : /\ fs[p].key = f.key /\ t = [fs EXCEPT ![p] = r]
                 /\ r = [key |-> fs[p].key, def |-> fs[p].def, sels |-> fs[p].sels \o f.sels,
                         defer |-> IF label = "" THEN fs[p].defer ELSE label]
    BY <2>0
  <2>2. /\ r.key = f.key /\ r.def = fs[p].def /\ r.sels = fs[p].sels \o f.sels
        /\ r.defer = IF label = "" THEN fs[p].defer ELSE label
    BY <2>1
  <2>3. DOMAIN t = 1 .. n /\ t[p] = r /\ \A i \in 1 .. n : i # p => t[i] = fs[i]
    BY <1>2, <2>1
  <2>4. \A i \in 1 .. n : t[i].key = fs[i].key
    BY <2>1, <2>2, <2>3
  <2>5. ToSet(t) = {t[i] : i \in 1 .. n}
    BY <2>3 DEF ToSet
  <2>6. KeysOf(t) = KeysOf(fs) /\ \A k, l : Before(t, k, l) <=> Before(fs, k, l)
    <3>1. Len(t) = Len(fs)
      BY <1>2, <2>3
    <3> QED BY <1>2, <2>4, <3>1, SameKeys
  <2>7. KeysOf(t) = KeysOf(all)
    <3>1. f.key \in KeysOf(fs)
      BY <1>6, <2>1 DEF KeysOf
    <3> QED BY <1>3, <2>6, <3>1
  <2>8. \A k, l : Before(t, k, l) => Before(all, k, l)
    <3>1. <<e>> \in Seq(Found)
      OBVIOUS
    <3> QED BY <1>1, <2>6, <3>1, BeforeConcat
  <2>9. ToSet(r.sels) = ToSet(fs[p].sels) \cup ToSet(f.sels)
    <3>1. fs[p].sels \in Seq(Item)
      BY <1>3, <1>6, FoundRecord
    <3>2. ToSet(fs[p].sels \o f.sels) = ToSet(fs[p].sels) \cup ToSet(f.sels)
      BY <3>1, SetsOf
    <3> QED BY <2>2, <3>2
  <2>10. ASSUME NEW g \in ToSet(all)
         PROVE  \E h \in ToSet(t) : h.key = g.key /\ ToSet(g.sels) \subseteq ToSet(h.sels)
    <3>1. r \in ToSet(t)
      BY <2>3, <2>5
    <3>2. CASE g = e
      BY <1>0, <2>2, <2>9, <3>1, <3>2
    <3>3. CASE g \in ToSet(fs)
      <4>1. PICK i \in 1 .. n : g = fs[i]
        BY <1>3, <3>3
      <4>2. CASE i # p
        BY <2>3, <2>5, <4>1, <4>2
      <4>3. CASE i = p
        BY <2>1, <2>2, <2>9, <3>1, <4>1, <4>3
      <4> QED BY <4>2, <4>3
    <3> QED BY <1>3, <3>2, <3>3
  <2>11. ASSUME NEW g \in ToSet(t)
         PROVE  /\ ToSet(g.sels) \subseteq SelsOf(all, g.key)
                /\ \E h \in ToSet(all) : h.key = g.key /\ h.def = g.def
                /\ \E h \in ToSet(all) : h.key = g.key /\ Likewise(h, g)
    <3>1. PICK i \in 1 .. n : g = t[i]
      BY <2>5
    <3>2. CASE i # p
      <4>1. g \in ToSet(fs)
        BY <1>6, <2>3, <3>1, <3>2
      <4>2. ToSet(g.sels) \subseteq SelsOf(all, g.key)
        BY <1>4, <1>5, <4>1
      <4> QED BY <1>3, <4>1, <4>2, LikewiseLaws
    <3>3. CASE i = p
      <4>1. g = r /\ fs[p] \in ToSet(all)
        BY <1>3, <1>6, <2>3, <3>1, <3>3
      <4>2. ToSet(g.sels) \subseteq SelsOf(all, g.key)
        <5>1. ToSet(fs[p].sels) \subseteq SelsOf(fs, f.key)
          BY <1>5, <1>6, <2>1
        <5> QED BY <1>4, <2>2, <2>9, <4>1, <5>1
      <4>3. \E h \in ToSet(all) : h.key = g.key /\ h.def = g.def
        BY <2>1, <2>2, <4>1
      <4>4. CASE label = ""
        <5>1. fs[p].key = g.key /\ Likewise(fs[p], g)
          BY <2>1, <2>2, <4>1, <4>4 DEF Likewise
        <5>2. \E h \in ToSet(all) : h.key = g.key /\ Likewise(h, g)
          BY <4>1, <5>1
        <5> QED BY <4>2, <4>3, <5>2
      <4>5. CASE label # ""
        <5>1. e.key = g.key /\ e.defer # "" /\ g.defer # "" /\ e \in ToSet(all)
          <6>1. e.defer # ""
            BY <4>5, Zenon DEF Stamped
          <6>2. g.defer # ""
            BY <2>2, <4>1, <4>5, Zenon
          <6> QED BY <1>0, <1>3, <2>2, <4>1, <6>1, <6>2
        <5> QED BY <4>2, <4>3, <5>1, LikewiseLaws
      <4> QED BY <4>4, <4>5
    <3> QED BY <3>2, <3>3
  <2>12. Carries(t, all)
    BY <2>7, <2>8, <2>10, <2>11 DEF Carries, Ordered, Asked, Kept, Typed, Timed
  <2> QED BY <1>1, <2>12
<1>8. CASE t = Append(fs, [key |-> f.key, def |-> f.def, sels |-> given \o f.sels,
                           defer |-> IF label = "" THEN f.defer ELSE label])
  <2>1. PICK r : r = [key |-> f.key, def |-> f.def, sels |-> given \o f.sels,
                      defer |-> IF label = "" THEN f.defer ELSE label]
    OBVIOUS
  <2>2. /\ r.key = f.key /\ r.def = f.def /\ r.sels = given \o f.sels
        /\ r.defer = IF label = "" THEN f.defer ELSE label
    BY <2>1
  <2>3. t = Append(fs, r)
    BY <1>8, <2>1
  <2>4. Len(t) = n + 1 /\ t[n + 1] = r /\ \A i \in 1 .. n : t[i] = fs[i]
    BY <1>2, <2>3
  <2>5. Len(all) = n + 1 /\ all[n + 1] = e /\ \A i \in 1 .. n : all[i] = fs[i]
    BY <1>1, <1>2
  <2>6. r \in Found /\ ToSet(t) = ToSet(fs) \cup {r}
    <3>1. n + 1 \in 1 .. Len(t)
      BY <2>4
    <3>2. t[n + 1] \in Found
      BY <3>1
    <3>3. r \in Found
      BY <2>4, <3>2
    <3> QED BY <2>3, <3>3, SetsOf
  <2>7. KeysOf(t) = KeysOf(all) /\ \A k, l : Before(t, k, l) <=> Before(all, k, l)
    <3>1. ASSUME NEW i \in 1 .. n + 1 PROVE t[i].key = all[i].key
      <4>1. i \in 1 .. n \/ i = n + 1
        OBVIOUS
      <4> QED BY <1>0, <2>2, <2>4, <2>5, <4>1
    <3> QED BY <2>4, <2>5, <3>1, SameKeys
  <2>8. ToSet(r.sels) = ToSet(f.sels)
    <3>1. ToSet(given \o f.sels) = ToSet(given) \cup ToSet(f.sels)
      BY SetsOf
    <3> QED BY <2>2, <3>1
  <2>9. ASSUME NEW g \in ToSet(all)
        PROVE  \E h \in ToSet(t) : h.key = g.key /\ ToSet(g.sels) \subseteq ToSet(h.sels)
    BY <1>0, <1>3, <2>2, <2>6, <2>8
  <2>10. Likewise(e, r) /\ e.key = r.key /\ e.def = r.def
    <3>1. CASE label = ""
      <4>1. e.defer = f.defer /\ r.defer = f.defer
        BY <2>2, <3>1, Zenon DEF Stamped
      <4> QED BY <1>0, <2>2, <4>1 DEF Likewise
    <3>2. CASE label # ""
      <4>1. e.defer # "" /\ r.defer # ""
        BY <2>2, <3>2, Zenon DEF Stamped
      <4> QED BY <1>0, <2>2, <4>1, LikewiseLaws
    <3> QED BY <3>1, <3>2
  <2>11. ASSUME NEW g \in ToSet(t)
         PROVE  /\ ToSet(g.sels) \subseteq SelsOf(all, g.key)
                /\ \E h \in ToSet(all) : h.key = g.key /\ h.def = g.def
                /\ \E h \in ToSet(all) : h.key = g.key /\ Likewise(h, g)
    <3>1. CASE g \in ToSet(fs)
      <4>1. ToSet(g.sels) \subseteq SelsOf(all, g.key)
        BY <1>4, <1>5, <3>1
      <4> QED BY <1>3, <3>1, <4>1, LikewiseLaws
    <3>2. CASE g = r
      <4>1. ToSet(g.sels) \subseteq SelsOf(all, g.key)
        BY <1>4, <2>2, <2>8, <3>2
      <4>2. e \in ToSet(all)
        BY <1>3
      <4> QED BY <2>10, <3>2, <4>1, <4>2
    <3> QED BY <2>6, <3>1, <3>2
  <2>12. Carries(t, all)
    BY <2>7, <2>9, <2>11 DEF Carries, Ordered, Asked, Kept, Typed, Timed
  <2> QED BY <1>1, <2>12
<1> QED BY <1>2, <1>7, <1>8 DEF Put

LEMMA PutApart ==
  ASSUME NEW fs \in Seq(Found), NEW f, NEW given, NEW label, NEW t,
         Put(t, fs, f, given, label), Apart(fs)
  PROVE  Apart(t)
<1>1. PICK n \in Nat : n = Len(fs) /\ DOMAIN fs = 1 .. n
  OBVIOUS
<1>2. \A i, j \in 1 .. n : i < j /\ fs[i].key = fs[j].key => ~OneImplements(fs[i].def, fs[j].def)
  BY <1>1 DEF Apart
<1>3. CASE \E p \in 1 .. n :
             /\ fs[p].key = f.key
             /\ t = [fs EXCEPT ![p] =
                       [key |-> fs[p].key, def |-> fs[p].def, sels |-> fs[p].sels \o f.sels,
                        defer |-> IF label = "" THEN fs[p].defer ELSE label]]
  <2>0. PICK p \in 1 .. n :
             t = [fs EXCEPT ![p] =
                    [key |-> fs[p].key, def |-> fs[p].def, sels |-> fs[p].sels \o f.sels,
                     defer |-> IF label = "" THEN fs[p].defer ELSE label]]
    BY <1>3
  <2>1. PICK r : r.key = fs[p].key /\ r.def = fs[p].def /\ t = [fs EXCEPT ![p] = r]
    BY <2>0
  <2>2. DOMAIN t = 1 .. n /\ \A i \in 1 .. n : t[i].key = fs[i].key /\ t[i].def = fs[i].def
    BY <1>1, <2>1
  <2> QED BY <1>2, <2>2 DEF Apart
<1>4. CASE /\ \A i \in 1 .. n : ~(fs[i].key = f.key /\ Related(fs[i].def, f.def))
           /\ t = Append(fs, [key |-> f.key, def |-> f.def, sels |-> given \o f.sels,
                              defer |-> IF label = "" THEN f.defer ELSE label])
  <2>1. PICK r : r.key = f.key /\ r.def = f.def /\ t = Append(fs, r)
    BY <1>4
  <2>2. DOMAIN t = 1 .. n + 1 /\ t[n + 1] = r /\ \A i \in 1 .. n : t[i] = fs[i]
    BY <1>1, <2>1
  <2>3. \A i \in 1 .. n : fs[i].key = f.key => ~OneImplements(fs[i].def, f.def)
    BY <1>4, RelatedLaw
  <2>4. ASSUME NEW i \in 1 .. n + 1, NEW j \in 1 .. n + 1, i < j, t[i].key = t[j].key
        PROVE  ~OneImplements(t[i].def, t[j].def)
    <3>1. CASE j = n + 1
      <4>1. i \in 1 .. n
        BY <2>4, <3>1
      <4> QED BY <2>1, <2>2, <2>3, <2>4, <3>1, <4>1
    <3>2. CASE j # n + 1
      <4>1. i \in 1 .. n /\ j \in 1 .. n
        BY <2>4, <3>2
      <4> QED BY <1>2, <2>2, <2>4, <4>1
    <3> QED BY <3>1, <3>2
  <2> QED BY <2>2, <2>4 DEF Apart
<1> QED BY <1>1, <1>3, <1>4 DEF Put

\* The same fields but for their labels.
Alike(s, t) ==
  /\ Len(s) = Len(t)
  /\ \A i \in 1 .. Len(s) : s[i].key = t[i].key /\ s[i].def = t[i].def /\ s[i].sels = t[i].sels

LEMMA LabelledLaws ==
  ASSUME NEW s \in Seq(Found), NEW label \in Labels
  PROVE  /\ Labelled(s, label) \in Seq(Found) /\ Alike(Labelled(s, label), s)
         /\ \A i \in 1 .. Len(s) : Stamped(Labelled(s, label)[i], s[i], label)
<1>1. PICK n \in Nat : n = Len(s) /\ DOMAIN s = 1 .. n
  OBVIOUS
<1>2. PICK t : t = Labelled(s, label)
  OBVIOUS
<1>3. t = [i \in 1 .. n |-> IF s[i].defer = "" THEN [s[i] EXCEPT !.defer = label] ELSE s[i]]
  BY <1>1, <1>2 DEF Labelled
<1>4. ASSUME NEW i \in 1 .. n
      PROVE  t[i] \in Found /\ Stamped(t[i], s[i], label)
  <2>1. PICK r \in Found : r = s[i]
    <3>1. s[i] \in Found
      BY <1>1
    <3> QED BY <3>1
  <2>2. CASE r.defer = ""
    <3>1. r = [key |-> r.key, def |-> r.def, sels |-> r.sels, defer |-> r.defer]
      BY FoundRecord
    <3>2. [r EXCEPT !.defer = label] = [key |-> r.key, def |-> r.def, sels |-> r.sels, defer |-> label]
      BY <3>1, RecordChange
    <3>3. t[i] = [key |-> r.key, def |-> r.def, sels |-> r.sels, defer |-> label]
      BY <1>3, <2>1, <2>2, <3>2
    <3>4. t[i] \in Found
      <4> HIDE DEF Keys, Types, Labels
      <4> QED BY <3>3, FoundRecord DEF Found
    <3>5. PICK u : u = t[i]
      OBVIOUS
    <3>6. u.key = r.key /\ u.def = r.def /\ u.sels = r.sels /\ u.defer = label
      BY <3>3, <3>5
    <3> QED BY <2>1, <2>2, <3>4, <3>5, <3>6 DEF Stamped
  <2>3. CASE r.defer # ""
    <3>1. t[i] = r
      BY <1>3, <2>1, <2>3
    <3> QED BY <2>1, <2>3, <3>1 DEF Stamped
  <2> QED BY <2>2, <2>3
<1>5. t \in Seq(Found) /\ Len(t) = n
  <2> HIDE DEF Found
  <2>1. t = [i \in 1 .. n |-> t[i]]
    BY <1>3
  <2>2. t \in [1 .. n -> Found]
    BY <1>4, <2>1
  <2> QED BY <2>2
<1>6. Alike(t, s)
  BY <1>1, <1>4, <1>5 DEF Alike, Stamped
<1> QED BY <1>1, <1>2, <1>4, <1>5, <1>6

LEMMA AlikeLaws ==
  ASSUME NEW s \in Seq(Found), NEW t \in Seq(Found), Alike(s, t)
  PROVE  /\ KeysOf(s) = KeysOf(t) /\ \A k : SelsOf(s, k) = SelsOf(t, k)
         /\ \A k, l : Before(s, k, l) <=> Before(t, k, l)
<1>1. PICK n \in Nat : n = Len(s) /\ n = Len(t) /\ DOMAIN s = 1 .. n /\ DOMAIN t = 1 .. n
  BY DEF Alike
<1>2. \A i \in 1 .. n : s[i].key = t[i].key /\ s[i].sels = t[i].sels
  BY <1>1 DEF Alike
<1>3. KeysOf(s) = KeysOf(t) /\ \A k, l : Before(s, k, l) <=> Before(t, k, l)
  BY <1>1, <1>2, SameKeys
<1>4. ASSUME NEW k PROVE SelsOf(s, k) = SelsOf(t, k)
  <2>1. ToSet(s) = {s[i] : i \in 1 .. n} /\ ToSet(t) = {t[i] : i \in 1 .. n}
    BY <1>1 DEF ToSet
  <2>2. \A x : x \in SelsOf(s, k) <=> \E i \in 1 .. n : s[i].key = k /\ x \in ToSet(s[i].sels)
    BY <2>1 DEF SelsOf
  <2>3. \A x : x \in SelsOf(t, k) <=> \E i \in 1 .. n : t[i].key = k /\ x \in ToSet(t[i].sels)
    BY <2>1 DEF SelsOf
  <2>4. \A x : x \in SelsOf(s, k) <=> x \in SelsOf(t, k)
    BY <1>2, <2>2, <2>3
  <2> QED BY <2>4
<1> QED BY <1>3, <1>4

LEMMA LabelledCarries ==
  ASSUME NEW s \in Seq(Found), NEW t \in Seq(Found), NEW label \in Labels, Carries(s, t)
  PROVE  Carries(Labelled(s, label), Labelled(t, label))
<1>1. PICK x \in Seq(Found), y \in Seq(Found) : x = Labelled(s, label) /\ y = Labelled(t, label)
  BY LabelledLaws
<1>2. Alike(x, s) /\ \A i \in 1 .. Len(s) : Stamped(x[i], s[i], label)
  BY <1>1, LabelledLaws
<1>3. Alike(y, t) /\ \A i \in 1 .. Len(t) : Stamped(y[i], t[i], label)
  BY <1>1, LabelledLaws
<1>4. PICK n \in Nat : /\ ToSet(s) = {s[i] : i \in 1 .. n} /\ ToSet(x) = {x[i] : i \in 1 .. n}
                       /\ \A i \in 1 .. n : Stamped(x[i], s[i], label)
  <2>1. Len(x) = Len(s) /\ Len(s) \in Nat
    BY <1>2 DEF Alike
  <2>2. ToSet(s) = {s[i] : i \in 1 .. Len(s)} /\ ToSet(x) = {x[i] : i \in 1 .. Len(x)}
    BY SetsOf
  <2> QED BY <1>2, <2>1, <2>2
<1>5. PICK m \in Nat : /\ ToSet(t) = {t[i] : i \in 1 .. m} /\ ToSet(y) = {y[i] : i \in 1 .. m}
                       /\ \A i \in 1 .. m : Stamped(y[i], t[i], label)
  <2>1. Len(y) = Len(t) /\ Len(t) \in Nat
    BY <1>3 DEF Alike
  <2>2. ToSet(t) = {t[i] : i \in 1 .. Len(t)} /\ ToSet(y) = {y[i] : i \in 1 .. Len(y)}
    BY SetsOf
  <2> QED BY <1>3, <2>1, <2>2
<1>6. \A e \in ToSet(s) : \E g \in ToSet(x) : Stamped(g, e, label)
  BY <1>4
<1>7. \A g \in ToSet(x) : \E e \in ToSet(s) : Stamped(g, e, label)
  BY <1>4
<1>8. \A e \in ToSet(t) : \E f \in ToSet(y) : Stamped(f, e, label)
  BY <1>5
<1>9. \A f \in ToSet(y) : \E e \in ToSet(t) : Stamped(f, e, label)
  BY <1>5
<1>10. Ordered(x, y)
  <2>1. Ordered(s, t)
    BY DEF Carries
  <2> QED BY <1>2, <1>3, <2>1, AlikeLaws DEF Ordered
<1>11. Kept(x, y)
  <2> SUFFICES ASSUME NEW f \in ToSet(y)
               PROVE  \E g \in ToSet(x) : g.key = f.key /\ ToSet(f.sels) \subseteq ToSet(g.sels)
    BY DEF Kept
  <2>1. PICK d \in ToSet(t) : d.key = f.key /\ d.sels = f.sels
    BY <1>9 DEF Stamped
  <2>2. PICK e \in ToSet(s) : e.key = d.key /\ ToSet(d.sels) \subseteq ToSet(e.sels)
    BY DEF Carries, Kept
  <2>3. PICK g \in ToSet(x) : g.key = e.key /\ g.sels = e.sels
    BY <1>6 DEF Stamped
  <2> QED BY <2>1, <2>2, <2>3
<1>12. ASSUME NEW g \in ToSet(x)
       PROVE  /\ ToSet(g.sels) \subseteq SelsOf(y, g.key)
              /\ \E f \in ToSet(y) : f.key = g.key /\ f.def = g.def
              /\ \E f \in ToSet(y) : f.key = g.key /\ Likewise(f, g)
  <2>1. PICK e \in ToSet(s) : Stamped(g, e, label)
    BY <1>7
  <2>2. g.key = e.key /\ g.def = e.def /\ g.sels = e.sels
    BY <2>1 DEF Stamped
  <2>3. ToSet(g.sels) \subseteq SelsOf(y, g.key)
    <3>1. ToSet(e.sels) \subseteq SelsOf(t, e.key)
      BY DEF Carries, Asked
    <3>2. SelsOf(y, e.key) = SelsOf(t, e.key)
      BY <1>3, AlikeLaws
    <3> QED BY <2>2, <3>1, <3>2
  <2>4. \E f \in ToSet(y) : f.key = g.key /\ f.def = g.def
    <3>1. PICK d \in ToSet(t) : d.key = e.key /\ d.def = e.def
      BY DEF Carries, Typed
    <3>2. PICK f \in ToSet(y) : f.key = d.key /\ f.def = d.def
      BY <1>8 DEF Stamped
    <3> QED BY <2>2, <3>1, <3>2
  <2>5. \E f \in ToSet(y) : f.key = g.key /\ Likewise(f, g)
    <3>1. PICK d \in ToSet(t) : d.key = e.key /\ Likewise(d, e)
      BY DEF Carries, Timed
    <3>2. PICK f \in ToSet(y) : Stamped(f, d, label)
      BY <1>8
    <3>3. f.key = g.key
      BY <2>2, <3>1, <3>2 DEF Stamped
    <3>4. Likewise(f, g)
      BY <2>1, <3>1, <3>2, StampedLikewise
    <3> QED BY <3>3, <3>4
  <2> QED BY <2>3, <2>4, <2>5
<1>13. Asked(x, y) /\ Typed(x, y) /\ Timed(x, y)
  BY <1>12 DEF Asked, Typed, Timed
<1>14. Carries(x, y)
  BY <1>10, <1>11, <1>13 DEF Carries
<1> QED BY <1>1, <1>14

LEMMA MergedRight ==
  ASSUME NEW fs \in Seq(Found), NEW sel \in Item, sel.kind = "field", sel.sels \in Seq(Item)
  PROVE  /\ Collectable(sel, <<>>) \in Found /\ Merged(fs, sel, <<>>) \in Seq(Found)
         /\ \A old \in Seq(Found) : Gathers(fs, old) =>
              Gathers(Merged(fs, sel, <<>>), old \o <<Collectable(sel, <<>>)>>)
<1>1. sel.key \in Keys /\ sel.def \in Types /\ sel.defer = "" /\ sel.defer \in Labels
      /\ <<>> \in Seq(Item) /\ "" \in Labels /\ ToSet(<<>>) \subseteq ToSet(sel.sels)
  <2>1. sel.defer = ""
    BY DocumentAssumption
  <2>2. sel.key \in Keys /\ sel.def \in Types /\ "" \in Labels
    BY DEF Keys, Types, Labels
  <2>3. <<>> \in Seq(Item) /\ ToSet(<<>>) = {}
    BY DEF ToSet
  <2> QED BY <2>1, <2>2, <2>3
<1>2. PICK e : e = Collectable(sel, <<>>)
  OBVIOUS
<1>3. e = [key |-> sel.key, def |-> sel.def, sels |-> sel.sels, defer |-> ""]
  <2>1. <<>> \o sel.sels = sel.sels
    OBVIOUS
  <2> QED BY <1>1, <1>2, <2>1 DEF Collectable
<1>4. e \in Found
  <2> HIDE DEF Keys, Types, Labels
  <2> QED BY <1>1, <1>3 DEF Found
<1>5. PICK t : t = Merged(fs, sel, <<>>)
  OBVIOUS
<1>6. Put(t, fs, sel, <<>>, "")
  BY <1>5, MergedPut
<1>7. t \in Seq(Found)
  BY <1>1, <1>6, PutTyped
<1>8. PICK new \in Seq(Found) : new = <<e>>
  <2>1. <<e>> \in Seq(Found)
    BY <1>4
  <2> QED BY <2>1
<1>9. Stamped(e, sel, "")
  BY <1>1, <1>3 DEF Stamped
<1>10. Carries(t, fs \o new)
  BY <1>1, <1>4, <1>6, <1>7, <1>8, <1>9, PutCarries
<1>11. ASSUME NEW old \in Seq(Found), Gathers(fs, old) PROVE Gathers(t, old \o new)
  <2>1. Carries(fs \o new, old \o new)
    BY <1>11, CarriesItself, CarriesConcat DEF Gathers
  <2>2. Carries(t, old \o new)
    BY <1>10, <2>1, CarriesChain
  <2>3. Apart(t)
    BY <1>6, <1>11, PutApart DEF Gathers
  <2> QED BY <2>2, <2>3 DEF Gathers
<1> QED BY <1>2, <1>4, <1>5, <1>7, <1>8, <1>11

\* The fields that are there after each of the new ones has been taken.
Takings(taken, fs, new, label) ==
  /\ taken \in [0 .. Len(new) -> Seq(Found)] /\ taken[0] = fs
  /\ \A i \in 1 .. Len(new) : taken[i] = Taken(taken[i - 1], new[i], label)

LEMMA TakenTyped ==
  ASSUME NEW fs \in Seq(Found), NEW f \in Found, NEW label \in Labels
  PROVE  Taken(fs, f, label) \in Seq(Found)
<1>1. Put(Taken(fs, f, label), fs, f, f.sels, label)
  BY TakenPut
<1>2. f.key \in Keys /\ f.def \in Types /\ f.sels \in Seq(Item) /\ f.defer \in Labels
  BY FoundRecord
<1> QED BY <1>1, <1>2, PutTyped

LEMMA TakenSteps ==
  ASSUME NEW fs \in Seq(Found), NEW new \in Seq(Found), NEW label \in Labels
  PROVE  \E taken : Takings(taken, fs, new, label) /\ TakenAll(fs, new, label) = taken[Len(new)]
<1> DEFINE n == Len(new)
           X == Seq(Found)
           E(g) == [i \in 0 .. n |-> IF i = 0 THEN fs ELSE Taken(g[i - 1], new[i], label)]
           step == [i \in 1 .. n |-> [a \in X |-> Taken(a, new[i], label)]]
           g == CHOOSE g : g = E(g)
<1>1. n \in Nat /\ DOMAIN new = 1 .. n /\ \A i \in 1 .. n : new[i] \in Found
  OBVIOUS
<1>2. TakenAll(fs, new, label) = g[n]
  BY DEF TakenAll
<1> HIDE DEF n
<1>3. \A i \in 1 .. n : \A a \in X : Taken(a, new[i], label) \in X
  BY <1>1, TakenTyped
<1> HIDE DEF X
<1>4. /\ step \in [1 .. n -> [X -> X]]
      /\ \A i \in 1 .. n : \A a \in X : step[i][a] = Taken(a, new[i], label)
  BY <1>3
<1>5. fs \in X
  BY DEF X
<1> HIDE DEF step
<1>6. PICK f : Solves(f, X, fs, step, n)
  BY <1>1, <1>4, <1>5, Solvable
<1>7. f \in [0 .. n -> X] /\ f[0] = fs /\ \A i \in 1 .. n : f[i] = Taken(f[i - 1], new[i], label)
  <2>1. f \in [0 .. n -> X] /\ f[0] = fs /\ \A i \in 1 .. n : f[i] = step[i][f[i - 1]]
    BY <1>6 DEF Solves
  <2>2. \A i \in 1 .. n : i - 1 \in 0 .. n
    BY <1>1
  <2>3. \A i \in 1 .. n : f[i - 1] \in X
    BY <2>1, <2>2
  <2> QED BY <1>4, <2>1, <2>3
<1>8. f = E(f)
  <2>1. ASSUME NEW i \in 0 .. n PROVE f[i] = IF i = 0 THEN fs ELSE Taken(f[i - 1], new[i], label)
    BY <1>1, <1>7
  <2> QED BY <1>7, <2>1
<1>9. g = E(g)
  <2> HIDE DEF E
  <2> QED BY <1>8
<1> HIDE DEF g
<1>10. g[0] = fs /\ \A i \in 1 .. n : g[i] = Taken(g[i - 1], new[i], label)
  <2>1. \A i \in 0 .. n : g[i] = IF i = 0 THEN fs ELSE Taken(g[i - 1], new[i], label)
    BY <1>9
  <2>2. 0 \in 0 .. n /\ \A i \in 1 .. n : i \in 0 .. n /\ i # 0
    BY <1>1
  <2> QED BY <2>1, <2>2
<1>11. Solves(g, X, fs, step, n)
  <2>1. g = [i \in 0 .. n |-> g[i]]
    BY <1>9
  <2>2. \A i \in 1 .. n : g[i - 1] \in X => g[i] = step[i][g[i - 1]]
    BY <1>4, <1>10
  <2>3. Recurses(g, X, fs, step, n)
    BY <1>10, <2>1, <2>2 DEF Recurses
  <2> HIDE DEF E
  <2> QED BY <1>1, <1>4, <1>5, <2>3, Defined
<1>12. g \in [0 .. n -> X]
  BY <1>11 DEF Solves
<1>13. Takings(g, fs, new, label)
  BY <1>10, <1>12 DEF Takings, n, X
<1> QED BY <1>2, <1>13 DEF n

LEMMA TakenAllTyped ==
  ASSUME NEW fs \in Seq(Found), NEW new \in Seq(Found), NEW label \in Labels
  PROVE  TakenAll(fs, new, label) \in Seq(Found)
<1>1. PICK taken : Takings(taken, fs, new, label) /\ TakenAll(fs, new, label) = taken[Len(new)]
  BY TakenSteps
<1>2. Len(new) \in 0 .. Len(new)
  OBVIOUS
<1> HIDE DEF Found
<1> QED BY <1>1, <1>2 DEF Takings

Regroups(s, t, u) == (s \o t) \o u = s \o (t \o u)

LEMMA Regroup ==
  ASSUME NEW s \in Seq(Found), NEW t \in Seq(Found), NEW u \in Seq(Found)
  PROVE  Regroups(s, t, u)
BY ConcatAssociative DEF Regroups

LEMMA NothingMore ==
  ASSUME NEW all \in Seq(Found)
  PROVE  all \o <<>> = all
OBVIOUS

LEMMA TakenAllRight ==
  ASSUME NEW fs \in Seq(Found), NEW sub \in Seq(Found), NEW label \in Labels,
         NEW old \in Seq(Found), NEW below \in Seq(Found), Gathers(fs, old), Gathers(sub, below)
  PROVE  Gathers(TakenAll(fs, sub, label), old \o Labelled(below, label))
<1>1. PICK new \in Seq(Found), low \in Seq(Found) :
        new = Labelled(sub, label) /\ low = Labelled(below, label)
  BY LabelledLaws
<1>2. PICK taken : Takings(taken, fs, sub, label) /\ TakenAll(fs, sub, label) = taken[Len(sub)]
  BY TakenSteps
<1>3. PICK n \in Nat : n = Len(sub) /\ \A i \in 1 .. n : sub[i] \in Found
  OBVIOUS
<1>4. /\ taken \in [0 .. n -> Seq(Found)] /\ taken[0] = fs
      /\ \A i \in 1 .. n : taken[i] = Taken(taken[i - 1], sub[i], label)
  BY <1>2, <1>3 DEF Takings
<1>5. n = Len(new) /\ \A i \in 1 .. n : new[i] \in Found
  <2>1. Len(new) = Len(sub)
    BY <1>1, LabelledLaws DEF Alike
  <2> QED BY <1>3, <2>1
<1>6. \A i \in 1 .. n : Stamped(new[i], sub[i], label)
  BY <1>1, <1>3, LabelledLaws
<1> DEFINE Done == {j \in Nat : j <= n =>
                      /\ Apart(taken[j])
                      /\ \E u \in Seq(Found) : /\ Len(u) = j /\ \A i \in 1 .. j : u[i] = new[i]
                                               /\ Carries(taken[j], fs \o u)}
<1>7. 0 \in Done
  <2>1. PICK u \in Seq(Found) : u = <<>>
    <3>1. <<>> \in Seq(Found)
      OBVIOUS
    <3> QED BY <3>1
  <2>2. Len(u) = 0 /\ (\A i \in 1 .. 0 : u[i] = new[i]) /\ Carries(taken[0], fs \o u)
    <3>1. fs \o u = fs
      BY <2>1, NothingMore
    <3>2. Len(u) = 0 /\ 1 .. 0 = {}
      BY <2>1
    <3> QED BY <1>4, <3>1, <3>2, CarriesItself
  <2>3. Apart(taken[0])
    BY <1>4 DEF Gathers
  <2> QED BY <2>1, <2>2, <2>3
<1>8. ASSUME NEW j \in Nat, j \in Done PROVE j + 1 \in Done
  <2> SUFFICES ASSUME j + 1 <= n
               PROVE  /\ Apart(taken[j + 1])
                      /\ \E u \in Seq(Found) : /\ Len(u) = j + 1
                                               /\ \A i \in 1 .. j + 1 : u[i] = new[i]
                                               /\ Carries(taken[j + 1], fs \o u)
    OBVIOUS
  <2>1. j + 1 \in 1 .. n /\ (j + 1) - 1 = j /\ j \in 0 .. n /\ j + 1 \in 0 .. n /\ j <= n
    OBVIOUS
  <2>2. PICK u \in Seq(Found) : /\ Len(u) = j /\ \A i \in 1 .. j : u[i] = new[i]
                                /\ Carries(taken[j], fs \o u)
    BY <1>8, <2>1
  <2>3. PICK f \in Found, e \in Found : f = sub[j + 1] /\ e = new[j + 1]
    BY <1>3, <1>5, <2>1
  <2>4. f.key \in Keys /\ f.def \in Types /\ f.sels \in Seq(Item) /\ f.defer \in Labels
    BY FoundRecord
  <2>5. PICK s \in Seq(Found), t \in Seq(Found) : s = taken[j] /\ t = taken[j + 1]
    BY <1>4, <2>1
  <2>6. Put(t, s, f, f.sels, label)
    BY <1>4, <2>1, <2>3, <2>5, TakenPut
  <2>7. Stamped(e, f, label)
    BY <1>6, <2>1, <2>3
  <2>8. Carries(t, s \o <<e>>)
    BY <2>4, <2>6, <2>7, PutCarries
  <2>9. PICK one \in Seq(Found), v \in Seq(Found), w \in Seq(Found) :
          one = <<e>> /\ v = u \o one /\ w = fs \o u
    <3>1. <<e>> \in Seq(Found)
      OBVIOUS
    <3> QED BY <3>1, ConcatTyped
  <2>10. Carries(t, w \o one)
    <3>1. Carries(s \o one, w \o one)
      BY <2>2, <2>5, <2>9, CarriesItself, CarriesConcat
    <3> QED BY <2>8, <2>9, <3>1, CarriesChain
  <2>11. w \o one = fs \o v
    <3>1. Regroups(fs, u, one)
      BY Regroup
    <3> QED BY <2>9, <3>1 DEF Regroups
  <2>12. Len(v) = j + 1 /\ \A i \in 1 .. j + 1 : v[i] = new[i]
    <3>1. v = Append(u, e)
      BY <2>9
    <3>2. Len(v) = j + 1 /\ v[j + 1] = e /\ \A i \in 1 .. j : v[i] = u[i]
      BY <2>2, <3>1
    <3>3. \A i \in 1 .. j + 1 : i \in 1 .. j \/ i = j + 1
      OBVIOUS
    <3> QED BY <2>2, <2>3, <3>2, <3>3
  <2>13. Apart(t)
    <3>1. Apart(s)
      BY <1>8, <2>1, <2>5
    <3> QED BY <2>6, <3>1, PutApart
  <2> QED BY <2>5, <2>10, <2>11, <2>12, <2>13
<1>9. n \in Done
  <2> HIDE DEF Done
  <2> QED BY <1>7, <1>8, Induction
<1>10. PICK got \in Seq(Found) : got = taken[n]
  <2>1. n \in 0 .. n
    OBVIOUS
  <2> QED BY <1>4, <2>1
<1>11. Apart(got) /\ Carries(got, fs \o new)
  <2>1. n <= n
    OBVIOUS
  <2>2. PICK u \in Seq(Found) : /\ Len(u) = n /\ \A i \in 1 .. n : u[i] = new[i]
                                /\ Carries(got, fs \o u)
    BY <1>9, <1>10, <2>1
  <2>3. u = new
    BY <1>5, <2>2, SeqEqual
  <2> QED BY <1>9, <1>10, <2>1, <2>2, <2>3
<1>12. Carries(fs \o new, old \o low)
  <2>1. Carries(new, low)
    BY <1>1, LabelledCarries DEF Gathers
  <2> QED BY <2>1, CarriesConcat DEF Gathers
<1>13. Gathers(got, old \o low)
  BY <1>11, <1>12, CarriesChain DEF Gathers
<1> QED BY <1>1, <1>2, <1>3, <1>10, <1>13
-----------------------------------------------------------------------------
\* The selections of f are asked for by fs, for f's response key.
Present(f, fs) == \E e \in ToSet(fs) : e.key = f.key /\ e.sels = f.sels

\* some asks for all that all does, and the order of its keys is an order of all's.
Serves(some, all) ==
  /\ \A f \in ToSet(all) : Present(f, some)
  /\ \A k, l : Before(some, k, l) => Before(all, k, l)

LEMMA ServesChain ==
  ASSUME NEW s, NEW t, NEW u, Serves(s, t), Serves(t, u)
  PROVE  Serves(s, u)
BY DEF Serves, Present

LEMMA ServesLaws ==
  ASSUME NEW s \in Seq(Found), NEW t \in Seq(Found)
  PROVE  /\ Serves(s, s)
         /\ \A u \in Seq(Found) : Serves(s, t) => Serves(s \o u, t \o u)
         /\ (\A f \in ToSet(t) : Present(f, s)) => Serves(s, s \o t)
<1>1. Serves(s, s)
  BY DEF Serves, Present
<1>3. ASSUME NEW u \in Seq(Found), Serves(s, t) PROVE Serves(s \o u, t \o u)
  <2>1. \A f \in ToSet(t \o u) : Present(f, s \o u)
    BY <1>3, ConcatTyped DEF Serves, Present
  <2>2. \A l : l \notin KeysOf(s) => l \notin KeysOf(t)
    BY <1>3 DEF Serves, Present, KeysOf
  <2>3. \A k, l : Before(s \o u, k, l) => Before(t \o u, k, l)
    BY <1>3, <2>2, BeforeConcat DEF Serves
  <2> QED BY <2>1, <2>3 DEF Serves
<1>4. ASSUME \A f \in ToSet(t) : Present(f, s) PROVE Serves(s, s \o t)
  <2>1. \A f \in ToSet(s \o t) : Present(f, s)
    BY <1>4, ConcatTyped DEF Present
  <2>2. \A k, l : Before(s, k, l) => Before(s \o t, k, l)
    BY BeforeConcat
  <2> QED BY <2>1, <2>2 DEF Serves
<1> QED BY <1>1, <1>3, <1>4

LEMMA AlikePresent ==
  ASSUME NEW s \in Seq(Found), NEW t \in Seq(Found), Alike(s, t)
  PROVE  /\ \A f : Present(f, s) <=> Present(f, t)
         /\ \A fs : (\A f \in ToSet(s) : Present(f, fs)) <=> (\A f \in ToSet(t) : Present(f, fs))
<1>1. PICK n \in Nat : n = Len(s) /\ n = Len(t)
  BY DEF Alike
<1>2. \A i \in 1 .. n : s[i].key = t[i].key /\ s[i].sels = t[i].sels
  BY <1>1 DEF Alike
<1>3. ToSet(s) = {s[i] : i \in 1 .. n} /\ ToSet(t) = {t[i] : i \in 1 .. n}
  BY <1>1, SetsOf
<1>4. ASSUME NEW f PROVE Present(f, s) <=> Present(f, t)
  BY <1>2, <1>3 DEF Present
<1>5. ASSUME NEW fs PROVE (\A f \in ToSet(s) : Present(f, fs)) <=> (\A f \in ToSet(t) : Present(f, fs))
  BY <1>2, <1>3 DEF Present
<1> QED BY <1>4, <1>5

LEMMA ServesAlike ==
  ASSUME NEW p \in Seq(Found), NEW s \in Seq(Found), NEW t \in Seq(Found),
         NEW x \in Seq(Found), NEW y \in Seq(Found), Alike(x, s), Alike(y, t),
         Serves(p \o s, p \o t)
  PROVE  Serves(p \o x, p \o y)
<1>1. ASSUME NEW f \in ToSet(p \o y) PROVE Present(f, p \o x)
  <2>1. f \in ToSet(p) \/ f \in ToSet(y)
    BY ConcatTyped
  <2>2. CASE f \in ToSet(p)
    BY <2>2, ConcatTyped DEF Present
  <2>3. CASE f \in ToSet(y)
    <3>1. \A g \in ToSet(t) : Present(g, p \o s)
      BY ConcatTyped DEF Serves
    <3>2. Present(f, p \o s)
      BY <2>3, <3>1, AlikePresent
    <3>3. Present(f, p) \/ Present(f, s)
      BY <3>2, ConcatTyped DEF Present
    <3>4. Present(f, p) \/ Present(f, x)
      BY <3>3, AlikePresent
    <3> QED BY <3>4, ConcatTyped DEF Present
  <2> QED BY <2>1, <2>2, <2>3
<1>2. ASSUME NEW k, NEW l, Before(p \o x, k, l) PROVE Before(p \o y, k, l)
  <2>1. Before(x, k, l) <=> Before(s, k, l)
    BY AlikeLaws
  <2>2. Before(y, k, l) <=> Before(t, k, l)
    BY AlikeLaws
  <2>3. Before(p \o s, k, l)
    BY <1>2, <2>1, BeforeConcat
  <2>4. Before(p \o t, k, l)
    BY <2>3 DEF Serves
  <2> QED BY <2>2, <2>4, BeforeConcat
<1> QED BY <1>1, <1>2 DEF Serves

LEMMA LabelledWithin ==
  ASSUME NEW s \in Seq(Found), NEW t \in Seq(Found), NEW label, ToSet(s) \subseteq ToSet(t)
  PROVE  ToSet(Labelled(s, label)) \subseteq ToSet(Labelled(t, label))
<1> DEFINE L(f) == IF f.defer = "" THEN [f EXCEPT !.defer = label] ELSE f
<1>1. ToSet(Labelled(s, label)) = {L(f) : f \in ToSet(s)}
  BY DEF Labelled, ToSet
<1>2. ToSet(Labelled(t, label)) = {L(f) : f \in ToSet(t)}
  BY DEF Labelled, ToSet
<1> HIDE DEF L
<1> QED BY <1>1, <1>2

-----------------------------------------------------------------------------
Names     == DOMAIN Fragments
Gathered  == [fields : Seq(Found), visited : SUBSET Names]

\* fs asks for all that those fragments do that have been seen and nest less deep than depth.  (The
\* others may have been seen because they are being collected.)
Covers(fs, visited, depth, flat, satisfies) ==
  \A n \in visited :
    Depth[Fragments[n].sels] < depth /\ Matches(Fragments[n].cond, satisfies) =>
      \A f \in ToSet(flat[Fragments[n].sels]) : Present(f, fs)

\* What is collected in got are the fields of some, the part of all that is left when a fragment is
\* skipped that has been seen: after any fields that cover those seen at the start, some serves all.
Explains(some, got, all, depth, visited, flat, satisfies) ==
  /\ ToSet(some) \subseteq ToSet(all)
  /\ Gathers(got.fields, some)
  /\ visited \subseteq got.visited /\ \A n \in got.visited \ visited : Depth[Fragments[n].sels] < depth
  /\ \A p \in Seq(Found) : Covers(p, visited, depth, flat, satisfies) =>
       Serves(p \o some, p \o all) /\ Covers(p \o some, got.visited, depth, flat, satisfies)

\* A selection and what is below it, when that has been collected and flattened.
Step(sel, depth, inner, flat, satisfies) ==
  /\ sel \in Item /\ Body(sel) \in SelectionSets /\ Depth[Body(sel)] < depth
  /\ flat[Body(sel)] \in Seq(Found) /\ inner[Body(sel)] \in [SUBSET Names -> Gathered]
  /\ \A seen \in SUBSET Names : \E some \in Seq(Found) :
       Explains(some, inner[Body(sel)][seen], flat[Body(sel)], Depth[Body(sel)], seen, flat, satisfies)

LEMMA FragmentsLaws ==
  /\ \A n \in Names : Fragments[n].sels \in SelectionSets /\ Depth[Fragments[n].sels] \in Nat
  /\ \A sels \in SelectionSets : Depth[sels] \in Nat
  /\ \A sel \in Item : /\ sel.kind = "field" => sel.defer = ""
                       /\ sel.defer \in Labels
                       /\ sel.kind = "spread" => /\ sel.name \in Names
                                                 /\ Body(sel) = Fragments[sel.name].sels
                                                 /\ Cond(sel) = Fragments[sel.name].cond
<1>1. \A n \in Names : Fragments[n].sels \in SelectionSets
  BY DocumentAssumption DEF Names
<1>2. \A sels \in SelectionSets : Depth[sels] \in Nat
  BY DocumentAssumption
<1>3. ASSUME NEW sel \in Item
      PROVE  /\ sel.kind = "field" => sel.defer = ""
             /\ sel.kind = "spread" => /\ sel.name \in Names
                                       /\ Body(sel) = Fragments[sel.name].sels
                                       /\ Cond(sel) = Fragments[sel.name].cond
  BY DocumentAssumption DEF Names, Body, Cond
<1>4. \A sel \in Item : sel.defer \in Labels
  BY DEF Labels
<1> QED BY <1>1, <1>2, <1>3, <1>4

\* The fragments seen when sel is visited.
SeenWith(acc, sel) == acc.visited \cup (IF sel.kind = "spread" THEN {sel.name} ELSE {})

LEMMA SeenLaws ==
  ASSUME NEW acc \in Gathered, NEW sel \in Item
  PROVE  /\ SeenWith(acc, sel) \in SUBSET Names /\ acc.visited \subseteq SeenWith(acc, sel)
         /\ \A n \in SeenWith(acc, sel) \ acc.visited :
              Fragments[n].sels = Body(sel) /\ Fragments[n].cond = Cond(sel)
<1>1. acc.visited \in SUBSET Names
  BY DEF Gathered
<1>2. CASE sel.kind = "spread"
  <2>1. /\ sel.name \in Names /\ Fragments[sel.name].sels = Body(sel)
        /\ Fragments[sel.name].cond = Cond(sel)
    BY <1>2, FragmentsLaws
  <2>2. SeenWith(acc, sel) = acc.visited \cup {sel.name}
    BY <1>2 DEF SeenWith
  <2> HIDE DEF Names
  <2> QED BY <1>1, <2>1, <2>2
<1>3. CASE sel.kind # "spread"
  <2>1. SeenWith(acc, sel) = acc.visited
    BY <1>3 DEF SeenWith
  <2> QED BY <1>1, <2>1
<1> QED BY <1>2, <1>3

LEMMA CoversLaws ==
  ASSUME NEW p \in Seq(Found), NEW q \in Seq(Found), ToSet(p) \subseteq ToSet(q),
         NEW visited, NEW depth, NEW flat, NEW satisfies, Covers(p, visited, depth, flat, satisfies)
  PROVE  Covers(q, visited, depth, flat, satisfies)
BY DEF Covers, Present

LEMMA ServesRegrouped ==
  ASSUME NEW p \in Seq(Found), NEW s \in Seq(Found), NEW t \in Seq(Found), NEW u \in Seq(Found),
         Serves((p \o s) \o t, (p \o s) \o u)
  PROVE  Serves(p \o (s \o t), p \o (s \o u))
<1>1. Regroups(p, s, t) /\ Regroups(p, s, u)
  BY Regroup
<1> QED BY <1>1 DEF Regroups

LEMMA Appended ==
  ASSUME NEW p \in Seq(Found), NEW some \in Seq(Found), NEW all \in Seq(Found), NEW u \in Seq(Found),
         NEW visited, NEW depth, NEW flat, NEW satisfies,
         Serves(p \o some, p \o all), Covers(p \o some, visited, depth, flat, satisfies)
  PROVE  /\ Serves(p \o (some \o u), p \o (all \o u))
         /\ Covers(p \o (some \o u), visited, depth, flat, satisfies)
<1>1. PICK a \in Seq(Found), b \in Seq(Found) : a = p \o some /\ b = p \o all
  BY ConcatTyped
<1>2. p \o (some \o u) = a \o u /\ p \o (all \o u) = b \o u
  <2>1. Regroups(p, some, u) /\ Regroups(p, all, u)
    BY Regroup
  <2> QED BY <1>1, <2>1 DEF Regroups
<1>3. Serves(a \o u, b \o u)
  BY <1>1, ServesLaws
<1>4. a \o u \in Seq(Found) /\ ToSet(a) \subseteq ToSet(a \o u)
  BY ConcatTyped
<1>5. Covers(a \o u, visited, depth, flat, satisfies)
  BY <1>1, <1>4, CoversLaws
<1> QED BY <1>2, <1>3, <1>5

LEMMA VisitField ==
  ASSUME NEW satisfies, NEW inner, NEW flat, NEW depth \in Nat, NEW visited \in SUBSET Names,
         NEW acc \in Gathered, NEW all \in Seq(Found), NEW some \in Seq(Found),
         Explains(some, acc, all, depth, visited, flat, satisfies),
         NEW sel, Step(sel, depth, inner, flat, satisfies), sel.kind = "field", sel.on,
         NEW new, new = <<Collectable(sel, <<>>)>>
  PROVE  /\ Visit(inner, acc, sel, satisfies) \in Gathered /\ new \in Seq(Found)
         /\ \E x \in Seq(Found) :
              Explains(x, Visit(inner, acc, sel, satisfies), all \o new,
                       depth, visited, flat, satisfies)
<1>1. acc.fields \in Seq(Found) /\ acc.visited \in SUBSET Names
  BY DEF Gathered
<1>2. sel \in Item /\ sel.sels \in Seq(Item)
  <2>1. sel \in Item /\ Body(sel) \in SelectionSets /\ Body(sel) = sel.sels
    BY DEF Step, Body
  <2> QED BY <2>1, Document
<1>3. new \in Seq(Found)
  <2>1. Collectable(sel, <<>>) \in Found
    BY <1>1, <1>2, MergedRight
  <2> QED BY <2>1
<1>4. PICK got : got = Visit(inner, acc, sel, satisfies)
  OBVIOUS
<1>5. got = [acc EXCEPT !.fields = Merged(acc.fields, sel, <<>>)]
  BY <1>4 DEF Visit
<1>6. PICK fs \in Seq(Found) : fs = Merged(acc.fields, sel, <<>>)
  BY <1>1, <1>2, MergedRight
<1>7. got \in Gathered /\ got.fields = fs /\ got.visited = acc.visited
  <2>1. acc \in [fields : Seq(Found), visited : SUBSET Names]
    BY DEF Gathered
  <2> HIDE DEF Found, Names
  <2>2. got = [acc EXCEPT !.fields = fs]
    BY <1>5, <1>6
  <2> QED BY <2>1, <2>2 DEF Gathered
<1>8. PICK x \in Seq(Found) : x = some \o new
  BY <1>3, ConcatTyped
<1>9. ToSet(x) = ToSet(some) \cup ToSet(new) /\ ToSet(all \o new) = ToSet(all) \cup ToSet(new)
  BY <1>3, <1>8, ConcatTyped
<1>10. Gathers(fs, x)
  <2>1. Gathers(acc.fields, some)
    BY DEF Explains
  <2>2. Gathers(Merged(acc.fields, sel, <<>>), some \o <<Collectable(sel, <<>>)>>)
    BY <1>1, <1>2, <2>1, MergedRight
  <2> QED BY <1>6, <1>8, <2>2
<1>11. ASSUME NEW p \in Seq(Found), Covers(p, visited, depth, flat, satisfies)
       PROVE  /\ Serves(p \o x, p \o (all \o new))
              /\ Covers(p \o x, got.visited, depth, flat, satisfies)
  <2>1. Serves(p \o some, p \o all) /\ Covers(p \o some, acc.visited, depth, flat, satisfies)
    BY <1>11 DEF Explains
  <2>2. PICK u \in Seq(Found) : u = new
    BY <1>3
  <2>3. /\ Serves(p \o (some \o u), p \o (all \o u))
        /\ Covers(p \o (some \o u), acc.visited, depth, flat, satisfies)
    BY <2>1, Appended
  <2> QED BY <1>7, <1>8, <2>2, <2>3
<1>12. Explains(x, got, all \o new, depth, visited, flat, satisfies)
  <2>1. ToSet(x) \subseteq ToSet(all \o new)
    BY <1>9 DEF Explains
  <2>2. /\ visited \subseteq got.visited
        /\ \A n \in got.visited \ visited : Depth[Fragments[n].sels] < depth
    BY <1>7 DEF Explains
  <2>3. Gathers(got.fields, x)
    BY <1>7, <1>10
  <2> QED BY <1>11, <2>1, <2>2, <2>3 DEF Explains
<1> QED BY <1>3, <1>4, <1>7, <1>12

\* Nothing is taken of a fragment that has been seen, and nothing has to be.
LEMMA VisitSeen ==
  ASSUME NEW satisfies, NEW inner, NEW flat, NEW depth \in Nat, NEW visited \in SUBSET Names,
         NEW acc \in Gathered, NEW all \in Seq(Found), NEW some \in Seq(Found),
         Explains(some, acc, all, depth, visited, flat, satisfies),
         NEW sel, Step(sel, depth, inner, flat, satisfies), sel.kind = "spread",
         sel.name \in acc.visited, Matches(Cond(sel), satisfies),
         NEW new, new = Labelled(flat[Body(sel)], sel.defer)
  PROVE  /\ new \in Seq(Found)
         /\ Explains(some, acc, all \o new, depth, visited, flat, satisfies)
<1>1. sel \in Item /\ Body(sel) \in SelectionSets /\ Depth[Body(sel)] < depth
  BY DEF Step
<1>2. PICK body \in Seq(Found) : body = flat[Body(sel)]
  BY DEF Step
<1>3. new \in Seq(Found) /\ Alike(new, body)
  BY <1>1, <1>2, FragmentsLaws, LabelledLaws
<1>4. ToSet(all \o new) = ToSet(all) \cup ToSet(new)
  BY <1>3, ConcatTyped
<1>5. ASSUME NEW p \in Seq(Found), Covers(p, visited, depth, flat, satisfies)
      PROVE  /\ Serves(p \o some, p \o (all \o new))
             /\ Covers(p \o some, acc.visited, depth, flat, satisfies)
  <2>1. Serves(p \o some, p \o all) /\ Covers(p \o some, acc.visited, depth, flat, satisfies)
    BY <1>5 DEF Explains
  <2>2. PICK u \in Seq(Found) : u = new
    BY <1>3
  <2>3. PICK a \in Seq(Found), b \in Seq(Found) : a = p \o some /\ b = p \o all
    BY ConcatTyped
  <2>4. \A f \in ToSet(body) : Present(f, a)
    <3>1. sel.name \in acc.visited /\ Body(sel) = Fragments[sel.name].sels
          /\ Cond(sel) = Fragments[sel.name].cond
      BY <1>1, FragmentsLaws
    <3> QED BY <1>1, <1>2, <2>1, <2>3, <3>1 DEF Covers
  <2>5. \A f \in ToSet(u) : Present(f, a)
    BY <1>3, <2>2, <2>4, AlikePresent
  <2>6. Serves(a, a \o u) /\ Serves(a \o u, b \o u)
    BY <2>1, <2>3, <2>5, ServesLaws
  <2>8. Serves(a, b \o u)
    BY <2>6, ServesChain
  <2>9. b \o u = p \o (all \o u)
    <3>1. Regroups(p, all, u)
      BY Regroup
    <3> QED BY <2>3, <3>1 DEF Regroups
  <2> QED BY <2>1, <2>2, <2>3, <2>8, <2>9
<1>6. Explains(some, acc, all \o new, depth, visited, flat, satisfies)
  <2>1. ToSet(some) \subseteq ToSet(all \o new)
    BY <1>4 DEF Explains
  <2> QED BY <1>5, <2>1 DEF Explains
<1> QED BY <1>3, <1>6

\* A fragment that does not apply may be seen.
LEMMA VisitOther ==
  ASSUME NEW satisfies, NEW flat, NEW depth \in Nat, NEW visited \in SUBSET Names,
         NEW acc \in Gathered, NEW all \in Seq(Found), NEW some \in Seq(Found),
         Explains(some, acc, all, depth, visited, flat, satisfies),
         NEW seen \in SUBSET Names, acc.visited \subseteq seen,
         \A n \in seen \ acc.visited :
           Depth[Fragments[n].sels] < depth /\ ~Matches(Fragments[n].cond, satisfies)
  PROVE  /\ [acc EXCEPT !.visited = seen] \in Gathered
         /\ Explains(some, [acc EXCEPT !.visited = seen], all, depth, visited, flat, satisfies)
<1>1. PICK got : got = [acc EXCEPT !.visited = seen]
  OBVIOUS
<1>2. got \in Gathered /\ got.fields = acc.fields /\ got.visited = seen
  <2>1. acc \in [fields : Seq(Found), visited : SUBSET Names]
    BY DEF Gathered
  <2> HIDE DEF Found, Names
  <2> QED BY <1>1, <2>1 DEF Gathered
<1>3. ASSUME NEW p \in Seq(Found), Covers(p, visited, depth, flat, satisfies)
      PROVE  Serves(p \o some, p \o all) /\ Covers(p \o some, seen, depth, flat, satisfies)
  <2>1. Serves(p \o some, p \o all) /\ Covers(p \o some, acc.visited, depth, flat, satisfies)
    BY <1>3 DEF Explains
  <2> QED BY <2>1 DEF Covers
<1>4. visited \subseteq seen /\ \A n \in seen \ visited : Depth[Fragments[n].sels] < depth
  BY DEF Explains
<1>5. Explains(some, got, all, depth, visited, flat, satisfies)
  BY <1>2, <1>3, <1>4 DEF Explains
<1> QED BY <1>1, <1>2, <1>5

LEMMA VisitFragment ==
  ASSUME NEW satisfies, NEW inner, NEW flat, NEW depth \in Nat, NEW visited \in SUBSET Names,
         NEW acc \in Gathered, NEW all \in Seq(Found), NEW some \in Seq(Found),
         Explains(some, acc, all, depth, visited, flat, satisfies),
         NEW sel, Step(sel, depth, inner, flat, satisfies), sel.on, sel.kind # "field",
         ~(sel.kind = "spread" /\ sel.name \in acc.visited), Matches(Cond(sel), satisfies),
         NEW new, new = Labelled(flat[Body(sel)], sel.defer)
  PROVE  /\ Visit(inner, acc, sel, satisfies) \in Gathered /\ new \in Seq(Found)
         /\ \E x \in Seq(Found) :
              Explains(x, Visit(inner, acc, sel, satisfies), all \o new,
                       depth, visited, flat, satisfies)
<1>1. /\ sel \in Item /\ Body(sel) \in SelectionSets /\ Depth[Body(sel)] < depth
      /\ Depth[Body(sel)] \in Nat /\ sel.defer \in Labels
  BY FragmentsLaws DEF Step
<1>2. PICK label \in Labels : label = sel.defer
  BY <1>1
<1>3. PICK body \in Seq(Found) : body = flat[Body(sel)]
  BY DEF Step
<1>4. PICK u \in Seq(Found) : u = new /\ Alike(u, body) /\ u = Labelled(body, label)
  BY <1>2, <1>3, LabelledLaws
<1>5. acc.fields \in Seq(Found) /\ acc.visited \in SUBSET Names
  BY DEF Gathered
<1>6. PICK seen \in SUBSET Names :
        /\ seen = SeenWith(acc, sel) /\ acc.visited \subseteq seen
        /\ \A n \in seen \ acc.visited : Fragments[n].sels = Body(sel)
  BY <1>1, SeenLaws
<1>7. PICK low \in Nat : low = Depth[Body(sel)] /\ low < depth
  BY <1>1
<1>8. PICK sub \in Gathered : sub = inner[Body(sel)][seen]
  BY DEF Step
<1>9. PICK y \in Seq(Found) : Explains(y, sub, body, low, seen, flat, satisfies)
  BY <1>3, <1>7, <1>8 DEF Step
<1>10. sub.fields \in Seq(Found) /\ sub.visited \in SUBSET Names
  BY DEF Gathered
<1>11. PICK got : got = Visit(inner, acc, sel, satisfies)
  OBVIOUS
<1>12. PICK fs \in Seq(Found) : fs = TakenAll(acc.fields, sub.fields, label)
  BY <1>5, <1>10, TakenAllTyped
<1>13. got = [fields |-> fs, visited |-> sub.visited]
  BY <1>2, <1>6, <1>8, <1>11, <1>12 DEF Visit, SeenWith
<1>14. got \in Gathered /\ got.fields = fs /\ got.visited = sub.visited
  <2> HIDE DEF Found, Names
  <2> QED BY <1>10, <1>13 DEF Gathered
<1>15. PICK z \in Seq(Found) : z = Labelled(y, label) /\ Alike(z, y)
  BY LabelledLaws
<1>16. PICK x \in Seq(Found) : x = some \o z
  BY ConcatTyped
<1>17. ToSet(x) = ToSet(some) \cup ToSet(z) /\ ToSet(all \o u) = ToSet(all) \cup ToSet(u)
  BY <1>16, ConcatTyped
<1>18. ToSet(x) \subseteq ToSet(all \o u)
  <2>1. ToSet(y) \subseteq ToSet(body)
    BY <1>9 DEF Explains
  <2>2. ToSet(z) \subseteq ToSet(u)
    BY <1>4, <1>15, <2>1, LabelledWithin
  <2> QED BY <1>17, <2>2 DEF Explains
<1>19. Gathers(fs, x)
  <2>1. Gathers(acc.fields, some)
    BY DEF Explains
  <2>2. Gathers(sub.fields, y)
    BY <1>9 DEF Explains
  <2>3. Gathers(TakenAll(acc.fields, sub.fields, label), some \o Labelled(y, label))
    BY <1>5, <1>10, <2>1, <2>2, TakenAllRight
  <2> QED BY <1>12, <1>15, <1>16, <2>3
<1>20. /\ visited \subseteq sub.visited
       /\ \A n \in sub.visited \ visited : Depth[Fragments[n].sels] < depth
  <2>1. seen \subseteq sub.visited /\ \A n \in sub.visited \ seen : Depth[Fragments[n].sels] < low
    BY <1>9 DEF Explains
  <2>2. /\ visited \subseteq acc.visited
        /\ \A n \in acc.visited \ visited : Depth[Fragments[n].sels] < depth
    BY DEF Explains
  <2>3. ASSUME NEW n \in sub.visited \ visited PROVE Depth[Fragments[n].sels] < depth
    <3>1. CASE n \notin seen
      <4>1. PICK d \in Nat : d = Depth[Fragments[n].sels]
        BY <1>10, FragmentsLaws
      <4>2. d < low
        BY <2>1, <3>1, <4>1
      <4> QED BY <1>7, <4>1, <4>2
    <3>2. CASE n \in seen /\ n \notin acc.visited
      BY <1>6, <1>7, <3>2
    <3>3. CASE n \in acc.visited
      BY <2>2, <3>3
    <3> QED BY <3>1, <3>2, <3>3
  <2> QED BY <1>6, <2>1, <2>2, <2>3
<1>21. ASSUME NEW p \in Seq(Found), Covers(p, visited, depth, flat, satisfies)
       PROVE  /\ Serves(p \o x, p \o (all \o u))
              /\ Covers(p \o x, sub.visited, depth, flat, satisfies)
  <2>1. Serves(p \o some, p \o all) /\ Covers(p \o some, acc.visited, depth, flat, satisfies)
    BY <1>21 DEF Explains
  <2>2. PICK a \in Seq(Found), b \in Seq(Found) : a = p \o some /\ b = p \o all
    BY ConcatTyped
  <2>3. Covers(a, acc.visited, depth, flat, satisfies)
    BY <2>1, <2>2
  <2>4. Covers(a, seen, low, flat, satisfies)
    <3> SUFFICES ASSUME NEW n \in seen, Depth[Fragments[n].sels] < low,
                        Matches(Fragments[n].cond, satisfies)
                 PROVE  \A f \in ToSet(flat[Fragments[n].sels]) : Present(f, a)
      BY DEF Covers
    <3>1. PICK d \in Nat : d = Depth[Fragments[n].sels]
      BY FragmentsLaws
    <3>2. d < low /\ d < depth
      <4>1. d < low
        BY <3>1
      <4> QED BY <1>7, <4>1
    <3>3. n \in acc.visited
      <4>1. n \notin acc.visited => d = low
        BY <1>6, <1>7, <3>1
      <4> QED BY <3>2, <4>1
    <3> QED BY <2>3, <3>1, <3>2, <3>3 DEF Covers
  <2>5. Serves(a \o y, a \o body) /\ Covers(a \o y, sub.visited, low, flat, satisfies)
    BY <1>9, <2>4 DEF Explains
  <2>6. Serves(a \o z, a \o u)
    BY <1>4, <1>15, <2>5, ServesAlike
  <2>7. Serves(p \o (some \o z), p \o (some \o u))
    BY <2>2, <2>6, ServesRegrouped
  <2>8. Serves(p \o (some \o u), p \o (all \o u))
    BY <2>1, Appended
  <2>9. PICK az \in Seq(Found), ay \in Seq(Found) : az = p \o x /\ ay = a \o y
    BY ConcatTyped
  <2>10. Serves(az, p \o (all \o u))
    BY <1>16, <2>7, <2>8, <2>9, ServesChain
  <2>11. \A f : Present(f, ay) => Present(f, az)
    <3>1. ToSet(ay) = ToSet(a) \cup ToSet(y) /\ ToSet(az) = ToSet(p) \cup ToSet(x)
      BY <2>9, ConcatTyped
    <3>2. ToSet(a) = ToSet(p) \cup ToSet(some)
      BY <2>2, ConcatTyped
    <3>3. \A f : Present(f, y) <=> Present(f, z)
      BY <1>15, AlikePresent
    <3> QED BY <1>17, <3>1, <3>2, <3>3 DEF Present
  <2>12. Covers(az, sub.visited, depth, flat, satisfies)
    <3> SUFFICES ASSUME NEW n \in sub.visited, Depth[Fragments[n].sels] < depth,
                        Matches(Fragments[n].cond, satisfies),
                        NEW f \in ToSet(flat[Fragments[n].sels])
                 PROVE  Present(f, az)
      BY DEF Covers
    <3>1. CASE Depth[Fragments[n].sels] < low
      <4>1. Present(f, ay)
        BY <2>5, <2>9, <3>1 DEF Covers
      <4> QED BY <2>11, <4>1
    <3>2. CASE n \in acc.visited
      <4>1. Present(f, a)
        BY <2>3, <3>2 DEF Covers
      <4>2. ToSet(a) = ToSet(p) \cup ToSet(some) /\ ToSet(az) = ToSet(p) \cup ToSet(x)
        BY <2>2, <2>9, ConcatTyped
      <4> QED BY <1>17, <4>1, <4>2 DEF Present
    <3>3. CASE n \notin acc.visited /\ ~(Depth[Fragments[n].sels] < low)
      <4>1. n \in seen
        BY <1>9, <3>3 DEF Explains
      <4>2. f \in ToSet(body)
        BY <1>3, <1>6, <3>3, <4>1
      <4>3. f \in ToSet(a \o body)
        BY <4>2, ConcatTyped
      <4>4. Present(f, ay)
        BY <2>5, <2>9, <4>3 DEF Serves
      <4> QED BY <2>11, <4>4
    <3> QED BY <3>1, <3>2, <3>3
  <2> QED BY <2>9, <2>10, <2>12
<1>22. Explains(x, got, all \o u, depth, visited, flat, satisfies)
  BY <1>14, <1>18, <1>19, <1>20, <1>21 DEF Explains
<1> QED BY <1>4, <1>11, <1>14, <1>22
-----------------------------------------------------------------------------
LEMMA ItemBelow ==
  ASSUME NEW sels \in SelectionSets, NEW i \in 1 .. Len(sels)
  PROVE  /\ sels[i] \in Item /\ Body(sels[i]) \in SelectionSets
         /\ Depth[Body(sels[i])] < Depth[sels]
<1>1. sels \in Seq(Item) /\ DOMAIN sels = 1 .. Len(sels)
  BY Document
<1>2. sels[i] \in Item
  BY <1>1
<1> QED BY <1>1, <1>2, DocumentAssumption

LEMMA VisitTyped ==
  ASSUME NEW satisfies, NEW inner, NEW acc \in Gathered, NEW sel \in Item,
         Body(sel) \in SelectionSets, inner[Body(sel)] \in [SUBSET Names -> Gathered]
  PROVE  Visit(inner, acc, sel, satisfies) \in Gathered
<1>1. /\ acc \in [fields : Seq(Found), visited : SUBSET Names]
      /\ acc.fields \in Seq(Found) /\ acc.visited \in SUBSET Names
  BY DEF Gathered
<1>2. sel.defer \in Labels
  BY FragmentsLaws
<1>3. PICK got : got = Visit(inner, acc, sel, satisfies)
  OBVIOUS
<1>4. CASE ~sel.on \/ (sel.kind = "spread" /\ sel.name \in acc.visited)
  BY <1>4 DEF Visit
<1>5. CASE ~(~sel.on \/ (sel.kind = "spread" /\ sel.name \in acc.visited)) /\ sel.kind = "field"
  <2>1. got = [acc EXCEPT !.fields = Merged(acc.fields, sel, <<>>)]
    BY <1>3, <1>5 DEF Visit
  <2>2. sel.sels \in Seq(Item)
    BY <1>5, Document DEF Body
  <2>3. PICK fs \in Seq(Found) : fs = Merged(acc.fields, sel, <<>>)
    BY <1>1, <1>5, <2>2, MergedRight
  <2> HIDE DEF Found, Names
  <2>4. got = [acc EXCEPT !.fields = fs]
    BY <2>1, <2>3
  <2> QED BY <1>1, <1>3, <2>4 DEF Gathered
<1>6. CASE ~(~sel.on \/ (sel.kind = "spread" /\ sel.name \in acc.visited)) /\ sel.kind # "field"
  <2>1. PICK seen \in SUBSET Names : seen = SeenWith(acc, sel)
    BY SeenLaws
  <2>2. PICK sub \in Gathered : sub = inner[Body(sel)][seen]
    OBVIOUS
  <2>3. sub.fields \in Seq(Found) /\ sub.visited \in SUBSET Names
    BY DEF Gathered
  <2>4. CASE ~Matches(Cond(sel), satisfies)
    <3>1. got = [acc EXCEPT !.visited = seen]
      BY <1>3, <1>6, <2>1, <2>4 DEF Visit, SeenWith
    <3> HIDE DEF Found, Names
    <3> QED BY <1>1, <1>3, <3>1 DEF Gathered
  <2>5. CASE Matches(Cond(sel), satisfies)
    <3>1. PICK fs \in Seq(Found) : fs = TakenAll(acc.fields, sub.fields, sel.defer)
      BY <1>1, <1>2, <2>3, TakenAllTyped
    <3>2. got = [fields |-> fs, visited |-> sub.visited]
      BY <1>3, <1>6, <2>1, <2>2, <2>5, <3>1 DEF Visit, SeenWith
    <3> HIDE DEF Found, Names
    <3> QED BY <1>3, <2>3, <3>2 DEF Gathered
  <2> QED BY <2>4, <2>5
<1> QED BY <1>4, <1>5, <1>6

Part(flat, sel, satisfies) ==
  IF ~sel.on THEN <<>>
  ELSE IF sel.kind = "field" THEN <<Collectable(sel, <<>>)>>
  ELSE IF Matches(Cond(sel), satisfies) THEN Labelled(flat[Body(sel)], sel.defer)
  ELSE <<>>

LEMMA PartTyped ==
  ASSUME NEW satisfies, NEW flat, NEW sel \in Item,
         Body(sel) \in SelectionSets, flat[Body(sel)] \in Seq(Found)
  PROVE  Part(flat, sel, satisfies) \in Seq(Found)
<1>1. <<>> \in Seq(Found)
  OBVIOUS
<1>2. sel.kind = "field" => <<Collectable(sel, <<>>)>> \in Seq(Found)
  <2> SUFFICES ASSUME sel.kind = "field" PROVE <<Collectable(sel, <<>>)>> \in Seq(Found)
    OBVIOUS
  <2>1. sel.sels \in Seq(Item)
    BY Document DEF Body
  <2>2. Collectable(sel, <<>>) \in Found
    BY <1>1, <2>1, MergedRight
  <2> QED BY <2>2
<1>3. Labelled(flat[Body(sel)], sel.defer) \in Seq(Found)
  BY FragmentsLaws, LabelledLaws
<1> HIDE DEF Found
<1> QED BY <1>1, <1>2, <1>3 DEF Part

\* An item of a selection set is right if what is below it is.
LEMMA VisitStep ==
  ASSUME NEW satisfies, NEW inner, NEW flat, NEW depth \in Nat, NEW visited \in SUBSET Names,
         NEW acc \in Gathered, NEW all \in Seq(Found), NEW some \in Seq(Found),
         Explains(some, acc, all, depth, visited, flat, satisfies),
         NEW sel, Step(sel, depth, inner, flat, satisfies)
  PROVE  \E x \in Seq(Found) :
           Explains(x, Visit(inner, acc, sel, satisfies), all \o Part(flat, sel, satisfies),
                    depth, visited, flat, satisfies)
<1>1. PICK new : new = Part(flat, sel, satisfies)
  OBVIOUS
<1>2. /\ sel \in Item /\ Body(sel) \in SelectionSets /\ Depth[Body(sel)] < depth
      /\ flat[Body(sel)] \in Seq(Found)
  BY DEF Step
<1>3. acc.fields \in Seq(Found) /\ acc.visited \in SUBSET Names
      /\ acc \in [fields : Seq(Found), visited : SUBSET Names]
  BY DEF Gathered
<1>4. all \o <<>> = all
  BY NothingMore
<1>5. CASE ~sel.on
  <2>1. Visit(inner, acc, sel, satisfies) = acc /\ new = <<>>
    BY <1>1, <1>5 DEF Visit, Part
  <2> QED BY <1>1, <1>4, <2>1
<1>6. CASE sel.on /\ sel.kind = "field"
  <2>1. new = <<Collectable(sel, <<>>)>>
    BY <1>1, <1>6 DEF Part
  <2> QED BY <1>1, <1>6, <2>1, VisitField
<1>7. CASE sel.on /\ sel.kind # "field" /\ Matches(Cond(sel), satisfies)
  <2>1. new = Labelled(flat[Body(sel)], sel.defer)
    BY <1>1, <1>7 DEF Part
  <2>2. CASE sel.kind = "spread" /\ sel.name \in acc.visited
    <3>1. Visit(inner, acc, sel, satisfies) = acc
      BY <2>2 DEF Visit
    <3>2. Explains(some, acc, all \o new, depth, visited, flat, satisfies)
      BY <1>7, <2>1, <2>2, VisitSeen
    <3> QED BY <1>1, <3>1, <3>2
  <2>3. CASE ~(sel.kind = "spread" /\ sel.name \in acc.visited)
    BY <1>1, <1>7, <2>1, <2>3, VisitFragment
  <2> QED BY <2>2, <2>3
<1>8. CASE sel.on /\ sel.kind # "field" /\ ~Matches(Cond(sel), satisfies)
  <2>1. new = <<>>
    BY <1>1, <1>8 DEF Part
  <2>2. CASE sel.kind = "spread" /\ sel.name \in acc.visited
    <3>1. Visit(inner, acc, sel, satisfies) = acc
      BY <2>2 DEF Visit
    <3> QED BY <1>1, <1>4, <2>1, <3>1
  <2>3. CASE ~(sel.kind = "spread" /\ sel.name \in acc.visited)
    <3>1. PICK seen \in SUBSET Names :
            /\ seen = SeenWith(acc, sel) /\ acc.visited \subseteq seen
            /\ \A n \in seen \ acc.visited :
                 Fragments[n].sels = Body(sel) /\ Fragments[n].cond = Cond(sel)
      BY <1>2, SeenLaws
    <3>2. Visit(inner, acc, sel, satisfies) = [acc EXCEPT !.visited = seen]
      BY <1>8, <2>3, <3>1 DEF Visit, SeenWith
    <3>3. \A n \in seen \ acc.visited :
            Depth[Fragments[n].sels] < depth /\ ~Matches(Fragments[n].cond, satisfies)
      BY <1>2, <1>8, <3>1
    <3>4. Explains(some, [acc EXCEPT !.visited = seen], all, depth, visited, flat, satisfies)
      BY <3>1, <3>3, VisitOther
    <3> QED BY <1>1, <1>4, <2>1, <3>2, <3>4
  <2> QED BY <2>2, <2>3
<1> QED BY <1>5, <1>6, <1>7, <1>8
-----------------------------------------------------------------------------
\* The fields so far and the fragments seen, when what is below has been collected.
Visits(acc, inner, sels, satisfies, visited) ==
  /\ acc \in [0 .. Len(sels) -> Gathered]
  /\ acc[0] = [fields |-> <<>>, visited |-> visited]
  /\ \A i \in 1 .. Len(sels) : acc[i] = Visit(inner, acc[i - 1], sels[i], satisfies)

Ready(inner, sels) ==
  \A i \in 1 .. Len(sels) : inner[Body(sels[i])] \in [SUBSET Names -> Gathered]

Visited(inner, sels, satisfies, visited) ==
  \E acc : /\ Visits(acc, inner, sels, satisfies, visited)
           /\ VisitAll(inner, sels, satisfies, visited) = acc[Len(sels)]

LEMMA StartTyped ==
  ASSUME NEW visited \in SUBSET Names
  PROVE  [fields |-> <<>>, visited |-> visited] \in Gathered
<1>1. <<>> \in Seq(Found)
  OBVIOUS
<1> HIDE DEF Found, Names
<1> QED BY <1>1 DEF Gathered

LEMMA VisitSteps ==
  ASSUME NEW satisfies, NEW inner, NEW sels \in SelectionSets, NEW visited \in SUBSET Names,
         Ready(inner, sels)
  PROVE  Visited(inner, sels, satisfies, visited)
<1> DEFINE n == Len(sels)
           base == [fields |-> <<>>, visited |-> visited]
           E(g) == [i \in 0 .. n |-> IF i = 0 THEN base ELSE Visit(inner, g[i - 1], sels[i], satisfies)]
           step == [i \in 1 .. n |-> [a \in Gathered |-> Visit(inner, a, sels[i], satisfies)]]
           g == CHOOSE g : g = E(g)
<1>1. n \in Nat
  BY Document
<1>2. ASSUME NEW i \in 1 .. n, NEW a \in Gathered
      PROVE  Visit(inner, a, sels[i], satisfies) \in Gathered
  BY ItemBelow, VisitTyped DEF Ready
<1>3. VisitAll(inner, sels, satisfies, visited) = g[n]
  BY DEF VisitAll
<1>4. base \in Gathered
  BY StartTyped
<1> HIDE DEF n, base
<1>5. step \in [1 .. n -> [Gathered -> Gathered]]
  BY <1>2
<1>6. \A i \in 1 .. n : \A a \in Gathered : step[i][a] = Visit(inner, a, sels[i], satisfies)
  OBVIOUS
<1> HIDE DEF step
<1>7. PICK f : Solves(f, Gathered, base, step, n)
  BY <1>1, <1>4, <1>5, Solvable
<1>8. /\ f \in [0 .. n -> Gathered] /\ f[0] = base
      /\ \A i \in 1 .. n : f[i] = Visit(inner, f[i - 1], sels[i], satisfies)
  <2>1. f \in [0 .. n -> Gathered] /\ f[0] = base /\ \A i \in 1 .. n : f[i] = step[i][f[i - 1]]
    BY <1>7 DEF Solves
  <2>2. \A i \in 1 .. n : i - 1 \in 0 .. n
    BY <1>1
  <2>3. \A i \in 1 .. n : f[i - 1] \in Gathered
    BY <2>1, <2>2
  <2> QED BY <1>6, <2>1, <2>3
<1>9. f = E(f)
  <2>1. ASSUME NEW i \in 0 .. n
        PROVE  f[i] = IF i = 0 THEN base ELSE Visit(inner, f[i - 1], sels[i], satisfies)
    BY <1>1, <1>8
  <2> QED BY <1>8, <2>1
<1>10. g = E(g)
  <2> HIDE DEF E
  <2> QED BY <1>9
<1> HIDE DEF g
<1>11. g[0] = base /\ \A i \in 1 .. n : g[i] = Visit(inner, g[i - 1], sels[i], satisfies)
  <2>1. \A i \in 0 .. n : g[i] = IF i = 0 THEN base ELSE Visit(inner, g[i - 1], sels[i], satisfies)
    BY <1>10
  <2>2. 0 \in 0 .. n /\ \A i \in 1 .. n : i \in 0 .. n /\ i # 0
    BY <1>1
  <2> QED BY <2>1, <2>2
<1>12. Solves(g, Gathered, base, step, n)
  <2>1. g = [i \in 0 .. n |-> g[i]]
    BY <1>10
  <2>2. \A i \in 1 .. n : g[i - 1] \in Gathered => g[i] = step[i][g[i - 1]]
    BY <1>6, <1>11
  <2>3. Recurses(g, Gathered, base, step, n)
    BY <1>11, <2>1, <2>2 DEF Recurses
  <2> HIDE DEF E
  <2> QED BY <1>1, <1>4, <1>5, <2>3, Defined
<1>13. g \in [0 .. n -> Gathered]
  BY <1>12 DEF Solves
<1>14. Visits(g, inner, sels, satisfies, visited)
  BY <1>11, <1>13 DEF Visits, base, n
<1> QED BY <1>3, <1>14 DEF n, Visited

\* What is collected depends on what is just below only.
LEMMA VisitAllLocal ==
  ASSUME NEW satisfies, NEW sels \in SelectionSets, NEW visited \in SUBSET Names, NEW inner, NEW other,
         Ready(inner, sels),
         \A i \in 1 .. Len(sels) : inner[Body(sels[i])] = other[Body(sels[i])]
  PROVE  /\ VisitAll(inner, sels, satisfies, visited) \in Gathered
         /\ VisitAll(inner, sels, satisfies, visited) = VisitAll(other, sels, satisfies, visited)
<1>1. Len(sels) \in Nat
  BY Document
<1>2. PICK a : Visits(a, inner, sels, satisfies, visited)
               /\ VisitAll(inner, sels, satisfies, visited) = a[Len(sels)]
  <2>1. Visited(inner, sels, satisfies, visited)
    BY VisitSteps
  <2> QED BY <2>1 DEF Visited
<1>3. PICK b : Visits(b, other, sels, satisfies, visited)
               /\ VisitAll(other, sels, satisfies, visited) = b[Len(sels)]
  <2>1. Ready(other, sels)
    BY DEF Ready
  <2>2. Visited(other, sels, satisfies, visited)
    BY <2>1, VisitSteps
  <2> QED BY <2>2 DEF Visited
<1>4. /\ a \in [0 .. Len(sels) -> Gathered] /\ a[0] = b[0]
      /\ \A i \in 1 .. Len(sels) : a[i] = Visit(inner, a[i - 1], sels[i], satisfies)
      /\ \A i \in 1 .. Len(sels) : b[i] = Visit(other, b[i - 1], sels[i], satisfies)
  BY <1>2, <1>3 DEF Visits
<1>5. ASSUME NEW i \in 1 .. Len(sels), a[i - 1] = b[i - 1] PROVE a[i] = b[i]
  <2>1. inner[Body(sels[i])] = other[Body(sels[i])]
    OBVIOUS
  <2>2. Visit(inner, a[i - 1], sels[i], satisfies) = Visit(other, a[i - 1], sels[i], satisfies)
    BY <2>1 DEF Visit
  <2> QED BY <1>4, <1>5, <2>2
<1>6. Len(sels) \in 0 .. Len(sels)
  BY <1>1
<1>7. \A i \in 0 .. Len(sels) : a[i] = b[i]
  <2>1. a[0] = b[0]
    BY <1>4
  <2>2. \A i \in 1 .. Len(sels) : a[i - 1] = b[i - 1] => a[i] = b[i]
    BY <1>5, Zenon
  <2> QED BY <1>1, <2>1, <2>2, Agree, Zenon
<1> QED BY <1>2, <1>3, <1>4, <1>6, <1>7

LEMMA CollectedTyped ==
  ASSUME NEW satisfies
  PROVE  /\ Collected(satisfies) \in [SelectionSets -> [SUBSET Names -> Gathered]]
         /\ \A sels \in SelectionSets : \A visited \in SUBSET Names :
              Collected(satisfies)[sels][visited]
                = VisitAll(Collected(satisfies), sels, satisfies, visited)
<1> DEFINE D == SelectionSets
           S == [SUBSET Names -> Gathered]
           All(g, sels) == [visited \in SUBSET Names |-> VisitAll(g, sels, satisfies, visited)]
           E(g) == [sels \in D |-> All(g, sels)]
           step == [sels \in D |-> [g \in [D -> S] |-> All(g, sels)]]
           g == CHOOSE g : g = E(g)
<1>1. Depth \in [D -> Nat]
  BY Document
<1>2. PICK start \in S : TRUE
  <2>1. [visited \in SUBSET Names |-> [fields |-> <<>>, visited |-> visited]] \in S
    BY StartTyped
  <2> QED BY <2>1
<1>3. Collected(satisfies) = g
  BY DEF Collected, Names
<1>4. ASSUME NEW sels \in D, NEW f, NEW h,
             \A y \in D : Depth[y] < Depth[sels] => f[y] = h[y] /\ f[y] \in S
      PROVE  All(f, sels) \in S /\ All(f, sels) = All(h, sels)
  <2>1. Ready(f, sels) /\ \A i \in 1 .. Len(sels) : f[Body(sels[i])] = h[Body(sels[i])]
    BY <1>4, ItemBelow DEF Ready
  <2>2. ASSUME NEW visited \in SUBSET Names
        PROVE  /\ VisitAll(f, sels, satisfies, visited) \in Gathered
               /\ VisitAll(f, sels, satisfies, visited) = VisitAll(h, sels, satisfies, visited)
    BY <2>1, VisitAllLocal
  <2> QED BY <2>2
<1> HIDE DEF S, All
<1>5. step \in [D -> [[D -> S] -> S]]
  <2>1. ASSUME NEW sels \in D, NEW f \in [D -> S] PROVE All(f, sels) \in S
    BY <1>4
  <2> QED BY <2>1
<1>6. Local(D, S, Depth, step)
  <2> SUFFICES ASSUME NEW x \in D, NEW f \in [D -> S], NEW h \in [D -> S],
                      \A y \in D : Depth[y] < Depth[x] => f[y] = h[y]
               PROVE  step[x][f] = step[x][h]
    BY DEF Local
  <2>1. All(f, x) = All(h, x)
    BY <1>4
  <2> QED BY <2>1
<1>7. PICK f : SolvesAll(f, D, S, step)
  <2> HIDE DEF D, step, E
  <2> QED BY <1>1, <1>2, <1>5, <1>6, RankRecursion
<1>8. f = E(f)
  <2>1. f \in [D -> S] /\ \A x \in D : f[x] = step[x][f]
    BY <1>7 DEF SolvesAll
  <2> QED BY <2>1
<1>9. g = E(g)
  <2> HIDE DEF E
  <2> QED BY <1>8
<1> HIDE DEF g, step
<1>10. \A x \in D : g[x] = All(g, x)
  BY <1>9
<1>11. D \subseteq {x \in D : g[x] \in S}
  <2> DEFINE T == {x \in D : g[x] \in S}
  <2>1. ASSUME NEW x \in D, \A y \in D : Depth[y] < Depth[x] => y \in T PROVE x \in T
    <3>1. All(g, x) \in S
      BY <1>4, <2>1
    <3> QED BY <1>10, <3>1
  <2> HIDE DEF T, D
  <2>2. D \subseteq T
    BY <1>1, <2>1, RankInduction
  <2> QED BY <2>2 DEF T
<1>12. g \in [D -> S]
  BY <1>9, <1>11
<1> QED BY <1>3, <1>10, <1>12 DEF S, All

LEMMA PartsLaws ==
  ASSUME NEW satisfies, NEW sels \in SelectionSets, NEW inner
  PROVE  Parts(inner, sels, satisfies) = [i \in 1 .. Len(sels) |-> Part(inner, sels[i], satisfies)]
<1>1. DOMAIN sels = 1 .. Len(sels)
  BY Document
<1> QED BY <1>1 DEF Parts, Part

LEMMA PartsLocal ==
  ASSUME NEW satisfies, NEW sels \in SelectionSets, NEW inner, NEW other,
         \A i \in 1 .. Len(sels) : inner[Body(sels[i])] = other[Body(sels[i])]
  PROVE  Parts(inner, sels, satisfies) = Parts(other, sels, satisfies)
<1>1. ASSUME NEW i \in 1 .. Len(sels)
      PROVE  Part(inner, sels[i], satisfies) = Part(other, sels[i], satisfies)
  BY DEF Part
<1> QED BY <1>1, PartsLaws

\* The first parts of a selection set, put together.
Flattens(f, flat, sels, satisfies) ==
  /\ f \in [0 .. Len(sels) -> Seq(Found)] /\ f[0] = <<>>
  /\ \A i \in 1 .. Len(sels) : f[i] = f[i - 1] \o Part(flat, sels[i], satisfies)

LEMMA FlattenSteps ==
  ASSUME NEW satisfies, NEW sels \in SelectionSets, NEW flat,
         \A i \in 1 .. Len(sels) : flat[Body(sels[i])] \in Seq(Found)
  PROVE  /\ FlattenSeq(Parts(flat, sels, satisfies)) \in Seq(Found)
         /\ \E f : /\ Flattens(f, flat, sels, satisfies)
                   /\ FlattenSeq(Parts(flat, sels, satisfies)) = f[Len(sels)]
<1>1. Len(sels) \in Nat
  BY Document
<1>2. PICK parts : parts = Parts(flat, sels, satisfies)
  OBVIOUS
<1>3. parts = [i \in 1 .. Len(sels) |-> Part(flat, sels[i], satisfies)]
  BY <1>2, PartsLaws
<1>4. \A i \in 1 .. Len(sels) : Part(flat, sels[i], satisfies) \in Seq(Found)
  BY ItemBelow, PartTyped
<1>5. parts \in Seq(Seq(Found)) /\ Len(parts) = Len(sels)
  <2> HIDE DEF Found
  <2> QED BY <1>1, <1>3, <1>4
<1>6. PICK f : Concatenates(Found, parts, f) /\ FlattenSeq(parts) = f[Len(parts)]
  BY <1>5, FlattenFlat
<1>7. Flattens(f, flat, sels, satisfies)
  <2> HIDE DEF Found
  <2> QED BY <1>3, <1>5, <1>6 DEF Concatenates, Flattens
<1>8. Len(sels) \in 0 .. Len(sels)
  BY <1>1
<1>9. f[Len(sels)] \in Seq(Found)
  <2> HIDE DEF Found
  <2> QED BY <1>7, <1>8 DEF Flattens
<1> QED BY <1>2, <1>5, <1>6, <1>7, <1>9

LEMMA FlattenedTyped ==
  ASSUME NEW satisfies
  PROVE  /\ Flattened(satisfies) \in [SelectionSets -> Seq(Found)]
         /\ \A sels \in SelectionSets :
              Flattened(satisfies)[sels] = FlattenSeq(Parts(Flattened(satisfies), sels, satisfies))
<1> DEFINE D == SelectionSets
           S == Seq(Found)
           All(g, sels) == FlattenSeq(Parts(g, sels, satisfies))
           E(g) == [sels \in D |-> All(g, sels)]
           step == [sels \in D |-> [g \in [D -> S] |-> All(g, sels)]]
           g == CHOOSE g : g = E(g)
<1>1. Depth \in [D -> Nat] /\ <<>> \in S
  BY Document
<1>3. Flattened(satisfies) = g
  BY DEF Flattened
<1>4. ASSUME NEW sels \in D, NEW f, NEW h,
             \A y \in D : Depth[y] < Depth[sels] => f[y] = h[y] /\ f[y] \in S
      PROVE  All(f, sels) \in S /\ All(f, sels) = All(h, sels)
  <2>1. \A i \in 1 .. Len(sels) : f[Body(sels[i])] \in S /\ f[Body(sels[i])] = h[Body(sels[i])]
    BY <1>4, ItemBelow
  <2>2. FlattenSeq(Parts(f, sels, satisfies)) \in Seq(Found)
    BY <2>1, FlattenSteps
  <2>3. Parts(f, sels, satisfies) = Parts(h, sels, satisfies)
    <3> HIDE DEF S
    <3>1. \A i \in 1 .. Len(sels) : f[Body(sels[i])] = h[Body(sels[i])]
      BY <2>1
    <3> QED BY <3>1, PartsLocal
  <2> QED BY <2>2, <2>3
<1> HIDE DEF S, All
<1>5. step \in [D -> [[D -> S] -> S]]
  <2>1. ASSUME NEW sels \in D, NEW f \in [D -> S] PROVE All(f, sels) \in S
    BY <1>4
  <2> QED BY <2>1
<1>6. Local(D, S, Depth, step)
  <2> SUFFICES ASSUME NEW x \in D, NEW f \in [D -> S], NEW h \in [D -> S],
                      \A y \in D : Depth[y] < Depth[x] => f[y] = h[y]
               PROVE  step[x][f] = step[x][h]
    BY DEF Local
  <2>1. All(f, x) = All(h, x)
    BY <1>4
  <2> QED BY <2>1
<1>7. PICK f : SolvesAll(f, D, S, step)
  <2> HIDE DEF D, step, E
  <2> QED BY <1>1, <1>5, <1>6, RankRecursion
<1>8. f = E(f)
  <2>1. f \in [D -> S] /\ \A x \in D : f[x] = step[x][f]
    BY <1>7 DEF SolvesAll
  <2> QED BY <2>1
<1>9. g = E(g)
  <2> HIDE DEF E
  <2> QED BY <1>8
<1> HIDE DEF g, step
<1>10. \A x \in D : g[x] = All(g, x)
  BY <1>9
<1>11. D \subseteq {x \in D : g[x] \in S}
  <2> DEFINE T == {x \in D : g[x] \in S}
  <2>1. ASSUME NEW x \in D, \A y \in D : Depth[y] < Depth[x] => y \in T PROVE x \in T
    <3>1. All(g, x) \in S
      BY <1>4, <2>1
    <3> QED BY <1>10, <3>1
  <2> HIDE DEF T, D
  <2>2. D \subseteq T
    BY <1>1, <2>1, RankInduction
  <2> QED BY <2>2 DEF T
<1>12. g \in [D -> S]
  BY <1>9, <1>11
<1> QED BY <1>3, <1>10, <1>12 DEF S, All

\* A selection set is collected right if what is below it is.
LEMMA VisitAllStep ==
  ASSUME NEW satisfies, NEW inner, NEW flat, NEW sels \in SelectionSets, NEW visited \in SUBSET Names,
         \A i \in 1 .. Len(sels) : Step(sels[i], Depth[sels], inner, flat, satisfies)
  PROVE  \E some \in Seq(Found) :
           Explains(some, VisitAll(inner, sels, satisfies, visited),
                    FlattenSeq(Parts(flat, sels, satisfies)), Depth[sels], visited, flat, satisfies)
<1>1. Len(sels) \in Nat /\ Depth[sels] \in Nat
  BY Document
<1>2. PICK depth \in Nat : depth = Depth[sels]
  BY <1>1
<1>3. Ready(inner, sels) /\ \A i \in 1 .. Len(sels) : flat[Body(sels[i])] \in Seq(Found)
  BY DEF Step, Ready
<1>4. PICK acc : /\ Visits(acc, inner, sels, satisfies, visited)
                 /\ VisitAll(inner, sels, satisfies, visited) = acc[Len(sels)]
  <2>1. Visited(inner, sels, satisfies, visited)
    BY <1>3, VisitSteps
  <2> QED BY <2>1 DEF Visited
<1>5. PICK all : /\ Flattens(all, flat, sels, satisfies)
                 /\ FlattenSeq(Parts(flat, sels, satisfies)) = all[Len(sels)]
  BY <1>3, FlattenSteps
<1> DEFINE Done == {k \in Nat : k <= Len(sels) => \E some \in Seq(Found) :
                      Explains(some, acc[k], all[k], depth, visited, flat, satisfies)}
<1>6. 0 \in Done
  <2>1. PICK got : got = acc[0]
    OBVIOUS
  <2>2. got.fields = <<>> /\ got.visited = visited /\ all[0] = <<>>
    BY <1>4, <1>5, <2>1 DEF Visits, Flattens
  <2>3. PICK some \in Seq(Found) : some = <<>>
    <3>1. <<>> \in Seq(Found)
      OBVIOUS
    <3> QED BY <3>1
  <2>4. Gathers(<<>>, <<>>)
    <3>1. Apart(<<>>)
      BY DEF Apart
    <3> QED BY <3>1, CarriesItself DEF Gathers
  <2>5. ASSUME NEW p \in Seq(Found), Covers(p, visited, depth, flat, satisfies)
        PROVE  /\ Serves(p \o some, p \o all[0])
               /\ Covers(p \o some, got.visited, depth, flat, satisfies)
    <3>1. p \o some = p
      BY <2>3, NothingMore
    <3> QED BY <2>2, <2>3, <2>5, <3>1, ServesLaws
  <2>6. Explains(some, got, all[0], depth, visited, flat, satisfies)
    BY <2>2, <2>3, <2>4, <2>5 DEF Explains
  <2> QED BY <2>1, <2>6
<1>7. ASSUME NEW k \in Nat, k \in Done PROVE k + 1 \in Done
  <2> SUFFICES ASSUME k + 1 <= Len(sels)
               PROVE  \E some \in Seq(Found) :
                        Explains(some, acc[k + 1], all[k + 1], depth, visited, flat, satisfies)
    OBVIOUS
  <2>1. k \in 0 .. Len(sels) /\ k + 1 \in 1 .. Len(sels) /\ (k + 1) - 1 = k
    BY <1>1
  <2>2. PICK sel : sel = sels[k + 1] /\ Step(sel, depth, inner, flat, satisfies)
    BY <1>2, <2>1
  <2>3. PICK got \in Gathered : got = acc[k]
    BY <1>4, <2>1 DEF Visits
  <2>4. PICK before \in Seq(Found) : before = all[k]
    BY <1>5, <2>1 DEF Flattens
  <2>5. PICK some \in Seq(Found) : Explains(some, got, before, depth, visited, flat, satisfies)
    BY <1>7, <2>1, <2>3, <2>4
  <2>6. /\ acc[k + 1] = Visit(inner, got, sel, satisfies)
        /\ all[k + 1] = before \o Part(flat, sel, satisfies)
    BY <1>4, <1>5, <2>1, <2>2, <2>3, <2>4 DEF Visits, Flattens
  <2>7. \E x \in Seq(Found) :
           Explains(x, Visit(inner, got, sel, satisfies), before \o Part(flat, sel, satisfies),
                    depth, visited, flat, satisfies)
    BY <2>2, <2>5, VisitStep
  <2> QED BY <2>6, <2>7
<1> HIDE DEF Done
<1>8. Len(sels) \in Done
  BY <1>1, <1>6, <1>7, Induction
<1>9. \E some \in Seq(Found) :
        Explains(some, acc[Len(sels)], all[Len(sels)], depth, visited, flat, satisfies)
  BY <1>1, <1>8 DEF Done
<1> QED BY <1>2, <1>4, <1>5, <1>9

Explained(sels, inner, flat, satisfies) ==
  \A visited \in SUBSET Names : \E some \in Seq(Found) :
    Explains(some, inner[sels][visited], flat[sels], Depth[sels], visited, flat, satisfies)

LEMMA AllExplained ==
  ASSUME NEW satisfies
  PROVE  \A sels \in SelectionSets :
           Explained(sels, Collected(satisfies), Flattened(satisfies), satisfies)
<1>1. PICK inner, flat : inner = Collected(satisfies) /\ flat = Flattened(satisfies)
  OBVIOUS
<1>2. /\ inner \in [SelectionSets -> [SUBSET Names -> Gathered]]
      /\ \A sels \in SelectionSets : \A visited \in SUBSET Names :
           inner[sels][visited] = VisitAll(inner, sels, satisfies, visited)
  BY <1>1, CollectedTyped
<1>3. /\ flat \in [SelectionSets -> Seq(Found)]
      /\ \A sels \in SelectionSets : flat[sels] = FlattenSeq(Parts(flat, sels, satisfies))
  BY <1>1, FlattenedTyped
<1> DEFINE T == {sels \in SelectionSets : Explained(sels, inner, flat, satisfies)}
<1>4. ASSUME NEW sels \in SelectionSets,
             \A y \in SelectionSets : Depth[y] < Depth[sels] => y \in T
      PROVE  sels \in T
  <2>1. ASSUME NEW i \in 1 .. Len(sels)
        PROVE  Step(sels[i], Depth[sels], inner, flat, satisfies)
    <3>1. PICK body \in SelectionSets : body = Body(sels[i]) /\ Depth[body] < Depth[sels]
      BY ItemBelow
    <3>2. Explained(body, inner, flat, satisfies)
      BY <1>4, <3>1
    <3>3. flat[body] \in Seq(Found) /\ inner[body] \in [SUBSET Names -> Gathered]
      BY <1>2, <1>3
    <3>4. sels[i] \in Item
      BY ItemBelow
    <3> QED BY <3>1, <3>2, <3>3, <3>4 DEF Step, Explained
  <2>2. ASSUME NEW visited \in SUBSET Names
        PROVE  \E some \in Seq(Found) :
                 Explains(some, inner[sels][visited], flat[sels], Depth[sels], visited, flat, satisfies)
    <3>1. \E some \in Seq(Found) :
           Explains(some, VisitAll(inner, sels, satisfies, visited),
                    FlattenSeq(Parts(flat, sels, satisfies)), Depth[sels], visited, flat, satisfies)
      BY <2>1, VisitAllStep
    <3> QED BY <1>2, <1>3, <3>1
  <2> QED BY <2>2 DEF Explained
<1>5. SelectionSets \subseteq T
  <2>1. Depth \in [SelectionSets -> Nat]
    BY Document
  <2> HIDE DEF T
  <2> QED BY <1>4, <2>1, RankInduction
<1> QED BY <1>1, <1>5

(***************************************************************************)
(* CollectFields, for any document, object type and nesting of fragments:  *)
(* of each response key that is asked for there is a field, in the order   *)
(* of the response, and every selection that a fragment that applies adds  *)
(* to the key is below one of its fields, whichever spreads were skipped   *)
(* because the fragment had been seen; nothing else is there; a field is   *)
(* deferred only if one of those asked for is.  A key has two fields only  *)
(* when it is selected on two types neither of which implements the other, *)
(* as two interfaces of the object, or a union and its member, are.        *)
(***************************************************************************)
THEOREM FieldsRight ==
  ASSUME NEW satisfies
  PROVE  \A sels \in SelectionSets : Right(sels, satisfies)
<1> SUFFICES ASSUME NEW sels \in SelectionSets
             PROVE  FieldsOf(CollectFields(sels, satisfies), Flat(sels, satisfies))
  BY DEF Right
<1>1. PICK flat : flat = Flattened(satisfies)
  OBVIOUS
<1>2. PICK got : got = Collected(satisfies)[sels][{}]
  OBVIOUS
<1>3. PICK all \in Seq(Found) : all = flat[sels] /\ all = Flat(sels, satisfies)
  BY <1>1, FlattenedTyped DEF Flat
<1>4. got.fields = CollectFields(sels, satisfies) /\ got \in Gathered
  BY <1>2, CollectedTyped DEF CollectFields
<1>5. PICK some \in Seq(Found) : Explains(some, got, all, Depth[sels], {}, flat, satisfies)
  <2>1. Explained(sels, Collected(satisfies), flat, satisfies)
    BY <1>1, AllExplained
  <2> QED BY <1>2, <1>3, <2>1 DEF Explained
<1>6. ToSet(some) \subseteq ToSet(all) /\ Gathers(got.fields, some)
  BY <1>5 DEF Explains
<1>7. Serves(some, all)
  <2>1. PICK p \in Seq(Found) : p = <<>>
    <3>1. <<>> \in Seq(Found)
      OBVIOUS
    <3> QED BY <3>1
  <2>2. Serves(p \o some, p \o all)
    BY <1>5, <2>1 DEF Explains, Covers
  <2>3. p \o some = some /\ p \o all = all
    BY <2>1
  <2> QED BY <2>2, <2>3
<1>8. Carries(some, all)
  <2>1. KeysOf(some) = KeysOf(all)
    BY <1>6, <1>7 DEF KeysOf, Serves, Present
  <2>2. ASSUME NEW f \in ToSet(all)
        PROVE  \E g \in ToSet(some) : g.key = f.key /\ ToSet(f.sels) \subseteq ToSet(g.sels)
    BY <1>7 DEF Serves, Present
  <2>3. \A g \in ToSet(some) : ToSet(g.sels) \subseteq SelsOf(all, g.key)
    BY <1>6 DEF SelsOf
  <2>4. ASSUME NEW g \in ToSet(some)
        PROVE  /\ \E f \in ToSet(all) : f.key = g.key /\ f.def = g.def
               /\ \E f \in ToSet(all) : f.key = g.key /\ Likewise(f, g)
    BY <1>6, LikewiseLaws
  <2> QED BY <1>7, <2>1, <2>2, <2>3, <2>4 DEF Carries, Ordered, Asked, Kept, Typed, Timed, Serves
<1>9. Gathers(got.fields, all)
  BY <1>6, <1>8, CarriesChain DEF Gathers
<1> QED BY <1>3, <1>4, <1>9, GathersAll

(***************************************************************************)
(* What DispatchObject is given of a list's objects is what was asked for: *)
(* the property that the run checks of one document.                       *)
(***************************************************************************)
THEOREM FieldsCollected == LSpec => []CollectedRight
<1>1. CollectedRight
  BY FieldsRight DEF CollectedRight
<1> QED BY <1>1, PTL
-----------------------------------------------------------------------------
(***************************************************************************)
(* complexity.go: "If a + b would overflow through normal Go addition, it  *)
(* returns the maximum integer value instead", and otherwise the sum.      *)
(***************************************************************************)
THEOREM SumOrMaximum ==
  ASSUME NEW max \in Nat, NEW a \in 0 .. max, NEW b \in 0 .. max
  PROVE  SafeAdd(a, b, max) = IF a + b > max THEN max ELSE a + b
BY DEF SafeAdd, Wrap

(***************************************************************************)
(* So no field, whatever a user's function says it costs, makes the cost   *)
(* that has been summed up smaller: a query cannot buy its way below the   *)
(* limit.                                                                  *)
(***************************************************************************)
THEOREM NeverLess ==
  ASSUME NEW max \in Nat \ {0}, NEW a \in 0 .. max, NEW b \in MachineInt(max)
  PROVE  SafeAdd(a, b, max) \in a .. max
BY DEF SafeAdd, Wrap, MachineInt

\* Users' functions and the cost of a scalar, in ints up to max.
Priced(opts, max) ==
  /\ max \in Nat \ {0} /\ opts.scalar \in MachineInt(max)
  /\ \A field \in DOMAIN opts.custom : opts.custom[field] \in [0 .. max -> MachineInt(max)]

LEMMA AllPriced ==
  ASSUME NEW opts \in Options
  PROVE  Priced(opts, MaxInt) /\ Priced(Widened(opts), WideInt)
<1>1. MaxInt \in Nat \ {0} /\ WideInt \in Nat \ {0} /\ MaxInt <= WideInt
  BY CostAssumption
<1>2. /\ opts.scalar \in MachineInt(MaxInt)
      /\ \A field \in DOMAIN opts.custom : opts.custom[field] \in [0 .. MaxInt -> MachineInt(MaxInt)]
  BY CostAssumption
<1>3. MachineInt(MaxInt) \subseteq MachineInt(WideInt)
  BY <1>1 DEF MachineInt
<1>4. /\ Widened(opts).scalar = opts.scalar /\ DOMAIN Widened(opts).custom = DOMAIN opts.custom
      /\ \A field \in DOMAIN opts.custom :
           Widened(opts).custom[field] = [child \in 0 .. WideInt |-> opts.custom[field][Capped(child)]]
  BY DEF Widened
<1>5. \A child \in 0 .. WideInt : Capped(child) \in 0 .. MaxInt
  BY <1>1 DEF Capped
<1>6. ASSUME NEW field \in DOMAIN opts.custom
      PROVE  Widened(opts).custom[field] \in [0 .. WideInt -> MachineInt(WideInt)]
  <2>1. \A child \in 0 .. WideInt : opts.custom[field][Capped(child)] \in MachineInt(WideInt)
    BY <1>2, <1>3, <1>5
  <2>2. [child \in 0 .. WideInt |-> opts.custom[field][Capped(child)]]
          \in [0 .. WideInt -> MachineInt(WideInt)]
    BY <2>1
  <2> QED BY <1>4, <2>2, Zenon
<1>7. opts.scalar \in MachineInt(WideInt)
  BY <1>2, <1>3
<1>8. Priced(opts, MaxInt)
  BY <1>1, <1>2 DEF Priced
<1>9. Priced(Widened(opts), WideInt)
  BY <1>1, <1>4, <1>6, <1>7, Zenon DEF Priced
<1> QED BY <1>8, <1>9

LEMMA Largest ==
  ASSUME NEW n \in Nat, NEW S, S \subseteq 0 .. n, S # {}
  PROVE  Max(S) \in S /\ \A y \in S : Max(S) >= y
<1> DEFINE Less == {ss \in Nat \X Nat : ss[1] < ss[2]}
           T == {n - x : x \in S}
<1>1. IsWellFoundedOn(Less, Nat)
  BY NatLessThanWellFounded DEF OpToRel
<1>2. T \subseteq Nat /\ T # {}
  <2>1. \A x \in S : x \in 0 .. n
    OBVIOUS
  <2>2. \A x \in S : n - x \in Nat
    BY <2>1
  <2> QED BY <2>2
<1>3. PICK z \in T : \A y \in T : <<y, z>> \notin Less
  <2> HIDE DEF T, Less
  <2> QED BY <1>1, <1>2, WFMin
<1>4. PICK x \in S : z = n - x
  BY <1>3
<1>5. ASSUME NEW y \in S PROVE x >= y
  <2>1. n - y \in T /\ n - y \in Nat /\ z \in Nat
    BY <1>3
  <2>2. ~(n - y < z)
    BY <1>3, <2>1
  <2> QED BY <1>4, <2>2
<1> QED BY <1>5 DEF Max

LEMMA FieldTyped ==
  ASSUME NEW max, NEW opts, Priced(opts, max), NEW type, NEW sel, NEW child \in 0 .. max
  PROVE  FieldComplexity(type, sel, child, opts, max) \in 0 .. max
<1> DEFINE field == <<type, sel.key, sel.args>>
           own == IF sel.sels = <<>> THEN opts.scalar ELSE 1
<1>1. max \in Nat \ {0} /\ own \in MachineInt(max)
  BY DEF Priced, MachineInt
<1>2. CASE field \in DOMAIN opts.custom /\ opts.custom[field][child] >= 1
  <2>1. opts.custom[field][child] \in MachineInt(max)
    BY <1>2 DEF Priced
  <2>2. FieldComplexity(type, sel, child, opts, max) = opts.custom[field][child]
    BY <1>2 DEF FieldComplexity
  <2> HIDE DEF field
  <2> QED BY <1>1, <1>2, <2>1, <2>2 DEF MachineInt
<1>3. CASE ~(field \in DOMAIN opts.custom /\ opts.custom[field][child] >= 1)
  <2>1. FieldComplexity(type, sel, child, opts, max) = SafeAdd(own, child, max)
    BY <1>3 DEF FieldComplexity
  <2> HIDE DEF own
  <2> QED BY <1>1, <2>1 DEF SafeAdd, Wrap, MachineInt
<1> QED BY <1>2, <1>3

LEMMA FieldCapped ==
  ASSUME NEW opts \in Options, NEW type, NEW sel, NEW w \in 0 .. WideInt
  PROVE  FieldComplexity(type, sel, Capped(w), opts, MaxInt)
           = Capped(FieldComplexity(type, sel, w, Widened(opts), WideInt))
<1> DEFINE field == <<type, sel.key, sel.args>>
           own == IF sel.sels = <<>> THEN opts.scalar ELSE 1
<1>1. MaxInt \in Nat \ {0} /\ WideInt \in Nat /\ MaxInt <= WideInt
  BY CostAssumption
<1>2. own \in MachineInt(MaxInt)
  <2>1. opts.scalar \in MachineInt(MaxInt)
    BY CostAssumption
  <2> QED BY <1>1, <2>1 DEF MachineInt
<1>3. /\ Widened(opts).scalar = opts.scalar /\ DOMAIN Widened(opts).custom = DOMAIN opts.custom
      /\ field \in DOMAIN opts.custom =>
           Widened(opts).custom[field][w] = opts.custom[field][Capped(w)]
  BY DEF Widened
<1>4. CASE field \in DOMAIN opts.custom /\ opts.custom[field][Capped(w)] >= 1
  <2>1. Capped(w) \in 0 .. MaxInt
    BY <1>1 DEF Capped
  <2>2. opts.custom[field][Capped(w)] \in MachineInt(MaxInt)
    BY <1>4, <2>1, CostAssumption
  <2>3. /\ FieldComplexity(type, sel, w, Widened(opts), WideInt) = opts.custom[field][Capped(w)]
        /\ FieldComplexity(type, sel, Capped(w), opts, MaxInt) = opts.custom[field][Capped(w)]
    BY <1>3, <1>4 DEF FieldComplexity
  <2>4. PICK cost : cost = opts.custom[field][Capped(w)]
    OBVIOUS
  <2>5. Capped(cost) = cost
    BY <1>1, <2>2, <2>4 DEF MachineInt, Capped
  <2> QED BY <2>3, <2>4, <2>5
<1>5. CASE ~(field \in DOMAIN opts.custom /\ opts.custom[field][Capped(w)] >= 1)
  <2>1. /\ FieldComplexity(type, sel, w, Widened(opts), WideInt) = SafeAdd(own, w, WideInt)
        /\ FieldComplexity(type, sel, Capped(w), opts, MaxInt) = SafeAdd(own, Capped(w), MaxInt)
    BY <1>3, <1>5 DEF FieldComplexity
  <2> HIDE DEF own
  <2>2. CASE own < 0
    BY <1>1, <1>2, <2>1, <2>2 DEF SafeAdd, MachineInt, Capped
  <2>3. CASE own >= 0
    <3>1. own \in 0 .. MaxInt /\ own \in 0 .. WideInt
      BY <1>1, <1>2, <2>3 DEF MachineInt
    <3>2. SafeAdd(own, w, WideInt) = IF own + w > WideInt THEN WideInt ELSE own + w
      BY <1>1, <3>1 DEF SafeAdd, Wrap
    <3>3. SafeAdd(own, Capped(w), MaxInt)
            = IF own + Capped(w) > MaxInt THEN MaxInt ELSE own + Capped(w)
      BY <1>1, <3>1 DEF SafeAdd, Wrap, Capped
    <3> QED BY <1>1, <2>1, <3>1, <3>2, <3>3 DEF Capped
  <2> QED BY <1>2, <2>2, <2>3 DEF MachineInt
<1> QED BY <1>4, <1>5

LEMMA InterfaceFieldTyped ==
  ASSUME NEW max, NEW opts, Priced(opts, max), NEW sel, NEW child \in 0 .. max
  PROVE  InterfaceFieldComplexity(sel, child, opts, max) \in 0 .. max
<1> DEFINE Costs == {0} \cup {FieldComplexity(t, sel, child, opts, max) : t \in Implementors[sel.def]}
<1>1. max \in Nat \ {0}
  BY DEF Priced
<1>2. \A t : FieldComplexity(t, sel, child, opts, max) \in 0 .. max
  BY FieldTyped
<1>3. Costs \subseteq 0 .. max /\ Costs # {}
  BY <1>1, <1>2
<1>4. InterfaceFieldComplexity(sel, child, opts, max) = Max(Costs)
  BY DEF InterfaceFieldComplexity
<1> HIDE DEF Costs
<1>5. Max(Costs) \in Costs
  BY <1>1, <1>3, Largest
<1> QED BY <1>3, <1>4, <1>5

LEMMA InterfaceFieldCapped ==
  ASSUME NEW opts \in Options, NEW sel, NEW w \in 0 .. WideInt
  PROVE  InterfaceFieldComplexity(sel, Capped(w), opts, MaxInt)
           = Capped(InterfaceFieldComplexity(sel, w, Widened(opts), WideInt))
<1> DEFINE wide(t) == FieldComplexity(t, sel, w, Widened(opts), WideInt)
           cost(t) == FieldComplexity(t, sel, Capped(w), opts, MaxInt)
           Wide == {0} \cup {wide(t) : t \in Implementors[sel.def]}
           Costs == {0} \cup {cost(t) : t \in Implementors[sel.def]}
<1>1. MaxInt \in Nat \ {0} /\ WideInt \in Nat /\ MaxInt <= WideInt
  BY CostAssumption
<1>2. \A t : wide(t) \in 0 .. WideInt /\ cost(t) = Capped(wide(t))
  BY FieldCapped, FieldTyped, AllPriced
<1>3. /\ InterfaceFieldComplexity(sel, w, Widened(opts), WideInt) = Max(Wide)
      /\ InterfaceFieldComplexity(sel, Capped(w), opts, MaxInt) = Max(Costs)
  BY DEF InterfaceFieldComplexity
<1> HIDE DEF wide, cost
<1>4. Wide \subseteq 0 .. WideInt /\ Wide # {} /\ Costs # {}
  BY <1>1, <1>2
<1>5. Costs \subseteq 0 .. MaxInt
  BY <1>1, <1>2 DEF Capped
<1>6. ASSUME NEW n \in Wide PROVE Capped(n) \in Costs
  <2>1. CASE n = 0
    BY <1>1, <2>1 DEF Capped
  <2>2. CASE n # 0
    BY <1>2, <2>2
  <2> QED BY <2>1, <2>2
<1>7. ASSUME NEW c \in Costs PROVE \E n \in Wide : c = Capped(n)
  <2>1. CASE c = 0
    BY <1>1, <2>1 DEF Capped
  <2>2. CASE c # 0
    BY <1>2, <2>2
  <2> QED BY <2>1, <2>2
<1> HIDE DEF Wide, Costs
<1>8. Max(Wide) \in Wide /\ \A n \in Wide : Max(Wide) >= n
  BY <1>1, <1>4, Largest
<1>9. Max(Costs) \in Costs /\ \A c \in Costs : Max(Costs) >= c
  BY <1>1, <1>4, <1>5, Largest
<1>10. PICK n \in Wide : Max(Costs) = Capped(n)
  BY <1>7, <1>9
<1>11. Max(Costs) >= Capped(Max(Wide)) /\ Max(Wide) >= n
  BY <1>6, <1>8, <1>9
<1>12. n \in 0 .. WideInt /\ Max(Wide) \in 0 .. WideInt
  BY <1>4, <1>8
<1>13. Max(Costs) = Capped(Max(Wide))
  <2> DEFINE a == Max(Wide)  c == Max(Costs)
  <2>1. c = Capped(n) /\ c >= Capped(a) /\ a >= n /\ n \in 0 .. WideInt /\ a \in 0 .. WideInt
    BY <1>10, <1>11, <1>12
  <2> HIDE DEF a, c
  <2>2. c = Capped(a)
    BY <1>1, <2>1 DEF Capped
  <2> QED BY <2>2 DEF a, c
<1> QED BY <1>3, <1>13

LEMMA CostTyped ==
  ASSUME NEW max, NEW opts, Priced(opts, max), NEW sel, NEW inner, inner[Body(sel)] \in 0 .. max
  PROVE  Cost(inner, sel, opts, max) \in 0 .. max
BY FieldTyped, InterfaceFieldTyped DEF Cost

LEMMA CostCapped ==
  ASSUME NEW opts \in Options, NEW sel, NEW inner, NEW wide, wide[Body(sel)] \in 0 .. WideInt,
         inner[Body(sel)] = Capped(wide[Body(sel)])
  PROVE  Cost(inner, sel, opts, MaxInt) = Capped(Cost(wide, sel, Widened(opts), WideInt))
BY FieldCapped, InterfaceFieldCapped DEF Cost

LEMMA SumTyped ==
  ASSUME NEW max \in Nat, NEW a \in 0 .. max, NEW b \in 0 .. max
  PROVE  SafeAdd(a, b, max) \in 0 .. max
BY SumOrMaximum

\* The running sum of a selection set, when what is below it has been computed.
Sums(acc, inner, sels, opts, max) ==
  /\ acc \in [0 .. Len(sels) -> 0 .. max] /\ acc[0] = 0
  /\ \A i \in 1 .. Len(sels) :
       acc[i] = IF Ignored(sels[i], opts) THEN acc[i - 1]
                ELSE SafeAdd(acc[i - 1], Cost(inner, sels[i], opts, max), max)

Known(inner, sels, max) == \A i \in DOMAIN sels : inner[Body(sels[i])] \in 0 .. max

SummedUp(inner, sels, opts, max) ==
  \E acc : /\ Sums(acc, inner, sels, opts, max)
           /\ SelectionSetComplexity(inner, sels, opts, max) = acc[Len(sels)]

LEMMA Summed ==
  ASSUME NEW max, NEW opts, Priced(opts, max), NEW sels \in SelectionSets, NEW inner,
         Known(inner, sels, max)
  PROVE  SummedUp(inner, sels, opts, max)
<1> DEFINE n == Len(sels)
           One(i, a) == IF Ignored(sels[i], opts) THEN a
                        ELSE SafeAdd(a, Cost(inner, sels[i], opts, max), max)
           E(g) == [i \in 0 .. n |-> IF i = 0 THEN 0 ELSE One(i, g[i - 1])]
           step == [i \in 1 .. n |-> [a \in 0 .. max |-> One(i, a)]]
           g == CHOOSE g : g = E(g)
<1>1. max \in Nat /\ n \in Nat /\ DOMAIN sels = 1 .. n
  BY Document DEF Priced
<1>2. ASSUME NEW i \in 1 .. n, NEW a \in 0 .. max PROVE One(i, a) \in 0 .. max
  <2>1. Cost(inner, sels[i], opts, max) \in 0 .. max
    BY <1>1, CostTyped DEF Known
  <2>2. SafeAdd(a, Cost(inner, sels[i], opts, max), max) \in 0 .. max
    BY <1>1, <2>1, SumTyped
  <2> QED BY <2>2
<1>3. SelectionSetComplexity(inner, sels, opts, max) = g[n]
  BY DEF SelectionSetComplexity
<1> HIDE DEF One, n
<1>4. step \in [1 .. n -> [0 .. max -> 0 .. max]]
  BY <1>2
<1>5. \A i \in 1 .. n : \A a \in 0 .. max : step[i][a] = One(i, a)
  OBVIOUS
<1> HIDE DEF step
<1>6. 0 \in 0 .. max
  BY <1>1
<1>7. PICK f : Solves(f, 0 .. max, 0, step, n)
  BY <1>1, <1>4, <1>6, Solvable
<1>8. f \in [0 .. n -> 0 .. max] /\ f[0] = 0 /\ \A i \in 1 .. n : f[i] = One(i, f[i - 1])
  <2>1. f \in [0 .. n -> 0 .. max] /\ f[0] = 0 /\ \A i \in 1 .. n : f[i] = step[i][f[i - 1]]
    BY <1>7 DEF Solves
  <2>2. \A i \in 1 .. n : i - 1 \in 0 .. n
    BY <1>1
  <2>3. \A i \in 1 .. n : f[i - 1] \in 0 .. max
    BY <2>1, <2>2
  <2> QED BY <1>5, <2>1, <2>3
<1>9. f = E(f)
  <2>1. ASSUME NEW i \in 0 .. n PROVE f[i] = IF i = 0 THEN 0 ELSE One(i, f[i - 1])
    BY <1>1, <1>8
  <2> QED BY <1>8, <2>1
<1>10. g = E(g)
  <2> HIDE DEF E
  <2> QED BY <1>9
<1> HIDE DEF g
<1>11. g[0] = 0 /\ \A i \in 1 .. n : g[i] = One(i, g[i - 1])
  <2>1. \A i \in 0 .. n : g[i] = IF i = 0 THEN 0 ELSE One(i, g[i - 1])
    BY <1>10
  <2>2. 0 \in 0 .. n /\ \A i \in 1 .. n : i \in 0 .. n /\ i # 0
    BY <1>1
  <2> QED BY <2>1, <2>2
<1>12. Solves(g, 0 .. max, 0, step, n)
  <2>1. g = [i \in 0 .. n |-> g[i]]
    BY <1>10
  <2>2. \A i \in 1 .. n : g[i - 1] \in 0 .. max => g[i] = step[i][g[i - 1]]
    BY <1>5, <1>11
  <2>3. Recurses(g, 0 .. max, 0, step, n)
    BY <1>11, <2>1, <2>2 DEF Recurses
  <2> HIDE DEF E
  <2> QED BY <1>1, <1>4, <1>6, <2>3, Defined
<1>13. g \in [0 .. n -> 0 .. max]
  BY <1>12 DEF Solves
<1>14. Sums(g, inner, sels, opts, max)
  BY <1>11, <1>13 DEF Sums, One, n
<1> QED BY <1>3, <1>14 DEF n, SummedUp

\* What is summed up depends on the costs of what is just below only.
LEMMA SummedLocal ==
  ASSUME NEW max, NEW opts, Priced(opts, max), NEW sels \in SelectionSets,
         NEW inner, NEW other, Known(inner, sels, max),
         \A i \in DOMAIN sels : inner[Body(sels[i])] = other[Body(sels[i])]
  PROVE  /\ SelectionSetComplexity(inner, sels, opts, max) \in 0 .. max
         /\ SelectionSetComplexity(inner, sels, opts, max)
              = SelectionSetComplexity(other, sels, opts, max)
<1>1. Len(sels) \in Nat /\ DOMAIN sels = 1 .. Len(sels)
  BY Document
<1>2. PICK a : Sums(a, inner, sels, opts, max)
               /\ SelectionSetComplexity(inner, sels, opts, max) = a[Len(sels)]
  <2>1. SummedUp(inner, sels, opts, max)
    BY Summed
  <2> QED BY <2>1 DEF SummedUp
<1>3. PICK b : Sums(b, other, sels, opts, max)
               /\ SelectionSetComplexity(other, sels, opts, max) = b[Len(sels)]
  <2>1. Known(other, sels, max)
    BY DEF Known
  <2>2. SummedUp(other, sels, opts, max)
    BY <2>1, Summed
  <2> QED BY <2>2 DEF SummedUp
<1>4. a \in [0 .. Len(sels) -> 0 .. max] /\ a[0] = b[0]
  BY <1>2, <1>3 DEF Sums
<1>5. ASSUME NEW i \in 1 .. Len(sels), a[i - 1] = b[i - 1] PROVE a[i] = b[i]
  <2>1. inner[Body(sels[i])] = other[Body(sels[i])]
    BY <1>1
  <2>2. Cost(inner, sels[i], opts, max) = Cost(other, sels[i], opts, max)
    BY <2>1 DEF Cost
  <2> QED BY <1>2, <1>3, <1>5, <2>2 DEF Sums
<1>6. Len(sels) \in 0 .. Len(sels)
  BY <1>1
<1>7. \A i \in 0 .. Len(sels) : a[i] = b[i]
  <2>1. a[0] = b[0]
    BY <1>4
  <2>2. Len(sels) \in Nat
    BY <1>1
  <2>3. \A i \in 1 .. Len(sels) : a[i - 1] = b[i - 1] => a[i] = b[i]
    BY <1>5, Zenon
  <2> QED BY <2>1, <2>2, <2>3, Agree, Zenon
<1> QED BY <1>2, <1>3, <1>4, <1>6, <1>7

LEMMA Below ==
  ASSUME NEW sels \in SelectionSets, NEW i \in DOMAIN sels
  PROVE  Body(sels[i]) \in SelectionSets /\ Depth[Body(sels[i])] < Depth[sels]
BY DocumentAssumption

LEMMA Calculated ==
  ASSUME NEW max, NEW opts, Priced(opts, max)
  PROVE  /\ Calculate(opts, max) \in [SelectionSets -> 0 .. max]
         /\ \A sels \in SelectionSets :
              Calculate(opts, max)[sels]
                = SelectionSetComplexity(Calculate(opts, max), sels, opts, max)
<1> DEFINE D == SelectionSets
           S == 0 .. max
           E(g) == [sels \in D |-> SelectionSetComplexity(g, sels, opts, max)]
           step == [sels \in D |-> [g \in [D -> S] |-> SelectionSetComplexity(g, sels, opts, max)]]
           g == CHOOSE g : g = E(g)
<1>1. Depth \in [D -> Nat] /\ 0 \in S
  <2>1. Depth \in [D -> Nat]
    BY DocumentAssumption
  <2>2. max \in Nat
    BY DEF Priced
  <2> QED BY <2>1, <2>2
<1>2. Calculate(opts, max) = g
  BY DEF Calculate
<1>3. ASSUME NEW sels \in D, NEW f, NEW h,
             \A y \in D : Depth[y] < Depth[sels] => f[y] = h[y] /\ f[y] \in S
      PROVE  /\ SelectionSetComplexity(f, sels, opts, max) \in S
             /\ SelectionSetComplexity(f, sels, opts, max)
                  = SelectionSetComplexity(h, sels, opts, max)
  <2>1. Known(f, sels, max) /\ \A i \in DOMAIN sels : f[Body(sels[i])] = h[Body(sels[i])]
    BY <1>3, Below DEF Known
  <2> HIDE DEF S
  <2> QED BY <2>1, SummedLocal DEF S
<1>4. step \in [D -> [[D -> S] -> S]]
  <2>1. ASSUME NEW sels \in D, NEW f \in [D -> S]
        PROVE  SelectionSetComplexity(f, sels, opts, max) \in S
    BY <1>3
  <2> HIDE DEF S
  <2> QED BY <2>1
<1>5. Local(D, S, Depth, step)
  <2> SUFFICES ASSUME NEW x \in D, NEW f \in [D -> S], NEW h \in [D -> S],
                      \A y \in D : Depth[y] < Depth[x] => f[y] = h[y]
               PROVE  step[x][f] = step[x][h]
    BY DEF Local
  <2>1. SelectionSetComplexity(f, x, opts, max) = SelectionSetComplexity(h, x, opts, max)
    BY <1>3
  <2> HIDE DEF S
  <2> QED BY <2>1
<1>6. PICK f : SolvesAll(f, D, S, step)
  <2> HIDE DEF D, S, step, E
  <2> QED BY <1>1, <1>4, <1>5, RankRecursion
<1>7. f = E(f)
  <2>1. f \in [D -> S] /\ \A x \in D : f[x] = step[x][f]
    BY <1>6 DEF SolvesAll
  <2> HIDE DEF S
  <2> QED BY <2>1
<1>8. g = E(g)
  <2> HIDE DEF E
  <2> QED BY <1>7
<1> HIDE DEF g, step
<1>9. \A x \in D : g[x] = SelectionSetComplexity(g, x, opts, max)
  BY <1>8
<1>10. D \subseteq {x \in D : g[x] \in S}
  <2> DEFINE T == {x \in D : g[x] \in S}
  <2>1. ASSUME NEW x \in D, \A y \in D : Depth[y] < Depth[x] => y \in T PROVE x \in T
    <3>1. SelectionSetComplexity(g, x, opts, max) \in S
      BY <1>3, <2>1
    <3> QED BY <1>9, <3>1
  <2> HIDE DEF T, D
  <2>2. D \subseteq T
    BY <1>1, <2>1, RankInduction
  <2> QED BY <2>2 DEF T
<1>11. g \in [D -> S]
  <2> HIDE DEF S
  <2> QED BY <1>8, <1>10
<1> QED BY <1>2, <1>9, <1>11

(***************************************************************************)
(* No document and no costs, however large, make a cost that is wrong,     *)
(* whatever the users' functions return: it is the one that wider ints     *)
(* have, or the largest int.                                               *)
(***************************************************************************)
THEOREM CostRight ==
  ASSUME NEW opts \in Options
  PROVE  \A sels \in SelectionSets : Saturates(sels, opts)
<1> DEFINE low == Calculate(opts, MaxInt)
           wide == Calculate(Widened(opts), WideInt)
           T == {sels \in SelectionSets : low[sels] = Capped(wide[sels])}
<1>1. MaxInt \in Nat \ {0} /\ WideInt \in Nat /\ MaxInt <= WideInt
      /\ Depth \in [SelectionSets -> Nat]
  BY CostAssumption, DocumentAssumption
<1>2. /\ low \in [SelectionSets -> 0 .. MaxInt] /\ wide \in [SelectionSets -> 0 .. WideInt]
      /\ \A sels \in SelectionSets :
           /\ low[sels] = SelectionSetComplexity(low, sels, opts, MaxInt)
           /\ wide[sels] = SelectionSetComplexity(wide, sels, Widened(opts), WideInt)
  BY Calculated, AllPriced
<1> HIDE DEF low, wide
<1>3. ASSUME NEW sels \in SelectionSets,
             \A y \in SelectionSets : Depth[y] < Depth[sels] => y \in T
      PROVE  sels \in T
  <2>1. Len(sels) \in Nat /\ DOMAIN sels = 1 .. Len(sels)
    BY Document
  <2>2. \A i \in DOMAIN sels :
          /\ Body(sels[i]) \in SelectionSets
          /\ low[Body(sels[i])] = Capped(wide[Body(sels[i])])
          /\ low[Body(sels[i])] \in 0 .. MaxInt /\ wide[Body(sels[i])] \in 0 .. WideInt
    BY <1>2, <1>3, Below
  <2>3. PICK a : Sums(a, low, sels, opts, MaxInt)
                 /\ SelectionSetComplexity(low, sels, opts, MaxInt) = a[Len(sels)]
    <3>1. Known(low, sels, MaxInt)
      BY <2>2 DEF Known
    <3>2. SummedUp(low, sels, opts, MaxInt)
      BY <3>1, Summed, AllPriced
    <3> QED BY <3>2 DEF SummedUp
  <2>4. PICK b : Sums(b, wide, sels, Widened(opts), WideInt)
                 /\ SelectionSetComplexity(wide, sels, Widened(opts), WideInt) = b[Len(sels)]
    <3>1. Known(wide, sels, WideInt)
      BY <2>2 DEF Known
    <3>2. SummedUp(wide, sels, Widened(opts), WideInt)
      BY <3>1, Summed, AllPriced
    <3> QED BY <3>2 DEF SummedUp
  <2>5. PICK c : c = [i \in 0 .. Len(sels) |-> Capped(b[i])]
    OBVIOUS
  <2>6. a[0] = c[0]
    BY <1>1, <2>1, <2>3, <2>4, <2>5 DEF Sums, Capped
  <2>7. ASSUME NEW i \in 1 .. Len(sels), a[i - 1] = c[i - 1] PROVE a[i] = c[i]
    <3>1. i - 1 \in 0 .. Len(sels) /\ i \in 0 .. Len(sels) /\ i \in DOMAIN sels
      BY <2>1
    <3>2. a[i - 1] = Capped(b[i - 1]) /\ c[i] = Capped(b[i]) /\ b[i - 1] \in 0 .. WideInt
      BY <2>4, <2>5, <2>7, <3>1 DEF Sums
    <3>3. CASE Ignored(sels[i], opts)
      <4>1. Ignored(sels[i], Widened(opts))
        BY <3>3 DEF Ignored, Widened
      <4> QED BY <2>3, <2>4, <3>2, <3>3, <4>1 DEF Sums
    <3>4. CASE ~Ignored(sels[i], opts)
      <4>1. PICK x, y : /\ x = Cost(low, sels[i], opts, MaxInt)
                        /\ y = Cost(wide, sels[i], Widened(opts), WideInt)
        OBVIOUS
      <4>2. y \in 0 .. WideInt /\ x = Capped(y)
        BY <2>2, <3>1, <4>1, CostCapped, CostTyped, AllPriced
      <4>3. a[i] = SafeAdd(Capped(b[i - 1]), Capped(y), MaxInt) /\ b[i] = SafeAdd(b[i - 1], y, WideInt)
        <5>1. ~Ignored(sels[i], Widened(opts))
          BY <3>4 DEF Ignored, Widened
        <5> QED BY <2>3, <2>4, <3>2, <3>4, <4>1, <4>2, <5>1 DEF Sums
      <4>4. PICK m : m = b[i - 1]
        OBVIOUS
      <4>5. m \in 0 .. WideInt /\ Capped(m) \in 0 .. MaxInt /\ Capped(y) \in 0 .. MaxInt
        BY <1>1, <3>2, <4>2, <4>4 DEF Capped
      <4>6. SafeAdd(m, y, WideInt) = IF m + y > WideInt THEN WideInt ELSE m + y
        BY <1>1, <4>2, <4>5, SumOrMaximum
      <4>7. SafeAdd(Capped(m), Capped(y), MaxInt)
              = IF Capped(m) + Capped(y) > MaxInt THEN MaxInt ELSE Capped(m) + Capped(y)
        BY <1>1, <4>5, SumOrMaximum
      <4>8. SafeAdd(Capped(m), Capped(y), MaxInt) = Capped(SafeAdd(m, y, WideInt))
        BY <1>1, <4>2, <4>5, <4>6, <4>7 DEF Capped
      <4> QED BY <3>2, <4>3, <4>4, <4>8
    <3> QED BY <3>3, <3>4
  <2>8. Len(sels) \in 0 .. Len(sels)
    BY <2>1
  <2>9. \A i \in 0 .. Len(sels) : a[i] = c[i]
    <3>1. \A i \in 1 .. Len(sels) : a[i - 1] = c[i - 1] => a[i] = c[i]
      BY <2>7, Zenon
    <3> QED BY <2>1, <2>6, <3>1, Agree, Zenon
  <2>10. a[Len(sels)] = Capped(b[Len(sels)])
    BY <2>5, <2>8, <2>9
  <2> QED BY <1>2, <2>3, <2>4, <2>10
<1>4. SelectionSets \subseteq T
  <2> HIDE DEF T
  <2> QED BY <1>1, <1>3, RankInduction
<1>5. ASSUME NEW sels \in SelectionSets PROVE low[sels] = Capped(wide[sels])
  BY <1>4
<1> QED BY <1>5 DEF Saturates, Capped, low, wide

(***************************************************************************)
(* complexity.go: so what the run checks of the costs it instantiates      *)
(* holds of the specification, for every document and every function that  *)
(* users may give for the cost of a field.                                 *)
(***************************************************************************)
THEOREM CostsSaturate == LSpec => []CostSaturates
<1>1. CostSaturates
  BY CostRight DEF CostSaturates
<1> QED BY <1>1, PTL
=============================================================================
