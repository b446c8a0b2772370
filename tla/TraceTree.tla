----------------------------- MODULE TraceTree -----------------------------
(***************************************************************************)
(* The tree of a federated trace                                           *)
(* (graphql/handler/apollofederatedtracingv1/tree_builder.go).  The        *)
(* goroutines of the fields of one operation add a node each while they    *)
(* are resolved.  A path has a node of the field's own and needs one for   *)
(* each place in a list above it; whoever finds that one missing adds it.  *)
(* The mutex is held for the look-up and for the insertion, not between.   *)
(*                                                                         *)
(* A node is told from another one by its path and by the field whose      *)
(* goroutine has added it.                                                 *)
(***************************************************************************)
EXTENDS Naturals, Sequences

CONSTANT Path  \* the paths of the fields that may be traced

ASSUME PathAssumption == Path \subseteq Seq(STRING) \ {<<>>}

VARIABLES
  nodes,  \* tb.nodes: the node of a path
  tree,   \* the nodes that hang below another one: node to parent
  walk,   \* where the goroutine of a field stands: what it does at which of its prefixes
  stopped \* StopTimer has been called and the trace been marshalled

tvars == <<nodes, tree, walk, stopped>>

Prefix(p, k) == SubSeq(p, 1, k)
Root         == [path |-> <<>>, by |-> <<>>]
Node(p, k)   == [path |-> Prefix(p, k), by |-> p]

TInit ==
  /\ nodes = [p \in {<<>>} |-> Root]
  /\ tree = [n \in {} |-> Root]
  /\ walk = [p \in Path |-> [at |-> "idle", level |-> Len(p), parent |-> Root]]
  /\ stopped = FALSE

Goto(p, at, level, parent) == walk' = [walk EXCEPT ![p] = [at |-> at, level |-> level, parent |-> parent]]

\* Once the timer is stopped no field is traced.
WillResolveField(p) ==
  /\ walk[p].at = "idle"
  /\ Goto(p, IF stopped THEN "untraced" ELSE "look", Len(p), Root)
  /\ UNCHANGED <<nodes, tree, stopped>>

\* ensureParentNode: the parent is there, or has to be added first, below its own parent.
EnsureParentNode(p) ==
  /\ walk[p].at = "look"
  /\ LET k == walk[p].level  up == Prefix(p, k - 1) IN
       IF up \in DOMAIN nodes THEN Goto(p, "insert", k, nodes[up])
       ELSE Goto(p, "look", k - 1, Root)
  /\ UNCHANGED <<nodes, tree, stopped>>

Added(f, x, y) == [z \in DOMAIN f \cup {x} |-> IF z = x THEN y ELSE f[z]]

\* The end of newNode; one that has been called for a missing parent goes back to its caller.
Insert(p, self, below) ==
  LET k == walk[p].level IN
    /\ nodes' = Added(nodes, self.path, self)
    /\ tree' = below
    /\ IF k = Len(p) THEN Goto(p, "resolve", k, self) ELSE Goto(p, "insert", k + 1, self)
    /\ UNCHANGED stopped

\* Mutant: a node that is added for another one's sake is put into the map, but not below its parent.
MutOrphan(p) ==
  /\ walk[p].at = "insert"
  /\ LET self == Node(p, walk[p].level) IN
       Insert(p, self, IF self.path = p THEN Added(tree, self, walk[p].parent) ELSE tree)

InsertNode(p) ==
  /\ walk[p].at = "insert"
  /\ LET self == Node(p, walk[p].level) IN Insert(p, self, Added(tree, self, walk[p].parent))

Resolved(p) ==
  /\ walk[p].at = "resolve"
  /\ Goto(p, "done", Len(p), Root)
  /\ UNCHANGED <<nodes, tree, stopped>>

StopTimer ==
  /\ ~stopped
  /\ stopped' = TRUE
  /\ UNCHANGED <<nodes, tree, walk>>

TNext ==
  \/ \E p \in Path : WillResolveField(p) \/ EnsureParentNode(p) \/ InsertNode(p) \/ Resolved(p)
  \/ StopTimer

TSpec == TInit /\ [][TNext]_tvars

Over(p) == walk[p].at \in {"done", "untraced"}
-----------------------------------------------------------------------------
(***************************************************************************)
(* However the goroutines interleave, what is marshalled is a tree: every  *)
(* node hangs below one that is there and has the path above its own, so   *)
(* each is reached from the root.                                          *)
(***************************************************************************)
Connected ==
  \A n \in DOMAIN tree :
    /\ n.path # <<>>
    /\ tree[n].path = Prefix(n.path, Len(n.path) - 1)
    /\ tree[n] = Root \/ tree[n] \in DOMAIN tree

(***************************************************************************)
(* No field is lost from the trace: a field that is being resolved has one *)
(* node of its own, which is also the one its path leads to in the map,    *)
(* where its errors will be attached.                                      *)
(***************************************************************************)
FieldsTraced ==
  \A p \in Path : walk[p].at \in {"resolve", "done"} =>
    /\ Node(p, Len(p)) \in DOMAIN tree
    /\ nodes[p].by = p
    /\ \A n \in DOMAIN tree : n.path = p => n.by = p

\* However the goroutines interleave, what they build is a tree, and it has every traced field.
TraceIsTree == Connected /\ FieldsTraced
=============================================================================
