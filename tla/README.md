# gqlgen in TLA+

Specifications of the parts of gqlgen where goroutines, channels, timers and
network peers meet, model-checked with TLC and proved with TLAPS.  Paths below
are relative to the repository's root; `PROJECT.json` maps every definition to
the lines it models.

## 1. The system

gqlgen is a code generator and a run time.  The generator (`codegen/`,
`plugin/`, `api/`, `internal/`) is a sequential batch program.  The run time
(`graphql/`) executes operations concurrently and streams responses over
several transports; that is where the hard behaviour is.

| component | state it keeps | operations | interacts with |
|---|---|---|---|
| object dispatch and @defer (`graphql/dispatch.go`, `fieldset.go`, `execution_context_state.go`, `codegen/object.gotpl`, `codegen/generated!.gotpl`) | field sets with values and an `Invalids` counter; `Deferred`, `PendingDeferred`, the unbuffered channel `DeferredResults`; the response contexts' errors | `DispatchObject`, `FieldSet.Dispatch`, `ProcessDeferredGroup`, the response handler | called by a transport; starts a goroutine per field and per deferred group |
| multipart/mixed (`transport/http_multipart_mixed.go`) | the aggregator's two buffers, mutex and `done` channel; the body written so far | `Do`, `Add`, `Done`, `flush`, the ticker's goroutine | pulls responses from the handler; two goroutines share the ResponseWriter |
| websocket (`transport/websocket*.go`) | `active` (id → cancel), `closed`, `receivedPong`, the read deadline, the contexts | `init`, `run`, `subscribe`, `close`, `closeOnCancel`, `ping`, keep-alive | client, executor, server shutdown; one goroutine per operation |
| server-sent events (`transport/sse.go`) | ticker, mutex around Flush | `Do`, `keepAlive` | two goroutines share the ResponseWriter |
| subscription streams (`resolve_field.go`, `shardruntime.adaptStreamChannel`, `codegen/generated!.gotpl`) | the resolver's channel, the pump's channel, one buffer for all events | a call of the handler: the next event or nil | resolvers, transports |
| entity resolution (`plugin/federation/federation.gotpl`) | the list of entities, the groups of representations | `__resolve_entities`, `resolveEntityGroup`, `resolveEntity`, `resolveManyEntities` | the router; a goroutine per group and per representation |
| tracing (`handler/apollofederatedtracingv1`) | the tree of the trace, a map from paths to its nodes | `WillResolveField`, `newNode`, `ensureParentNode`, `StopTimer` | the goroutines of all fields |
| POST, GET, forms (`transport/http_*.go`) | none | one request, one response | call the handler once |
| executor (`executor/`, `handler.go`) | middleware chain, query cache | `CreateOperationContext`, `DispatchOperation`, `DispatchError` | transports, extensions, generated code |
| persisted queries and caches (`handler/extension/apq.go`, `cache.go`, `handler/lru`) | hash → query, query → document | `MutateOperationParameters`, `Get`, `Add` | shared by all requests |
| batch resolvers (`graphql/batch.go`) | one result per group and field, `once`, `done` | `GetFieldResult`, `ResolveBatchGroupResult` | called by the goroutines of all parents |
| list marshalling (`graphql/slice.go`) | result array, semaphore, nil flag | `MarshalSliceConcurrently` | context, element marshallers |
| field collection (`graphql/executable_schema.go`, `collect_fields_cache_store.go`) | per-operation cache | `CollectFields` | all dispatchers of an operation |
| complexity limit (`complexity/`) | none | recursive cost with a saturating sum | executor |
| shard runtime (`executor/shardruntime`) | registries and their copy-on-write snapshots | `Register*`, `Lookup*` | generated shards |
| code generator and plugins | the package graph | sequential | file system |

### What is hard, and what makes each component correct

* **Dispatch and @defer.** The handler decides from a counter that concurrent
  dispatchers raise whether to wait, to say `hasNext` or to end.  Correct:
  `hasNext` is true exactly on the responses that are not the last; `nil` comes
  when everything that was started has been delivered; each payload once, the
  initial one first; nothing is marshalled while a goroutine still writes into
  it; a null payload carries an error; no goroutine is left behind.
* **multipart/mixed.** A ticker cuts the responses into batches that two
  goroutines write.  Correct: the body is a well-formed, complete multipart body
  with every response in order; nobody writes after `Do` has returned; a
  response is written although no other one follows.
* **websocket.** The run loop, `closeOnCancel`, the tickers and one goroutine per
  operation share a map and a flag, and the client may reuse ids at any time.
  Correct: one close and one `CloseFunc`; stop and close reach every operation;
  no cancel function outlives its operation; every operation ends with complete
  or an error; a client that answers pings stays, one that does not goes.
* **Server-sent events.** Two goroutines write to one ResponseWriter, and the mutex
  protects only Flush and the ticker.  Correct: what the handler has returned
  reaches the client before the handler is called again; the stream is whole at
  the end; a quiet stream is pinged; neither goroutine outlives the request.
* **Lists and batch resolvers.** A goroutine per element, as many as the worker
  limit allows; the first one that asks for a batch field calls the resolver for
  all.  Correct: the array is complete or the Go value is nil with an error (a nil
  `Array` is written as `[]`, `jsonw.go:73-82`);
  everybody takes the own result or reports an error at the own place; one call;
  nobody waits for ever when the resolver panics.
* **Caches.** All requests share hash → query and query → document, which forget.
  Correct: nobody can tell, except by a hash that is not found; only validated
  documents are reused; a client that retries gets its answer.
* **Subscription streams.** A resolver, a pump and a subscriber that may leave at any time.
  Correct: every event once and in order, the end only after the last one or when the subscriber
  has gone; no goroutine is left behind; an event keeps its data until it is written.
* **Entity resolution.** Goroutines of many types store into one list.  Correct: an
  entity is at the index of its own representation, unless a part of the key was missing and
  had to be made up; what is missing is explained by an error, or by a resolver that has
  returned too few; nobody stores after the list has been returned.
* **Tracing and field collection.** The goroutines of a list's objects add nodes to
  one tree and field slices to one cache.  Correct: the tree is one and has every traced field;
  objects of one type use one slice; each response key is collected with all its
  selections, twice only when it is selected on two types neither of which implements the other.
* **Complexity.** Correct: no sum that overflows and no negative cost makes an operation
  cheap.  What a user's function returns is taken at its word, also when it has overflowed.
* The hazards of the remaining components are listed in `PROJECT.json`, each at
  its line, with a note saying that no property covers it yet.

## 2. Modules

| module | models | runs |
|---|---|---|
| `IncrementalDelivery` | abstract: what a query's response handler promises to a transport | (refined by `DeferredExec`, used by `MultipartMixed`) |
| `DeferredExec` | dispatcher, field sets, deferred groups, response handler | `defer`, `defer_single` |
| `DeferredExecProofs` | theorems about `DeferredExec` | |
| `MultipartMixed` | the multipart/mixed transport over an `IncrementalDelivery` handler or a subscription's | `multipart`, `multipart_events` |
| `MultipartMixedProofs` | theorems about its two goroutines and the body they write | |
| `WsConnection` | the life of a websocket connection and its operations | `ws` |
| `WsPingPong` | pings, pongs and the read deadline | `ping` |
| `WsConnectionProofs` | theorems about both | |
| `EventStream` | abstract: what a subscription's handler promises to a transport | (refined by `Sse`) |
| `SubscriptionStream` | the resolver's channel, the pump, the handler | (extended by `Sse`) |
| `Sse` | the server-sent events transport over such a stream | `sse` |
| `SseProofs` | theorems about `Sse`, which implements `EventStream` | |
| `MarshalSlice` | a goroutine per element of a list, with any marshaller | (extended by `BatchField`) |
| `BatchField` | a field with a batch resolver in those elements | `batch`, `batch_errors` |
| `QueryCaches` | `CreateOperationContext` with the APQ and query caches | `caches` |
| `QueryCachesProofs` | theorems about `QueryCaches` | |
| `EntityResolution` | the root field `_entities` of a federated server | `entities` |
| `BatchProofs` | theorems about `MarshalSlice`, `BatchField` and `EntityResolution` | |
| `TraceTree` | the tree that the federated tracer builds | (extended by `TracedList`) |
| `FieldCollection` | `CollectFields` as an operator, and what it should compute | (extended by `Complexity`) |
| `TracedList` | a list's objects: the cache of collected fields, their dispatch, their trace | `tracing` |
| `SaturatingSum`, `Complexity` | `safeAdd`, and the cost of an operation | (extended by `TracedList`) |
| `TracedListProofs` | theorems about `TraceTree`, `TracedList`, `FieldCollection` and `Complexity` | |
| `Recursion` | lemmas about recursive functions, for the other proofs | |
| `MC*` | values of the constants for TLC | |

### DeferredExec

The query is a constant: which field sets there are (an object or a deferred
group each), which fields they hold, which objects a field returns, which groups
an object defers, which fields are non-null (`NonNull`), which are null as soon
as one of their objects is (`Strict`: a list of non-null elements, or a field
whose object is itself the value) and which run in the dispatch loop
(`SyncTask`, `Concurrent = false`).  `fs` says where the `DispatchObject` call of
a field set, or the goroutine of a group, stands:

    loop -> dispatch -> spawn -> done            an object
    dispatch -> sending -> sent                  a deferred group

`task` is the progress of a field.  A field's resolver returns null, a leaf or
objects, chosen when it runs.  `invalid` are the sets with `Invalids > 0`, `errs`
the payloads whose response context holds an error, `unspawned` the groups that
an object has added to `Deferred` and not yet handed to `ProcessDeferredGroup`.
`hpc` is the transport's call of the handler: the first call runs the root object
(`CallFirst`, `RootReturns`), the next ones load `PendingDeferred` (`CallNext`),
receive (`Receive`), decrement (`DecrementPending`), and every call ends in
`ReturnResponse`, which marshals and computes `hasNext`.  The steps between
which another goroutine can see or change something are separate actions.  The
two loads for `hasNext` are one step: `Deferred` only grows, and while it is 0
no group can raise it any more.

`IncrementalDelivery` is implemented under the mapping owed = groups that are
counted and running or sending, or in the handler's hand; delivered = the log;
ended = the handler has returned nil.

### MultipartMixed

`hpc` and `tpc` are the request's and the ticker's goroutines.  `flush` is run by
either; it is cut at its writes (`WriteInitial`, `WriteDeferred`,
`WriteBoundary`), with `mu` held throughout, so a use of the writer that the mutex
does not protect would show.  `out` is the body, as a sequence of delimiters,
parts and closing boundaries.  The handler is `IncrementalDelivery`'s, or that
of a `subscription` (chosen initially), whose events never have `hasNext`.

A subscription's handler marshals every event into the same `bytes.Buffer` and
returns a slice of it.  `arrays` are the arrays the buffer has had and what they
hold now, `at` is the array a response's data lies in; `Marshal` overwrites the
last array, or moves on to a new one when the buffer grows.  Data that has been
overwritten may be no JSON any more, at which `writeJson` panics
(`MarshalPanics`): in `Do`'s goroutine the server recovers, in the ticker's
nobody does.

### WsConnection and WsPingPong

A critical section of `c.mu` is one step, because nothing inside one waits for
another goroutine.  `op` is the progress of an operation's goroutine, cut where
the others can intervene: write the end, delete the id, cancel.  `overlap` is a
history variable: the operations that shared their id with another registered
one.  `WsPingPong` is the other half, with time in ticks of `PingPongInterval`;
the two are separate because they share only the mutex and the end of the
connection.  `raced` is a history variable: the ping goroutine has armed the
deadline between a pong and the run loop's clearing of the deadline, which the
code allows since the mutex is released first.

### EventStream, SubscriptionStream and Sse

`queue` is the resolver's channel, of capacity `Capacity`; an unbuffered one is a
queue of one whose sender waits.  `pump` is the goroutine of the split layout
(`adaptStreamChannel`): it selects between its source and the context, then offers the
event in its `hand`; it is `"none"` in the other layouts, where the handler reads
`queue` itself.  `StreamReturns` and `StreamEnds` are the handler's two answers.  When the
context is done and an event is ready, the `select` may do either, so an event may
follow the subscriber's leaving.  `Sse` extends this module; `KeepsPromise` says that
all of it implements `EventStream`, whose variables are those of the same names.

`hpc` and `kpc` are `Do` and `keepAlive`; a Write or a Flush is two steps, entering
the ResponseWriter and leaving it, so that overlapping calls can be seen.  The code
does not exclude them: `keepAlive` writes without the mutex and may still be
running when `Do` has returned.  What is left of the body then is undefined, so
`misused` records it, and the properties say what holds as long as it has not
happened.  `buf` is what has been written and not flushed, `out` what the client has
been sent; a run of pings counts as one.  A negative interval is a value of
`KeepAlivePingInterval`: `resetTicker` panics with the mutex held and the deferred
flush waits for it (`hpc = "stuck"`).  Handlers that panic are not modelled.

### MarshalSlice and BatchField

`MarshalSlice` is the loop (`Start`, `AcquireFails`), its goroutines (`el`), the nil flag
and the wait.  `omit` is the option that leaves panics to the process.
`BatchField` adds to each running element the steps of one batch field: `Ask`,
`First` or `Follow` (`sync.Once` and `done`), the resolver's reply, which may have
the right or a wrong number of results and errors, and `TakeResult`.  A value is
represented by the parents it is the result of.  `BatchItems` is the marshaller's loop
over the list, which collects a type's parents and notes each element's place among them.  `kind` tells a list of
pointers, an interface's list, which is grouped by type (`Parents`, `ResultIndex`),
and a list of struct values, where the code falls back on one call per
parent (`ResolveAlone`).  `MarshalSlice`'s state is changed by its own actions only, so
each behaviour of `BatchField` is one of `MarshalSlice`.

### QueryCaches

`pc` is where `CreateOperationContext` stands for a request; every call of a cache
is a step of its own.  A cache is a set of entries that may lose any of them at any time
(`Forget`), which covers eviction, `NoCache` and entries that were never kept.  A
hash is named by the query it is the hash of and a document by the query it is
parsed from; whether a later step (operation name, variables, other mutators)
rejects the request is part of what was sent.  Clients retry with the query when
their hash was not found.

### EntityResolution

A representation is what its type is (in single mode, in multi mode, unknown to the
server, or missing) and, for each of its type's resolvers, whether it has the key fields
whole, in part (some are null), or is lacking (one is not there, or all are null).  A
resolver is picked when its key is not lacking (`Accepted`).  Whatever the key then misses is
unmarshalled from nil: IDs, strings and numbers become `"null"`, `""` and 0 without an error
(`graphql/id.go:28`, `string.go:64`, `int.go:82`), so the resolver is `Asked` for an entity
whose key is `MadeUp`; other unmarshallers refuse, and the representation, or its group, fails.
`rpc` are the goroutines of single representations, `gpc` the group in multi mode: its resolver is
picked by the first member (`ResolveManyEntities`) for all of them, so a later member may be lacking its key; its
answer is stored in a loop (`StoreEntity`) that may fail at any turn, because an entity lacks a
required field or there is one too many.  The code groups by type before it resolves; the
groups of single types differ only in the resolvers that are called, so one type of
each mode stands for all.

### FieldCollection, TraceTree and TracedList

The document is a constant: its selection sets (`SelectionSets`), how far each nests (`Depth`)
and its named fragments.  `DocumentAssumption` says what the validator guarantees: what is
below an item is a selection set of the document and nests less far than the one the item is
in, so no fragment is part of itself; and every fragment that is spread is defined.  `CollectFields`
is translated as an operator, without RECURSIVE: `Collected` is a function of a
selection set and the named fragments visited, `VisitAll` its loop, `Visit` one turn of it,
`Merged` is `getOrCreateAndAppendField`, and `Taken` what a fragment does with a field collected
for it, @defer included.  `Flat` is what is to be computed, every fragment that applies put
in the place of its spread, and `Right` compares what is collected with it (`FieldsOf`):
each response key is there, in the order in which the keys are first met, with every selection
(`AllThere`); no key, selection or @defer is there that is not asked for (`NothingElse`); and a
key has two fields only for types neither of which implements the other (`Apart`).  Validated
documents do have such keys: two interfaces of an object, `__typename` on a union and on its member, or
two object types when `satisfies` is empty.  What is
asked for may then be below either of the two, but the selections of one field stay together.

In `TraceTree` a field's goroutine (`walk`) walks up to the nearest node that is
there and back down, adding the missing ones; look-up and insertion are two steps, as
they are two critical sections.  `by` tells apart the nodes that different
goroutines have made for one path, since the map keeps only the last of them.

`TracedList` puts both below the objects of a list.  A slice is told from an equal one by
the object that has made it, because the cache's keys are addresses: `Key` is the slice
and field a selection set is in, and the type.  `Get`, `Collect` (which ends in
`AddOrExisting` of what `CollectFields` returns), `ResolveField`, `Dispatched` are the steps of an object's dispatcher;
fields in a deferred group start after it, and `InterceptResponse`, which stops the
trace, does not wait for them.

### SaturatingSum and Complexity

`SafeAdd` adds in ints whose largest is a parameter; `Wrap` is what the machine makes of
a sum.  `Calculate` is the cost as a function of a selection set, with what users may set (`Options`):
for a field and its arguments any function from the cost of what is below it to an int (ignored
when below 1), the cost of a scalar (any int), ignored fields.  `Cost` is what one item adds.  `CostSaturates` compares the cost in ints up to `MaxInt` with
the one in ints up to `WideInt`: with a `WideInt` that no sum of the document reaches, that is the true
cost, as far as users' functions tell it.  These are functions on the program's ints in both
(`Widened`): a cost below a field that has been cut off is given to them as the largest int (`Capped`), and their
result, which may have overflowed in their own code, is taken as it is.

## 3. Runs and bounds

| run | instance | shows |
|---|---|---|
| `defer` | a query with 5 objects, 3 groups (one nested in another), a synchronous field, nullable and non-null fields, a list of two objects | all promises of the handler, refinement of `IncrementalDelivery` with fairness, no goroutine stuck |
| `defer_single` | the same query, a transport that calls once | every started group's goroutine blocks for ever (`http_post.go:129`) |
| `multipart` | 3 deferred groups or 3 events of a subscription (so that a batch can be empty, one or several, and be cut between any two) | a complete, well-formed body (of a query); nothing lost or reordered; prompt writing; clean shutdown |
| `multipart_events` | as above | violated: an event's data is overwritten before it is written (finding) |
| `ws` | 2 operations with the same id or with their own, 1 response each | closing, stopping, ids reused before or after completion; the properties except only operations that shared an id while both ran |
| `ping` | at most 3 pongs on their way, prompt clients and others | nobody who answers in time is disconnected; who falls silent is, but for one race |
| `sse` | at most 2 events, a channel for 1, with and without the pump; interval negative, zero or positive | events arrive once, in order and at once; heartbeat; all goroutines end; refinement of `EventStream` |
| `batch` | lists of 0 to 3 elements, 2 workers, 2 types, all kinds of lists | the array, the own result or error, one call, no deadlock |
| `batch_errors` | 2 struct values | violated in the fallback (finding) |
| `caches` | 2 requests at a time; one valid, one invalid and one malformed query | caches are transparent and truthful, retries end |
| `entities` | 0 to 3 representations of 20 kinds: 9 in each mode (2 resolvers, keys whole, in part or lacking), unknown, without a type | own entities, made-up keys only where keys are not whole, explained holes, quiet after the return |
| `tracing` | 3 elements with a nested object of two fields and a deferred field each; besides, every selection set up to a size | the trace is a tree, one slice per key, fields collected right, a key twice only for unrelated types, costs saturated |

Bounds: `MaxData` (responses of one operation), `MaxPongs` (pongs in flight), `MaxEvents`
(events of one stream), `Capacity` (of its channel), `MaxLength` (elements of a list),
`MaxReps` and `Resolver` (representations, resolvers of a type) are bounds, beside the
sizes of the constant sets.  Two operations suffice
for the interference of one id's two owners; three groups give a nested one, a
sibling and an object that drops its groups.  Three elements with two workers make
one of them wait for a slot, and with two types one group has two members that are
not neighbours.  Two requests are all that can meet at one entry of a cache; a
third would only be another `Forget` or `Added`.  Two events with a channel for one put one in
the pump's hand while the other waits in the channel.  Three representations are a group
of two with a stranger between them, so that places in the group and in the list differ.
Three elements of a list are one that adds to the cache, one that has collected at the same
time, and one that finds the entry.  `Selections` are up to three
fields and spreads of two fragments (one nested in the other), or two items with
inline fragments among them, on an interface, an object, an unrelated object type, an interface
unrelated to the first and a union (`__typename`),
with @defer and @skip; merging is decided by pairs of fields, and the third item shows the
order.  Costs are added in ints from -8 to 7 (`MaxInt`),
which many of the documents leave, with users' functions that multiply by 3 and overflow
(the documented `count * childComplexity`), return the largest int, or 0, which is ignored; they are compared with sums up to 1000 (`WideInt`), which none
reaches; the width makes no difference, which is proved.

## 4. Fairness

Go runs every runnable goroutine eventually: weak fairness of each goroutine's
steps.  Resolvers are assumed to return in `DeferredExec`; in `MultipartMixed`
they need not (the handler's call is not fair), and in `WsConnection` only a
handler whose context is done returns.  A `select` with two ready cases picks one
at random, so it does not ignore `done` for ever: strong fairness of
`TickerStops` in `MultipartMixed`, of `Stop`, of the pump's end and of the handler's end in `Sse`.  `sync.Mutex` hands itself to a
waiter that starves: strong fairness of the steps of `Sse` that take it.  In `Sse` a resolver may never
send or close, and the client may stay for ever; only the handlers that can go on do.  Batch
resolvers return or panic, and element marshallers end.  In `QueryCaches` a client whose
hash was not found retries (`docs/content/reference/apq.md`).  Otherwise nothing is assumed of clients, except that reading from a closed
connection fails.

## 5. Proofs

`DeferredExecProofs` proves, for every query, type correctness, `HasNextTruthful`,
`EndsDrained`, `MarshalAfterWrites`, `NullPayloadCarriesError`,
`DeliveredOnceInitialFirst`, and that every step implements
`IncrementalDelivery` or stutters.  Assumptions: `QueryAssumption` and
`TreeAssumption`, which say that the fields form a tree and that `payloadOf` and
`Under` are the payload and subtree relations of that tree.  `Under` is a
constant constrained by its closure properties because its recursive definition
could not be unfolded by the provers.

None of the properties is inductive.  `IInv` adds to them what the code relies
on silently: `PendingCounts` (the counter is the number of running or sending
groups, plus one between the receive and the decrement), `DeferredCounts`,
`Enclosed` (a goroutine at work below a field set keeps that field set busy, so
the root cannot return and a group cannot send before everything inlined in
them is done), `TasksInside`, `ObjectsInside`, `FreshObjects`, `GroupsAfterOwner`
(who may be active while whom), `HandlerState`, `SentDelivered`,
`InvalidHasError` and `LastNext`.  There is one lemma per kind of step
(`TaskStepInv`, `ObjectStepInv`, `GroupStepInv`, `HandlerStepInv`), one named step per
action in it and one per conjunct that the action can disturb.

`BatchProofs` proves that `BatchField` implements `MarshalSlice`
(`BatchImplementsSlice`, step by step), then, of `MarshalSlice` for every length and
limit, `WholeOrExplained`, `NobodyWritesAfterReturn` and
`WithinWorkerLimit`, which `BatchField` inherits, and `OneCallPerGroup`,
`NullHasOwnError` and `OwnResult` of `BatchField`.  The invariant `SliceInv` says which
elements have been started (those below `next`) and that without the nil flag each of them
is running or done; `BatchInv` ties a group's `once` to its number of calls and an element's
`bpc` to its `errAt` and `out`.  `WithinWorkerLimit` needs the cardinality of
`Running` after one element has been added, from `FiniteSetTheorems`.  For `OwnResult`,
`ReplyInv` says that a group has one caller and one reply (`GroupResolvedOnce`): nobody reads it
before the call has ended, and nobody changes it later.  That the place at which an element looks is then its own (`OwnPlace`) is a fact about
the marshaller's loop, by induction over the list: after i turns the
parents collected are the elements of the type up to i, in order, and each has the number
of those before it.

It proves also `OwnEntity`, `HolesExplained` and `QuietAfterReturn` of `EntityResolution` for
any number of representations and resolvers.  `EntInv` relates the loop over the group's
answer to the list: the places below `pos` have been stored, but for that of the turn in which the
group has failed, and each goroutine that is done has stored an entity or added its error.
An entity is stored only by a group or a representation that has found a resolver, which is the
first whose key is not lacking (`Smallest`): that is the key of `OwnEntity`.
Of the group it uses that its members are exactly the indices in multi mode (`GroupMembers`),
by induction over the loop that groups them.

`QueryCachesProofs` proves `CachesTruthful` and `CachingIsTransparent` for any number of
requests and queries.  `IInv` says what is true of a request at each label: from the
mutator on it has the query that it means, from the parser on the valid document
of that query, in the end its verdict; and this with the truth of the caches is
inductive, while neither is alone.

`TracedListProofs` proves both invariants of `TracedList`, for any paths of fields and
objects, whatever is collected for them.  `ObjectAssumption` says how these lie below the list: a
field belongs to an object, an object is an element or the value of a field.  `ListTraces` shows that what
happens to the trace in `TracedList` is a behaviour of `TraceTree`, where any field may start at any
time; there `IInv` gives `Connected`: a node's parent is the root or has been inserted before,
since a goroutine walks down only from a node that it has found or made.  `FieldsTraced` does
not hold of `TraceTree` alone: a field could add the node of the field above it in that
one's place.  `CacheInv` supplies the order (an object is dispatched only when
its field is over, a field starts only when its object is being dispatched), and with it
`OrderInv` is inductive: above a field that is being traced all fields are done and have their nodes,
so its goroutine adds nodes for its own path and for places in lists only.  Hence `TraceIsTree`.
For `OneSlice` the same order shows that an object's key no longer changes once the object has looked it up,
since the slice that its address is in was fixed before.

Two of its theorems say what pure operators compute, for every document: `FieldsRight`, from which
`CollectedRight` follows, and `CostRight`, from which `CostSaturates` does.  Both are proved by induction
over the nesting of selection sets (`Depth`), and within one over its items.

* For `FieldsRight`, `Gathers` says of the fields collected and the fields asked for what `FieldsOf`
  does, in a form that is inductive: `Carries` (order, selections and types, @defer) and `Apart`.  `Carries` is a
  relation of two sequences of fields that can be chained and concatenated (`CarriesChain`,
  `CarriesConcat`); one field taken in, merged or appended (`Put`), keeps up both (`PutCarries`,
  `PutApart`), although the fields of a fragment are doubled on the way.  `Apart` needs of
  `Related` only that it holds for one type and its interface in either order: a field appended has found no
  related one of its key, and a merged one keeps its type.  The
  difficulty is that a named fragment is followed once, so that what is collected is not built from `Flat`
  item by item.  `Explains` says instead that it is what some *part* of `Flat` gives, and that this part `Serves` as well as all of it (it has each response key, in the same
  order, with all selections) once the fields before it cover those fragments visited before
  (`Covers`).  A fragment that has been visited may still be being collected, further up; those
  nest deeper than what is being collected now, hence the bound on the depth in `Covers`.
* For `CostRight`, every sum in narrow ints is the one in wide ints, cut off at `MaxInt`
  (`Capped`): cutting off commutes with `SafeAdd` of costs that are not negative, with the largest of
  several costs and with users' functions, which are given the cut-off cost on both sides
  (`FieldCapped`).  `Priced` says that options and their `Widened` form have costs in range.
  `SumOrMaximum` and `NeverLess` say of `SafeAdd` alone that it is the
  sum or the largest int, and never less than what has been summed up before.

`WsConnectionProofs` proves the three invariants of `WsConnection` for any number of operations,
ids and responses.  For `CloseFuncOnce`, `CloseInv` says that of the two goroutines that close
only the one that has set the flag gets past it.  `StopFindsOperation` is inductive with
`SharersKnown`: of two operations registered under one id both are in `overlap`, so the deletion
at the end of one takes no entry from an operation outside it.  `EndsProperly` needs `Sent`, which says
what may have been written at each point of an operation's life (data only while it runs).
Of `WsPingPong` it proves `ResponsiveClientLives`, for any number of pongs on their way.
`InTime` says that a deadline of a prompt client that is one tick away has a pong to meet it, which is
due, on its way or received, and that none is reached before the run loop clears it; with
`missingPongOk` (`Unlimited`) none is ever armed.

`SseProofs` proves that `Sse` implements `EventStream` (`KeepsPromise`), for any number of events and
any capacity.  `InOrder` says that what has been returned, is in the pump's hand and is in
the channel is together what has been sent; a pump that has stopped is outside it, and
`StoppedForReason` says that it stops with events unreturned only when the subscriber has gone.
`NothingHeldBack` rests on `Content`, which says for each place of `Do` what has been written, pings
aside: all up to the event in hand, without that one before its Write has ended; and that
none of it is in the buffer any more when the flush has ended.  The keep-alive goroutine changes neither, since
taking the pings out of a concatenation is the concatenation of what is left
(`WithoutPingsConcat`).

`MultipartMixedProofs` proves that the two goroutines exclude each other in flush (`Exclusion`)
and `NoWriteAfterReturn`, for any number of groups and events.  `MInv` adds to the exclusion what
a flush in progress still has to write: at its last write both buffers are empty, because
`Add` waits for the mutex; so they are empty when Do returns, and the ticker's goroutine
finds nothing.  Of the body it proves `NothingLostOrReordered`, `WellFormedBody` and `CompleteAtReturn`.
`QueueInv`: what has been written, then the initial response if it is waiting, then the deferred
ones, are the responses delivered so far, in order; a flush moves names from the queues to the
body and changes nothing else.  `QueryInv` says the rest of a query's body: parts and
boundaries alternate, only the last item may be the closing boundary, and it is there exactly if
the response that says `hasNext: false` has been written (`HeldTruthful`: of what waits, only the last may say so).

`Recursion` holds what these need about recursive functions.  Such a definition stands for a
solution of its equation, so nothing follows from it before one is known to exist; `Solvable` gives it
for a recursion along 0 .. n, `Defined` for the running value of a loop, `RankRecursion` for one over
any set with a rank that decreases; `Agree` gives its uniqueness, `FlattenAppend` and its neighbours the
laws of `FlattenSeq`.  Induction (`Induction`, `SequenceInduction`, `RankInduction`) is stated for a set
instead of a predicate, because the provers do not instantiate theorems about operators.

Every invariant of the passing runs is proved.  The assumptions on constants are evaluated by TLC in
the runs, those on documents and costs (`DocumentAssumption`, `CostAssumption`) included; the only
RECURSIVE operator, `DepthOf` in `MCTracedList`, computes the value of `Depth` for TLC.
Otherwise only liveness is left to TLC (fairness and ENABLED are out of the prover's reach), that
of the refinement of `IncrementalDelivery` included, whose safety is proved.

## 6. Findings

* `multipart_events`: a subscription over multipart/mixed may send the data of a later
  event in the place of an earlier one, or panic over data that is no JSON, because the
  handler returns slices of one buffer and the aggregator keeps them until its ticker fires
  (`codegen/generated!.gotpl:228-241`, `http_multipart_mixed.go:230-239`).
* `batch_errors`: in a list of struct values (`[]T`, not `[]*T`) the type assertion on the
  group's parents fails and the batch resolver is called once per parent, although
  `codegen/config/config.go:672-675` promises a single call; errors are then numbered within a
  batch of one, so all of them are reported at the list's first element.

The models show the following, too, which no run is spent on:

* A subscription over multipart/mixed gets a closing boundary after every batch, since its
  responses have no `hasNext`; the comments (`http_multipart_mixed.go:136`, `:300`) speak of the
  last one.  `WellFormedBody` excepts subscriptions.
* `SetReadDeadline(time.Time{})` after the mutex has been released (`websocket.go:321`) can undo
  the deadline the ping goroutine has just set; a client that falls silent at that moment
  is never disconnected.  `OnlyTheRaceSpares` says that nothing else spares it.
* `keepAlive` goes on until the context is cancelled, so a ping can follow `event: complete`,
  and it may use the ResponseWriter together with `Do` or after it.
* An operation deletes its id after its `complete` has been written, so a client that reuses
  the id at once loses the entry of its new operation and cannot stop it
  (`StopFindsOperation` excepts operations that shared an id).
* POST and GET leave the goroutines of deferred groups blocked for ever; a negative
  `KeepAlivePingInterval` blocks the SSE request for ever.
* Two siblings may each add a node for the element that they are in, and deferred fields may be
  traced while the trace is being marshalled.
* A key selected on two types neither of which implements the other is collected twice, so it is in
  the response twice: on two interfaces of the object, `__typename` on a union and on its member, or two object
  types when `satisfies` is empty.  A fragment with @defer defers
  a field that is also selected without it.
* A representation in multi mode that lacks the keys of the first one (or one whose key is
  partly null) is resolved with a key made up from nil, `"null"`, `""` or 0 for the built-in
  scalars, and whatever is found is its entity, without an error; if the key's unmarshaller
  refuses nil, it costs its whole group.
* The product that `docs/content/reference/complexity.md:88-92` shows for a list's cost may
  overflow before `safeAdd` sees it; a result below 1 is then replaced by the default cost.

## 7. Not modelled

* Text: wording, JSON, escaping, HTTP headers, content negotiation, form uploads, logging.  These
  are conversions, without steps of several actors.
* The generators and their templates' layout, package loading and rewriting: sequential batch
  programs over files and Go packages.  The code they generate is modelled from
  the templates.  The generated servers under `_examples` and `codegen/testserver`, which
  are most of the repository's lines, are instances of those templates and are not mapped.
* The shard runtime's registry: it is filled by `init` functions before anything is looked up.
* The mutation handler, which calls the root dispatcher once; panics of middleware, of handlers in
  a transport, and of users' callbacks under a mutex (`ErrorFunc`).
* Attaching errors to the nodes of a trace, the other tracers, introspection, scalars.

`PROJECT.json` lists each part with the reason, and the hazards that no property covers with
theirs.  What would add most from here: the ownership and dependency graphs of the split
generator as operators, and the chain of middleware with panics.
