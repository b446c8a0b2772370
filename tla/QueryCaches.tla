---------------------------- MODULE QueryCaches ----------------------------
(***************************************************************************)
(* How an operation is made from a request (executor.CreateOperationContext*)
(* in graphql/executor/executor.go), with the two caches that all requests *)
(* share: hash -> query of the persisted queries                           *)
(* (graphql/handler/extension/apq.go) and query -> document of the parser. *)
(*                                                                         *)
(* A hash is named by the query it is the hash of (SHA-256 is taken to be  *)
(* injective), a document by the query it is parsed from.  The caches are  *)
(* the user's: they may forget an entry at any time, also the one that has *)
(* just been added (graphql/cache.go, graphql/handler/lru).                *)
(***************************************************************************)
EXTENDS Naturals

CONSTANTS
  Request,    \* requests being served, each by a goroutine
  Query,      \* non-empty query texts
  Malformed,  \* those that cannot be parsed, or hold no operation
  Invalid     \* those that fail validation against the schema

ASSUME QueriesAssumption == Malformed \subseteq Query /\ Invalid \subseteq Query \ Malformed

VARIABLES
  apq,   \* the hashes in the cache of persisted queries, each with its query
  docs,  \* the queries in the cache of documents, each with its document
  req,   \* what a client has sent
  pc,    \* where CreateOperationContext stands
  query, \* params.Query, once the mutator has run
  doc,   \* opCtx.Doc
  answer \* the operation, or the error

vars == <<apq, docs, req, pc, query, doc, answer>>

\* A request has a query and no extension, only a hash, or both; "late" says what will come of the
\* operation name, the variables and the context mutators, which no cache knows.  A field that a
\* request does not have repeats the other one.
Message ==
  {m \in [kind : {"plain", "hashOnly", "full", "badExtension"}, query : Query, hash : Query,
          late : {"accepted", "rejected"}] :
     m.kind # "full" => m.hash = m.query}

\* What a message asks for: the query itself, or the one that the hash stands for.
Meant(m) == IF m.kind = "hashOnly" THEN m.hash ELSE m.query

NoAnswer == <<"none", "none">>
Error(what) == <<"error", what>>
Operation(d) == <<"operation", d>>
Errors == {Error(what) : what \in
             {"badExtension", "notFound", "mismatch", "malformed", "invalid", "rejected"}}

AnyAnswer == Errors \union {Operation(d) : d \in Query} \union {NoAnswer}

Label == {"mutate", "lookup", "parse", "add", "late", "answered"}

Init ==
  /\ apq = {} /\ docs = {}
  /\ req \in [Request -> Message]
  /\ pc = [r \in Request |-> "mutate"]
  /\ query = [r \in Request |-> req[r].query]
  /\ doc = query
  /\ answer = [r \in Request |-> NoAnswer]

(***************************************************************************)
(* The caches                                                              *)
(***************************************************************************)
Hits(cache, key) == {entry \in cache : entry[1] = key}
Added(cache, key, value) == {entry \in cache : entry[1] # key} \union {<<key, value>>}

Forget ==
  /\ \/ \E entry \in apq : apq' = apq \ {entry} /\ UNCHANGED docs
     \/ \E entry \in docs : docs' = docs \ {entry} /\ UNCHANGED apq
  /\ UNCHANGED <<req, pc, query, doc, answer>>

(***************************************************************************)
(* CreateOperationContext                                                  *)
(***************************************************************************)
Answer(r, a) == pc' = [pc EXCEPT ![r] = "answered"] /\ answer' = [answer EXCEPT ![r] = a]
Goto(r, label) == pc' = [pc EXCEPT ![r] = label] /\ UNCHANGED answer

\* Mutant: the query is stored before its hash is verified.
MutStoreFirst(r) ==
  /\ pc[r] = "mutate"
  /\ LET m == req[r] IN
     \/ m.kind = "plain" /\ Goto(r, "lookup") /\ UNCHANGED <<apq, query>>
     \/ m.kind = "badExtension" /\ Answer(r, Error("badExtension")) /\ UNCHANGED <<apq, query>>
     \/ /\ m.kind = "hashOnly"
        /\ \E hit \in Hits(apq, m.hash) : query' = [query EXCEPT ![r] = hit[2]]
        /\ Goto(r, "lookup") /\ UNCHANGED apq
     \/ /\ m.kind = "hashOnly" /\ Hits(apq, m.hash) = {}
        /\ Answer(r, Error("notFound")) /\ UNCHANGED <<apq, query>>
     \/ /\ m.kind = "full" /\ m.hash # m.query
        /\ Answer(r, Error("mismatch")) /\ UNCHANGED query
        /\ apq' = Added(apq, m.hash, m.query)
     \/ /\ m.kind = "full" /\ m.hash = m.query
        /\ apq' = Added(apq, m.hash, m.query)
        /\ Goto(r, "lookup") /\ UNCHANGED query
  /\ UNCHANGED <<docs, req, doc>>

\* Mutant: a query with the wrong hash is not stored, and executed.
MutMismatchExecuted(r) ==
  /\ pc[r] = "mutate"
  /\ LET m == req[r] IN
     \/ m.kind = "plain" /\ Goto(r, "lookup") /\ UNCHANGED <<apq, query>>
     \/ m.kind = "badExtension" /\ Answer(r, Error("badExtension")) /\ UNCHANGED <<apq, query>>
     \/ /\ m.kind = "hashOnly"
        /\ \E hit \in Hits(apq, m.hash) : query' = [query EXCEPT ![r] = hit[2]]
        /\ Goto(r, "lookup") /\ UNCHANGED apq
     \/ /\ m.kind = "hashOnly" /\ Hits(apq, m.hash) = {}
        /\ Answer(r, Error("notFound")) /\ UNCHANGED <<apq, query>>
     \/ /\ m.kind = "full" /\ m.hash # m.query
        /\ Goto(r, "lookup") /\ UNCHANGED <<apq, query>>
     \/ /\ m.kind = "full" /\ m.hash = m.query
        /\ apq' = Added(apq, m.hash, m.query)
        /\ Goto(r, "lookup") /\ UNCHANGED query
  /\ UNCHANGED <<docs, req, doc>>

\* Mutant: a hash is looked up although the query has come with it.
MutLookupFirst(r) ==
  /\ pc[r] = "mutate"
  /\ LET m == req[r] IN
     \/ m.kind = "plain" /\ Goto(r, "lookup") /\ UNCHANGED <<apq, query>>
     \/ m.kind = "badExtension" /\ Answer(r, Error("badExtension")) /\ UNCHANGED <<apq, query>>
     \/ /\ m.kind \in {"hashOnly", "full"}
        /\ \E hit \in Hits(apq, m.hash) : query' = [query EXCEPT ![r] = hit[2]]
        /\ Goto(r, "lookup") /\ UNCHANGED apq
     \/ /\ m.kind \in {"hashOnly", "full"} /\ Hits(apq, m.hash) = {}
        /\ Answer(r, Error("notFound")) /\ UNCHANGED <<apq, query>>
  /\ UNCHANGED <<docs, req, doc>>

\* AutomaticPersistedQuery.MutateOperationParameters: at most one call of the cache.
Mutate(r) ==
  /\ pc[r] = "mutate"
  /\ LET m == req[r] IN
     \/ m.kind = "plain" /\ Goto(r, "lookup") /\ UNCHANGED <<apq, query>>
     \/ m.kind = "badExtension" /\ Answer(r, Error("badExtension")) /\ UNCHANGED <<apq, query>>
     \/ /\ m.kind = "hashOnly"
        /\ \E hit \in Hits(apq, m.hash) : query' = [query EXCEPT ![r] = hit[2]]
        /\ Goto(r, "lookup") /\ UNCHANGED apq
     \/ /\ m.kind = "hashOnly" /\ Hits(apq, m.hash) = {}
        /\ Answer(r, Error("notFound")) /\ UNCHANGED <<apq, query>>
     \/ /\ m.kind = "full" /\ m.hash # m.query
        /\ Answer(r, Error("mismatch")) /\ UNCHANGED <<apq, query>>
     \/ /\ m.kind = "full" /\ m.hash = m.query
        /\ apq' = Added(apq, m.hash, m.query)
        /\ Goto(r, "lookup") /\ UNCHANGED query
  /\ UNCHANGED <<docs, req, doc>>

\* parseQuery: a document that is in the cache is not validated again.
Lookup(r) ==
  /\ pc[r] = "lookup"
  /\ \/ /\ \E hit \in Hits(docs, query[r]) : doc' = [doc EXCEPT ![r] = hit[2]]
        /\ Goto(r, "late")
     \/ Hits(docs, query[r]) = {} /\ Goto(r, "parse") /\ UNCHANGED doc
  /\ UNCHANGED <<apq, docs, req, query>>

Parse(r) ==
  /\ pc[r] = "parse"
  /\ \/ query[r] \in Malformed /\ Answer(r, Error("malformed")) /\ UNCHANGED doc
     \/ query[r] \in Invalid /\ Answer(r, Error("invalid")) /\ UNCHANGED doc
     \/ /\ query[r] \notin Malformed \union Invalid
        /\ doc' = [doc EXCEPT ![r] = query[r]] /\ Goto(r, "add")
  /\ UNCHANGED <<apq, docs, req, query>>

AddDocument(r) ==
  /\ pc[r] = "add"
  /\ docs' = Added(docs, query[r], doc[r])
  /\ Goto(r, "late")
  /\ UNCHANGED <<apq, req, query, doc>>

\* The operation's name, the variables and the context mutators.
Late(r) ==
  /\ pc[r] = "late"
  /\ Answer(r, IF req[r].late = "accepted" THEN Operation(doc[r]) ELSE Error("rejected"))
  /\ UNCHANGED <<apq, docs, req, query, doc>>

(***************************************************************************)
(* The clients.  One whose hash is not found sends the query as well       *)
(* (docs/content/reference/apq.md); a connection can have another request. *)
(***************************************************************************)
Send(r, m) ==
  /\ pc[r] = "answered"
  /\ req' = [req EXCEPT ![r] = m]
  /\ query' = [query EXCEPT ![r] = m.query] /\ doc' = [doc EXCEPT ![r] = m.query]
  /\ pc' = [pc EXCEPT ![r] = "mutate"]
  /\ answer' = [answer EXCEPT ![r] = NoAnswer]
  /\ UNCHANGED <<apq, docs>>

Retry(r) ==
  answer[r] = Error("notFound") /\ Send(r, [req[r] EXCEPT !.kind = "full", !.query = req[r].hash])

NextRequest(r) == answer[r] # Error("notFound") /\ \E m \in Message : Send(r, m)

Create(r) == Mutate(r) \/ Lookup(r) \/ Parse(r) \/ AddDocument(r) \/ Late(r)

Next == Forget \/ \E r \in Request : Create(r) \/ Retry(r) \/ NextRequest(r)

Spec == Init /\ [][Next]_vars

\* Requests are served, and a client asks again when its hash was not known.
FairSpec == Spec /\ \A r \in Request : WF_vars(Create(r)) /\ WF_vars(Retry(r))

(***************************************************************************)
(* Properties                                                              *)
(***************************************************************************)
\* What a server without caches would answer.
Verdict(m) ==
  IF m.kind = "badExtension" THEN Error("badExtension")
  ELSE IF m.kind = "full" /\ m.hash # m.query THEN Error("mismatch")
  ELSE IF Meant(m) \in Malformed THEN Error("malformed")
  ELSE IF Meant(m) \in Invalid THEN Error("invalid")
  ELSE IF m.late = "rejected" THEN Error("rejected")
  ELSE Operation(Meant(m))

\* The caches cannot be observed, except that a hash alone may not be known: whatever other
\* requests do, and whatever is forgotten, a request gets the answer that it would get without
\* them.
CachingIsTransparent ==
  \A r \in Request : pc[r] = "answered" =>
    \/ answer[r] = Verdict(req[r])
    \/ req[r].kind = "hashOnly" /\ answer[r] = Error("notFound")

\* A hash stands for one query and a query for its own document, and only documents that have been
\* validated are reused (the early return of parseQuery relies on it).
CachesTruthful ==
  /\ \A entry \in apq : entry[2] = entry[1]
  /\ \A entry \in docs : entry[2] = entry[1] /\ entry[1] \notin Malformed \union Invalid

\* A client that has only a hash gets the verdict in the end, at the latest with its second
\* request, however often the cache forgets (docs/content/reference/apq.md:12-13).
RetriesEnd ==
  \A r \in Request : (answer[r] = Error("notFound")) ~> (pc[r] = "answered" /\ answer[r] = Verdict(req[r]))
=============================================================================
