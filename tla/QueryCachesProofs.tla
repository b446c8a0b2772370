------------------------- MODULE QueryCachesProofs -------------------------
(***************************************************************************)
(* Theorems about QueryCaches, for any number of requests and queries and  *)
(* any behaviour of the caches that forgets entries.                       *)
(***************************************************************************)
EXTENDS QueryCaches, TLAPS

\* An answer that m may get.
Fits(m, a) ==
  \/ a = Verdict(m)
  \/ m.kind = "hashOnly" /\ a = Error("notFound")

\* What is true of a request m at label p, with params.Query q, document d and answer a: from the
\* mutator on it has the query that it means, after a cache or the parser the valid document of
\* that query, and in the end its verdict.
Sound(m, p, q, d, a) ==
  /\ p = "mutate" => q = m.query
  /\ p = "answered" <=> a # NoAnswer
  /\ p \in {"lookup", "parse", "add", "late"} =>
       m.kind # "badExtension" /\ (m.kind = "full" => m.hash = m.query) /\ q = Meant(m)
  /\ p \in {"add", "late"} => d = q /\ q \notin Malformed \union Invalid
  /\ p = "answered" => Fits(m, a)

Types ==
  /\ req \in [Request -> Message] /\ pc \in [Request -> Label]
  /\ query \in [Request -> Query] /\ doc \in [Request -> Query]
  /\ answer \in [Request -> AnyAnswer]

CacheInv == apq \subseteq Query \X Query /\ docs \subseteq Query \X Query /\ CachesTruthful

RequestInv == \A r \in Request : Sound(req[r], pc[r], query[r], doc[r], answer[r])

IInv == Types /\ CacheInv /\ RequestInv

LEMMA AnswersDiffer ==
  /\ \A what : Error(what) # NoAnswer
  /\ \A d : Operation(d) # NoAnswer
BY DEF Error, Operation, NoAnswer

LEMMA AnswerTypes ==
  /\ \A d \in Query : Operation(d) \in AnyAnswer
  /\ \A what \in {"badExtension", "notFound", "mismatch", "malformed", "invalid", "rejected"} :
       Error(what) \in AnyAnswer
  /\ NoAnswer \in AnyAnswer
BY DEF AnyAnswer, Errors

LEMMA MessageFields ==
  \A m \in Message :
    /\ m.query \in Query /\ m.hash \in Query
    /\ m.kind \in {"plain", "hashOnly", "full", "badExtension"}
    /\ m.kind # "full" => m.hash = m.query
BY DEF Message

LEMMA InitInv == Init => IInv
<1> SUFFICES ASSUME Init PROVE IInv
  OBVIOUS
<1>1. Types
  BY MessageFields, AnswerTypes DEF Init, Types, Label
<1>2. CacheInv
  BY DEF Init, CacheInv, CachesTruthful
<1>3. RequestInv
  BY DEF Init, RequestInv, Sound
<1> QED BY <1>1, <1>2, <1>3 DEF IInv

\* A step of one request that leaves the caches truthful and the request sound.
LEMMA RequestStep ==
  ASSUME IInv, NEW r \in Request,
         NEW m \in Message, NEW p \in Label, NEW q \in Query, NEW d \in Query, NEW a \in AnyAnswer,
         req' = [req EXCEPT ![r] = m], pc' = [pc EXCEPT ![r] = p],
         query' = [query EXCEPT ![r] = q], doc' = [doc EXCEPT ![r] = d],
         answer' = [answer EXCEPT ![r] = a],
         CacheInv', Sound(m, p, q, d, a)
  PROVE  IInv'
<1>1. Types'
  BY DEF IInv, Types
<1>2. ASSUME NEW s \in Request PROVE Sound(req'[s], pc'[s], query'[s], doc'[s], answer'[s])
  <2>1. CASE s = r
    <3>1. req'[s] = m /\ pc'[s] = p /\ query'[s] = q /\ doc'[s] = d /\ answer'[s] = a
      BY <2>1 DEF IInv, Types
    <3> QED BY <3>1
  <2>2. CASE s # r
    <3>1. /\ req'[s] = req[s] /\ pc'[s] = pc[s] /\ query'[s] = query[s]
          /\ doc'[s] = doc[s] /\ answer'[s] = answer[s]
      BY <2>2 DEF IInv, Types
    <3> QED BY <3>1 DEF IInv, RequestInv
  <2> QED BY <2>1, <2>2
<1> QED BY <1>1, <1>2 DEF IInv, RequestInv

\* An entry that says the truth may be added, and any entry may be forgotten.
LEMMA AddTruth ==
  ASSUME NEW cache \in SUBSET (Query \X Query), NEW key \in Query
  PROVE  /\ Added(cache, key, key) \in SUBSET (Query \X Query)
         /\ \A entry \in Added(cache, key, key) : entry \in cache \/ entry = <<key, key>>
BY DEF Added

LEMMA Same ==
  ASSUME Types, NEW r \in Request
  PROVE  /\ req = [req EXCEPT ![r] = req[r]] /\ pc = [pc EXCEPT ![r] = pc[r]]
         /\ query = [query EXCEPT ![r] = query[r]] /\ doc = [doc EXCEPT ![r] = doc[r]]
         /\ answer = [answer EXCEPT ![r] = answer[r]]
         /\ req[r] \in Message /\ pc[r] \in Label /\ query[r] \in Query /\ doc[r] \in Query
         /\ answer[r] \in AnyAnswer
BY DEF Types

\* A step of CreateOperationContext in which request r, at label p, gets the query q.
LEMMA GotoStep ==
  ASSUME IInv, NEW r \in Request, NEW p \in Label, NEW q \in Query, NEW d \in Query,
         req' = req, Goto(r, p),
         query' = [query EXCEPT ![r] = q], doc' = [doc EXCEPT ![r] = d],
         CacheInv', Sound(req[r], p, q, d, answer[r])
  PROVE  IInv'
<1>1. Types
  BY DEF IInv
<1>2. req' = [req EXCEPT ![r] = req[r]] /\ answer' = [answer EXCEPT ![r] = answer[r]]
  BY <1>1, Same DEF Goto
<1>3. pc' = [pc EXCEPT ![r] = p] /\ req[r] \in Message /\ answer[r] \in AnyAnswer
  BY <1>1, Same DEF Goto
<1> QED BY <1>2, <1>3, RequestStep

LEMMA AnswerStep ==
  ASSUME IInv, NEW r \in Request, NEW a \in AnyAnswer,
         UNCHANGED <<req, query, doc>>, Answer(r, a), CacheInv', a # NoAnswer,
         Fits(req[r], a)
  PROVE  IInv'
<1>1. Types'
  BY DEF IInv, Types, Answer, Label
<1>2. ASSUME NEW s \in Request PROVE Sound(req[s], pc'[s], query[s], doc[s], answer'[s])
  <2>1. CASE s = r
    <3>1. pc'[s] = "answered" /\ answer'[s] = a
      BY <2>1 DEF IInv, Types, Answer
    <3> QED BY <2>1, <3>1 DEF Sound
  <2>2. CASE s # r
    <3>1. pc'[s] = pc[s] /\ answer'[s] = answer[s]
      BY <2>2 DEF IInv, Types, Answer
    <3> QED BY <3>1 DEF IInv, RequestInv
  <2> QED BY <2>1, <2>2
<1> QED BY <1>1, <1>2 DEF IInv, RequestInv

LEMMA MutateStep == ASSUME IInv, NEW r \in Request, Mutate(r) PROVE IInv'
<1> DEFINE m == req[r]
<1>1. /\ Types /\ CacheInv /\ Sound(m, pc[r], query[r], doc[r], answer[r])
      /\ pc[r] = "mutate" /\ req' = req /\ doc' = doc /\ docs' = docs
  BY DEF IInv, RequestInv, Mutate
<1>2. /\ m \in Message /\ m.query \in Query /\ m.hash \in Query /\ query[r] = m.query
      /\ m.kind # "full" => m.hash = m.query
      /\ answer[r] = NoAnswer /\ doc[r] \in Query
  BY <1>1, Same, MessageFields DEF Sound
<1>3. doc' = [doc EXCEPT ![r] = doc[r]] /\ query = [query EXCEPT ![r] = query[r]]
  BY <1>1, Same
<1>4. "lookup" \in Label
  BY DEF Label
<1>5. CASE m.kind = "plain" /\ Goto(r, "lookup") /\ UNCHANGED <<apq, query>>
  <2>1. Sound(m, "lookup", query[r], doc[r], answer[r])
    BY <1>2, <1>5 DEF Sound, Meant
  <2>2. CacheInv'
    BY <1>1, <1>5 DEF CacheInv, CachesTruthful
  <2>3. query' = [query EXCEPT ![r] = query[r]] /\ query[r] \in Query
    BY <1>2, <1>3, <1>5
  <2> QED BY <1>1, <1>2, <1>3, <1>4, <1>5, <2>1, <2>2, <2>3, GotoStep
<1>6. CASE m.kind = "badExtension" /\ Answer(r, Error("badExtension")) /\ UNCHANGED <<apq, query>>
  <2>1. Fits(m, Error("badExtension"))
    <3>1. Verdict(m) = Error("badExtension")
      BY <1>6 DEF Verdict
    <3> QED BY <3>1 DEF Fits
  <2>2. CacheInv'
    BY <1>1, <1>6 DEF CacheInv, CachesTruthful
  <2>3. Error("badExtension") # NoAnswer /\ Error("badExtension") \in AnyAnswer
    BY AnswersDiffer, AnswerTypes
  <2>4. UNCHANGED <<req, query, doc>> /\ Answer(r, Error("badExtension"))
    BY <1>1, <1>6
  <2> QED BY <2>1, <2>2, <2>3, <2>4, AnswerStep
<1>7. ASSUME m.kind = "hashOnly", NEW hit \in Hits(apq, m.hash),
             query' = [query EXCEPT ![r] = hit[2]], Goto(r, "lookup"), UNCHANGED apq
      PROVE  IInv'
  <2>1. hit[2] = m.hash
    BY <1>1, <1>7 DEF Hits, CacheInv, CachesTruthful
  <2>2. Sound(m, "lookup", hit[2], doc[r], answer[r])
    BY <1>2, <1>7, <2>1 DEF Sound, Meant
  <2>3. CacheInv'
    BY <1>1, <1>7 DEF CacheInv, CachesTruthful
  <2> QED BY <1>1, <1>2, <1>3, <1>4, <1>7, <2>1, <2>2, <2>3, GotoStep
<1>8. CASE m.kind = "hashOnly" /\ Answer(r, Error("notFound")) /\ UNCHANGED <<apq, query>>
  <2>1. CacheInv'
    BY <1>1, <1>8 DEF CacheInv, CachesTruthful
  <2>2. Fits(req[r], Error("notFound"))
    BY <1>8 DEF Fits
  <2> QED BY <1>1, <1>8, <2>1, <2>2, AnswerStep, AnswersDiffer, AnswerTypes
<1>9. CASE /\ m.kind = "full" /\ m.hash # m.query
           /\ Answer(r, Error("mismatch")) /\ UNCHANGED <<apq, query>>
  <2>1. Fits(m, Error("mismatch"))
    <3>1. Verdict(m) = Error("mismatch")
      BY <1>9 DEF Verdict
    <3> QED BY <3>1 DEF Fits
  <2>2. CacheInv'
    BY <1>1, <1>9 DEF CacheInv, CachesTruthful
  <2>3. Error("mismatch") # NoAnswer /\ Error("mismatch") \in AnyAnswer
    BY AnswersDiffer, AnswerTypes
  <2>4. UNCHANGED <<req, query, doc>> /\ Answer(r, Error("mismatch"))
    BY <1>1, <1>9
  <2> QED BY <2>1, <2>2, <2>3, <2>4, AnswerStep
<1>10. CASE /\ m.kind = "full" /\ m.hash = m.query
            /\ apq' = Added(apq, m.hash, m.query)
            /\ Goto(r, "lookup") /\ UNCHANGED query
  <2>1. Sound(m, "lookup", query[r], doc[r], answer[r])
    BY <1>2, <1>10 DEF Sound, Meant
  <2>2. apq' \subseteq Query \X Query /\ \A entry \in apq' : entry[2] = entry[1]
    BY <1>1, <1>2, <1>10, AddTruth DEF CacheInv, CachesTruthful
  <2>3. CacheInv'
    BY <1>1, <2>2 DEF CacheInv, CachesTruthful
  <2>4. query' = [query EXCEPT ![r] = query[r]] /\ query[r] \in Query
    BY <1>2, <1>3, <1>10
  <2> QED BY <1>1, <1>2, <1>3, <1>4, <1>10, <2>1, <2>3, <2>4, GotoStep
<1> QED BY <1>5, <1>6, <1>7, <1>8, <1>9, <1>10 DEF Mutate

LEMMA LookupStep == ASSUME IInv, NEW r \in Request, Lookup(r) PROVE IInv'
<1>1. /\ Types /\ CacheInv /\ Sound(req[r], pc[r], query[r], doc[r], answer[r])
      /\ pc[r] = "lookup" /\ UNCHANGED <<apq, docs, req, query>>
  BY DEF IInv, RequestInv, Lookup
<1>2. /\ query' = [query EXCEPT ![r] = query[r]] /\ query[r] \in Query /\ doc[r] \in Query
      /\ "late" \in Label /\ "parse" \in Label
  BY <1>1, Same DEF Label
<1>3. CacheInv'
  BY <1>1 DEF CacheInv, CachesTruthful
<1>4. ASSUME NEW hit \in Hits(docs, query[r]), doc' = [doc EXCEPT ![r] = hit[2]], Goto(r, "late")
      PROVE  IInv'
  <2>1. hit[2] = query[r] /\ query[r] \notin Malformed \union Invalid
    BY <1>1, <1>4 DEF Hits, CacheInv, CachesTruthful
  <2>2. Sound(req[r], "late", query[r], hit[2], answer[r])
    BY <1>1, <2>1 DEF Sound
  <2> QED BY <1>1, <1>2, <1>3, <1>4, <2>1, <2>2, GotoStep
<1>5. CASE Goto(r, "parse") /\ UNCHANGED doc
  <2>1. Sound(req[r], "parse", query[r], doc[r], answer[r])
    BY <1>1 DEF Sound
  <2>2. doc' = [doc EXCEPT ![r] = doc[r]]
    BY <1>1, <1>5, Same
  <2> QED BY <1>1, <1>2, <1>3, <1>5, <2>1, <2>2, GotoStep
<1> QED BY <1>4, <1>5 DEF Lookup

LEMMA ParseStep == ASSUME IInv, NEW r \in Request, Parse(r) PROVE IInv'
<1> DEFINE m == req[r]
<1>1. /\ Types /\ CacheInv /\ Sound(m, pc[r], query[r], doc[r], answer[r])
      /\ pc[r] = "parse" /\ UNCHANGED <<apq, docs, req, query>>
  BY DEF IInv, RequestInv, Parse
<1>2. /\ query' = [query EXCEPT ![r] = query[r]] /\ query[r] \in Query /\ "add" \in Label
  BY <1>1, Same DEF Label
<1>3. CacheInv'
  BY <1>1 DEF CacheInv, CachesTruthful
<1>4. m.kind # "badExtension" /\ (m.kind = "full" => m.hash = m.query) /\ query[r] = Meant(m)
  BY <1>1 DEF Sound
<1>5. CASE query[r] \in Malformed /\ Answer(r, Error("malformed")) /\ UNCHANGED doc
  <2>1. Fits(m, Error("malformed"))
    BY <1>4, <1>5 DEF Fits, Verdict
  <2> QED BY <1>1, <1>3, <1>5, <2>1, AnswersDiffer, AnswerTypes, AnswerStep
<1>6. CASE query[r] \in Invalid /\ Answer(r, Error("invalid")) /\ UNCHANGED doc
  <2>1. Fits(m, Error("invalid"))
    BY <1>4, <1>6, QueriesAssumption DEF Fits, Verdict
  <2> QED BY <1>1, <1>3, <1>6, <2>1, AnswersDiffer, AnswerTypes, AnswerStep
<1>7. CASE /\ query[r] \notin Malformed \union Invalid
           /\ doc' = [doc EXCEPT ![r] = query[r]] /\ Goto(r, "add")
  <2>1. Sound(m, "add", query[r], query[r], answer[r])
    BY <1>1, <1>7 DEF Sound
  <2> QED BY <1>1, <1>2, <1>3, <1>7, <2>1, GotoStep
<1> QED BY <1>5, <1>6, <1>7 DEF Parse

LEMMA AddDocumentStep == ASSUME IInv, NEW r \in Request, AddDocument(r) PROVE IInv'
<1>1. /\ Types /\ CacheInv /\ Sound(req[r], pc[r], query[r], doc[r], answer[r])
      /\ pc[r] = "add" /\ docs' = Added(docs, query[r], doc[r]) /\ Goto(r, "late")
      /\ UNCHANGED <<apq, req, query, doc>>
  BY DEF IInv, RequestInv, AddDocument
<1>2. doc[r] = query[r] /\ query[r] \notin Malformed \union Invalid
  BY <1>1 DEF Sound
<1>3. /\ query' = [query EXCEPT ![r] = query[r]] /\ doc' = [doc EXCEPT ![r] = doc[r]]
      /\ query[r] \in Query /\ doc[r] \in Query /\ "late" \in Label
  BY <1>1, Same DEF Label
<1>4. CacheInv'
  <2>1. docs' \subseteq Query \X Query /\ \A entry \in docs' : entry \in docs \/ entry = <<query[r], query[r]>>
    BY <1>1, <1>2, <1>3, AddTruth DEF CacheInv
  <2> QED BY <1>1, <1>2, <2>1 DEF CacheInv, CachesTruthful
<1>5. Sound(req[r], "late", query[r], doc[r], answer[r])
  BY <1>1 DEF Sound
<1> QED BY <1>1, <1>3, <1>4, <1>5, GotoStep

LEMMA LateStep == ASSUME IInv, NEW r \in Request, Late(r) PROVE IInv'
<1> DEFINE m == req[r]
           a == IF m.late = "accepted" THEN Operation(doc[r]) ELSE Error("rejected")
<1>1. /\ Types /\ CacheInv /\ Sound(m, pc[r], query[r], doc[r], answer[r])
      /\ pc[r] = "late" /\ Answer(r, a) /\ UNCHANGED <<apq, docs, req, query, doc>>
  BY DEF IInv, RequestInv, Late
<1>2. /\ m.kind # "badExtension" /\ (m.kind = "full" => m.hash = m.query)
      /\ doc[r] = Meant(m) /\ Meant(m) \notin Malformed \union Invalid
  BY <1>1 DEF Sound
<1>3. m.late \in {"accepted", "rejected"} /\ doc[r] \in Query
  BY <1>1, Same DEF Message
<1>4. a # NoAnswer /\ a \in AnyAnswer
  BY <1>3, AnswersDiffer, AnswerTypes
<1>5. Fits(m, a)
  BY <1>2, <1>3 DEF Fits, Verdict
<1>6. CacheInv'
  BY <1>1 DEF CacheInv, CachesTruthful
<1> QED BY <1>1, <1>4, <1>5, <1>6, AnswerStep

LEMMA SendStep ==
  ASSUME IInv, NEW r \in Request, NEW m \in Message, Send(r, m)
  PROVE  IInv'
<1>1. "mutate" \in Label /\ m.query \in Query /\ NoAnswer \in AnyAnswer
  BY MessageFields, AnswerTypes DEF Label
<1>2. CacheInv'
  BY DEF IInv, CacheInv, CachesTruthful, Send
<1>3. Sound(m, "mutate", m.query, m.query, NoAnswer)
  BY DEF Sound
<1> QED BY <1>1, <1>2, <1>3, RequestStep DEF Send

LEMMA RetryStep == ASSUME IInv, NEW r \in Request, Retry(r) PROVE IInv'
<1> DEFINE m == [req[r] EXCEPT !.kind = "full", !.query = req[r].hash]
<1>1. m \in Message
  BY Same DEF IInv, Message
<1> QED BY <1>1, SendStep DEF Retry

LEMMA NextRequestStep == ASSUME IInv, NEW r \in Request, NextRequest(r) PROVE IInv'
BY SendStep DEF NextRequest

LEMMA ForgetStep == ASSUME IInv, Forget PROVE IInv'
<1>1. apq' \subseteq apq /\ docs' \subseteq docs
  BY DEF Forget
<1>2. CacheInv'
  BY <1>1 DEF IInv, CacheInv, CachesTruthful
<1>3. Types' /\ RequestInv'
  BY DEF IInv, Types, RequestInv, Forget
<1> QED BY <1>2, <1>3 DEF IInv

LEMMA StutterStep == ASSUME IInv, UNCHANGED vars PROVE IInv'
BY DEF vars, IInv, Types, CacheInv, CachesTruthful, RequestInv

\* In every state the caches are truthful and every request is sound at its label.
THEOREM CachesInvariant == Spec => []IInv
<1>1. ASSUME IInv, [Next]_vars PROVE IInv'
  <2>1. ASSUME NEW r \in Request, Create(r) \/ Retry(r) \/ NextRequest(r) PROVE IInv'
    BY <1>1, <2>1, MutateStep, LookupStep, ParseStep, AddDocumentStep, LateStep, RetryStep,
       NextRequestStep DEF Create
  <2> QED BY <1>1, <2>1, ForgetStep, StutterStep DEF Next
<1> QED BY <1>1, InitInv, PTL DEF Spec

\* parseQuery reuses a document without validating it: whatever requests add at the same time, only
\* valid documents are there, and no hash stands for another query than its own.
THEOREM CachesStayTruthful == Spec => []CachesTruthful
<1>1. IInv => CachesTruthful
  BY DEF IInv, CacheInv
<1> QED BY <1>1, CachesInvariant, PTL

\* Requests that share the caches cannot tell, but for the hash that is not found.
THEOREM CachesTransparent == Spec => []CachingIsTransparent
<1>1. ASSUME IInv PROVE CachingIsTransparent
  BY <1>1 DEF IInv, RequestInv, Sound, Fits, CachingIsTransparent
<1> QED BY <1>1, CachesInvariant, PTL
=============================================================================
