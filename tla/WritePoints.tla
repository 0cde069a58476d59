---------------------------- MODULE WritePoints ----------------------------
(***************************************************************************)
(* The write path of io/dataway/endpoint.go: several goroutines call       *)
(* ep.writePoints on one shared endpoint.  A call builds its bodies and,   *)
(* for each body in turn, resolves the URL, posts the body through the     *)
(* retrying client, classifies the answer, runs the deferred bookkeeping   *)
(* and decides whether the body goes to the disk cache.                    *)
(*                                                                         *)
(* State shared by the writers: metrics.BeyondUsage, the counters, the     *)
(* dial-testing fail info and the disk cache.  The gateway and the disk    *)
(* are the environment: they choose the outcome of every attempt and of    *)
(* every Put.                                                              *)
(***************************************************************************)
EXTENDS Categories, Integers, Sequences, FiniteSets, Bags, BagsExt

CONSTANTS
    Writers,      \* goroutines that call ep.writePoints
    categoryURL,  \* ep.categoryURL: category -> URL, read-only after newEndpoint
    httpTimeout,  \* the timeout setupHTTP gave the client; 0 is none
    Requests,     \* the writer structs (w *writer) a caller may pass in
    Outcomes,     \* what one HTTP attempt may end in (see Resp, NetErr)
    Times,        \* values time.Now().Unix() may return
    GzipChoices,  \* values of body.gzon that buildBody may produce
    MaxCalls,     \* bound: writePoints calls per writer
    MaxBodies,    \* bound: bodies buildBody returns for one call
    RetryMax      \* retries of the retrying client after the first attempt

-----------------------------------------------------------------------------
(* URLs.  Of a URL the code asks two things: does url.ParseRequestURI      *)
(* accept it, and does the string hold "/v1/write/".                       *)

URLs == [name : STRING, parses : BOOLEAN, writePath : BOOLEAN]

\* The empty string: writer.dynamicURL when the caller set none.
NoURL == [name |-> "", parses |-> FALSE, writePath |-> FALSE]

-----------------------------------------------------------------------------
(* What one attempt of the retrying client may end in.                     *)

\* A response: its status code, whether its body holds "beyondDataUsage",
\* and whether ioutil.ReadAll can read the body to its end.
Resp(code, marker, readable) ==
    [kind |-> "resp", code |-> code, marker |-> marker, readable |-> readable]

\* No response.  "refused": the request never reached the gateway;
\* "timeout": no answer in time, nothing stored; "lostAck": the gateway
\* stored the body and its answer did not arrive in time.
NetErr(kind) ==
    [kind |-> kind, code |-> 0, marker |-> FALSE, readable |-> FALSE]

NoOutcome == NetErr("none")

OutcomeType ==
    [kind : {"resp", "refused", "timeout", "lostAck", "none"},
     code : 0..599, marker : BOOLEAN, readable : BOOLEAN]

\* The gateway has the body after this attempt.
Stored(o) == o.kind = "lostAck" \/ (o.kind = "resp" /\ o.code \div 100 = 2)

\* An attempt the gateway does not answer in time ends by the timeout of
\* the client.  A client without one waits for the answer for good.
Hangs(o) == o.kind \in {"timeout", "lostAck"} /\ httpTimeout = 0

\* The retry policy of the client newRetryCli builds: connection errors and
\* 5xx answers other than 501 are tried again.
Retryable(o) == o.kind # "resp" \/ (o.code \div 100 = 5 /\ o.code # 501)

-----------------------------------------------------------------------------
(* Labels of the counters: http.StatusText of a code; 0 is "unknown". *)

UnknownCode == 0
StatusRequestTimeout      == 408
StatusInternalServerError == 500
StatusForbidden           == 403

\* httpCodeStr after sendReq returned an error: a *url.Error that timed out
\* is counted as 408, the client's "giving up after" as 500.
\* Not reached: the error of rhttp.FromRequest, which cannot fail on a body
\* held in memory.
ErrLabel(o) ==
    CASE o.kind \in {"timeout", "lostAck"} -> StatusRequestTimeout
      [] o.kind = "resp"                   -> StatusInternalServerError
      [] OTHER                             -> UnknownCode

-----------------------------------------------------------------------------

VARIABLES
    pc,            \* where each writer stands in writePoints
    req,           \* the writer struct of the call in progress
    bodies,        \* the bodies of the call still to be written, current first
    calls,         \* writePoints calls each writer has started
    result,        \* what each writer's last writePoints call returned
    loc,           \* the locals of writePointData and the writer's gzip field
    beyondUsage,   \* metrics.BeyondUsage
    ptsCounterVec, \* ptsCounterVec and bytesCounterVec: a bag of <<cat, label>>
    sinkPtsVec,    \* sinkPtsVec, same labels
    apiCounterVec, \* sendReq's apiCounterVec: a bag of <<URL name, label>>
    dtFailInfo,    \* what updateDTFailInfo was told: records [url, ok, seen]
    diskCache,     \* what w.fc.Put stored: a bag of CacheData records
    gateway,       \* the POST requests the gateway stored
    hist           \* history: per body the request, the last outcome, whether
                   \* an answer to a stored body was missed, the Put

vars ==
    <<pc, req, bodies, calls, result, loc, beyondUsage, ptsCounterVec,
      sinkPtsVec, apiCounterVec, dtFailInfo, diskCache, gateway, hist>>

shared ==
    <<beyondUsage, ptsCounterVec, sinkPtsVec, apiCounterVec, dtFailInfo,
      diskCache, gateway>>

BodyIds == Writers \X (1..MaxCalls) \X (1..MaxBodies)

Nil == "nil"
ErrWritePoints4XX == "errWritePoints4XX"
Errors ==
    {Nil, ErrWritePoints4XX, "parseDynamicURL", "invalidURL", "sendReq",
     "readAll", "internalError"}

Loc0 ==
    [requrl |-> NoURL, deferDT |-> FALSE, deferMetrics |-> FALSE,
     gzip |-> FALSE, httpCodeStr |-> UnknownCode, attempts |-> 0,
     resp |-> NoOutcome, open |-> FALSE, loaded |-> 0, err |-> Nil]

\* The value of req before a writer's first call.
NoReq ==
    [category |-> "", cacheAll |-> FALSE, hasFC |-> FALSE, dynamicURL |-> NoURL,
     isSinker |-> FALSE]

Hist0 ==
    [req |-> NoReq, sent |-> FALSE, last |-> NoOutcome, missed |-> FALSE,
     put |-> "none", done |-> FALSE]

Body(w) == Head(bodies[w])

TypeOK ==
    /\ pc \in [Writers ->
                {"idle", "body", "send", "hung", "classify", "store", "return",
                 "handle"}]
    /\ httpTimeout \in Nat
    /\ req \in [Writers -> Requests \cup {NoReq}]
    /\ \A w \in Writers :
         /\ bodies[w] \in Seq([id : BodyIds, gzon : GzipChoices])
         /\ Len(bodies[w]) <= MaxBodies
         /\ loc[w] \in [requrl : URLs, deferDT : BOOLEAN, deferMetrics : BOOLEAN,
                        gzip : BOOLEAN, httpCodeStr : 0..599,
                        attempts : 0..RetryMax, resp : OutcomeType,
                        open : BOOLEAN, loaded : Nat, err : Errors]
         /\ loc[w].open = (pc[w] \in {"classify", "store"}
                              \/ (pc[w] = "return" /\ loc[w].resp # NoOutcome))
         /\ (pc[w] = "idle") = (bodies[w] = <<>>)
    /\ calls \in [Writers -> 0..MaxCalls]
    /\ result \in [Writers -> {"none", Nil, "buildBodyError"}]
    /\ beyondUsage \in Nat
    /\ IsABag(ptsCounterVec) /\ IsABag(sinkPtsVec) /\ IsABag(apiCounterVec)
    /\ BagToSet(sinkPtsVec) \subseteq BagToSet(ptsCounterVec)
    /\ BagToSet(ptsCounterVec) \subseteq (0..(Len(PointCategoryURLs) - 1)) \X (0..599)
    /\ dtFailInfo \subseteq [url : URLs, ok : BOOLEAN, seen : 0..599]
    /\ IsABag(diskCache)
    /\ BagToSet(diskCache) \subseteq
         [category : 0..(Len(PointCategoryURLs) - 1), payload : BodyIds]
    /\ gateway \subseteq [url : URLs, gzip : BOOLEAN, payload : BodyIds]
    /\ DOMAIN hist = BodyIds

Init ==
    /\ pc = [w \in Writers |-> "idle"]
    /\ req = [w \in Writers |-> NoReq]
    /\ bodies = [w \in Writers |-> <<>>]
    /\ calls = [w \in Writers |-> 0]
    /\ result = [w \in Writers |-> "none"]
    /\ loc = [w \in Writers |-> Loc0]
    /\ beyondUsage = 0
    /\ ptsCounterVec = EmptyBag
    /\ sinkPtsVec = EmptyBag
    /\ apiCounterVec = EmptyBag
    /\ dtFailInfo = {}
    /\ diskCache = EmptyBag
    /\ gateway = {}
    /\ hist = [b \in BodyIds |-> Hist0]

-----------------------------------------------------------------------------
(* writePoints: buildBody, then writeBody for every body in turn.          *)

\* The call starts.  buildBody fails and the call returns its error; or it
\* returns no body, and the call returns nil after a loop of no round; or
\* it returns up to MaxBodies bodies.
WritePoints(w) ==
    /\ pc[w] = "idle"
    /\ calls[w] < MaxCalls
    /\ calls' = [calls EXCEPT ![w] = @ + 1]
    /\ \E r \in Requests :
         /\ req' = [req EXCEPT ![w] = r]
         /\ \/ /\ \E ret \in {"buildBodyError", Nil} :
                      result' = [result EXCEPT ![w] = ret]
               /\ UNCHANGED <<pc, bodies, hist>>
            \/ \E n \in 1..MaxBodies : \E gz \in [1..n -> GzipChoices] :
                 LET ids == [i \in 1..n |-> <<w, calls[w] + 1, i>>]
                 IN  /\ bodies' = [bodies EXCEPT ![w] =
                            [i \in 1..n |-> [id |-> ids[i], gzon |-> gz[i]]]]
                     /\ hist' = [b \in BodyIds |->
                            IF \E i \in 1..n : ids[i] = b
                            THEN [hist[b] EXCEPT !.req = r] ELSE hist[b]]
                     /\ pc' = [pc EXCEPT ![w] = "body"]
                     /\ UNCHANGED result
    /\ UNCHANGED <<loc, shared>>

\* The URL writePointData posts to: the category's URL if the endpoint has
\* one, else the writer's dynamic URL if it parses, else an error.
ResolveURL(r) ==
    CASE r.category \in DOMAIN categoryURL ->
           [err |-> Nil, url |-> categoryURL[r.category], dynamic |-> FALSE]
      [] r.category \notin DOMAIN categoryURL /\ r.dynamicURL = NoURL ->
           [err |-> "invalidURL", url |-> NoURL, dynamic |-> FALSE]
      [] r.category \notin DOMAIN categoryURL /\ r.dynamicURL # NoURL ->
           IF r.dynamicURL.parses
           THEN [err |-> Nil, url |-> r.dynamicURL, dynamic |-> TRUE]
           ELSE [err |-> "parseDynamicURL", url |-> NoURL, dynamic |-> FALSE]

\* Mutant: the counters' deferred function registered at the top of
\* writePointData, before the returns of the URL resolution.
MetricsDeferredAtEntry(route) == TRUE

\* Mutant: the deferred function of the counters inside the branch of the
\* dynamic URL, beside the one of the fail info.
MetricsDeferredDynamicOnly(route) == route.dynamic

\* Whether writePointData gets as far as registering the deferred function
\* of the counters: it stands after the URL resolution and its two returns.
MetricsDeferred(route) == route.err = Nil

\* writeBody enters writePointData: w.gzip is taken from the body and the
\* URL is resolved.  Without a URL the function returns before either
\* deferred function is registered; with one, it builds the request.  The
\* error of http.NewRequest is not reached: the URL has parsed before.
BeginBody(w) ==
    /\ pc[w] = "body"
    /\ LET route == ResolveURL(req[w])
       IN  /\ loc' = [loc EXCEPT ![w] =
                  [Loc0 EXCEPT !.gzip = Body(w).gzon,
                               !.requrl = route.url,
                               !.err = route.err,
                               !.deferDT = route.dynamic,
                               !.deferMetrics = MetricsDeferred(route)]]
           /\ pc' = [pc EXCEPT ![w] = IF route.err = Nil THEN "send" ELSE "return"]
    /\ UNCHANGED <<req, bodies, calls, result, shared, hist>>

\* The client's locals after an attempt it will repeat.
Retried(l) == [l EXCEPT !.attempts = @ + 1]

\* sendReq: one attempt of the retrying client.  The environment chooses
\* how it ends.  Without an answer and without a timeout it does not end.
\* An attempt that may be retried is, until RetryMax retries are used up;
\* then the client gives up with an error.  sendReq counts the call under
\* the path and the status it saw.
Attempt(w) ==
    /\ pc[w] = "send"
    /\ \E o \in Outcomes :
         LET l    == loc[w]
             id   == Body(w).id
             post == [url |-> l.requrl, gzip |-> l.gzip, payload |-> id]
         IN  /\ gateway' = IF Stored(o) THEN gateway \cup {post} ELSE gateway
             /\ hist' = [hist EXCEPT ![id].sent = TRUE, ![id].last = o,
                                     ![id].missed = @ \/ (Stored(o) /\ ~o.readable)]
             /\ \/ /\ Hangs(o)
                   /\ pc' = [pc EXCEPT ![w] = "hung"]
                   /\ UNCHANGED <<loc, apiCounterVec>>
                \/ /\ ~Hangs(o) /\ Retryable(o) /\ l.attempts < RetryMax
                   /\ loc' = [loc EXCEPT ![w] = Retried(l)]
                   /\ UNCHANGED <<pc, apiCounterVec>>
                \/ /\ ~Hangs(o) /\ Retryable(o) /\ l.attempts = RetryMax
                   /\ loc' = [loc EXCEPT ![w].err = "sendReq",
                                         ![w].httpCodeStr = ErrLabel(o)]
                   /\ apiCounterVec' =
                          BagAdd(apiCounterVec, <<l.requrl.name, UnknownCode>>)
                   /\ pc' = [pc EXCEPT ![w] = "return"]
                \/ /\ ~Retryable(o)
                   /\ loc' = [loc EXCEPT ![w].resp = o, ![w].open = TRUE]
                   /\ apiCounterVec' =
                          BagAdd(apiCounterVec, <<l.requrl.name, o.code>>)
                   /\ pc' = [pc EXCEPT ![w] = "classify"]
    /\ UNCHANGED <<req, bodies, calls, result, beyondUsage, ptsCounterVec,
                   sinkPtsVec, dtFailInfo, diskCache>>

\* Mutant: the 2xx branch without the test of the URL.
ShouldClearAnyURL(url, loaded) == loaded > 0

\* The 2xx branch clears the hint when the URL is a write URL and the value
\* loaded from metrics.BeyondUsage is positive.
ShouldClear(url, loaded) == url.writePath /\ loaded > 0

\* The 4xx branch sets the hint on a 403 whose body holds the marker.
IsBeyondUsage(resp) == resp.code = StatusForbidden /\ resp.marker

\* writePointData reads the answer and switches on its status class.
\* 2xx: atomic.LoadInt64 of the hint, for a write URL; the store is a later
\* step.
\* 4xx: atomic.AddInt64 of the current time on a quota rejection.
\* A body that cannot be read, and every other class, is an error that is
\* not errWritePoints4XX.
Classify(w) ==
    /\ pc[w] = "classify"
    /\ LET l == loc[w]
           class == l.resp.code \div 100
       IN  \/ /\ ~l.resp.readable
              /\ loc' = [loc EXCEPT ![w].err = "readAll"]
              /\ pc' = [pc EXCEPT ![w] = "return"]
              /\ UNCHANGED beyondUsage
           \/ /\ l.resp.readable /\ class = 2
              /\ loc' = [loc EXCEPT ![w].httpCodeStr = l.resp.code,
                                    ![w].loaded = IF l.requrl.writePath
                                                  THEN beyondUsage ELSE 0]
              /\ pc' = [pc EXCEPT ![w] =
                     IF ShouldClear(l.requrl, beyondUsage) THEN "store" ELSE "return"]
              /\ UNCHANGED beyondUsage
           \/ /\ l.resp.readable /\ class = 4
              /\ loc' = [loc EXCEPT ![w].httpCodeStr = l.resp.code,
                                    ![w].err = ErrWritePoints4XX]
              /\ pc' = [pc EXCEPT ![w] = "return"]
              /\ IF IsBeyondUsage(l.resp)
                 THEN \E now \in Times : beyondUsage' = beyondUsage + now
                 ELSE UNCHANGED beyondUsage
           \/ /\ l.resp.readable /\ class \notin {2, 4}
              /\ loc' = [loc EXCEPT ![w].httpCodeStr = l.resp.code,
                                    ![w].err = "internalError"]
              /\ pc' = [pc EXCEPT ![w] = "return"]
              /\ UNCHANGED beyondUsage
    /\ UNCHANGED <<req, bodies, calls, result, ptsCounterVec, sinkPtsVec,
                   apiCounterVec, dtFailInfo, diskCache, gateway, hist>>

\* atomic.StoreInt64(&metrics.BeyondUsage, 0), a step after the load.
ClearBeyondUsage(w) ==
    /\ pc[w] = "store"
    /\ beyondUsage' = 0
    /\ pc' = [pc EXCEPT ![w] = "return"]
    /\ UNCHANGED <<req, bodies, calls, result, loc, ptsCounterVec, sinkPtsVec,
                   apiCounterVec, dtFailInfo, diskCache, gateway, hist>>

\* The category label of the counters: the name of point.CatURL of the
\* category, and the dynamic category's own name.
MetricCat(r) ==
    IF r.category = DynamicDatawayCategory
    THEN DynamicDWCategory
    ELSE CatURL(r.category)

\* The local httpCode of writePointData: declared, and assigned nowhere.
HttpCode(l) == 0

\* writePointData returns: its deferred functions run, last registered
\* first.  The body of a response is closed; the counters take the body
\* under its category and httpCodeStr; a dynamic URL has its delivery
\* reported to the dial-testing fail info.
Return(w) ==
    /\ pc[w] = "return"
    /\ LET l == loc[w]
           label == <<MetricCat(req[w]), l.httpCodeStr>>
       IN  /\ ptsCounterVec' =
                  IF l.deferMetrics THEN BagAdd(ptsCounterVec, label)
                  ELSE ptsCounterVec
           /\ sinkPtsVec' =
                  IF l.deferMetrics /\ req[w].isSinker THEN BagAdd(sinkPtsVec, label)
                  ELSE sinkPtsVec
           /\ dtFailInfo' =
                  IF l.deferDT
                  THEN dtFailInfo \cup {[url |-> l.requrl,
                                         ok |-> (HttpCode(l) \div 100 = 2),
                                         seen |-> l.resp.code]}
                  ELSE dtFailInfo
    /\ loc' = [loc EXCEPT ![w].open = FALSE]
    /\ pc' = [pc EXCEPT ![w] = "handle"]
    /\ UNCHANGED <<req, bodies, calls, result, beyondUsage, apiCounterVec,
                   diskCache, gateway, hist>>

\* The categories writeBody does not cache unless the writer says cacheAll.
NoCacheCategories ==
    {Metric, MetricDeprecated, Object, CustomObject, DynamicDatawayCategory}

\* Mutant: writeBody without the test of the error writePointData returned.
MayCacheWithoutError(r, err) ==
    /\ err # ErrWritePoints4XX
    /\ r.hasFC
    /\ r.cacheAll \/ r.category \notin NoCacheCategories

\* Mutant: writeBody without the return on errWritePoints4XX.
MayCache4XX(r, err) ==
    /\ err # Nil
    /\ r.hasFC
    /\ r.cacheAll \/ r.category \notin NoCacheCategories

\* writeBody goes on to doCache: there is an error, it is not the 4xx one,
\* the writer has a fail cache, and the writer or the category says cache.
MayCache(r, err) ==
    /\ err # Nil
    /\ err # ErrWritePoints4XX
    /\ r.hasFC
    /\ r.cacheAll \/ r.category \notin NoCacheCategories

\* doCache: the record handed to w.fc.Put.
CacheData(r, b) == [category |-> CatURL(r.category), payload |-> b.id]

\* Mutant: a return inside the loop, the bodies after the first unwritten.
NextBodyReturns(w) ==
    /\ pc' = [pc EXCEPT ![w] = "idle"]
    /\ result' = [result EXCEPT ![w] = Nil]
    /\ UNCHANGED bodies

\* The loop of writePoints: on to the next body, and nil after the last.
NextBody(w) ==
    /\ bodies' = [bodies EXCEPT ![w] = Tail(@)]
    /\ IF Len(bodies[w]) = 1
       THEN /\ pc' = [pc EXCEPT ![w] = "idle"]
            /\ result' = [result EXCEPT ![w] = Nil]
       ELSE /\ pc' = [pc EXCEPT ![w] = "body"]
            /\ UNCHANGED result

\* writeBody after writePointData returned: the body is cached, or dropped,
\* or was sent; a failed Put is logged and nothing else.  Then the loop of
\* writePoints goes on.
HandleError(w) ==
    /\ pc[w] = "handle"
    /\ LET id == Body(w).id
       IN  IF MayCache(req[w], loc[w].err)
           THEN \/ /\ diskCache' = BagAdd(diskCache, CacheData(req[w], Body(w)))
                   /\ hist' = [hist EXCEPT ![id].put = "ok", ![id].done = TRUE]
                \/ /\ hist' = [hist EXCEPT ![id].put = "failed", ![id].done = TRUE]
                   /\ UNCHANGED diskCache
           ELSE /\ hist' = [hist EXCEPT ![id].done = TRUE]
                /\ UNCHANGED diskCache
    /\ NextBody(w)
    /\ UNCHANGED <<req, calls, loc, beyondUsage, ptsCounterVec, sinkPtsVec,
                   apiCounterVec, dtFailInfo, gateway>>

-----------------------------------------------------------------------------

\* The steps of a call in progress.
Progress(w) ==
    \/ BeginBody(w)
    \/ Attempt(w)
    \/ Classify(w)
    \/ ClearBeyondUsage(w)
    \/ Return(w)
    \/ HandleError(w)

Next == \E w \in Writers : WritePoints(w) \/ Progress(w)

Spec == Init /\ [][Next]_vars

\* The Go scheduler runs every goroutine that can run.
FairSpec == Spec /\ \A w \in Writers : WF_vars(Progress(w))

-----------------------------------------------------------------------------
(* Properties. *)

\* The outcomes after which a body is neither cached nor dropped by
\* writeBody: the gateway took it, or the gateway refused it for good.
Absorbed(o) == o.kind = "resp" /\ o.readable /\ o.code \div 100 \in {2, 4}

\* A body is in the disk cache exactly when the policy says so: writeBody is
\* done with it, its last attempt ended in no 2xx and no 4xx answer whose
\* body could be read, the writer has a fail cache whose Put succeeded, and the writer says cacheAll
\* or the category is none of metric, metrics, object, custom object and
\* dynamic.  It is there once, under the category it was written for.  This
\* is writeBody's cache-or-drop decision after writePointData's
\* classification, over every path through both.
CacheMatchesPolicy ==
    \A b \in BodyIds :
        LET h == hist[b]
            cacheable == h.req.category \notin
                {Metric, MetricDeprecated, Object, CustomObject,
                 DynamicDatawayCategory}
            expected ==
                /\ h.done /\ ~Absorbed(h.last) /\ h.put # "failed"
                /\ h.req.hasFC /\ (h.req.cacheAll \/ cacheable)
        IN  /\ CopiesIn([category |-> CatURL(h.req.category), payload |-> b],
                        diskCache) = IF expected THEN 1 ELSE 0
            /\ \A rec \in BagToSet(diskCache) :
                   rec.payload = b => rec.category = CatURL(h.req.category)

\* The bodies that had a URL and whose writer stands at one of the places.
Past(places) ==
    {b \in BodyIds :
        /\ hist[b].req # NoReq
        /\ ResolveURL(hist[b].req).err = Nil
        /\ \/ hist[b].done
           \/ \E w \in Writers : pc[w] \in places /\ Body(w).id = b}

\* The status a body is counted under in ptsCounterVec: that of the answer
\* if its body was read, 500 if the client gave up on 5xx answers, 408 if it
\* gave up on timeouts, and "unknown" otherwise.
StatusCounted(o) ==
    CASE o.kind = "resp" /\ ~Retryable(o) /\ o.readable -> o.code
      [] o.kind = "resp" /\ Retryable(o)                -> StatusInternalServerError
      [] o.kind \in {"timeout", "lostAck"}              -> StatusRequestTimeout
      [] OTHER                                          -> UnknownCode

\* The status a request is counted under in apiCounterVec: that of the
\* answer sendReq returned, and "unknown" when it returned an error.
StatusAnswered(o) == IF Retryable(o) THEN UnknownCode ELSE o.code

\* The counters hold every body that had a URL exactly once, under its own
\* category and the status of its last attempt, however many attempts the
\* client made and however the writers' steps interleave; sinkPtsVec holds
\* those of the sinker writers; a body that had no URL is in neither.
\* apiCounterVec holds every request once under its path and the status
\* sendReq returned with.  These are the deferred function of
\* writePointData, which is registered after the URL is resolved and runs
\* on every later return with the httpCodeStr of that return, and the
\* deferred function of sendReq.
CountersMatchBodies ==
    LET counted     == Past({"handle"})
        requested   == Past({"classify", "store", "return", "handle"})
        ptsLabel(b) == <<MetricCat(hist[b].req), StatusCounted(hist[b].last)>>
        apiLabel(b) == <<ResolveURL(hist[b].req).url.name,
                         StatusAnswered(hist[b].last)>>
        Holds(bag, set, label(_)) ==
            \A e \in BagToSet(bag) \cup {label(b) : b \in set} :
                CopiesIn(e, bag) = Cardinality({b \in set : label(b) = e})
    IN  /\ Holds(ptsCounterVec, counted, ptsLabel)
        /\ Holds(sinkPtsVec, {b \in counted : hist[b].req.isSinker}, ptsLabel)
        /\ Holds(apiCounterVec, requested, apiLabel)

\* The gateway has the body; the disk cache has it.
Delivered(b) == \E post \in gateway : post.payload = b
Cached(b)    == \E rec \in BagToSet(diskCache) : rec.payload = b

\* The reasons for which writeBody gives a body up: the gateway refused it
\* with a 4xx, the writer has no fail cache, the Put failed, or the category
\* is one that is not cached.
Dropped(h) ==
    \/ h.last.kind = "resp" /\ h.last.readable /\ h.last.code \div 100 = 4
    \/ ~h.req.hasFC
    \/ h.put = "failed"
    \/ ~h.req.cacheAll /\ h.req.category \in NoCacheCategories

\* No body is lost without a reason, and none is kept twice without one:
\* when writeBody is done with a body, the gateway has it, or the disk cache
\* has it, or it was dropped for one of the reasons above; and a body is at
\* the gateway and in the cache, to be sent again, only if the client missed
\* the answer to an attempt that stored it (the answer came after the
\* timeout, or its body could not be read).  This is sendReq with its
\* retries, the classification of writePointData and the decision of
\* writeBody, taken together.
KeptOnceUnlessAnswerMissed ==
    \A b \in BodyIds :
        hist[b].done =>
            /\ Delivered(b) \/ Cached(b) \/ Dropped(hist[b])
            /\ Delivered(b) /\ Cached(b) => hist[b].missed

\* What a writer has observed and not yet applied to the hint.
Kind(l) ==
    CASE l.resp.kind = "resp" /\ l.resp.readable /\ l.resp.code \div 100 = 2
            /\ l.requrl.writePath                            -> "okWrite"
      [] l.resp.kind = "resp" /\ l.resp.readable /\ l.resp.code = 403
            /\ l.resp.marker                                 -> "quota"
      [] OTHER                                               -> "other"

Pending ==
    [w \in Writers |->
        IF pc[w] \in {"classify", "store"} THEN Kind(loc[w]) ELSE "none"]

QT == INSTANCE QuotaTracker WITH exceeded <- (beyondUsage # 0), pending <- Pending

\* metrics.BeyondUsage, read as "zero or not", behaves like the hint of
\* QuotaTracker although writePointData clears it in two steps (a load, then
\* a store) that other writers' loads, stores and adds may come between:
\* only a read 403 with the marker raises it, only a read 2xx from a URL
\* holding "/v1/write/" lowers it.
QuotaSpec == QT!Spec

\* Every writePoints call through an endpoint built with a positive
\* withHTTPTimeout returns, whatever the gateway does and does not answer:
\* the loop over the bodies ends, and so does every round of retries, each
\* attempt bounded by the timeout setupHTTP hands to newRetryCli.
EveryCallReturns == \A w \in Writers : pc[w] # "idle" ~> pc[w] = "idle"

\* metrics.BeyondUsage is updated without lost updates: the store of the 2xx
\* branch lowers the value its load saw, so that a quota rejection another
\* writer added after the load is kept (the load and the store in
\* writePointData, against the compare-and-set the specification asks for).
StoreClearsWhatWasLoaded ==
    [][\A w \in Writers :
          ClearBeyondUsage(w) => loc[w].loaded = beyondUsage]_vars

\* The dial-testing fail info is told whether the delivery to the dynamic
\* URL succeeded: ok exactly when the answer seen was a 2xx (the deferred
\* updateDTFailInfo in writePointData).
DTReportTellsOutcome ==
    \A r \in dtFailInfo : r.ok = (r.seen \div 100 = 2)

\* While it is not zero, metrics.BeyondUsage is the time of a quota
\* rejection (the 403 branch of writePointData).
BeyondUsageIsATime == beyondUsage \in Times \cup {0}

\* A record of the disk cache can be sent again as its body was sent the
\* first time: the body was sent, and it went to the URL the endpoint has
\* for the category whose code the record holds (doCache, which keeps
\* point.CatURL(w.category) of the writer and not the URL).
CachedBodiesCanBeReplayed ==
    \A rec \in BagToSet(diskCache) :
        LET h == hist[rec.payload]
        IN  /\ h.sent
            /\ \E c \in DOMAIN categoryURL :
                   /\ CatURL(c) = rec.category
                   /\ categoryURL[c] = ResolveURL(h.req).url

\* A body the gateway answered with a 4xx status is never handed to the disk
\* cache, whatever cacheAll says (the return on errWritePoints4XX in
\* writeBody).
No4XXCached ==
    \A rec \in BagToSet(diskCache) :
        LET o == hist[rec.payload].last
        IN  ~(o.kind = "resp" /\ o.code \div 100 = 4)

=============================================================================
