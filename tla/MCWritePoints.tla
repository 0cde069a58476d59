--------------------------- MODULE MCWritePoints ---------------------------
(* Constants of the WritePoints models.  The routing table is the one the  *)
(* model of newEndpoint builds.                                             *)
EXTENDS WritePoints, TLC

EB == INSTANCE EndpointBuild

\* The endpoints of the models: newEndpoint for a gateway URL with a token,
\* routing metric and logging, without and with withHTTPTimeout.
Gateway ==
    [parses |-> TRUE, scheme |-> "https", host |-> "gw.example",
     query |-> <<<<"token", "T1">>>>]

Built == EB!NewEndpoint(Gateway, <<EB!WithAPIs({Metric, Logging})>>, TRUE).ep

BuiltTimed ==
    EB!NewEndpoint(Gateway,
        <<EB!WithAPIs({Metric, Logging}), EB!WithHTTPTimeout(30)>>, TRUE).ep

\* The timeout of the client of each.
NoClientTimeout == Built.httpCli.timeout
ClientTimeout   == BuiltTimed.httpCli.timeout

\* ep.categoryURL as writePointData uses it: the path of the request made
\* from each URL string, and whether the string holds "/v1/write/".
Routes ==
    [c \in DOMAIN EB!GetCategoryURL(Built) |->
        LET url == EB!GetCategoryURL(Built)[c]
        IN  [name      |-> EB!ParseRequest(url).path[1],
             parses    |-> TRUE,
             writePath |-> \E i \in DOMAIN url : url[i] \in WritePaths]]

\* The value of categoryURL.  TLC evaluates the definition that replaces a
\* constant at every use of the constant, and a definition named there once.
RoutedURLs == Routes

\* Dynamic URLs: a callback URL without "/v1/write/", one with it, and a
\* string url.ParseRequestURI rejects.
DynPlain == [name |-> "http://dial.example/cb", parses |-> TRUE, writePath |-> FALSE]
DynWrite == [name |-> "http://dial.example/v1/write/logging", parses |-> TRUE,
             writePath |-> TRUE]
DynBad   == [name |-> "dial.example", parses |-> FALSE, writePath |-> FALSE]

\* One writer, every kind of request: a category that is cached, one that
\* is not, one the endpoint has no URL for, and the dynamic one.
SeqRequests ==
    [category : {Metric, Logging, Tracing, DynamicDatawayCategory},
     cacheAll : BOOLEAN, hasFC : BOOLEAN,
     dynamicURL : {NoURL, DynPlain, DynBad}, isSinker : BOOLEAN]

\* The answers and errors of one attempt: 2xx and 4xx whose body can and
\* cannot be read, the quota rejection, a 5xx the client retries and one it
\* does not, and the three ways of getting no answer.
SeqOutcomes ==
    {Resp(200, FALSE, TRUE), Resp(200, FALSE, FALSE), Resp(403, TRUE, TRUE),
     Resp(404, FALSE, TRUE), Resp(404, FALSE, FALSE), Resp(503, FALSE, TRUE),
     Resp(501, FALSE, TRUE), NetErr("refused"), NetErr("timeout"),
     NetErr("lostAck")}

\* Several writers: requests that reach the hint in every way.
ConcRequests ==
    {[category |-> Logging, cacheAll |-> FALSE, hasFC |-> TRUE,
      dynamicURL |-> NoURL, isSinker |-> FALSE],
     [category |-> DynamicDatawayCategory, cacheAll |-> FALSE, hasFC |-> TRUE,
      dynamicURL |-> DynPlain, isSinker |-> FALSE],
     [category |-> DynamicDatawayCategory, cacheAll |-> FALSE, hasFC |-> TRUE,
      dynamicURL |-> DynWrite, isSinker |-> FALSE]}

\* An accepted write, the quota rejection, a 4xx that holds the marker and
\* is no 403, and no answer.
ConcOutcomes ==
    {Resp(200, FALSE, TRUE), Resp(403, TRUE, TRUE), Resp(404, TRUE, TRUE),
     NetErr("timeout")}

=============================================================================
