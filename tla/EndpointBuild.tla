--------------------------- MODULE EndpointBuild ---------------------------
(***************************************************************************)
(* newEndpoint of io/dataway/endpoint.go as a function of its arguments:   *)
(* the base URL, the options in the order given, and whether the DNS cache *)
(* dial context could be had.  It has no state of its own; module Endpoint *)
(* calls it, and the models of the write path take their routing table     *)
(* from it.                                                                *)
(*                                                                         *)
(* A URL string is a sequence of tokens, <<scheme, "://", host, path>> and *)
(* then, if there is one, "?" and the query, whose pairs are key, "=",     *)
(* value with "&" between them.  Of the base URL the model keeps what      *)
(* url.ParseRequestURI makes of it: whether it parses, its scheme and      *)
(* host, and its query as the sequence of its pairs <<key, value>>.        *)
(***************************************************************************)
EXTENDS Categories, Integers, Sequences, SequencesExt

Nil == "nil"

\* What url.ParseRequestURI made of a string that it did not accept.
NoURL == [parses |-> FALSE, scheme |-> "", host |-> "", query |-> <<>>]

\* ep.proxy when no option set it.
NoProxy == NoURL

-----------------------------------------------------------------------------
(* The query of the base URL. *)

\* The keys the models' queries are made of, in the order of sort.Strings.
Keys == <<"env", "token", "zone">>

\* The pairs of a query that have this key, in the order they came.
Of(query, key) == SelectSeq(query, LAMBDA pair : pair[1] = key)

\* u.Query().Get(key): the first value of the key, and "" without one.
Get(query, key) == IF Of(query, key) = <<>> THEN "" ELSE Head(Of(query, key))[2]

\* u.Query().Encode(): the pairs by ascending key, those of one key in the
\* order they came, written key=value and joined by "&".
Encode(query) ==
    LET sorted == FlattenSeq([i \in DOMAIN Keys |-> Of(query, Keys[i])])
    IN  FlattenSeq([i \in DOMAIN sorted |->
            (IF i = 1 THEN <<>> ELSE <<"&">>) \o <<sorted[i][1], "=", sorted[i][2]>>])

-----------------------------------------------------------------------------
(* The options. *)

WithAPIs(arr)     == [opt |-> "withAPIs", arg |-> arr]
WithHTTPTrace(on) == [opt |-> "withHTTPTrace", arg |-> on]
WithMaxHTTPIdleConnectionPerHost(n) ==
    [opt |-> "withMaxHTTPIdleConnectionPerHost", arg |-> n]
WithHTTPTimeout(timeout) == [opt |-> "withHTTPTimeout", arg |-> timeout]
WithProxy(proxy)  == [opt |-> "withProxy", arg |-> proxy]
NilOption         == [opt |-> "nil", arg |-> Nil]

\* Mutant: the numeric options without their test of the argument.
PositiveAny(n) == TRUE

\* The test of withMaxHTTPIdleConnectionPerHost and withHTTPTimeout.
Positive(n) == n > 0

\* opt(ep): what one option does to the endpoint.  A nil option is skipped,
\* and the two numeric options leave the field alone unless n > 0.
Apply(ep, o) ==
    CASE o.opt = "withAPIs"      -> [ep EXCEPT !.apis = o.arg]
      [] o.opt = "withHTTPTrace" -> [ep EXCEPT !.httpTrace = o.arg]
      [] o.opt = "withMaxHTTPIdleConnectionPerHost" ->
             IF Positive(o.arg)
             THEN [ep EXCEPT !.maxHTTPIdleConnectionPerHost = o.arg] ELSE ep
      [] o.opt = "withHTTPTimeout" ->
             IF Positive(o.arg) THEN [ep EXCEPT !.httpTimeout = o.arg] ELSE ep
      [] o.opt = "withProxy"     -> [ep EXCEPT !.proxy = o.arg]
      [] o.opt = "nil"           -> ep

-----------------------------------------------------------------------------
(* The endpoint. *)

NoClient ==
    [built |-> FALSE, dialTimeout |-> 0, maxIdleConnsPerHost |-> 0,
     dnsCache |-> FALSE, proxyURL |-> NoProxy, timeout |-> 0]

\* The struct endPoint with the zero value of every field; it stands for
\* the nil *endPoint newEndpoint returns beside an error, too.
NoEndpoint ==
    [token |-> "", host |-> "", scheme |-> "", categoryURL |-> <<>>,
     httpCli |-> NoClient, proxy |-> NoProxy, apis |-> {}, httpTimeout |-> 0,
     maxHTTPIdleConnectionPerHost |-> 0, httpTrace |-> FALSE]

\* The struct newEndpoint starts from: the token, the host and the scheme
\* of the URL, and an empty routing table.
NewStruct(u) ==
    [NoEndpoint EXCEPT !.token = Get(u.query, "token"), !.host = u.host,
                       !.scheme = u.scheme]

\* Mutant: the URL of a category without the query of the base URL.
CategoryURLBare(u, ep, api) == <<ep.scheme, "://", ep.host, api>>

\* The URL string of one API: the base URL's query, encoded anew, follows
\* the path when it is not empty.
CategoryURL(u, ep, api) ==
    IF Encode(u.query) # <<>>
    THEN <<ep.scheme, "://", ep.host, api, "?">> \o Encode(u.query)
    ELSE <<ep.scheme, "://", ep.host, api>>

\* The client of cliopts and newRetryCli.  Without a DNS cache the default
\* dialer is used; a proxy that does not parse is ignored; the dial timeout
\* is the HTTP timeout.
Client(ep, dnsOK, timeout) ==
    [built |-> TRUE, dialTimeout |-> ep.httpTimeout,
     maxIdleConnsPerHost |-> ep.maxHTTPIdleConnectionPerHost,
     dnsCache |-> dnsOK,
     proxyURL |-> IF ep.proxy # NoProxy /\ ep.proxy.parses THEN ep.proxy
                  ELSE NoProxy,
     timeout |-> timeout]

\* Mutant: setupHTTP that hands newRetryCli no timeout.
SetupHTTPNoTimeout(ep, dnsOK) == [ep EXCEPT !.httpCli = Client(ep, dnsOK, 0)]

\* setupHTTP: ep.httpCli = newRetryCli(cliopts, ep.httpTimeout)
SetupHTTP(ep, dnsOK) ==
    [ep EXCEPT !.httpCli = Client(ep, dnsOK, ep.httpTimeout)]

\* The schemes newEndpoint builds a client for.
SchemeSupported(scheme) == scheme \in {"http", "https"}

\* newEndpoint(urlstr, opts...): the endpoint, or the error.
NewEndpoint(u, opts, dnsOK) ==
    LET set    == FoldLeft(Apply, NewStruct(u), opts)
        routed == [set EXCEPT !.categoryURL =
                      [api \in set.apis |-> CategoryURL(u, set, api)]]
    IN  CASE ~u.parses -> [err |-> "parseURL", ep |-> NoEndpoint]
          [] u.parses /\ ~SchemeSupported(u.scheme) ->
                 [err |-> "notSupportedScheme", ep |-> NoEndpoint]
          [] u.parses /\ SchemeSupported(u.scheme) ->
                 [err |-> Nil, ep |-> SetupHTTP(routed, dnsOK)]

\* ep.GetCategoryURL(): the routing table itself, not a copy of it.
GetCategoryURL(ep) == ep.categoryURL

-----------------------------------------------------------------------------
(* A request made from a URL string: http.NewRequest parses it again. *)

\* The tokens of s from the path on, up to the first "?", and those behind.
ParseRequest(s) ==
    LET mark == SelectInSeq(s, LAMBDA t : t = "?")
        stop == IF mark = 0 THEN Len(s) ELSE mark - 1
    IN  [scheme |-> s[1], host |-> s[3],
         path   |-> SubSeq(s, 4, stop),
         query  |-> IF mark = 0 THEN <<>> ELSE SubSeq(s, mark + 1, Len(s))]

=============================================================================
