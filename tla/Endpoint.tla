------------------------------ MODULE Endpoint ------------------------------
(***************************************************************************)
(* One endpoint of io/dataway/endpoint.go from its construction on: the    *)
(* call of newEndpoint, and then the two pulls, getLogFilter and           *)
(* datakitPull, that the agent makes through it.  The write path of the    *)
(* same endpoint is module WritePoints.                                    *)
(*                                                                         *)
(* The gateway is the environment: it chooses how every request ends.  The *)
(* retries of the client happen inside one sendReq and are not told apart  *)
(* here; WritePoints models them.                                          *)
(***************************************************************************)
EXTENDS EndpointBuild, FiniteSets, Bags, BagsExt

CONSTANTS
    BaseURLs,   \* the urlstr arguments of newEndpoint
    OptionSeqs, \* the opts arguments of newEndpoint
    PullArgs,   \* the args arguments of datakitPull
    CtlArgs,    \* those of them that hold a control character
    Outcomes,   \* how a request may end (see Answer, Failed)
    MaxPulls    \* bound: pulls made through the endpoint

\* A response with its status code, and whether io.ReadAll reads its body
\* to the end.
Answer(code, readable) == [resp |-> TRUE, code |-> code, readable |-> readable]

\* sendReq returned an error: there is no response, and no body to close.
Failed == [resp |-> FALSE, code |-> 0, readable |-> FALSE]

StatusOK == 200

VARIABLES
    state,  \* "new", then "built" or "failed"
    given,  \* the arguments newEndpoint was called with
    made,   \* what newEndpoint returned: [err, ep]
    sent,   \* the requests sent: who sent them and what http.NewRequest parsed
    open,   \* the response bodies nothing has closed: a bag of function names
    ret,    \* what the last pull returned
    pulls   \* pulls made

vars == <<state, given, made, sent, open, ret, pulls>>

NoArgs == [u |-> NoURL, opts |-> <<>>, dnsOK |-> FALSE]
NoRet  == [by |-> "none", err |-> Nil]

ep == made.ep

TypeOK ==
    /\ state \in {"new", "built", "failed"}
    /\ (state = "built") = ep.httpCli.built
    /\ (state = "failed") = (made.err # Nil)
    /\ given.u \in BaseURLs \cup {NoURL}
    /\ given.opts \in OptionSeqs
    /\ ep.apis \subseteq STRING
    /\ DOMAIN ep.categoryURL = IF state = "built" THEN ep.apis ELSE {}
    /\ ep.httpTimeout \in Nat
    /\ ep.maxHTTPIdleConnectionPerHost \in Nat
    /\ ep.httpTrace \in BOOLEAN
    /\ ep.httpCli.proxyURL = NoProxy \/ ep.httpCli.proxyURL.parses
    /\ \A r \in sent : r.by \in {"getLogFilter", "datakitPull"}
    /\ IsABag(open)
    /\ ret.by \in {"none", "getLogFilter", "datakitPull"}
    /\ ret.err \in {Nil, "apiMissing", "newRequest", "sendReq", "readAll",
                    "status"}
    /\ pulls \in 0..MaxPulls

Init ==
    /\ state = "new"
    /\ given = NoArgs
    /\ made = [err |-> Nil, ep |-> NoEndpoint]
    /\ sent = {}
    /\ open = EmptyBag
    /\ ret = NoRet
    /\ pulls = 0

\* newEndpoint(urlstr, opts...), with or without the DNS cache.
Construct ==
    /\ state = "new"
    /\ \E u \in BaseURLs, opts \in OptionSeqs, dnsOK \in BOOLEAN :
         /\ given' = [u |-> u, opts |-> opts, dnsOK |-> dnsOK]
         /\ made' = NewEndpoint(u, opts, dnsOK)
         /\ state' = IF made'.err = Nil THEN "built" ELSE "failed"
    /\ UNCHANGED <<sent, open, ret, pulls>>

-----------------------------------------------------------------------------
(* The pulls. *)

\* Whether resp.Body.Close is deferred before the body is read: in
\* getLogFilter it is, in datakitPull the defer stands behind the return of
\* the failed read.
DeferredBeforeRead(by) == by = "getLogFilter"

\* The error a pull returns after its request ended in o.
PullError(o) ==
    CASE ~o.resp                                    -> "sendReq"
      [] o.resp /\ ~o.readable                      -> "readAll"
      [] o.resp /\ o.readable /\ o.code # StatusOK  -> "status"
      [] o.resp /\ o.readable /\ o.code = StatusOK  -> Nil

\* A GET of url by one of the two functions: the request is made and sent,
\* the body is read, and the status is looked at.  The body of a response
\* is closed by the deferred call, if the function got as far as that.
Pull(by, url) ==
    \E o \in Outcomes :
        LET err == PullError(o)
            leaked == o.resp /\ err = "readAll" /\ ~DeferredBeforeRead(by)
        IN  /\ sent' = sent \cup {[by |-> by, req |-> ParseRequest(url)]}
            /\ open' = IF leaked THEN BagAdd(open, by) ELSE open
            /\ ret' = [by |-> by, err |-> err]

\* The function returns before a request is sent: the endpoint has no URL
\* for the API, or http.NewRequest does not accept the URL string.
Unsent(by, err) ==
    /\ ret' = [by |-> by, err |-> err]
    /\ UNCHANGED <<sent, open>>

\* ep.getLogFilter()
GetLogFilter ==
    /\ state = "built" /\ pulls < MaxPulls
    /\ pulls' = pulls + 1
    /\ IF LogFilter \in DOMAIN ep.categoryURL
       THEN Pull("getLogFilter", ep.categoryURL[LogFilter])
       ELSE Unsent("getLogFilter", "apiMissing")
    /\ UNCHANGED <<state, given, made>>

\* Mutant: args joined as if the URL had no query yet.
PullURLAsFirst(url, args) == url \o <<"?", args>>

\* The URL string datakitPull asks for: url + "&" + args.
PullURL(url, args) == url \o <<"&", args>>

\* ep.datakitPull(args).  http.NewRequest parses the string, and refuses
\* one with a control character in it.
DatakitPullCall ==
    /\ state = "built" /\ pulls < MaxPulls
    /\ pulls' = pulls + 1
    /\ \/ /\ DatakitPull \notin DOMAIN ep.categoryURL
          /\ Unsent("datakitPull", "apiMissing")
       \/ /\ DatakitPull \in DOMAIN ep.categoryURL
          /\ \E args \in PullArgs \cap CtlArgs :
                 Unsent("datakitPull", "newRequest")
       \/ /\ DatakitPull \in DOMAIN ep.categoryURL
          /\ \E args \in PullArgs \ CtlArgs :
                 Pull("datakitPull", PullURL(ep.categoryURL[DatakitPull], args))
    /\ UNCHANGED <<state, given, made>>

Next == Construct \/ GetLogFilter \/ DatakitPullCall

Spec == Init /\ [][Next]_vars

-----------------------------------------------------------------------------
(* Properties. *)

Numeric == {"withMaxHTTPIdleConnectionPerHost", "withHTTPTimeout"}

\* The argument of the last option of this kind that the option accepted,
\* and otherwise the field's zero value.
LastAccepted(opts, opt, zero) ==
    LET at == {i \in DOMAIN opts :
                  opts[i].opt = opt /\ (opt \in Numeric => opts[i].arg > 0)}
    IN  IF at = {} THEN zero ELSE opts[Max(at)].arg

\* The client of a built endpoint is configured by the options newEndpoint
\* was given, whatever their order and number: its timeout and its dial
\* timeout are the last positive withHTTPTimeout, its idle connections the
\* last positive withMaxHTTPIdleConnectionPerHost (a zero or negative
\* argument, given last, does not undo an earlier one), and it goes through
\* the last withProxy if that one parses and through none if not.  This is
\* the loop over opts in newEndpoint followed by setupHTTP.
ClientFollowsOptions ==
    state = "built" =>
        LET timeout == LastAccepted(given.opts, "withHTTPTimeout", 0)
            proxy   == LastAccepted(given.opts, "withProxy", NoProxy)
        IN  /\ ep.httpCli.timeout = timeout
            /\ ep.httpCli.dialTimeout = timeout
            /\ ep.httpCli.maxIdleConnsPerHost =
                   LastAccepted(given.opts, "withMaxHTTPIdleConnectionPerHost", 0)
            /\ ep.httpCli.proxyURL = IF proxy.parses THEN proxy ELSE NoProxy
            /\ ep.httpCli.dnsCache = given.dnsOK

\* The pairs a server reads from an encoded query (url.ParseQuery).
Pairs(tokens) ==
    [i \in 1..((Len(tokens) + 1) \div 4) |-> <<tokens[4 * i - 3], tokens[4 * i - 1]>>]

\* newEndpoint returns an endpoint only for an http or https URL, and then
\* every API asked for with withAPIs, and no other, has a URL: the API's
\* path on the gateway's scheme and host, with a query that holds every
\* pair of the base URL's as often as that one does, and from which the
\* gateway reads the token the endpoint holds.  The order of the pairs is
\* not that of the base URL.  This is the loop over ep.apis with its
\* u.Query().Encode(), and the switch on the scheme in newEndpoint.
RoutesAreGatewayURLs ==
    state = "built" =>
        /\ given.u.scheme \in {"http", "https"}
        /\ DOMAIN ep.categoryURL = LastAccepted(given.opts, "withAPIs", {})
        /\ \A api \in DOMAIN ep.categoryURL :
               LET req == ParseRequest(ep.categoryURL[api])
               IN  /\ <<req.scheme, req.host>> = <<given.u.scheme, given.u.host>>
                   /\ req.path = <<api>>
                   /\ ToBag(Pairs(req.query)) = ToBag(given.u.query)
                   /\ Get(Pairs(req.query), "token") = ep.token

\* A pull leaves no response body open, however its request ends (the
\* deferred resp.Body.Close of getLogFilter and of datakitPull).
PullsCloseBodies == open = EmptyBag

\* Through an endpoint whose base URL has a query, the request of
\* datakitPull asks the gateway's pull API with that query and args joined to
\* it; and getLogFilter asks its API with the query alone (the
\* url + "&" + args in datakitPull, on the URL strings newEndpoint built).
\* Without a query in the base URL the "&" and args end up in the path.
PullAsksPullAPI ==
    given.u.query # <<>> =>
        \A r \in sent :
            \/ /\ r.by = "datakitPull"
               /\ r.req.path = <<DatakitPull>>
               /\ \E args \in PullArgs :
                      r.req.query = Encode(given.u.query) \o <<"&", args>>
            \/ /\ r.by = "getLogFilter"
               /\ r.req.path = <<LogFilter>>
               /\ r.req.query = Encode(given.u.query)

=============================================================================
