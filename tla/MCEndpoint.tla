----------------------------- MODULE MCEndpoint -----------------------------
(* Constants of the Endpoint models. *)
EXTENDS Endpoint, TLC

\* Base URLs: with a token, with a query whose keys are not in order and
\* whose token comes twice, without a query, of a scheme that is not
\* supported, and a string that does not parse.
Gateway     == [parses |-> TRUE, scheme |-> "https", host |-> "gw.example",
                query |-> <<<<"token", "T1">>>>]
GatewayZone == [Gateway EXCEPT !.query =
                   <<<<"zone", "cn">>, <<"token", "T1">>, <<"token", "T2">>>>]
GatewayBare == [Gateway EXCEPT !.scheme = "http", !.query = <<>>]
GatewayFTP  == [Gateway EXCEPT !.scheme = "ftp"]

MCBaseURLs  == {Gateway, GatewayZone, GatewayBare, GatewayFTP, NoURL}

ProxyGood == [parses |-> TRUE, scheme |-> "http", host |-> "proxy:3128",
              query |-> <<>>]
ProxyBad  == [NoURL EXCEPT !.host = "proxy"]

\* Every option, with arguments on both sides of its test.
Options ==
    {WithAPIs({LogFilter, DatakitPull, Metric}), WithAPIs({Metric}),
     WithHTTPTrace(TRUE),
     WithMaxHTTPIdleConnectionPerHost(-1), WithMaxHTTPIdleConnectionPerHost(2),
     WithHTTPTimeout(0), WithHTTPTimeout(5), WithHTTPTimeout(7),
     WithProxy(ProxyGood), WithProxy(ProxyBad), WithProxy(NoProxy),
     NilOption}

\* Up to three options in any order.
MCOptionSeqs == BoundedSeq(Options, 3)

\* sendReq returns an error (a 5xx the client gave up on included), a 200
\* whose body can and cannot be read, or a status the client does not retry.
MCOutcomes ==
    {Failed, Answer(200, TRUE), Answer(200, FALSE), Answer(404, TRUE)}

=============================================================================
