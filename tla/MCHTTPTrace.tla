---------------------------- MODULE MCHTTPTrace ----------------------------
(* Constants of the HTTPTrace models: the endpoints are those newEndpoint  *)
(* builds with and without withHTTPTrace.                                  *)
EXTENDS HTTPTrace, TLC

EB == INSTANCE EndpointBuild

Gateway ==
    [parses |-> TRUE, scheme |-> "https", host |-> "gw.example",
     query |-> <<<<"token", "T1">>>>]

Plain  == EB!NewEndpoint(Gateway, <<>>, TRUE).ep
Traced1 == EB!NewEndpoint(Gateway, <<EB!WithHTTPTrace(TRUE)>>, TRUE).ep

MCEndpoints == {Plain, Traced1}

\* The dials differ in nothing but their names.
DialSymmetry == Permutations(Dials)

=============================================================================
