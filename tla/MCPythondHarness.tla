-------------------------- MODULE MCPythondHarness --------------------------
(* Constants of the PythondHarness models. *)
EXTENDS PythondHarness, TLC

\* Requests on a counted path whose body matches, does not match, and
\* cannot be parsed; requests on a path that is not counted, one of them
\* one the handler cannot read.
MCKinds ==
    {Request(TRUE, "ok"), Request(TRUE, "mismatch"), Request(TRUE, "return"),
     Request(FALSE, "ok"), Request(FALSE, "return")}

=============================================================================
