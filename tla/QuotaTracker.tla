---------------------------- MODULE QuotaTracker ----------------------------
(***************************************************************************)
(* What the "usage exceeded" hint promises, whatever the writers do in     *)
(* between: the hint is raised by a quota rejection, lowered by a          *)
(* successful write, and changed by nothing else.  Each writer first       *)
(* observes the outcome of a request and then applies it, in one step.     *)
(***************************************************************************)
CONSTANT Writers

VARIABLES
    exceeded,  \* the hint is up
    pending    \* the outcome each writer has observed and not yet applied

qvars == <<exceeded, pending>>

\* "okWrite": a 2xx answer from a write URL; "quota": a 403 that names the
\* exhausted quota; "other": anything else.
Kinds == {"okWrite", "quota", "other"}

TypeOK ==
    /\ exceeded \in BOOLEAN
    /\ pending \in [Writers -> Kinds \cup {"none"}]

Init ==
    /\ exceeded = FALSE
    /\ pending = [w \in Writers |-> "none"]

Observe(w) ==
    /\ pending[w] = "none"
    /\ \E k \in Kinds : pending' = [pending EXCEPT ![w] = k]
    /\ UNCHANGED exceeded

Apply(w) ==
    /\ pending[w] # "none"
    /\ exceeded' = CASE pending[w] = "quota"   -> TRUE
                     [] pending[w] = "okWrite" -> FALSE
                     [] OTHER                  -> exceeded
    /\ pending' = [pending EXCEPT ![w] = "none"]

Next == \E w \in Writers : Observe(w) \/ Apply(w)

Spec == Init /\ [][Next]_qvars

\* An observed outcome is applied in the end.
FairSpec == Spec /\ \A w \in Writers : WF_qvars(Apply(w))

=============================================================================
