----------------------------- MODULE MCFlowCtrl ----------------------------
(***************************************************************************)
(* Two names, and rates that end up with each suffix of the module.        *)
(***************************************************************************)
EXTENDS FlowCtrl

Rate(n, u, k) == [num |-> n, unit |-> u, kind |-> k]

\* What the page sends: Mbps for the global share, KBytes or MBytes for the
\* limits of a rule.
SomeShares == {Rate(3, "M", "bps"), Rate(16000, "M", "bps")}
SomeLimits == {Rate(1500, "K", "Bytes"), Rate(5, "M", "Bytes")}
=============================================================================
