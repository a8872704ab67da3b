------------------------------- MODULE MCRbf -------------------------------
(***************************************************************************)
(* Small instances of the ring.  Four slots let w wrap twice while ntrackd *)
(* is inside one callback; two messages tell order apart.                  *)
(***************************************************************************)
EXTENDS Rbf
=============================================================================
