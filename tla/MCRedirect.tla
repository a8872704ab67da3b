----------------------------- MODULE MCRedirect ----------------------------
(***************************************************************************)
(* One connection through either driver, on a bridge and on a router.      *)
(***************************************************************************)
EXTENDS Redirect
=============================================================================
