---------------------------- MODULE MCAuthHook -----------------------------
(***************************************************************************)
(* Small instances of the hook.                                            *)
(***************************************************************************)
EXTENDS AuthHook

Web(m) == [flags |-> TRUE, match |-> m]
Auto(m) == [flags |-> FALSE, match |-> m]

\* One rule, which changes between automatic and web login, loses the user,
\* or is removed.
Flipping == {<<Auto(TRUE)>>, <<Web(TRUE)>>, <<Web(FALSE)>>, <<>>}

WebOnly == {<<Web(TRUE)>>}
=============================================================================
