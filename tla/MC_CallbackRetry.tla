-------------------------- MODULE MC_CallbackRetry --------------------------
(* Model values and maps for checking CallbackRetry with TLC.              *)
EXTENDS CallbackRetry

CONSTANTS c1, c2

\* c1 has no shouldRetry function (timeout applies), c2 has one
MCCbIds == {c1, c2}
MCHasPredicate == (c1 :> FALSE) @@ (c2 :> TRUE)

MCCbIds1 == {c1}
MCHasPredicate1 == c1 :> FALSE
=============================================================================
