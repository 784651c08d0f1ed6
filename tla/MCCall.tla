------------------------------- MODULE MCCall -------------------------------
(***************************************************************************)
(* Instance of Call for TLC.                                               *)
(***************************************************************************)
EXTENDS Call

\* The interceptor and the handler set the same key, middleware another one, so
\* that a value can be joined, overwritten or pre-empted.
MCSets == {<<"mw", "a">>, <<"icpt", "b">>, <<"impl", "b">>}

=============================================================================
