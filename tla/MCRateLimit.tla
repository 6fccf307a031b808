---------------------------- MODULE MCRateLimit -----------------------------
(* Small instances of RateLimit.                                           *)
EXTENDS RateLimit
TwoPerMinute == [req |-> 2, tok |-> 1]
RequestsOnly == [req |-> 1, tok |-> 0]
TokensOnly == [req |-> 0, tok |-> 1]
\* Either limit may be lifted.
Limits == {TokensOnly, RequestsOnly}
=============================================================================
