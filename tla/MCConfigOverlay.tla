-------------------------- MODULE MCConfigOverlay ---------------------------
EXTENDS RuntimeConfig
E(form, limit) == [form |-> form, limit |-> limit]
\* One value in the documented spelling and one in Go's.
TwoSpellings == {E("snake", 2), E("go", 3)}
OneEach == [k \in Keys |-> 1]
=============================================================================
