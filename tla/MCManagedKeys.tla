--------------------------- MODULE MCManagedKeys ----------------------------
EXTENDS ManagedKeys
\* Every key has a prefix of its own, one provider takes every model.
OwnPrefix == [k \in ManagedKey |-> k]
OneProvider == <<[name |-> "a", url |-> "url a", key |-> "key a", glob |-> {}]>>
=============================================================================
