----------------------------- MODULE ManagedKeys ----------------------------
(***************************************************************************)
(* Router mode (internal/router, main.go 241-276 and 484-511, the key      *)
(* handlers of the admin API, the api_keys table).  A managed key is       *)
(* generated once, looked up by its stored prefix, compared with the       *)
(* stored hash, and the key of the provider that the request's model       *)
(* selects is sent beside it, under the same headers.  A key stands for    *)
(* its own hash, an Authorization header for the token in it.              *)
(***************************************************************************)
EXTENDS Integers, Sequences, FiniteSetsExt

CONSTANTS
    ManagedKey,     \* what rand.Read may yield
    PrefixOf,       \* PrefixOf[k]: the 12 characters that are stored in clear
    Callers,        \* requests that carry a managed key
    Bearers,        \* what they may have in Authorization, Nobody for no such header
    KeyIDs,         \* ids an admin may name in DELETE /keys/{id}
    NoID,           \* the empty string
    Models,
    Providers,      \* the configured sequence of [name, url, key, glob], glob = {} for "*"
    DefaultURL,     \* the upstream of passthrough mode
    Nobody

Unset == [state |-> "none", key |-> Nobody, bearer |-> Nobody,
          url |-> Nobody, apiKey |-> Nobody, authorization |-> Nobody]

ASSUME ManagedKeysAssumption ==
    /\ Nobody \notin ManagedKey \cup {DefaultURL}
    /\ NoID \notin KeyIDs
    /\ Len(Providers) \in Nat /\ DOMAIN Providers = 1 .. Len(Providers)
    /\ \A i \in DOMAIN Providers :
         /\ Providers[i].url \notin {DefaultURL, Nobody}
         /\ Providers[i].key # Nobody

VARIABLES
    api_keys,   \* the table: id -> [key, enabled], key = Nobody for no row
    call,       \* call[c]: a request on its way through Validate and the router
    announced   \* history: keys that Generate returned, in order

keysVars == <<api_keys, call, announced>>

IDs == KeyIDs \cup {NoID}
Rows == {id \in IDs : api_keys[id].key # Nobody}
Announced == {announced[i] : i \in DOMAIN announced}

KeysInit ==
    /\ api_keys = [id \in IDs |-> [key |-> Nobody, enabled |-> FALSE]]
    /\ call = [c \in Callers |-> Unset]
    /\ announced = <<>>

-----------------------------------------------------------------------------
(* The table                                                               *)

\* Mutant: the conflicting row is replaced.
Overwrite(id, k) == [api_keys EXCEPT ![id] = [key |-> k, enabled |-> TRUE]]

\* INSERT ... ON CONFLICT(id) DO UPDATE SET enabled = excluded.enabled
SaveAPIKey(id, k) ==
    [api_keys EXCEPT ![id] = [key |-> IF id \in Rows THEN @.key ELSE k, enabled |-> TRUE]]

\* key_prefix is UNIQUE: another row with this prefix refuses the INSERT; with
\* the same id as well, it is up to the database which conflict it sees first.
Conflict(id, k) == \E other \in Rows \ {id} : PrefixOf[api_keys[other].key] = PrefixOf[k]

\* WHERE key_prefix = k's, at most one row
GetAPIKeyByPrefix(k) == {id \in Rows : PrefixOf[api_keys[id].key] = PrefixOf[k]}

-----------------------------------------------------------------------------
(* The admin API                                                           *)

\* Generate leaves the id empty; the key is returned whatever SaveAPIKey did,
\* as long as it did not fail.
Generate(k) ==
    /\ k \notin Announced
    /\ ~Conflict(NoID, k)
    /\ api_keys' = SaveAPIKey(NoID, k)
    /\ announced' = Append(announced, k)
    /\ UNCHANGED call

\* DELETE /keys/{id}; an id without a row is no error, the empty id is refused.
DisableKey(id) ==
    /\ id # NoID
    /\ api_keys' = [api_keys EXCEPT ![id].enabled = FALSE]
    /\ UNCHANGED <<call, announced>>

-----------------------------------------------------------------------------
(* A request in router mode                                                *)

\* A request comes with its headers.  Validate, first half: the row is read.  No row, a
\* disabled one or a failed lookup end in 401.
Lookup(c, k) ==
    /\ call[c].state = "none"
    /\ \E bearer \in Bearers, found \in {{}} \cup {GetAPIKeyByPrefix(k)} :
         call' = [call EXCEPT ![c] =
            [Unset EXCEPT !.key = k, !.bearer = bearer,
                          !.state = IF \E id \in found : api_keys[id].enabled
                                    THEN "found" ELSE "refused"]]
    /\ UNCHANGED <<api_keys, announced>>

\* bcrypt compares with the hash that was read; hashes are never changed.
Compare(c) ==
    /\ call[c].state = "found"
    /\ call' = [call EXCEPT ![c].state =
                  IF \E id \in Rows : api_keys[id].key = call[c].key
                  THEN "valid" ELSE "refused"]
    /\ UNCHANGED <<api_keys, announced>>

MatchModel(provider, model) == provider.glob = {} \/ model \in provider.glob

\* The first provider, in configuration order, that matches.
SelectProvider(model) ==
    {i \in DOMAIN Providers :
        /\ MatchModel(Providers[i], model)
        /\ \A j \in 1 .. i - 1 : ~MatchModel(Providers[j], model)}

\* rm.proxies and rm.apiKeys are maps by name: the last provider of a name wins.
ByName(i) == Providers[Max({j \in DOMAIN Providers : Providers[j].name = Providers[i].name})]

\* Mutant: the proxy is found by name, the key belongs to the selected provider.
TargetMixed(i) == <<ByName(i).url, Providers[i].key>>

\* The proxy and the key that go with the selected provider.
Target(i) == <<ByName(i).url, ByName(i).key>>

\* The client's headers are copied under their canonical names, the provider's key is put
\* beside them under lower-case names, and the upstream request is given both under one
\* name, in the random order of the map: of each header either one is sent.
Clash(own, key) == {own, key} \ {Nobody}

\* Without a provider the request goes to the default upstream as it came.
Forward(c, model) ==
    /\ call[c].state = "valid"
    /\ LET chosen == SelectProvider(model)
           target == IF chosen = {} THEN <<DefaultURL, Nobody>>
                     ELSE Target(CHOOSE i \in chosen : TRUE)
       IN \E apiKey \in Clash(call[c].key, target[2]) :
          \E authorization \in IF chosen = {} THEN {call[c].bearer}
                               ELSE Clash(call[c].bearer, target[2]) :
             call' = [call EXCEPT ![c] = [@ EXCEPT !.state = "sent", !.url = target[1],
                                                   !.apiKey = apiKey, !.authorization = authorization]]
    /\ UNCHANGED <<api_keys, announced>>

Answered(c) ==
    /\ call[c].state \in {"refused", "sent"}
    /\ call' = [call EXCEPT ![c] = Unset]
    /\ UNCHANGED <<api_keys, announced>>

KeysNext ==
    \/ \E k \in ManagedKey : Generate(k) \/ \E c \in Callers : Lookup(c, k)
    \/ \E id \in IDs : DisableKey(id)
    \/ \E c \in Callers : Compare(c) \/ Answered(c) \/ \E model \in Models : Forward(c, model)

KeysSpec == KeysInit /\ [][KeysNext]_keysVars

-----------------------------------------------------------------------------
(* Type invariant of the table and of the calls.                           *)
KeysTypeOK ==
    /\ api_keys \in [IDs -> [key : ManagedKey \cup {Nobody}, enabled : BOOLEAN]]
    /\ announced \in Seq(ManagedKey)
    /\ \A c \in Callers :
         /\ call[c].state \in {"none", "found", "valid", "refused", "sent"}
         /\ call[c].key \in ManagedKey \cup {Nobody}
         /\ call[c].bearer \in Bearers \cup {Nobody}
         /\ call[c].url # Nobody <=> call[c].state = "sent"
         /\ call[c].apiKey # Nobody <=> call[c].state = "sent"

(* sqlite.go:342-344 with the empty id of keymanager.go:55: the first key  *)
(* ever generated is the only one that passes, and nothing that the admin  *)
(* API offers takes that away, later keys of the same prefix included.     *)
FirstKeyOnly ==
    /\ announced # <<>> => api_keys[NoID] = [key |-> announced[1], enabled |-> TRUE]
    /\ \A c \in Callers :
         call[c].state \in {"valid", "sent"} => announced # <<>> /\ call[c].key = announced[1]

(* main.go:443-445 and 498-508, proxy.go:89-91: the proxy and the key are  *)
(* looked up in two maps by name, and the key clashes with the client's    *)
(* own headers.  In each of the two a provider is sent its own key or what *)
(* the client sent, never the key of another provider, also where two      *)
(* share a name; no provider's key ever reaches the default upstream.      *)
OwnCredential ==
    \A c \in Callers : call[c].state = "sent" =>
        \/ /\ call[c].url = DefaultURL
           /\ call[c].apiKey = call[c].key /\ call[c].authorization = call[c].bearer
        \/ \E i \in DOMAIN Providers :
             /\ call[c].url = Providers[i].url
             /\ call[c].apiKey \in Clash(call[c].key, Providers[i].key)
             /\ call[c].authorization \in Clash(call[c].bearer, Providers[i].key)

(* keymanager.go:40-43: Generate "persists" the key it returns, and the    *)
(* tests of the package validate it afterwards.                            *)
AnnouncedWorks ==
    \A k \in Announced : \E id \in Rows : api_keys[id] = [key |-> k, enabled |-> TRUE]
=============================================================================
