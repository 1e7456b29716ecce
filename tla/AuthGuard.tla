------------------------------ MODULE AuthGuard ------------------------------
(***************************************************************************)
(* The authentication guard of apps/aura-os-server (auth_guard.rs, with the *)
(* cache of state.rs and the handlers of handlers/auth.rs), for one token.  *)
(* zOS, the identity provider, says whether a token is good; the guard      *)
(* keeps its last answer.  Time runs in units of which Ttl, MaxAge and      *)
(* EvictEvery are whole numbers.                                            *)
(***************************************************************************)
EXTENDS Naturals

CONSTANTS
    Callers,    \* requests that carry the token
    Ttl,        \* AUTH_REFRESH_TTL
    MaxAge,     \* CACHE_ENTRY_MAX_AGE
    EvictEvery  \* CACHE_EVICTION_INTERVAL

ASSUME GuardAssumption ==
    /\ Ttl \in Nat /\ MaxAge \in Nat \ {0} /\ EvictEvery \in Nat
    /\ Ttl <= MaxAge

VARIABLES
    good,    \* zOS accepts the token
    cached,  \* the cache has an entry for it
    age,     \* time since validated_at of that entry
    net,     \* the entry's session has a network_user_id
    since,   \* time since the last eviction
    call,    \* caller -> where its request stands, or what it ended with
    seen,    \* caller -> age of the session it was let in with
    leaving, \* a logout has emptied the cache and not yet told zOS
    renewing \* what zOS has confirmed the token for: import, validate or no

guardVars == <<good, cached, age, net, since, call, seen, leaving, renewing>>

GuardInit ==
    /\ good \in BOOLEAN
    /\ cached = FALSE /\ age = 0 /\ net = FALSE /\ since = 0
    /\ call = [c \in Callers |-> "new"] /\ seen = [c \in Callers |-> 0]
    /\ leaving = FALSE /\ renewing = "no"

Ends(c, how, a) ==
    /\ call' = [call EXCEPT ![c] = how]
    /\ seen' = [seen EXCEPT ![c] = a]

Put(n) == cached' = TRUE /\ age' = 0 /\ net' = n

\* require_verified_session: an entry younger than the TTL will do.
LetIn(c) ==
    /\ call[c] = "new" /\ cached /\ age < Ttl
    /\ Ends(c, "fresh", age)
    /\ UNCHANGED <<good, cached, age, net, since, leaving, renewing>>

\* Otherwise zOS is asked.
Ask(c) ==
    /\ call[c] = "new" /\ ~(cached /\ age < Ttl)
    /\ call' = [call EXCEPT ![c] = "asking"]
    /\ UNCHANGED <<good, cached, age, net, since, seen, leaving, renewing>>

Answer(c) ==
    /\ call[c] = "asking"
    /\ call' \in {[call EXCEPT ![c] = IF good THEN "yes" ELSE "no"],
                  [call EXCEPT ![c] = "unreachable"]}
    /\ UNCHANGED <<good, cached, age, net, since, seen, leaving, renewing>>

\* validate_and_cache and what resolve_session_from_jwt makes of its result:
\* a refusal leaves the entry alone; when zOS cannot be reached, the entry does
\* whatever its age.
Settle(c) ==
    /\ \/ call[c] = "yes" /\ Put(FALSE) /\ Ends(c, "fresh", 0)
       \/ call[c] = "no" /\ Ends(c, "refused", 0) /\ UNCHANGED <<cached, age, net>>
       \/ /\ call[c] = "unreachable"
          /\ IF cached THEN Ends(c, "stale", age) ELSE Ends(c, "refused", 0)
          /\ UNCHANGED <<cached, age, net>>
    /\ UNCHANGED <<good, since, leaving, renewing>>

\* The client sends another request.
Again(c) ==
    /\ call[c] \in {"fresh", "stale", "refused"}
    /\ Ends(c, "new", 0)
    /\ UNCHANGED <<good, cached, age, net, since, leaving, renewing>>

\* login and register; sync_user_to_network may find the network user.
SignIn ==
    /\ good' = TRUE
    /\ \E n \in BOOLEAN : Put(n)
    /\ UNCHANGED <<since, call, seen, leaving, renewing>>

\* import_access_token, and validate (a request that has passed the guard), ask
\* zOS too.
Renew(how) ==
    /\ good /\ renewing = "no" /\ renewing' = how
    /\ UNCHANGED <<good, cached, age, net, since, call, seen, leaving>>

Import == Renew("import")
Validate == \E c \in Callers : call[c] \in {"fresh", "stale"} /\ Renew("validate")

\* sync_user_to_network leaves an entry when it finds the network user, validate
\* another in any case, whatever has become of the token meanwhile.
Renewed ==
    /\ \/ renewing # "no" /\ Put(TRUE)
       \/ renewing = "validate" /\ Put(FALSE)
       \/ renewing = "import" /\ UNCHANGED <<cached, age, net>>
    /\ renewing' = "no"
    /\ UNCHANGED <<good, since, call, seen, leaving>>

\* logout, and its call of zOS, which may fail.
Logout ==
    /\ ~leaving
    /\ cached' = FALSE /\ age' = 0 /\ net' = FALSE
    /\ leaving' = TRUE
    /\ UNCHANGED <<good, since, call, seen, renewing>>

LogoutOfZos ==
    /\ leaving /\ leaving' = FALSE
    /\ good' \in {good, FALSE}
    /\ UNCHANGED <<cached, age, net, since, call, seen, renewing>>

\* A token ends by itself too.
Expire ==
    /\ good /\ good' = FALSE
    /\ UNCHANGED <<cached, age, net, since, call, seen, leaving, renewing>>

PassTime ==
    /\ since < EvictEvery
    /\ since' = since + 1
    /\ age' = IF cached THEN age + 1 ELSE age
    /\ UNCHANGED <<good, cached, net, call, seen, leaving, renewing>>

Retain(keep) ==
    /\ since = EvictEvery /\ since' = 0
    /\ IF cached /\ keep THEN UNCHANGED <<cached, age, net>>
                         ELSE cached' = FALSE /\ age' = 0 /\ net' = FALSE
    /\ UNCHANGED <<good, call, seen, leaving, renewing>>

\* Mutant: the comparison is off by one.
EvictOlder == Retain(age <= MaxAge)

\* spawn_cache_eviction.
Evict == Retain(age < MaxAge)

GuardNext ==
    \/ \E c \in Callers : LetIn(c) \/ Ask(c) \/ Answer(c) \/ Settle(c) \/ Again(c)
    \/ SignIn \/ Import \/ Validate \/ Renewed \/ Logout \/ LogoutOfZos \/ Expire
    \/ PassTime \/ Evict

GuardSpec == GuardInit /\ [][GuardNext]_guardVars

------------------------------------------------------------------------------
(* Properties                                                                *)

\* Every variable holds values of its type.
GuardTypeOK ==
    /\ good \in BOOLEAN /\ cached \in BOOLEAN /\ net \in BOOLEAN
    /\ leaving \in BOOLEAN /\ renewing \in {"no", "import", "validate"}
    /\ age \in Nat /\ since \in 0 .. EvictEvery
    /\ call \in [Callers -> {"new", "asking", "yes", "no", "unreachable",
                             "fresh", "stale", "refused"}]
    /\ seen \in [Callers -> Nat]

\* No request is let in with a session older than the TTL, unless zOS could not
\* be reached; and never with one older than the eviction allows, however long
\* zOS stays away.
AcceptedIsRecent ==
    \A c \in Callers :
        /\ call[c] = "fresh" => seen[c] < Ttl \/ seen[c] = 0
        /\ call[c] = "stale" => seen[c] < MaxAge + EvictEvery
=============================================================================
