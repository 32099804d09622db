--------------------------- MODULE InferenceCache ---------------------------
(***************************************************************************)
(* InferenceCacheService (M.4) of one tenant.  The key is a digest of the  *)
(* prompt, the route and the tenant; with one tenant and one route a       *)
(* prompt stands for it.  lookup and store run under the service's lock.   *)
(***************************************************************************)
EXTENDS Integers

CONSTANTS
    Prompts,        \* normalized prompts
    CacheTTL,       \* ttl_seconds of the cache policy
    CacheTokens,    \* the token counts an entry may carry
    CacheTimes      \* the times at which an entry may expire

VARIABLE
    cache           \* the entry of each prompt

Absent == [present |-> FALSE, tokens |-> 0, expires |-> 0]

Entries == [present : {TRUE}, tokens : CacheTokens, expires : CacheTimes] \cup {Absent}

CacheTypeOK == cache \in [Prompts -> Entries]

CacheInit == cache = [p \in Prompts |-> Absent]

Fresh(p, t) == cache[p].present /\ t < cache[p].expires

\* lookup: an entry that has expired, or is damaged, is deleted.
Miss(p, t) ==
    /\ ~Fresh(p, t)
    /\ cache' = [cache EXCEPT ![p] = Absent]

\* lookup where the repository fails: a miss, as far as the gateway reads it.
LookupFails == UNCHANGED cache

\* Wrong on purpose: the time to live is added twice.
StoreTooLong(p, t, tokens) ==
    cache' = [cache EXCEPT ![p] =
                 [present |-> TRUE, tokens |-> tokens, expires |-> t + CacheTTL + CacheTTL]]

Store(p, t, tokens) ==
    cache' = [cache EXCEPT ![p] =
                 [present |-> TRUE, tokens |-> tokens, expires |-> t + CacheTTL]]
=============================================================================
