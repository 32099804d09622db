--------------------------- MODULE MCModelGateway ---------------------------
(* Three calls with two correlation ids and one prompt, a limit of requests  *)
(* for the tenant and one of tokens for each user, windows of two ticks.     *)
EXTENDS ModelGateway, TLC

MCRules == {[scope |-> "TENANT", counts |-> "REQUESTS", limit |-> 2, hard |-> TRUE],
            [scope |-> "USER", counts |-> "TOKENS", limit |-> 3, hard |-> TRUE]}

CONSTANTS u, v, nobody

\* A user who names himself, and another only his session names.
MCRequesters == {<<u, u>>, <<nobody, v>>}

MCChanges == {<<"MISSING", "RULES">>}

MCCacheTimes == 0 .. MaxTime + CacheTTL
MCCacheTokens == 0 .. MaxTokens

Symmetry == Permutations(Calls) \cup Permutations(Correlations)
=============================================================================
