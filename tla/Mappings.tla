------------------------------ MODULE Mappings ------------------------------
(***************************************************************************)
(* The three mappings side by side: one client gives a SortedMap, a        *)
(* CacheMap and a TTLCache, all empty, the same dict and keywords with     *)
(* update(), and each runs it to its end as its module says.               *)
(***************************************************************************)
EXTENDS Integers, Sequences, FiniteSets

CONSTANTS Keys, Values, Updates,
          NULL, Nil,
          client

VARIABLES given,  \* the dict and the keywords, as sequences of entries
          mapTree, mapValue, mapLength, mapRefs, mapCall, mapFix, mapResult, mapBreach, mapFault,
          lruEntry, lruOrder, lruCapacity, lruCall, lruResult, lruBreach, lruFault,
          ttlEntry, ttlDefault, ttlCall, ttlResult, ttlBreach, ttlFault,
          now

Map == INSTANCE SortedMap WITH
  Callers <- {client},
  tree <- mapTree, value <- mapValue, length <- mapLength, sref <- mapRefs, call <- mapCall,
  fix <- mapFix, result <- mapResult, breach <- mapBreach, fault <- mapFault

\* room for an entry of every key, and no eviction
Lru == INSTANCE CacheMap WITH
  Callers <- {client}, Capacities <- {Cardinality(Keys)},
  DefaultVisits <- 1, DecayEvery <- 1, BucketNum <- 2, BucketSize <- 3,
  MaxVisits <- 1, MaxMinutes <- 0,
  entry <- lruEntry, order <- lruOrder, capacity <- lruCapacity, call <- lruCall,
  result <- lruResult, breach <- lruBreach, fault <- lruFault

\* a clock that stands still, so that nothing expires
Ttl == INSTANCE TTLCache WITH
  Callers <- {client}, Ttls <- {1}, Second <- 1, IntMax <- 1, MaxNow <- 0,
  entry <- ttlEntry, default_ttl <- ttlDefault, call <- ttlCall, result <- ttlResult,
  breach <- ttlBreach, fault <- ttlFault

map == <<mapTree, mapValue, mapLength, mapRefs, mapCall, mapFix, mapResult, mapBreach, mapFault>>
lru == <<lruEntry, lruOrder, lruCapacity, lruCall, lruResult, lruBreach, lruFault>>
ttl == <<ttlEntry, ttlDefault, ttlCall, ttlResult, ttlBreach, ttlFault>>
vars == <<given, map, lru, ttl, now>>

Init == /\ given \in Updates
        /\ Map!Init /\ Lru!Init /\ Ttl!Init

\* A mapping is asked for the update, and goes on until it has answered.
UpdateMap == /\ \/ mapResult = Map!Pending /\ Map!Update(client, given[1], given[2])
                \/ Map!GoOn(client) \/ Map!Fixing
             /\ UNCHANGED <<given, lru, ttl, now>>
UpdateLru == /\ \/ lruResult = Lru!Pending /\ Lru!Update(client, given[1], given[2])
                \/ Lru!GoOn(client)
             /\ UNCHANGED <<given, map, ttl>>
UpdateTtl == /\ \/ ttlResult = Ttl!Pending /\ Ttl!Update(client, given[1], given[2])
                \/ Ttl!GoOn(client)
             /\ UNCHANGED <<given, map, lru>>

Next == UpdateMap \/ UpdateLru \/ UpdateTtl

Spec == Init /\ [][Next]_vars

-----------------------------------------------------------------------------

Answered == {mapResult.op, lruResult.op, ttlResult.op} = {"update"}

\* per mapping, what it holds for a key
Held == {mapValue,
         [k \in Keys |-> Lru!Seen(k)[2]],
         [k \in Keys |-> IF ttlEntry[k] = NULL THEN NULL ELSE ttlEntry[k].value]}

\* "update(mp, **kwargs)" of a SortedMap is "Like dict.update, but only accept
\* dict.", that of a TTLCache does "Update item to cache. Unlike dict.update, only
\* accept a dict object.", and the stub of a CacheMap has "**kwargs" too.  Given
\* a dict and keywords, all with keys of their own, not all three mappings have
\* answered without an entry that they were given.
KeywordsPut ==
  Answered => \E held \in Held : \A i \in {1, 2} : \A n \in 1..Len(given[i]) :
                held[given[i][n][1]] = given[i][n][2]
=============================================================================
