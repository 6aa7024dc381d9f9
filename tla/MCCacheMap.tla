----------------------------- MODULE MCCacheMap -----------------------------
(* Small instances of CacheMap. *)
EXTENDS CacheMap, TLC

\* no call of update()
NoUpdates == {}

\* update() with a dict of two entries, or with one or no keyword
SomeUpdates ==
  {<< << <<p[1], v>>, <<p[2], v>> >>, <<>> >> :
     p \in {q \in Keys \X Keys : q[1] # q[2]}, v \in Values}
  \cup {<< <<>>, << <<k, v>> >> >> : k \in Keys, v \in Values} \cup {<< <<>>, <<>> >>}

\* nothing tells one caller, key or value from another
Symmetry == Permutations(Callers) \cup Permutations(Keys) \cup Permutations(Values)

\* Clients that keep to the contract are explored with a clock or with two
\* values; those that overlap as they like, or pop a key that is there, with
\* neither, and without setnx() and update(), which put the way setdefault()
\* and cache[k] = v do.
OneValue == \E v \in Values : \A k \in Present : entry[k].value = v
Overlapping == breach \subseteq {"overlap", "pop"}
Fewer == \A c \in Callers : call[c].op \notin {"setnx", "update"}
Bounded ==
  \/ Kept /\ (now = 0 \/ OneValue)
  \/ Overlapping /\ now = 0 /\ OneValue /\ Fewer

\* No action and no invariant reads what the last call has answered.
Unanswered == <<cache, now, call, breach, fault>>
=============================================================================
