----------------------------- MODULE MCTTLCache -----------------------------
(* Small instances of TTLCache. *)
EXTENDS TTLCache, TLC

\* no call of update()
NoUpdates == {}

\* update() with a dict of two entries, or with one or no keyword
SomeUpdates ==
  {<< << <<p[1], v>>, <<p[2], v>> >>, <<>> >> :
     p \in {q \in Keys \X Keys : q[1] # q[2]}, v \in Values}
  \cup {<< <<>>, << <<k, v>> >> >> : k \in Keys, v \in Values} \cup {<< <<>>, <<>> >>}

\* nothing tells one caller, key or value from another
Symmetry == Permutations(Callers) \cup Permutations(Keys) \cup Permutations(Values)

\* The clients keep to the contract: the state of a first breach is checked,
\* what could come after it is not explored.  Other calls overlap with put(),
\* which goes through the same steps as update() for each of its entries, but
\* not with update().
InContract ==
  Kept /\ \A c, d \in Callers : call[c].op = "update" /\ c # d => call[d] = Idle

\* No action and no invariant reads what the last call has answered.
Unanswered == <<entry, default_ttl, now, call, breach, fault>>
=============================================================================
