---------------------------- MODULE MCSortedMap ----------------------------
(* Small instances of SortedMap. *)
EXTENDS SortedMap, TLC

\* no call of update()
NoUpdates == {}

\* update() with a dict of two entries or with one keyword entry
SomeUpdates ==
  {<< << <<2, v>>, <<1, w>> >>, <<>> >> : v, w \in Values} \cup
  {<< <<>>, << <<1, v>> >> >> : v \in Values}

\* nothing tells one caller, or one value, from another
Symmetry == Permutations(Callers) \cup Permutations(Values)

\* States that differ only in what was answered last have the same future.
Unanswered == <<shape, call, fix, breach, fault>>

Held == {k \in Keys : value[k] # NULL}
First == CHOOSE k \in Keys : \A j \in Keys : k <= j
Last == CHOOSE k \in Keys : \A j \in Keys : k >= j

\* The clients keep to the contract, on maps of all keys and one value or of
\* all values and without the last key; what comes after a breach is explored
\* with one value, without the last key, and without update(), setnx() and max(),
\* which go the ways of other methods.  Other calls overlap with the last entry
\* that update() puts, as with any put, not with those before it.
OneValue == Cardinality(({value[k] : k \in Keys} \cup {call[c].val : c \in Callers})
                        \ {NULL}) <= 1
WithoutLast == Last \notin Held /\ \A c \in Callers : call[c].key # Last
Updating(c) == call[c].op = "update" /\ call[c].list # <<>>
InContract ==
  \/ /\ Kept
     /\ OneValue \/ WithoutLast
     /\ \A c, d \in Callers : Updating(c) /\ c # d => call[d] = Idle
  \/ /\ OneValue /\ WithoutLast
     /\ \A c \in Callers : call[c].op \notin {"update", "setnx", "setnx_put", "max"}

\* The clients only add entries, with no regard to the contract.
Growing == \A c \in Callers : call[c].op \notin Releasing

\* One client at a time.  The first six keys are put and removed in any order,
\* the first four with calls of all kinds; all keys are put in ascending or in
\* descending order and then removed in any order but the first and the last,
\* which stay.
Within(n) == Held \cup {call[c].key : c \in Callers} \subseteq First .. First + n - 1 \cup {NULL}
Small == Within(6) /\ \A c \in Callers :
           Within(4) \/ call[c].op \in {"idle", "put", "remove", "removed", "cleared"}
Bounds == First - 1 .. Last + 1
FromOneEnd == {{k \in Keys : k <= i} : i \in Bounds} \cup {{k \in Keys : k >= i} : i \in Bounds}
Deep ==
  \A c \in Callers :
    LET Grows(order) == {Held, Held \cup {call[c].key}} \subseteq order
    IN /\ call[c].op \in {"idle", "put", "remove", "removed"}
       /\ call[c].op = "put" => Grows(FromOneEnd)
       /\ call[c].op = "remove" => {First, Last} \subseteq Held /\ call[c].key \notin {First, Last}
SmallOrDeep == Small \/ Deep
=============================================================================
