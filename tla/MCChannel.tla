----------------------------- MODULE MCChannel -----------------------------
(* Small instances of Channel.  IntMax = 7 stands for INT_MAX: 4 is the    *)
(* largest power of two and 3 the largest other size whose cursors fit.    *)
EXTENDS Channel, TLC

\* nothing in Channel tells one object or one caller from another
Symmetry == Permutations(Items) \cup Permutations(Callers)

\* The clients keep to the contract: the state of a first breach is checked,
\* what could come after it is not explored.
InContract == breach = {}
=============================================================================
