---------------------------- MODULE MCMappings ----------------------------
(* A small instance of Mappings. *)
EXTENDS Mappings

\* A dict of one entry with no, one or two keywords.  One keyword is all that the
\* cursor needs to miss it.
SomeUpdates ==
  {<< << <<1, v>> >>, SubSeq(<< <<2, v>>, <<3, v>> >>, 1, n) >> : v \in Values, n \in 0..2}
=============================================================================
