--------------------------- MODULE MCMatrixExpand ---------------------------
(* Constants for model-checking MatrixExpand. *)
EXTENDS MatrixExpand

MCKeys == <<"arch", "os">>

\* Include entries may introduce a name of their own.
Names == {"arch", "os", "tag"}

Entries(S) == UNION {[T -> {1, 2}] : T \in SUBSET S \ {{}}}

\* The entries that assign every one of their names the same value, and one
\* that does not.
SomeEntries == {e \in Entries(Names) : Cardinality({e[k] : k \in DOMAIN e}) = 1}
                 \cup {[arch |-> 1, os |-> 2]}

\* No value, one, two, and one value twice.
AxisLists ==
  UNION {[S -> {<<>>, <<1>>, <<2, 1>>, <<1, 1>>}] : S \in SUBSET {"arch", "os"}}

MCStrategies ==
  [axes : AxisLists,
   exclude : BoundedSeq(Entries({"arch", "os"}), 1) \cup {<<[tag |-> 1]>>},
   include : BoundedSeq(SomeEntries, 2)]
  \cup {NoMatrix, Malformed}
=============================================================================
