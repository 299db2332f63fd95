--------------------------- MODULE MCInheritGraph ---------------------------
(* Graphs over four topics for InheritGraph. *)
EXTENDS InheritGraph

Short(nodes) == UNION {[1 .. k -> nodes] : k \in 0 .. 2}

\* Up to two different other donors each, in any order ...
Different == {e \in [Nodes -> Short(Nodes)] :
                \A n \in Nodes : n \notin Range(e[n]) /\ IsInjective(e[n])}
\* ... and, for three of the topics, duplicates and self-requests too.
Repeating == {[n \in Nodes |-> IF n = NumNodes THEN <<>> ELSE e[n]] :
                e \in [1 .. NumNodes - 1 -> Short(1 .. NumNodes - 1)]}
MCEdgeLists == Different \cup Repeating
=============================================================================
