-------------------------- MODULE MCOrchestrator --------------------------
(* Instance of Orchestrator for TLC. *)
EXTENDS Orchestrator

Chunk(n, needs) == [name |-> n, dependsOn |-> needs]

\* All plans of two chunks, whatever each depends on, and of three: a chain
\* against the order of the plan, a join, a fork, and a cycle behind a free chunk.
Needs2 == SUBSET {"a", "b"} \cup {{"z"}}

AllPlans ==
    {<<Chunk("a", f), Chunk("b", g)>> : f, g \in Needs2} \cup
    {<<Chunk("a", {"b"}), Chunk("b", {"c"}), Chunk("c", {})>>,
     <<Chunk("a", {}), Chunk("b", {}), Chunk("c", {"a", "b"})>>,
     <<Chunk("a", {}), Chunk("b", {"a"}), Chunk("c", {"a"})>>,
     <<Chunk("a", {}), Chunk("b", {"c"}), Chunk("c", {"b"})>>,
     <<Chunk("a", {}), Chunk("a", {}), Chunk("c", {"a"})>>,
     <<Chunk("a", {}), Chunk("a", {"c"}), Chunk("c", {})>>}

OneOrTwo == {<<"p">>, <<"p", "q">>}

\* Markers with spaces.
SpacedMarkers == [x \in {" f", " g "} |-> IF x = " f" THEN "f" ELSE "g"]

\* No marker; text before the first one, which has spaces, and two in a row; an
\* untidy marker behind another.
MergedCode == {<<"x">>, <<"y", " f", "g", "z">>, <<"f", "x", " g ", "z">>}
=============================================================================
