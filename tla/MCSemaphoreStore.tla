------------------------- MODULE MCSemaphoreStore -------------------------
(* Instances of SemaphoreStore for TLC. *)
EXTENDS SemaphoreStore, TLC

\* One value below the range, one above it, and those within.
Values == -1 .. MaxValue + 1

\* Openings and names are never told apart but by what was done with them.
Same == Permutations(Openings) \cup Permutations(Names)
=============================================================================
