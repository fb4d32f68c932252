-------------------------- MODULE MCGitHubVolume --------------------------
(* Instances of GitHubVolume for TLC. *)
EXTENDS GitHubVolume, TLC

\* Calls are all alike, and so are paths.
Symmetry == Permutations(Calls) \cup Permutations(Paths)
=============================================================================
