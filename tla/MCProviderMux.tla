--------------------------- MODULE MCProviderMux ---------------------------
(* Instance of ProviderMux for TLC: a chain of two providers. *)
EXTENDS ProviderMux

CONSTANTS first, second

TwoProviders == <<first, second>>
=============================================================================
