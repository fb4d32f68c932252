----------------------------- MODULE MCBindery -----------------------------
(* Instances of Bindery for TLC. *)
EXTENDS Bindery

\* An empty scan is told from every type by this value.
AnyType == "wild"

\* "*", and a pattern that fits one name.
AllOrOne == {Names, {"SUPERVISOR"}}

\* A password over the first entry: an id that is to be given out.
Bytes == {<<3>>}
=============================================================================
