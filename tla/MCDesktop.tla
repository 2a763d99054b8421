----------------------------- MODULE MCDesktop ------------------------------
(* An instance of Desktop for TLC. *)
EXTENDS Desktop

\* A new file, and one of a migration that stopped between its two columns.
MCOlder == {0, 3}
=============================================================================
