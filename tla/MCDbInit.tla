------------------------------- MODULE MCDbInit -------------------------------
(* An instance of DbInit for TLC. *)
EXTENDS DbInit

\* The old databases have every key.
AllKeys == [t \in Tables |-> Keys]
=============================================================================
