---------------------------- MODULE MCDciClient ----------------------------
(* Small instances of DciClient. *)
EXTENDS DciClient

\* Every thread works with the clients of all processors.
EachAll == [t \in Thread |-> Proc]
=============================================================================
