------------------------------ MODULE MCRocksOpen ------------------------------
EXTENDS RocksOpen

(* A copy made with two columns, one of which never held anything, and an empty one. *)
MCCopies == {[families |-> {0, 1}, tables |-> {0}], [families |-> {}, tables |-> {}]}
==============================================================================
