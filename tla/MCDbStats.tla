------------------------------ MODULE MCDbStats ------------------------------
(* Two threads, three calls, transactions of one or two operations and bytes. *)
EXTENDS DbStats

MCThreads == {"t1", "t2"}
==============================================================================
