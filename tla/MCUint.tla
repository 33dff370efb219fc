------------------------------- MODULE MCUint --------------------------------
(* Three words of four bits: every integer of words at the corners.        *)
EXTENDS HashCalls

CONSTANT Corners

MCOperands == [Places -> Corners]

(* Two inputs that share a bit, one that sets a single bit and one that is a hash. *)
MCHashBytes ==
    "raw1" :> <<0, 1, 1, 0, 3, 3>> @@ "raw2" :> <<0, 1, 2, 3, 1, 2>>
      @@ "raw3" :> <<1, 1, 3, 1, 1, 1>> @@ "hash" :> <<0, 0, 2, 2, 1, 3>>

MCInputs == DOMAIN MCHashBytes
==============================================================================
