-------------------------------- MODULE Option --------------------------------
(* Option::None, which the programs share. *)
CONSTANT None
=============================================================================
