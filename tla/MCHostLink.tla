------------------------------ MODULE MCHostLink ------------------------------
(* Rpms of one motor, a TachoError cut short, a TachoStates whose minRpm is  *)
(* 0, and Rpms with the two sync bytes in them.                              *)
EXTENDS HostLink

MCPayloads == {<<1, 1, 44>>, <<5, 101, 114, 114, 0>>, <<7, 0>>, <<1, 254, 237>>}
MCFatal    == {<<7, 0>>}
=============================================================================
