--------------------------- MODULE MCStreamControl ---------------------------
EXTENDS StreamControl

(* A small board: two motor inputs, and configurations for one motor, for    *)
(* two, and for one too many.                                                *)
MCMotorCounts == {1, 2, 3}
MCHall        == {"Hall_effect"}
MCSensors     == {"Hall_effect", "Esc_coupler"}
MCFits        == {"ok", "warn"}
MCOkFits      == {"ok"}
=============================================================================
