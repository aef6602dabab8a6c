---------------------------- MODULE MC_CamAhbClk ----------------------------
(* Three AHB clients, the four levels as bus usecases, and the corners an  *)
(* OPP table of the camera clocks uses.                                    *)
EXTENDS CamAhbClk

CONSTANTS cpas, csiphy, cci

MCCorners == {CornerSvsSoc, CornerNormal, CornerTurbo}
==============================================================================
