--------------------------- MODULE MCPressureEngine ---------------------------
(***************************************************************************)
(* Three stages: one without an Enter between two that have one.           *)
(***************************************************************************)
EXTENDS PressureEngine

ThreeStages == <<1, 2, 1>>
=============================================================================
