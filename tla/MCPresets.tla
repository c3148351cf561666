----------------------------- MODULE MCPresets -----------------------------
(* Presets with the inputs of MCInputs, for TLC.                           *)
EXTENDS Presets, MCInputs
=============================================================================
