------------------------------- MODULE MCToml -------------------------------
(* Toml with the inputs of MCInputs, for TLC.                              *)
EXTENDS Toml, MCInputs
=============================================================================
