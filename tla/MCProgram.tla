----------------------------- MODULE MCProgram -----------------------------
(* What the driver keeps apart from its talk with the mouse, for TLC.  One  *)
(* run has six parts, in each of which the variables of the others are at   *)
(* rest:                                                                    *)
(*   "session"  Session with two processes;                                 *)
(*   "codec"    Reports, where a mouse comes with any word or configuration; *)
(*   "presets"  Presets with three entries;                                 *)
(*   "tables"   Toml with three statements, without inline tables;          *)
(*   "inline"   Toml with two statements;                                   *)
(*   "command"  Cli with up to four arguments and one entry of one preset.  *)
EXTENDS MCSession, Reports, Cli, Toml, MCInputs

VARIABLE part

In(p) == part = p
\* One of the mice that Reports begins with.
CodecRests ==
  /\ config = ConfigFrom(1, MaxStages, 0) /\ stored = WordOf(400)
  /\ request = OnlineRequest /\ wrote = 0

\* The bounds of the parts that share constants with a larger one.
WithoutInlines == doc'[Len(doc')].kind # "inline"
TwoStatements == Len(doc) < 2
OnePreset ==
  /\ Len(file') <= 1
  /\ \A i \in DOMAIN file' : file'[i].name = "game" /\ file'[i].dpi <= 450

MCInit ==
  /\ part \in {"session", "codec", "presets", "tables", "inline", "command"}
  /\ IF In("codec") THEN CodecInit ELSE CodecRests
  /\ IF In("session") THEN Init
     ELSE Init /\ plugged = {} /\ oldKernel
  /\ CliInit /\ TomlInit
MCNext ==
  /\ UNCHANGED part
  /\ \/ In("session") /\ Next /\ UNCHANGED <<reports, cliVars, toml>>
     \/ In("codec") /\ CodecNext /\ UNCHANGED <<vars, cliVars, toml>>
     \/ In("presets") /\ PresetsNext /\ UNCHANGED <<vars, reports, argv, outcome, call, toml>>
     \/ In("tables") /\ TomlNext /\ WithoutInlines /\ UNCHANGED <<vars, reports, cliVars>>
     \/ In("inline") /\ TwoStatements /\ TomlNext /\ UNCHANGED <<vars, reports, cliVars>>
     \/ In("command") /\ CliNext /\ OnePreset /\ UNCHANGED <<vars, reports, toml>>
MCSpec == MCInit /\ [][MCNext]_<<part, vars, reports, cliVars, toml>>

\* The type invariants of Session, Reports, Presets and Toml.
TypesOK == TypeOK /\ CodecTypeOK /\ PresetsTypeOK /\ TomlTypeOK
=============================================================================
