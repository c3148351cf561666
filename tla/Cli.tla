--------------------------------- MODULE Cli ---------------------------------
(***************************************************************************)
(* The command line: what main (main.c) makes of its arguments and of what *)
(* is typed at its prompts, which presets it saves or loads, and how it    *)
(* calls the driver.  Runs follow each other on one preset file; a run     *)
(* ends here where it exits or calls the driver (Session, Driver).         *)
(***************************************************************************)
EXTENDS Presets

CONSTANTS
  Words,       \* what the arguments may be
  AsNumber,    \* [Words -> Int]: as strtol reads it in base 10; -1 if it is none
  AsAddress,   \* [Words -> Int]: the same, with the prefix of a base
  MaxWords     \* bound: arguments of a run

ASSUME CliAssumption ==
  /\ Words \subseteq STRING /\ MaxWords \in Nat
  /\ AsNumber \in [Words -> Int] /\ AsAddress \in [Words -> Int]

VARIABLES
  argv,        \* the arguments of the run
  outcome,     \* "idle", "running"; of a run that is over: "ok", "failed", "driver"
  call         \* how it called the driver: [what, level, address]

cliVars == <<preset, argv, outcome, call>>

\* The address of --dpi-address: one of eight stages.
Unaligned(address) == address >= 12 /\ address < 12 + 8 * 4
StageAddress(address) == Unaligned(address) /\ (address - 12) % 4 = 0

-----------------------------------------------------------------------------
WithAddress == argv # <<>> /\ argv[1] = "--dpi-address"
BadAddress == WithAddress /\ ~(Len(argv) > 1 /\ StageAddress(AsAddress[argv[2]]))
Address == IF WithAddress THEN AsAddress[argv[2]] ELSE 0

\* The arguments from argv[arg] on.
Rest == IF WithAddress THEN SubSeq(argv, 3, Len(argv)) ELSE argv

Option(word) == ~BadAddress /\ Rest # <<>> /\ Rest[1] = word
NoOption == ~BadAddress /\ \A word \in {"-h", "-b", "-s", "-p"} : ~Option(word)

\* Mutant of TooMany: what follows the name of a preset is overlooked.
TooManyUnlessPreset == Len(Rest) > 1 /\ ~Option("-p")
TooMany == Len(Rest) > 1 /\ ~(Option("-p") /\ Len(Rest) = 2)

\* Invalid arguments; without HOME there is no preset file.
Refused ==
  \/ BadAddress
  \/ Option("-b") /\ (Len(Rest) # 1 \/ WithAddress)
  \/ (NoOption \/ Option("-s") \/ Option("-p")) /\ TooMany
  \/ Option("-p") /\ Len(Rest) = 1
  \/ NoOption /\ Len(Rest) = 1 /\ ~Typed(AsNumber[Rest[1]])

Exits(how) == outcome' = how /\ UNCHANGED call
Calls(what, level) ==
  /\ outcome' = "driver"
  /\ call' = [what |-> what, level |-> level, address |-> Address]
\* main looks at the level again before it calls set_sensitivity.
Sets(level) == IF Typed(level) THEN Calls("set", level) ELSE Exits("failed")

-----------------------------------------------------------------------------
Uncalled == [what |-> "nothing", level |-> 0, address |-> 0]

CliInit == PresetsInit /\ argv = <<>> /\ outcome = "idle" /\ call = Uncalled

CliStart ==
  /\ outcome = "idle" /\ outcome' = "running"
  /\ \E n \in 0 .. MaxWords : argv' \in [1 .. n -> Words]
  /\ UNCHANGED <<preset, call>>

Refuse == Refused /\ Exits("failed") /\ UNCHANGED preset
NoHome == (Option("-s") \/ Option("-p")) /\ ~TooMany /\ Exits("failed") /\ UNCHANGED preset
Help == Option("-h") /\ Exits("ok") /\ UNCHANGED preset
Battery == Option("-b") /\ ~Refused /\ Calls("battery", 0) /\ UNCHANGED preset

\* -s asks for name, level and a yes; a no is no failure.
SavePreset ==
  /\ Option("-s") /\ ~Refused
  /\ \/ Save /\ Exits("ok")
     \/ SaveFails /\ Exits("failed")
     \/ (Exits("ok") \/ Exits("failed")) /\ UNCHANGED preset

Found == IF Rest[2] \in Names THEN Load(file, Rest[2]) ELSE 0
LoadPreset == Option("-p") /\ ~Refused /\ Sets(Found) /\ UNCHANGED preset

\* The level is asked for, or the argument.
Prompt == NoOption /\ Rest = <<>> /\ (\E level \in Entered : Sets(level)) /\ UNCHANGED preset
SetLevel == NoOption /\ Rest # <<>> /\ ~Refused /\ Sets(AsNumber[Rest[1]]) /\ UNCHANGED preset

Run ==
  /\ outcome = "running" /\ UNCHANGED argv
  /\ \/ Refuse \/ NoHome \/ Help \/ Battery \/ SavePreset \/ LoadPreset
     \/ Prompt \/ SetLevel

Over ==
  /\ outcome \notin {"idle", "running"}
  /\ outcome' = "idle" /\ argv' = <<>> /\ call' = Uncalled /\ UNCHANGED preset

CliNext == CliStart \/ Run \/ Over

CliSpec == CliInit /\ [][CliNext]_cliVars

-----------------------------------------------------------------------------
(* Properties *)

\* What may follow the address: the usage that help prints.
Usage(rest, level) ==
  \/ rest = <<>>
  \/ Len(rest) = 1 /\ AsNumber[rest[1]] = level
  \/ Len(rest) = 2 /\ rest[1] = "-p" /\ Load(file, rest[2]) = level

\* No argument is overlooked on the way through main's tests: a run that calls
\* the driver does so for exactly what was said, with an address that was given.
CallMeant ==
  outcome = "driver" =>
    \/ call.what = "battery" /\ argv = <<"-b">>
    \/ /\ call.what = "set" /\ call.level \in {50 * k : k \in 1 .. 520}
       /\ IF call.address = 0 THEN Usage(argv, call.level)
          ELSE /\ argv[1] = "--dpi-address" /\ AsAddress[argv[2]] = call.address
               /\ call.address \in {12 + 4 * k : k \in 0 .. 7}
               /\ Usage(SubSeq(argv, 3, Len(argv)), call.level)
=============================================================================
