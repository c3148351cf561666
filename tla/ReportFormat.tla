---------------------------- MODULE ReportFormat ----------------------------
(***************************************************************************)
(* The layout of the mouse's reports (src/data.h), and the inputs that     *)
(* module Reports feeds into it.                                           *)
(***************************************************************************)
EXTENDS Integers

CONSTANTS
  Bytes,     \* the bytes a mouse may hold before it is written to
  Levels,    \* what callers pass as level
  Addresses  \* what callers pass as address, when it is not the resolved one

Byte == 0 .. 255

ASSUME ReportsAssumption ==
  Bytes \subseteq Byte /\ Levels \subseteq Int /\ Addresses \subseteq Byte

Size == 17        \* DPI_REPORT_SIZE
Base == 12        \* DPI_ADDRESS_BASE
MaxStages == 8    \* DPI_MAX_STAGES
StageSize == 4    \* DPI_STAGE_SIZE

Report == [0 .. (Size - 1) -> Byte]
Word == [0 .. 3 -> Byte]
Config == [0 .. 5 -> Byte]
=============================================================================
