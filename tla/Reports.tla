------------------------------ MODULE Reports ------------------------------
(***************************************************************************)
(* The bytes of src/data.c: the reports it builds, the target address it   *)
(* resolves from the mouse's configuration, and the readout of a stored    *)
(* DPI word in set_sensitivity, tied together by a mouse that stores what  *)
(* it is sent and may come with any configuration and any word.  The       *)
(* checks of a reply are those of wait_for_reply in src/driver.c.          *)
(* Reports and configurations are indexed from 0, as in the code.  The     *)
(* order in which a run sends its requests is that of Driver.              *)
(***************************************************************************)
EXTENDS ReportFormat

VARIABLES
  config,   \* the configuration block of the mouse
  stored,   \* the DPI word of one of its stages
  request,  \* the report built last
  wrote     \* ghost: the level written into stored, 0 if it came otherwise

reports == <<config, stored, request, wrote>>

-----------------------------------------------------------------------------
(* Building reports.                                                       *)

Blank == [i \in 0 .. (Size - 1) |-> 0]

\* The sum of the bytes before the last.
LeadingSum(r) == r[0] + r[1] + r[2] + r[3] + r[4] + r[5] + r[6] + r[7]
           + r[8] + r[9] + r[10] + r[11] + r[12] + r[13] + r[14] + r[15]

\* finish_report
Finish(r) == [r EXCEPT ![Size - 1] = (85 - LeadingSum(r)) % 256]

LevelOK(level) == level >= 50 /\ level <= 26000 /\ level % 50 = 0

AddressOK(address) ==
  /\ address >= Base /\ address < Base + MaxStages * StageSize
  /\ (address - Base) % StageSize = 0

\* Mutants, here and below: a plausible slip in the definition that follows.
WordOfLow(level) ==
  LET value == level \div 50 - 1
      low == value % 256
      high == ((value \div 256) * 4) % 256
  IN  [i \in 0 .. 3 |-> IF i <= 1 THEN low ELSE IF i = 2 THEN high
                        ELSE (85 - low - low - high) % 256]

\* Ten bits for each axis: the low eight in bytes 0 and 1, the high two twice
\* in byte 2; byte 3 closes the sum.
WordOf(level) ==
  LET value == level \div 50 - 1
      low == value % 256
      high == ((value \div 256) * 68) % 256
  IN  [i \in 0 .. 3 |-> IF i <= 1 THEN low ELSE IF i = 2 THEN high
                        ELSE (85 - low - low - high) % 256]

\* get_payload
PayloadOf(level, address) ==
  LET word == WordOf(level)
  IN  Finish([Blank EXCEPT ![0] = 8, ![1] = 7, ![4] = address, ![5] = 4,
              ![6] = word[0], ![7] = word[1], ![8] = word[2], ![9] = word[3]])

ReadOK(address, length) == length > 0 /\ length <= 10 /\ address + length <= 256

ReadPayloadOf(address, length) ==
  Finish([Blank EXCEPT ![0] = 8, ![1] = 8, ![4] = address, ![5] = length])

ProfilePayload == Finish([Blank EXCEPT ![0] = 8, ![1] = 14])

\* Written out in check_online and run_battery, last byte included.
OnlineRequest == [Blank EXCEPT ![0] = 8, ![1] = 3, ![16] = 74]
BatteryRequest == [Blank EXCEPT ![0] = 8, ![1] = 4, ![16] = 73]

-----------------------------------------------------------------------------
(* Reading them.                                                           *)

SumOK(r) == (LeadingSum(r) + r[Size - 1]) % 256 = 85

\* wait_for_reply: the reply names the request and passes its checks.
Answers(r, req) ==
  /\ r[0] = 8 /\ r[3] = req[3] /\ r[4] = req[4]
  /\ r[1] = req[1] \/ (req[1] = 8 /\ r[1] = 7)
  /\ SumOK(r) /\ r[2] = 0
  /\ req[1] = 8 => r[5] = req[5]
  /\ req[1] = 14 => r[5] \in 1 .. 10
  /\ req[1] = 7 => r = req

Powers == {1, 2, 4, 8, 16, 32, 64}

ResolvesAnyStage(c) ==
  /\ \A i \in {0, 2, 4} : (c[i] + c[i + 1]) % 256 = 85
  /\ c[0] \in Powers
  /\ c[2] \in 1 .. MaxStages

\* resolve_dpi_target: pairs complement each other to 0x55, the polling rate
\* is one bit up to 0x40, and the stage is one of those configured.
Resolves(c) ==
  /\ \A i \in {0, 2, 4} : (c[i] + c[i + 1]) % 256 = 85
  /\ c[0] \in Powers
  /\ c[2] \in 1 .. MaxStages /\ c[4] < c[2]

TargetOf(c) == Base + c[4] * StageSize

\* set_sensitivity's readout of a stored word.
XOf(w) == (w[0] + ((w[2] \div 4) % 4) * 256 + 1) * 50
YOf(w) == (w[1] + ((w[2] \div 64) % 4) * 256 + 1) * 50

ReadableUnmasked(w) ==
  /\ (w[0] + w[1] + w[2] + w[3]) % 256 = 85
  /\ XOf(w) <= 26000 /\ YOf(w) <= 26000

\* No bit of 0x33 may be set in byte 2.
Readable(w) ==
  /\ (w[0] + w[1] + w[2] + w[3]) % 256 = 85
  /\ w[2] % 4 = 0 /\ (w[2] \div 16) % 4 = 0
  /\ XOf(w) <= 26000 /\ YOf(w) <= 26000

-----------------------------------------------------------------------------
Closing(s) == (85 - s) % 256

WordFrom(x, y, z, off) ==
  [i \in 0 .. 3 |-> IF i = 0 THEN x ELSE IF i = 1 THEN y
                    ELSE IF i = 2 THEN z ELSE (Closing(x + y + z) + off) % 256]

ConfigFrom(p, n, s) ==
  [i \in 0 .. 5 |-> IF i = 0 THEN p ELSE IF i = 1 THEN Closing(p)
                    ELSE IF i = 2 THEN n ELSE IF i = 3 THEN Closing(n)
                    ELSE IF i = 4 THEN s ELSE Closing(s)]

\* A mouse comes with any word, its sum right or wrong, or any configuration.
CodecInit ==
  /\ \/ /\ config = ConfigFrom(1, MaxStages, 0)
        /\ \E x, y, z \in Bytes, off \in {0, 1} : stored = WordFrom(x, y, z, off)
     \/ /\ \E p, n, s \in Bytes : config = ConfigFrom(p, n, s)
        /\ stored = WordOf(400)
  /\ request = OnlineRequest
  /\ wrote = 0

QueryOnline == request' = OnlineRequest /\ UNCHANGED <<config, stored, wrote>>

QueryBattery == request' = BatteryRequest /\ UNCHANGED <<config, stored, wrote>>

ReadConfig == request' = ReadPayloadOf(0, 6) /\ UNCHANGED <<config, stored, wrote>>

QueryProfile ==
  /\ Resolves(config)
  /\ request' = ProfilePayload
  /\ UNCHANGED <<config, stored, wrote>>

\* The address is the resolved one or the caller's, of a configured stage.
Target ==
  {address \in {TargetOf(config)} \cup {a \in Addresses : AddressOK(a)} :
     Resolves(config) /\ (address - Base) \div StageSize < config[2]}

ReadWord ==
  /\ \E address \in Target :
       ReadOK(address, StageSize) /\ request' = ReadPayloadOf(address, StageSize)
  /\ UNCHANGED <<config, stored, wrote>>

\* A word that can be read is replaced; get_payload refuses a bad level.
Write ==
  /\ wrote = 0 /\ Readable(stored)
  /\ \E level \in Levels, address \in Target :
       /\ LevelOK(level) /\ AddressOK(address)
       /\ request' = PayloadOf(level, address)
       /\ stored' = [i \in 0 .. 3 |-> request'[6 + i]]
       /\ wrote' = level
  /\ UNCHANGED config

CodecNext ==
  QueryOnline \/ QueryBattery \/ ReadConfig \/ QueryProfile \/ ReadWord \/ Write

CodecSpec == CodecInit /\ [][CodecNext]_reports

-----------------------------------------------------------------------------
(* Properties                                                              *)

CodecTypeOK ==
  /\ config \in Config /\ stored \in Word /\ request \in Report
  /\ wrote = 0 \/ (wrote \in Levels /\ LevelOK(wrote))

\* What was written is read out as the same DPI on both axes, through two
\* pieces of arithmetic written apart: get_payload's and set_sensitivity's.
RoundTrip ==
  wrote # 0 => Readable(stored) /\ XOf(stored) = wrote /\ YOf(stored) = wrote

\* A word the driver shows as one DPI value is byte for byte the word it would
\* write for that value, so comparing bytes compares DPI values.
Canonical ==
  Readable(stored) /\ XOf(stored) = YOf(stored) => stored = WordOf(XOf(stored))

\* Each axis of a word that is shown is a value the driver could write.
ShownIsWritable == Readable(stored) => LevelOK(XOf(stored)) /\ LevelOK(YOf(stored))

\* An exact echo of a request passes every check of a reply, with the one
\* exception the protocol makes: a profile query carries no length to echo.
EchoAnswers == request[1] # 14 => Answers(request, request)

\* A target that is resolved can be read and written, and set_sensitivity's
\* own division leads back to the configured stage it was resolved from.
TargetUsable ==
  Resolves(config) =>
    /\ AddressOK(TargetOf(config)) /\ ReadOK(TargetOf(config), StageSize)
    /\ (TargetOf(config) - Base) \div StageSize = config[4]
    /\ (TargetOf(config) - Base) \div StageSize < config[2]
=============================================================================
