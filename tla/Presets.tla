------------------------------ MODULE Presets ------------------------------
(***************************************************************************)
(* The preset file of src/config.c: what config_save_preset appends, whole *)
(* or cut short by a full disk, what the TOML parser makes of the file,    *)
(* and what config_load_preset finds in it.  A name is what the user typed.*)
(* A file is the sequence of the entries that were appended to it.         *)
(***************************************************************************)
EXTENDS Integers, SequencesExt

CONSTANTS
  Names,       \* names the user may type
  Header,      \* [Names -> Seq(keys)]: how TOML reads [name]; <<>> if it cannot
  Seek,        \* [Names -> Seq(keys)]: the name split at its dots, by toml_seek;
               \* never empty
  Dpi,         \* the key under which the value is stored
  Entered,     \* numbers the user may type as DPI, natural
  MaxEntries,  \* bound on appended entries
  MaxCuts      \* bound on writes that fail half way

ASSUME PresetsAssumption ==
  /\ \A name \in Names : Header[name] \in Seq(STRING) /\ Seek[name] \in Seq(STRING) \ {<<>>}
  /\ Dpi \in STRING
  /\ Entered \subseteq Nat /\ MaxEntries \in Nat /\ MaxCuts \in Nat

VARIABLES
  file,  \* the entries in the file
  told   \* ghost: for each name, the DPI the user was last told is saved, or 0

preset == <<file, told>>

-----------------------------------------------------------------------------
(* How much of "[name]\ndpi = value\n\n" was written. *)

Unfinished == {"header", "key"}               \* cut inside the header, or before the value
Openended == Unfinished \cup {"name", "value"} \* cut where a line would go on
Bare == {"header", "name", "line", "key"}     \* cut before the value
Parts == Openended \cup {"line", "end", "all"}

Entries == [name : Names, dpi : Nat, part : Parts]

\* A value that is cut loses its last digits.
Digits(level) == {level \div cut : cut \in {1, 10, 100, 1000, 10000}} \ {0}

Entry(name, level, part) ==
  [name |-> name, dpi |-> IF part \in Bare THEN 0 ELSE level, part |-> part]

\* fclose flushes the entry; what a full disk leaves of it.
Remains(name, level) ==
  {Entry(name, level, part) : part \in Bare \cup {"end"}}
    \cup {Entry(name, digits, "value") : digits \in Digits(level)}

-----------------------------------------------------------------------------
(* Parsing: tables are known by their path. *)

EmptyDoc == [ok |-> TRUE, explicit |-> {}, implicit |-> {}, dpi |-> <<>>]

\* The paths that hold a number.
Numbers(doc) == {Append(table, Dpi) : table \in DOMAIN doc.dpi}

WithNumber(doc, path, value) ==
  [table \in DOMAIN doc.dpi \cup {path} |-> IF table = path THEN value ELSE doc.dpi[table]]

Above(path) == {SubSeq(path, 1, k) : k \in 1 .. Len(path) - 1}

\* parse_std_table_expr: no number on the way, and not defined before.
TableOK(doc, path) ==
  /\ path # <<>>
  /\ (Above(path) \cup {path}) \cap Numbers(doc) = {}
  /\ path \notin doc.explicit

\* Mutant of KeyOK: a table of that name goes unnoticed.
KeyOverTable(doc, path) == path \notin DOMAIN doc.dpi

\* parse_keyvalue_expr: the key is new in its table.
KeyOK(doc, path) ==
  /\ path \notin DOMAIN doc.dpi
  /\ Append(path, Dpi) \notin doc.explicit \cup doc.implicit

\* One entry; the text that follows an open line spoils it.
ParseEntry(doc, entry, last) ==
  LET path == Header[entry.name] IN
  [ok |-> /\ doc.ok /\ TableOK(doc, path) /\ entry.part \notin Unfinished
          /\ entry.part \in Openended => last
          /\ entry.part \notin Bare => KeyOK(doc, path),
   explicit |-> doc.explicit \cup {path},
   implicit |-> doc.implicit \cup Above(path),
   dpi |-> IF entry.part \in Bare THEN doc.dpi ELSE WithNumber(doc, path, entry.dpi)]

\* What is known after each entry.
Parsing(f) ==
  LET doc[n \in 0 .. Len(f)] ==
        IF n = 0 THEN EmptyDoc ELSE ParseEntry(doc[n - 1], f[n], n = Len(f))
  IN  doc

\* toml_parse_file_ex
Parse(f) == Parsing(f)[Len(f)]

Parsable(f) == Parse(f).ok

\* Mutant of Sought: only the first part of the key is followed.
SoughtFirst(doc, path) ==
  IF SubSeq(path, 1, 1) \in DOMAIN doc.dpi THEN doc.dpi[SubSeq(path, 1, 1)] ELSE 0

\* toml_seek: the number in the table at a path, 0 if there is none.
Sought(doc, path) == IF path \in DOMAIN doc.dpi THEN doc.dpi[path] ELSE 0

Loadable(level) == level >= 50 /\ level <= 26000 /\ level % 50 = 0

\* config_load_preset: the DPI of a preset, 0 if it has no valid one.
Load(f, name) ==
  LET doc == Parse(f)
      level == Sought(doc, Seek[name])
  IN  IF doc.ok /\ Loadable(level) THEN level ELSE 0

-----------------------------------------------------------------------------
Cuts == Cardinality({i \in DOMAIN file : file[i].part # "all"})

PresetsInit == file = <<>> /\ told = [n \in Names |-> 0]

\* fopen with mode "a"
Appended(f, entry) == Append(f, entry)

\* parse_sensitivity, main's own check of what was typed.
Typed(level) == level >= 50 /\ level <= 26000 /\ level % 50 = 0
Saveable == {level \in Entered : Typed(level)}

\* config_save_preset; main reports the preset saved.
Save ==
  /\ Len(file) < MaxEntries
  /\ \E name \in Names, level \in Saveable :
       /\ file' = Appended(file, Entry(name, level, "all"))
       /\ told' = [told EXCEPT ![name] = level]

\* Mutant of SaveFails: the result of fclose is dropped.
SaveFailsSilently ==
  /\ Len(file) < MaxEntries /\ Cuts < MaxCuts
  /\ \E name \in Names, level \in Saveable :
       /\ \E entry \in Remains(name, level) : file' = Appended(file, entry)
       /\ told' = [told EXCEPT ![name] = level]

\* The disk fills up: part of the entry stays, the user is told of a failure.
SaveFails ==
  /\ Len(file) < MaxEntries /\ Cuts < MaxCuts
  /\ \E name \in Names, level \in Saveable :
       \E entry \in Remains(name, level) : file' = Appended(file, entry)
  /\ UNCHANGED told

PresetsNext == Save \/ SaveFails

PresetsSpec == PresetsInit /\ [][PresetsNext]_preset

-----------------------------------------------------------------------------
(* Properties *)

PresetsTypeOK ==
  /\ file \in Seq(Entries) /\ \A i \in DOMAIN file : file[i].dpi <= 26000
  /\ Len(file) <= MaxEntries
  /\ told \in [Names -> {0} \cup Entered]

\* A preset the user was told is saved loads with the DPI saved last, as long
\* as the file can be read and TOML reads the name as toml_seek does.
SavedComesBack ==
  Parsable(file) =>
    \A name \in Names :
      told[name] # 0 /\ Seek[name] = Header[name] => Load(file, name) = told[name]

\* What a load yields is a level that get_payload accepts, and was saved under
\* a name with the same path, or left by a save that failed after the first
\* digits of its value.
LoadsSound ==
  \A name \in Names :
    LET level == Load(file, name) IN
    level # 0 =>
      /\ level \in {50 * k : k \in 1 .. 520}
      /\ \E i \in DOMAIN file :
           /\ Header[file[i].name] = Seek[name]
           /\ \/ told[file[i].name] = level
              \/ file[i].part \in {"value", "end"} /\ file[i].dpi = level

\* The parser reads the file from top to bottom, but what it accepts does not
\* depend on the order of the whole entries: no header twice, and no table in
\* or under the number of another.
OrderFree ==
  LET whole == \A i \in DOMAIN file : file[i].part = "all"
      path(i) == Header[file[i].name]
  IN  whole =>
        (Parsable(file) <=>
           /\ \A i \in DOMAIN file : path(i) # <<>>
           /\ \A i, j \in DOMAIN file :
                i # j => path(i) # path(j) /\ ~IsPrefix(Append(path(i), Dpi), path(j)))

\* src/help.c:15 of the -p option: load sens from a saved preset.
SavedLoads == \A name \in Names : told[name] # 0 => Load(file, name) = told[name]
=============================================================================
