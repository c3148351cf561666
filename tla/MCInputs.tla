------------------------------ MODULE MCInputs ------------------------------
(* What users write and mice send, for the instances of Reports, Presets,  *)
(* Toml and Cli.                                                           *)
EXTENDS Integers

\* Every level with illegal neighbours; bytes at the edges of their fields.
EveryLevel == {50 * k : k \in 0 .. 521} \cup {-50, 49, 51, 26001}
EdgeBytes == {0, 1, 4, 8, 68, 204, 255}
SomeAddresses == {0, 8, 12, 13, 40, 44}

\* A plain name, one below it, one at its number, one that TOML reads without
\* its quotes, and one it cannot read.
SomeNames == {"game", "game.eco", "game.dpi", "quoted", "two words"}
Headers == [n \in SomeNames |->
  CASE n = "game" -> <<"game">>
    [] n = "game.eco" -> <<"game", "eco">>
    [] n = "game.dpi" -> <<"game", "dpi">>
    [] n = "quoted" -> <<"game">>
    [] n = "two words" -> <<>>]
Seeks == [n \in SomeNames |->
  CASE n = "game" -> <<"game">>
    [] n = "game.eco" -> <<"game", "eco">>
    [] n = "game.dpi" -> <<"game", "dpi">>
    [] n = "quoted" -> <<"'game'">>
    [] n = "two words" -> <<"two words">>]
SomeLevels == {425, 450, 16000, 26050}

SomeKeys == {"a", "b"}
Ordinals == <<"1", "2", "3", "4">>
Pair(path, value) == [path |-> path, value |-> value]
\* {}, {a = 1}, {a.b = 1, a.a = 1}, and {a = {}, a.b.a = 1}.
SomeInlines == {
  <<>>, <<Pair(<<"a">>, "1")>>,
  <<Pair(<<"a", "b">>, "1"), Pair(<<"a", "a">>, "1")>>,
  <<Pair(<<"a">>, "{}"), Pair(<<"a", "b", "a">>, "1")>>}

SomeWords == {"--dpi-address", "-h", "-b", "-s", "-p", "game", "450", "12"}
ReadAs == [w \in SomeWords |->
  CASE w = "450" -> 450 [] w = "12" -> 12 [] OTHER -> -1]
=============================================================================
