------------------------------ MODULE MCParser ------------------------------
(* Lines and environments small enough for TLC.                            *)
EXTENDS Parser

Lines(S, n) == UNION {[1..m -> S] : m \in 1..n}

(* Lines of pieces with spaces between them.                               *)
Spaced(pieces) ==
  FlattenSeq([k \in 1..(2 * Len(pieces) - 1) |->
                IF k % 2 = 1 THEN pieces[(k + 1) \div 2] ELSE <<" ">>])
SpacedLines(S, n) == {Spaced(p) : p \in Lines(S, n)}

MCName == {"PATH", "A", "x", "echo", "ls", "bin"}
MCBuiltin == {<<"echo">>}
Path == <<"PATH">> :> <<"bin">>

(* Every line of up to five of these symbols.                              *)
QuoteLines == Lines({" ", "'", "\"", "$", "A", "echo"}, 5)

(* Lines of up to five pieces, spaced.                                     *)
PieceLines ==
  SpacedLines({<<"echo">>, <<"A">>, <<"|">>, <<">">>, <<"'", "|", "'">>,
               <<"\"", "$", "A", "\"">>}, 5) \cup {<<" ">>}

ShortLines == QuoteLines \cup PieceLines
ShortEnvironments ==
  {Path @@ (<<"A">> :> <<"x", " ", "x">>), Path @@ (<<"A">> :> <<"<">>)}

(* Two lines in a row that assign, and use what they assigned.             *)
SessionLines ==
  SpacedLines({<<"A", "=", "ls">>, <<"PATH", "=", "x">>, <<"$", "A">>,
               <<"A", "\"", "\"">>, <<"ls">>}, 2)
SessionEnvironments == {Path, Path @@ (<<"A">> :> <<"echo">>)}

(* Every line once; a few lines in a row while programs come and go.       *)
MCSession == {"short", "long"}
MCLine(s) == IF s = "short" THEN ShortLines ELSE SessionLines
MCEnvironments(s) ==
  IF s = "short" THEN ShortEnvironments ELSE SessionEnvironments
MCProgram(s) == IF s = "short" THEN {<<"A">>} ELSE {<<"ls">>, <<"A">>}
MCMaxLines(s) == IF s = "short" THEN 1 ELSE 2
MCMaxChanges(s) == IF s = "short" THEN 0 ELSE 2

(* Single lines: what the session of that name types.                      *)
StageLines ==
  {Spaced(<<<<"echo">>, <<"|">>, <<"ls">>, <<"|">>, <<"A">>>>),
   Spaced(<<<<"echo">>, <<"|">>, <<"ls">>, <<">">>, <<"x">>>>)}
OneLine(s) == IF s = "blank" THEN {<<" ", " ">>} ELSE StageLines
OneEnvironments(s) == ShortEnvironments
OneProgram(s) == {<<"ls">>, <<"A">>}
Once(s) == 1
Never(s) == 0
=============================================================================
