--------------------------- MODULE MCEnvironment ---------------------------
(* Instances of Environment.tla small enough for TLC.                      *)
EXTENDS Environment

Var(n, v) == [name |-> n, value |-> v]

(* The three variables of cd and a name that is no identifier, from an      *)
(* empty environment and from one a bad name came with; the commands are    *)
(* of up to three words, good and bad, the last one of a name deciding.     *)
MCIdentifier == {"PWD", "OLDPWD", "HOME"}
MCName == MCIdentifier \cup {"a.b"}
MCText == {"x"}
MCInherited ==
  {<<>>, <<Var("a.b", "x"), Var("HOME", "/l"), Var("OLDPWD", "x")>>}
MCExportArgs ==
  {<<Var("OLDPWD", "/a"), Var("a.b", "x"), Var("OLDPWD", "x")>>,
   <<Var("HOME", NoEqual), Var("PWD", "x")>>}
MCAssignments == {<<Var("PWD", "x"), Var("HOME", "/l")>>}
MCUnsetArgs ==
  {<<Var("PWD", NoEqual), Var("a.b", NoEqual), Var("HOME", NoEqual)>>,
   <<Var("OLDPWD", "x")>>}

(* Two directories that move between two paths, one of them behind a link. *)
MCPath == {"/a", "/b"}
MCLink == [l \in {"/l"} |-> "/b"]
MCCdArgs == {"", "-", "/a"}
=============================================================================
