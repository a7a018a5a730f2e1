----------------------------- MODULE Variables -----------------------------
(***************************************************************************)
(* What the shell's environment promises the commands that use it: a map   *)
(* from names to values.  Setting a name gives it one value, whatever it   *)
(* had before; unsetting it takes it away; no other name is disturbed.     *)
(* Environment.tla implements it by an array of strings.                   *)
(***************************************************************************)
CONSTANTS
  Name,    \* the names a variable can have
  Value    \* the texts a variable can hold

VARIABLE value   \* the variables that are set, each with its value

Init == \E S \in SUBSET Name : value \in [S -> Value]

Assign(n, v) ==
  value' = [m \in DOMAIN value \cup {n} |-> IF m = n THEN v ELSE value[m]]

Unset(n) == value' = [m \in DOMAIN value \ {n} |-> value[m]]

Next ==
  \/ \E n \in Name, v \in Value : Assign(n, v)
  \/ \E n \in Name : Unset(n)

Spec == Init /\ [][Next]_value
=============================================================================
