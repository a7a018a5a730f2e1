----------------------------- MODULE SortedEnv -----------------------------
(***************************************************************************)
(* The listing export prints when it has no argument: sort_env copies the  *)
(* array of the environment and sorts the copy by bubble sort, strcmp on   *)
(* whole strings.  A string is its rank in the order of strcmp.            *)
(***************************************************************************)
EXTENDS Naturals, Sequences

CONSTANT Envs   \* the environments that may be listed, sequences of ranks
ASSUME EnvsAssumption == Envs \subseteq Seq(Nat)

VARIABLES
  env,      \* shell->env, which the listing must leave alone
  sorted,   \* the copy
  pc,       \* "copy", "pass", "print", "failed"
  i, j, swapped

vars == <<env, sorted, pc, i, j, swapped>>
count == Len(env)

Init ==
  /\ env \in Envs /\ sorted = <<>> /\ pc = "copy"
  /\ i = 0 /\ j = 0 /\ swapped = FALSE

(* The first string that cannot be copied makes the listing fail.          *)
duplicate_env_array ==
  /\ pc = "copy"
  /\ \/ /\ sorted' = env
        /\ pc' = IF count < 2 THEN "print" ELSE "pass"
     \/ sorted' = <<>> /\ pc' = "failed"
  /\ UNCHANGED <<env, i, j, swapped>>

(* A slip: one string overwrites the other.                                *)
swap_if_needed_NoTemp ==
  /\ pc = "pass" /\ j < count - i - 1
  /\ IF sorted[j + 1] > sorted[j + 2]
     THEN sorted' = [sorted EXCEPT ![j + 1] = sorted[j + 2]] /\ swapped' = TRUE
     ELSE UNCHANGED <<sorted, swapped>>
  /\ j' = j + 1 /\ UNCHANGED <<env, pc, i>>

swap_if_needed ==
  /\ pc = "pass" /\ j < count - i - 1
  /\ IF sorted[j + 1] > sorted[j + 2]
     THEN /\ sorted' = [sorted EXCEPT ![j + 1] = sorted[j + 2],
                                      ![j + 2] = sorted[j + 1]]
          /\ swapped' = TRUE
     ELSE UNCHANGED <<sorted, swapped>>
  /\ j' = j + 1 /\ UNCHANGED <<env, pc, i>>

(* A slip: one pass too few.                                               *)
EndPass_Early ==
  /\ pc = "pass" /\ j >= count - i - 1
  /\ IF swapped /\ i + 2 < count - 1
     THEN /\ i' = i + 1 /\ j' = 0 /\ swapped' = FALSE
          /\ UNCHANGED pc
     ELSE pc' = "print" /\ UNCHANGED <<i, j, swapped>>
  /\ UNCHANGED <<env, sorted>>

(* A slip: passes until one swaps nothing, with a flag that is not reset.  *)
EndPass_NoReset ==
  /\ pc = "pass" /\ j >= count - i - 1
  /\ IF swapped THEN j' = 0 /\ UNCHANGED pc ELSE pc' = "print" /\ UNCHANGED j
  /\ UNCHANGED <<env, sorted, i, swapped>>

EndPass ==
  /\ pc = "pass" /\ j >= count - i - 1
  /\ IF swapped /\ i + 1 < count - 1
     THEN /\ i' = i + 1 /\ j' = 0 /\ swapped' = FALSE
          /\ UNCHANGED pc
     ELSE pc' = "print" /\ UNCHANGED <<i, j, swapped>>
  /\ UNCHANGED <<env, sorted>>

Next == duplicate_env_array \/ swap_if_needed \/ EndPass

Spec == Init /\ [][Next]_vars /\ WF_vars(Next)
-----------------------------------------------------------------------------
TypeOK ==
  /\ env \in Seq(Nat) /\ sorted \in Seq(Nat)
  /\ pc \in {"copy", "pass", "print", "failed"}
  /\ pc \in {"pass", "print"} => Len(sorted) = count
  /\ i \in Nat /\ j \in Nat /\ swapped \in BOOLEAN

(* What export prints is in order, although a pass without a swap ends the *)
(* sort early.                                                             *)
ListingSorted ==
  pc = "print" => \A a, b \in 1..count : a <= b => sorted[a] <= sorted[b]

(* It prints every string of the environment exactly as often as it is     *)
(* there: the copy is a permutation of the array at every moment.          *)
Bijections(n) == {f \in [1..n -> 1..n] : \A a, b \in 1..n : f[a] = f[b] => a = b}
ListingComplete ==
  pc \in {"pass", "print"} =>
    \E f \in Bijections(count) : \A a \in 1..count : sorted[a] = env[f[a]]

(* The sort ends, for every environment.                                   *)
ListingEnds == <>(pc \in {"print", "failed"})
=============================================================================
