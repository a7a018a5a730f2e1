-------------------------- MODULE SortedEnvProofs --------------------------
(***************************************************************************)
(* Proofs about SortedEnv.tla: for every environment, of whatever length,  *)
(* what export prints is in order and is a permutation of what is there.   *)
(***************************************************************************)
EXTENDS SortedEnv, TLAPS

(* The invariant of bubble sort.  The last i strings are in their places;  *)
(* the string the inner loop carries is not smaller than any it passed;    *)
(* while nothing was swapped what it passed is in order.                   *)
Loops == pc = "pass" => i + 1 < count /\ j <= count - i - 1
Settled ==
  pc = "pass" => \A a, b \in 1..count :
                   a <= b /\ b > count - i => sorted[a] <= sorted[b]
Carried == pc = "pass" => \A a \in 1..j : sorted[a] <= sorted[j + 1]
Ordered ==
  (pc = "pass" /\ ~swapped) =>
    \A a, b \in 1..(j + 1) : a <= b => sorted[a] <= sorted[b]
Fresh == pc = "copy" => i = 0 /\ j = 0 /\ swapped = FALSE

SortInv == /\ TypeOK /\ Loops /\ Settled /\ Carried /\ Ordered /\ Fresh
           /\ ListingSorted

LEMMA InitSort == Init => SortInv
<1> SUFFICES ASSUME Init PROVE SortInv
  OBVIOUS
<1>1. env \in Seq(Nat) /\ sorted = <<>> /\ pc = "copy" /\ i = 0 /\ j = 0
      /\ swapped = FALSE
  BY EnvsAssumption DEF Init
<1>2. sorted \in Seq(Nat)
  BY <1>1
<1>3. TypeOK
  BY <1>1, <1>2 DEF TypeOK
<1> QED BY <1>1, <1>3 DEF SortInv, Loops, Settled, Carried, Ordered, Fresh,
                          ListingSorted

(* The types the loops work on.                                            *)
LEMMA PassTypes ==
  ASSUME SortInv, pc = "pass"
  PROVE  /\ sorted \in Seq(Nat) /\ env \in Seq(Nat)
         /\ count \in Nat /\ i \in Nat /\ j \in Nat
         /\ Len(sorted) = count /\ DOMAIN sorted = 1..count
         /\ \A a \in 1..count : sorted[a] \in Nat
         /\ i + 1 < count /\ j <= count - i - 1
<1>1. sorted \in Seq(Nat) /\ env \in Seq(Nat) /\ i \in Nat /\ j \in Nat
      /\ Len(sorted) = count
  BY DEF SortInv, TypeOK
<1>2. count \in Nat
  BY <1>1 DEF count
<1>3. DOMAIN sorted = 1..count
  BY <1>1
<1>4. \A a \in 1..count : sorted[a] \in Nat
  BY <1>1
<1> QED BY <1>1, <1>2, <1>3, <1>4 DEF SortInv, Loops

LEMMA CopyKeeps ==
  ASSUME SortInv, duplicate_env_array
  PROVE  SortInv'
<1>1. /\ env \in Seq(Nat) /\ Len(env) \in Nat /\ i = 0 /\ j = 0 /\ swapped = FALSE
      /\ env' = env /\ i' = 0 /\ j' = 0 /\ swapped' = FALSE
  BY DEF SortInv, TypeOK, Fresh, duplicate_env_array
<1>2. CASE pc' = "failed" /\ sorted' = <<>>
  <2>1. sorted' \in Seq(Nat)
    BY <1>2
  <2> QED BY <1>1, <1>2, <2>1 DEF SortInv, TypeOK, Loops, Settled, Carried,
                                  Ordered, Fresh, ListingSorted
<1>3. CASE sorted' = env /\ pc' = "print" /\ count < 2
  <2>1. \A a, b \in 1..Len(env) : a = b
    BY <1>1, <1>3 DEF count
  <2>2. \A a \in 1..Len(env) : env[a] \in Nat
    BY <1>1
  <2>3. ListingSorted'
    BY <1>1, <1>3, <2>1, <2>2 DEF ListingSorted, count
  <2>4. TypeOK'
    BY <1>1, <1>3 DEF TypeOK, count
  <2> QED BY <1>3, <2>3, <2>4 DEF SortInv, Loops, Settled, Carried, Ordered, Fresh
<1>4. CASE sorted' = env /\ pc' = "pass" /\ count >= 2
  <2>1. \A a \in 1..Len(env) : env[a] \in Nat
    BY <1>1
  <2>3. count' = count /\ count = Len(env) /\ Len(env) >= 2
    BY <1>1, <1>4 DEF count
  <2>4. TypeOK'
    BY <1>1, <1>4, <2>3 DEF TypeOK
  <2>5. Loops' /\ Settled' /\ Carried'
    BY <1>1, <1>4, <2>1, <2>3 DEF Loops, Settled, Carried
  <2>6. Ordered'
    <3>1. \A a, b \in 1..(0 + 1) : a = 1 /\ b = 1
      OBVIOUS
    <3>2. env[1] <= env[1]
      BY <1>1, <2>1, <2>3
    <3> QED BY <1>1, <1>4, <3>1, <3>2 DEF Ordered
  <2> QED BY <1>4, <2>4, <2>5, <2>6 DEF SortInv, Fresh, ListingSorted
<1> QED BY <1>1, <1>2, <1>3, <1>4 DEF duplicate_env_array, count

LEMMA SwapKeeps ==
  ASSUME SortInv, swap_if_needed
  PROVE  SortInv'
<1>1. /\ sorted \in Seq(Nat) /\ env \in Seq(Nat) /\ count \in Nat
      /\ Len(sorted) = count /\ i \in Nat /\ j \in Nat /\ pc = "pass"
      /\ j + 2 <= count - i /\ DOMAIN sorted = 1..count
      /\ \A a \in 1..count : sorted[a] \in Nat
  <2>1. pc = "pass" /\ j < count - i - 1
    BY DEF swap_if_needed
  <2> QED BY <2>1, PassTypes
<1>2. env' = env /\ i' = i /\ j' = j + 1 /\ pc' = "pass" /\ count' = count
  BY <1>1 DEF swap_if_needed, count
<1>3. /\ j + 1 \in 1..count /\ j + 2 \in 1..count
      /\ j + 2 <= count - i
  BY <1>1
<1>4. /\ sorted' \in Seq(Nat) /\ Len(sorted') = count
      /\ \A a \in 1..count \ {j + 1, j + 2} : sorted'[a] = sorted[a]
      /\ sorted'[j + 1] <= sorted'[j + 2]
      /\ \/ /\ sorted'[j + 1] = sorted[j + 1] /\ sorted'[j + 2] = sorted[j + 2]
            /\ swapped' = swapped
         \/ /\ sorted'[j + 1] = sorted[j + 2] /\ sorted'[j + 2] = sorted[j + 1]
            /\ swapped' = TRUE
  <2>1. CASE sorted[j + 1] > sorted[j + 2]
    <3>1. sorted' = [sorted EXCEPT ![j + 1] = sorted[j + 2],
                                   ![j + 2] = sorted[j + 1]] /\ swapped' = TRUE
      BY <2>1 DEF swap_if_needed
    <3>2. sorted' \in Seq(Nat) /\ Len(sorted') = count
      BY <1>1, <1>3, <3>1
    <3>3. j + 1 # j + 2
      BY <1>1
    <3>4. /\ sorted'[j + 1] = sorted[j + 2] /\ sorted'[j + 2] = sorted[j + 1]
          /\ \A a \in 1..count \ {j + 1, j + 2} : sorted'[a] = sorted[a]
      BY <1>1, <1>3, <3>1, <3>3
    <3>5. sorted[j + 2] <= sorted[j + 1]
      BY <1>1, <1>3, <2>1
    <3> QED BY <3>1, <3>2, <3>4, <3>5
  <2>2. CASE ~ (sorted[j + 1] > sorted[j + 2])
    BY <1>1, <1>3, <2>2 DEF swap_if_needed
  <2> QED BY <2>1, <2>2
<1>5. \A a \in 1..count : sorted'[a] \in Nat
  BY <1>4
<1>6. TypeOK'
  <2>1. swapped' \in BOOLEAN
    BY Zenon DEF SortInv, TypeOK, swap_if_needed
  <2>2. j + 1 \in Nat
    BY <1>1
  <2> QED BY <1>1, <1>2, <1>4, <2>1, <2>2 DEF TypeOK
<1>7. Loops'
  BY <1>1, <1>2 DEF SortInv, Loops
<1>8. Settled'
  <2>1. SUFFICES ASSUME NEW a \in 1..count, NEW b \in 1..count,
                        a <= b, b > count - i
                 PROVE  sorted'[a] <= sorted'[b]
    BY <1>2 DEF Settled
  <2>2. \A c \in 1..count : c <= b => sorted[c] <= sorted[b]
    BY <1>1, <2>1 DEF SortInv, Settled
  <2>3. b > j + 2 /\ sorted'[b] = sorted[b]
    BY <1>1, <1>4, <2>1
  <2>4. sorted'[a] \in {sorted[a], sorted[j + 1], sorted[j + 2]}
    BY <1>4, <2>1
  <2>5. j + 1 <= b /\ j + 2 <= b
    BY <1>1, <2>3
  <2> QED BY <1>3, <2>1, <2>2, <2>3, <2>4, <2>5
<1>9. \A a \in 1..(j + 1) : sorted'[a] <= sorted'[j + 2]
  <2>1. SUFFICES ASSUME NEW a \in 1..(j + 1) PROVE sorted'[a] <= sorted'[j + 2]
    OBVIOUS
  <2>2. CASE a = j + 1
    BY <1>4, <2>2
  <2>3. CASE a # j + 1
    <3>1. a \in 1..j /\ sorted'[a] = sorted[a] /\ a \in 1..count
      BY <1>1, <1>4, <2>1, <2>3
    <3>2. sorted[a] <= sorted[j + 1]
      BY <1>1, <3>1 DEF SortInv, Carried
    <3>3. sorted[j + 1] <= sorted'[j + 2]
      BY <1>1, <1>3, <1>4, <1>5
    <3> QED BY <1>1, <1>3, <1>5, <3>1, <3>2, <3>3
  <2> QED BY <2>2, <2>3
<1>10. Carried'
  BY <1>1, <1>2, <1>9 DEF Carried
<1>11. Ordered'
  <2>1. SUFFICES ASSUME ~swapped', NEW a \in 1..(j + 2), NEW b \in 1..(j + 2), a <= b
                 PROVE  sorted'[a] <= sorted'[b]
    BY <1>1, <1>2 DEF Ordered
  <2>2. ~swapped /\ \A c \in 1..count : sorted'[c] = sorted[c]
    BY <1>4, <2>1
  <2>3. a \in 1..count /\ b \in 1..count
    BY <1>1, <2>1
  <2>4. CASE b = j + 2
    <3>1. a = j + 2 \/ a \in 1..(j + 1)
      BY <1>1, <2>1
    <3> QED BY <1>5, <1>9, <2>3, <2>4, <3>1
  <2>5. CASE b # j + 2
    <3>1. a \in 1..(j + 1) /\ b \in 1..(j + 1)
      BY <1>1, <2>1, <2>5
    <3>2. sorted[a] <= sorted[b]
      BY <1>1, <2>1, <2>2, <3>1 DEF SortInv, Ordered
    <3> QED BY <2>2, <2>3, <3>2
  <2> QED BY <2>4, <2>5
<1> QED BY <1>2, <1>6, <1>7, <1>8, <1>10, <1>11 DEF SortInv, Fresh, ListingSorted

LEMMA EndPassKeeps ==
  ASSUME SortInv, EndPass
  PROVE  SortInv'
<1>1. /\ sorted \in Seq(Nat) /\ env \in Seq(Nat) /\ count \in Nat
      /\ Len(sorted) = count /\ i \in Nat /\ j \in Nat /\ pc = "pass"
      /\ j = count - i - 1 /\ i + 1 < count
      /\ \A a \in 1..count : sorted[a] \in Nat
  <2>1. pc = "pass" /\ j >= count - i - 1
    BY DEF EndPass
  <2> QED BY <2>1, PassTypes
<1>2. env' = env /\ sorted' = sorted /\ count' = count
  BY DEF EndPass, count
<1>3. \A a, b \in 1..count : a <= b /\ b >= count - i => sorted[a] <= sorted[b]
  <2>1. SUFFICES ASSUME NEW a \in 1..count, NEW b \in 1..count,
                        a <= b, b >= count - i
                 PROVE  sorted[a] <= sorted[b]
    OBVIOUS
  <2>2. CASE b > count - i
    BY <1>1, <2>1, <2>2 DEF SortInv, Settled
  <2>3. CASE b = count - i
    <3>1. b = j + 1 /\ (a = b \/ a \in 1..j)
      BY <1>1, <2>1, <2>3
    <3>2. \A c \in 1..j : sorted[c] <= sorted[j + 1]
      BY <1>1 DEF SortInv, Carried
    <3>3. sorted[b] <= sorted[b]
      BY <1>1
    <3> QED BY <3>1, <3>2, <3>3
  <2>4. b > count - i \/ b = count - i
    BY <1>1, <2>1
  <2> QED BY <2>2, <2>3, <2>4
<1>4. CASE swapped /\ i + 1 < count - 1
  <2>1. i' = i + 1 /\ j' = 0 /\ swapped' = FALSE /\ pc' = "pass"
    BY <1>1, <1>4 DEF EndPass
  <2>2. Settled'
    <3>1. \A b \in 1..count : b > count - (i + 1) => b >= count - i
      BY <1>1
    <3> QED BY <1>2, <1>3, <2>1, <3>1 DEF Settled
  <2>3. Carried' /\ Loops'
    BY <1>1, <1>2, <1>4, <2>1 DEF Carried, Loops
  <2>4. Ordered'
    <3>1. \A a, b \in 1..(0 + 1) : a = 1 /\ b = 1
      OBVIOUS
    <3>2. sorted[1] <= sorted[1]
      BY <1>1
    <3> QED BY <1>2, <2>1, <3>1, <3>2 DEF Ordered
  <2>5. TypeOK'
    <3>1. i + 1 \in Nat /\ 0 \in Nat
      BY <1>1
    <3> QED BY <1>1, <1>2, <2>1, <3>1 DEF TypeOK
  <2> QED BY <2>1, <2>2, <2>3, <2>4, <2>5 DEF SortInv, Fresh, ListingSorted
<1>5. CASE ~ (swapped /\ i + 1 < count - 1)
  <2>1. pc' = "print" /\ i' = i /\ j' = j /\ swapped' = swapped
    BY <1>5 DEF EndPass
  <2>2. \A a, b \in 1..count : a <= b => sorted[a] <= sorted[b]
    <3>1. SUFFICES ASSUME NEW a \in 1..count, NEW b \in 1..count, a <= b
                   PROVE  sorted[a] <= sorted[b]
      OBVIOUS
    <3>2. CASE b >= count - i
      BY <1>3, <3>1, <3>2
    <3>3. CASE ~ (b >= count - i) /\ ~swapped
      <4>1. a \in 1..(j + 1) /\ b \in 1..(j + 1)
        BY <1>1, <3>1, <3>3
      <4> QED BY <1>1, <3>1, <3>3, <4>1 DEF SortInv, Ordered
    <3>4. CASE ~ (b >= count - i) /\ ~ (i + 1 < count - 1)
      <4>1. a = 1 /\ b = 1
        BY <1>1, <3>1, <3>4
      <4> QED BY <1>1, <3>1, <4>1
    <3> QED BY <1>5, <3>2, <3>3, <3>4
  <2>3. ListingSorted'
    BY <1>2, <2>1, <2>2 DEF ListingSorted
  <2>4. TypeOK'
    <3>1. swapped' \in BOOLEAN
      BY Zenon, <2>1 DEF SortInv, TypeOK
    <3> QED BY <1>1, <1>2, <2>1, <3>1 DEF TypeOK
  <2> QED BY <2>1, <2>3, <2>4 DEF SortInv, Loops, Settled, Carried, Ordered, Fresh
<1> QED BY <1>4, <1>5

LEMMA AlwaysSort == Spec => []SortInv
<1>1. SortInv /\ [Next]_vars => SortInv'
  <2> SUFFICES ASSUME SortInv, [Next]_vars PROVE SortInv'
    OBVIOUS
  <2>1. CASE UNCHANGED vars
    BY <2>1 DEF vars, SortInv, TypeOK, Loops, Settled, Carried, Ordered, Fresh,
                ListingSorted, count
  <2> QED BY <2>1, CopyKeeps, SwapKeeps, EndPassKeeps DEF Next
<1> QED BY InitSort, <1>1, PTL DEF Spec

(* What export prints is in order, for every environment.                  *)
THEOREM ListingIsSorted == Spec => []ListingSorted
BY AlwaysSort, PTL DEF SortInv
-----------------------------------------------------------------------------
(* A swap of two places composes the permutation with a transposition.     *)
LEMMA SwapPermutes ==
  ASSUME NEW n \in Nat, NEW f \in Bijections(n), NEW p \in 1..n, NEW q \in 1..n
  PROVE  [f EXCEPT ![p] = f[q], ![q] = f[p]] \in Bijections(n)
<1> DEFINE g == [f EXCEPT ![p] = f[q], ![q] = f[p]]
<1>1. f \in [1..n -> 1..n] /\ \A a, b \in 1..n : f[a] = f[b] => a = b
  BY DEF Bijections
<1>2. g \in [1..n -> 1..n]
  BY <1>1
<1>3. \A a \in 1..n : g[a] = IF a = q THEN f[p] ELSE IF a = p THEN f[q] ELSE f[a]
  BY <1>1
<1>4. \A a, b \in 1..n : g[a] = g[b] => a = b
  BY <1>1, <1>3
<1> QED BY <1>2, <1>4 DEF Bijections

(* What export prints is what is there, each string as often as it is      *)
(* there, for every environment.                                           *)
THEOREM ListingIsComplete == Spec => []ListingComplete
<1>1. Init => ListingComplete
  BY DEF Init, ListingComplete
<1>2. SortInv /\ ListingComplete /\ [Next]_vars => ListingComplete'
  <2> SUFFICES ASSUME SortInv, ListingComplete, [Next]_vars
               PROVE  ListingComplete'
    OBVIOUS
  <2>1. count \in Nat
    BY DEF SortInv, TypeOK, count
  <2>2. CASE duplicate_env_array
    <3>1. CASE pc' = "failed"
      BY <3>1 DEF ListingComplete
    <3>2. CASE sorted' = env
      <4>1. env' = env /\ count' = count
        BY <2>2 DEF duplicate_env_array, count
      <4> DEFINE f == [a \in 1..count |-> a]
      <4>2. f \in Bijections(count) /\ \A a \in 1..count : sorted'[a] = env[f[a]]
        BY <3>2 DEF Bijections
      <4> QED BY <4>1, <4>2 DEF ListingComplete
    <3> QED BY <2>2, <3>1, <3>2 DEF duplicate_env_array
  <2>3. CASE swap_if_needed
    <3>1. /\ pc = "pass" /\ env' = env /\ count' = count
          /\ j + 1 \in 1..count /\ j + 2 \in 1..count
          /\ DOMAIN sorted = 1..count
      <4>1. pc = "pass" /\ env' = env /\ j < count - i - 1
        BY <2>3 DEF swap_if_needed
      <4>2. count' = count
        BY <4>1 DEF count
      <4>3. /\ count \in Nat /\ i \in Nat /\ j \in Nat
            /\ DOMAIN sorted = 1..count
        BY <4>1, PassTypes
      <4>4. j + 1 \in 1..count /\ j + 2 \in 1..count
        BY <4>1, <4>3
      <4> QED BY <4>1, <4>2, <4>3, <4>4
    <3>2. PICK f \in Bijections(count) : \A a \in 1..count : sorted[a] = env[f[a]]
      BY <3>1 DEF ListingComplete
    <3>3. CASE sorted' = sorted
      BY <3>1, <3>2, <3>3 DEF ListingComplete
    <3>4. CASE sorted' = [sorted EXCEPT ![j + 1] = sorted[j + 2],
                                        ![j + 2] = sorted[j + 1]]
      <4> DEFINE g == [f EXCEPT ![j + 1] = f[j + 2], ![j + 2] = f[j + 1]]
      <4>1. g \in Bijections(count)
        BY <2>1, <3>1, <3>2, SwapPermutes
      <4>2. DOMAIN f = 1..count
        BY <3>2 DEF Bijections
      <4>3. \A a \in 1..count : sorted'[a] = env[g[a]]
        BY <3>1, <3>2, <3>4, <4>2
      <4> QED BY ZenonT(60), <3>1, <4>1, <4>3 DEF ListingComplete
    <3> QED BY <2>3, <3>3, <3>4 DEF swap_if_needed
  <2>4. CASE EndPass
    BY <2>4 DEF EndPass, ListingComplete, count
  <2>5. CASE UNCHANGED vars
    BY <2>5 DEF vars, ListingComplete, count
  <2> QED BY <2>2, <2>3, <2>4, <2>5 DEF Next
<1> QED BY <1>1, <1>2, AlwaysSort, PTL DEF Spec
=============================================================================
