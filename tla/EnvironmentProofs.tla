------------------------- MODULE EnvironmentProofs -------------------------
(***************************************************************************)
(* Proofs about Environment.tla, for every set of names, values, paths and *)
(* directories and every command: the array of the environment holds each  *)
(* name once and implements the map of Variables.tla, and unset removes    *)
(* what it was asked to remove and nothing else.                           *)
(***************************************************************************)
EXTENDS Environment, TLAPS

-----------------------------------------------------------------------------
(* The helpers on arrays                                                   *)

(* In an array that holds each name once the first string of a name is the *)
(* only one, so get_env_value returns what it holds.                       *)
LEMMA OnlyFirst ==
  ASSUME NEW e \in Seq(Variable), Unique(e), NEW k \in DOMAIN e
  PROVE  /\ IsSet(e, e[k].name)
         /\ First(e, e[k].name) = k
         /\ get_env_value(e, e[k].name) = e[k].value
<1> DEFINE n == e[k].name
<1> DEFINE P(j) == e[j].name = n /\ \A l \in 1..(j - 1) : e[l].name # n
<1>1. k \in 1..Len(e) /\ DOMAIN e = 1..Len(e) /\ Len(e) \in Nat
  OBVIOUS
<1>2. P(k)
  BY <1>1 DEF Unique
<1>3. \A j \in DOMAIN e : P(j) => j = k
  BY DEF Unique
<1>4. First(e, n) = k
  BY <1>2, <1>3 DEF First
<1> QED BY <1>4 DEF IsSet, get_env_value

(* A name that stands nowhere has no value.                                *)
LEMMA NotSet ==
  ASSUME NEW e, NEW n, ~ IsSet(e, n)
  PROVE  get_env_value(e, n) = None
BY DEF get_env_value

(* The value of a set name is a value.                                     *)
LEMMA ValueType ==
  ASSUME NEW e \in Seq(Variable), Unique(e), NEW n
  PROVE  /\ get_env_value(e, n) \in Value \cup {None}
         /\ IsSet(e, n) <=> get_env_value(e, n) # None
<1>1. CASE IsSet(e, n)
  <2>1. PICK k \in DOMAIN e : e[k].name = n
    BY <1>1 DEF IsSet
  <2>2. get_env_value(e, n) = e[k].value /\ e[k] \in Variable
    BY <2>1, OnlyFirst
  <2> QED BY <1>1, <2>2, NoneAssumption DEF Variable
<1>2. CASE ~ IsSet(e, n)
  BY <1>2, NotSet
<1> QED BY <1>1, <1>2

(* update_existing_env and add_new_env_var give one name one value: every  *)
(* other name keeps its own, and no name comes to stand twice.             *)
LEMMA UpdatedIsAssignment ==
  ASSUME NEW e \in Seq(Variable), Unique(e), NEW n \in Name, NEW v \in Value
  PROVE  /\ Updated(e, n, v) \in Seq(Variable)
         /\ Unique(Updated(e, n, v))
         /\ \A m : IsSet(Updated(e, n, v), m) <=> m = n \/ IsSet(e, m)
         /\ \A m : get_env_value(Updated(e, n, v), m) =
                     IF m = n THEN v ELSE get_env_value(e, m)
<1> DEFINE u == Updated(e, n, v)
<1>1. DOMAIN e = 1..Len(e) /\ Len(e) \in Nat /\ \A j \in DOMAIN e : e[j] \in Variable
  OBVIOUS
<1>2. ASSUME NEW k \in DOMAIN e, e[k].name = n
      PROVE  /\ u = [e EXCEPT ![k].value = v]
             /\ DOMAIN u = DOMAIN e
             /\ u[k] = [name |-> n, value |-> v]
             /\ \A j \in DOMAIN e \ {k} : u[j] = e[j]
  <2>1. IsSet(e, n) /\ First(e, n) = k
    BY <1>2, OnlyFirst
  <2>2. e[k] \in Variable /\ e[k] = [name |-> e[k].name, value |-> e[k].value]
    BY <1>1 DEF Variable
  <2> QED BY <1>2, <2>1, <2>2 DEF Updated
<1>3. ASSUME ~ IsSet(e, n)
      PROVE  /\ u \in Seq(Variable)
             /\ DOMAIN u = 1..(Len(e) + 1)
             /\ u[Len(e) + 1] = [name |-> n, value |-> v]
             /\ \A j \in DOMAIN e : u[j] = e[j]
  <2>1. u = Append(e, [name |-> n, value |-> v])
    BY <1>3 DEF Updated
  <2>2. [name |-> n, value |-> v] \in Variable
    BY DEF Variable
  <2> QED BY <2>1, <2>2, <1>1
<1>4. \E k \in DOMAIN u :
        /\ u[k] = [name |-> n, value |-> v]
        /\ \A j \in DOMAIN u \ {k} :
             j \in DOMAIN e /\ u[j] = e[j] /\ e[j].name # n
        /\ \A j \in DOMAIN e : j \in DOMAIN u /\ (j # k => u[j] = e[j])
        /\ k \in DOMAIN e => e[k].name = n
  <2>1. CASE IsSet(e, n)
    <3>1. PICK k \in DOMAIN e : e[k].name = n
      BY <2>1 DEF IsSet
    <3>2. \A j \in DOMAIN e \ {k} : e[j].name # n
      BY <3>1 DEF Unique
    <3> QED BY <3>1, <3>2, <1>2
  <2>2. CASE ~ IsSet(e, n)
    <3>1. \A j \in DOMAIN e : e[j].name # n
      BY <2>2 DEF IsSet
    <3>2. DOMAIN u \ {Len(e) + 1} = DOMAIN e /\ Len(e) + 1 \in DOMAIN u
          /\ Len(e) + 1 \notin DOMAIN e
      BY <2>2, <1>3, <1>1
    <3> QED BY <2>2, <3>1, <3>2, <1>3
  <2> QED BY <2>1, <2>2
<1>5. u \in Seq(Variable)
  <2>1. CASE IsSet(e, n)
    <3>1. PICK k \in DOMAIN e : e[k].name = n
      BY <2>1 DEF IsSet
    <3>2. [e[k] EXCEPT !.value = v] \in Variable
      BY <1>1 DEF Variable
    <3>3. u = [e EXCEPT ![k] = [e[k] EXCEPT !.value = v]]
      BY <3>1, <1>2
    <3> QED BY <3>2, <3>3
  <2>2. CASE ~ IsSet(e, n)
    BY <2>2, <1>3
  <2> QED BY <2>1, <2>2
<1> HIDE DEF u
<1>6. PICK k \in DOMAIN u :
        /\ u[k] = [name |-> n, value |-> v]
        /\ \A j \in DOMAIN u \ {k} :
             j \in DOMAIN e /\ u[j] = e[j] /\ e[j].name # n
        /\ \A j \in DOMAIN e : j \in DOMAIN u /\ (j # k => u[j] = e[j])
        /\ k \in DOMAIN e => e[k].name = n
  BY <1>4
<1>7. Unique(u)
  BY <1>6 DEF Unique
<1>8. ASSUME NEW m
      PROVE  IsSet(u, m) <=> m = n \/ IsSet(e, m)
  BY <1>6 DEF IsSet
<1>9. ASSUME NEW m
      PROVE  get_env_value(u, m) = IF m = n THEN v ELSE get_env_value(e, m)
  <2>1. CASE m = n
    BY <2>1, <1>5, <1>6, <1>7, OnlyFirst
  <2>2. CASE m # n /\ IsSet(e, m)
    <3>1. PICK j \in DOMAIN e : e[j].name = m
      BY <2>2 DEF IsSet
    <3>2. j \in DOMAIN u /\ u[j] = e[j]
      BY <2>2, <3>1, <1>6
    <3> QED BY <2>2, <3>1, <3>2, <1>5, <1>7, OnlyFirst
  <2>3. CASE m # n /\ ~ IsSet(e, m)
    BY <2>3, <1>8, NotSet
  <2> QED BY <2>1, <2>2, <2>3
<1> QED BY <1>5, <1>7, <1>8, <1>9 DEF u

(* find_and_remove_var takes one name away: every other name keeps its     *)
(* value although the strings behind the removed one move.                 *)
LEMMA RemovedIsUnset ==
  ASSUME NEW e \in Seq(Variable), Unique(e), NEW n
  PROVE  /\ Removed(e, n) \in Seq(Variable)
         /\ Unique(Removed(e, n))
         /\ \A m : IsSet(Removed(e, n), m) <=> m # n /\ IsSet(e, m)
         /\ \A m : get_env_value(Removed(e, n), m) =
                     IF m = n THEN None ELSE get_env_value(e, m)
<1> DEFINE u == Removed(e, n)
<1>1. DOMAIN e = 1..Len(e) /\ Len(e) \in Nat /\ \A j \in DOMAIN e : e[j] \in Variable
  OBVIOUS
<1>2. CASE ~ IsSet(e, n)
  <2>1. u = e
    BY <1>2 DEF Removed
  <2> QED BY <1>2, <2>1, NotSet
<1>3. CASE IsSet(e, n)
  <2>1. PICK k \in DOMAIN e : e[k].name = n
    BY <1>3 DEF IsSet
  <2>2. First(e, n) = k
    BY <2>1, OnlyFirst
  <2>3. u = [j \in 1..(Len(e) - 1) |-> IF j < k THEN e[j] ELSE e[j + 1]]
    BY <1>3, <2>2 DEF Removed
  <2>4. Len(e) - 1 \in Nat /\ DOMAIN u = 1..(Len(e) - 1)
    BY <1>1, <2>1, <2>3
  <2>5. u \in Seq(Variable)
    <3>1. \A j \in 1..(Len(e) - 1) : u[j] \in Variable
      BY <1>1, <2>1, <2>3
    <3> QED BY <2>3, <2>4, <3>1
  <2>6. \A j \in DOMAIN u :
          \E l \in DOMAIN e \ {k} : u[j] = e[l] /\ l = IF j < k THEN j ELSE j + 1
    BY <1>1, <2>1, <2>3, <2>4
  <2>7. \A l \in DOMAIN e \ {k} : \E j \in DOMAIN u : u[j] = e[l]
    <3>1. ASSUME NEW l \in DOMAIN e \ {k}
          PROVE  \E j \in DOMAIN u : u[j] = e[l]
      <4>1. CASE l < k
        <5>1. l \in DOMAIN u /\ u[l] = e[l]
          BY <4>1, <1>1, <2>1, <2>3, <2>4
        <5> QED BY <5>1
      <4>2. CASE l > k
        <5>1. l - 1 \in DOMAIN u /\ u[l - 1] = e[l]
          BY <4>2, <1>1, <2>1, <2>3, <2>4
        <5> QED BY <5>1
      <4> QED BY <1>1, <2>1, <3>1, <4>1, <4>2
    <3> QED BY <3>1
  <2>8. \A l \in DOMAIN e \ {k} : e[l].name # n
    BY <2>1 DEF Unique
  <2> HIDE DEF u
  <2>9. Unique(u)
    <3>1. SUFFICES ASSUME NEW a \in DOMAIN u, NEW b \in DOMAIN u,
                          u[a].name = u[b].name
                   PROVE  a = b
      BY DEF Unique
    <3>2. PICK p \in DOMAIN e \ {k} : u[a] = e[p] /\ p = IF a < k THEN a ELSE a + 1
      BY <2>6
    <3>3. PICK q \in DOMAIN e \ {k} : u[b] = e[q] /\ q = IF b < k THEN b ELSE b + 1
      BY <2>6
    <3>4. p = q
      BY <3>1, <3>2, <3>3 DEF Unique
    <3> QED BY <3>2, <3>3, <3>4, <1>1, <2>1, <2>4
  <2>10. ASSUME NEW m
         PROVE  IsSet(u, m) <=> m # n /\ IsSet(e, m)
    BY <2>1, <2>6, <2>7, <2>8 DEF IsSet
  <2>11. ASSUME NEW m
         PROVE  get_env_value(u, m) = IF m = n THEN None ELSE get_env_value(e, m)
    <3>1. CASE m = n \/ ~ IsSet(e, m)
      BY <3>1, <2>10, NotSet
    <3>2. CASE m # n /\ IsSet(e, m)
      <4>1. PICK l \in DOMAIN e : e[l].name = m
        BY <3>2 DEF IsSet
      <4>2. PICK j \in DOMAIN u : u[j] = e[l]
        BY <2>1, <2>7, <3>2, <4>1
      <4> QED BY <3>2, <4>1, <4>2, <2>5, <2>9, OnlyFirst
    <3> QED BY <3>1, <3>2
  <2> QED BY <2>5, <2>9, <2>10, <2>11 DEF u
<1> QED BY <1>2, <1>3
-----------------------------------------------------------------------------
(* Types and unique names                                                  *)

(* Which command runs at which values of pc.                               *)
CdSteps == {"getcwd", "target", "chdir", "oldpwd", "getcwd_after", "pwd"}
Locations ==
  /\ cmd.name = "none" => pc = "prompt"
  /\ cmd.name \in {"export", "unset", "assign"} => pc \in {cmd.name, "prompt"}
  /\ cmd.name = "cd" => pc \in CdSteps \cup {"prompt"}

(* The locals of cd that are set at each step of it.                       *)
Locals ==
  /\ pc \in CdSteps \ {"getcwd"} => prev_dir \in Path
  /\ pc = "pwd" => new_dir \in Path

(* TypeOK and NamesUnique are inductive together: find_and_remove_var and  *)
(* update_env find all there is of a name only while names are unique.     *)
Consistent == TypeOK /\ NamesUnique /\ Locations /\ Locals

LEMMA InitConsistent == Init => Consistent
<1> SUFFICES ASSUME Init PROVE Consistent
  OBVIOUS
<1>1. TypeOK
  <2>1. env \in Seq(Variable) /\ place \in [Path -> Dir \cup {Nowhere}]
    BY InheritedOnce DEF Init
  <2>2. before \in [env : Seq(Variable), cwd : Dir]
    BY <2>1 DEF Init
  <2>3. cmd \in [name : {"none", "export", "unset", "assign"}, args : Seq(Word)]
    <3>1. cmd = [name |-> "none", args |-> <<>>]
      BY DEF Init
    <3>2. <<>> \in Seq(Word)
      OBVIOUS
    <3> QED BY <3>1, <3>2
  <2>4. i \in Nat \ {0} /\ status \in {0, 1}
    <3>1. i = 1 /\ status = 0
      BY DEF Init
    <3> QED BY <3>1
  <2>7. short \in BOOLEAN /\ moved \in BOOLEAN
    BY Zenon DEF Init
  <2>5. {target, prev_dir, new_dir} \subseteq Value \cup {None}
    <3>1. target = None /\ prev_dir = None /\ new_dir = None
      BY DEF Init
    <3> QED BY <3>1
  <2>6. cwd \in Dir /\ pc = "prompt"
    BY DEF Init
  <2> QED BY <2>1, <2>2, <2>3, <2>4, <2>5, <2>6, <2>7 DEF TypeOK
<1>2. NamesUnique
  BY InheritedOnce DEF Init, NamesUnique
<1>3. Locations /\ Locals
  BY DEF Init, Locations, Locals, CdSteps
<1> QED BY <1>1, <1>2, <1>3 DEF Consistent

(* The words the loops over arguments look at.                             *)
LEMMA Words ==
  ASSUME Consistent, pc \in {"export", "unset", "assign"}, i <= Len(cmd.args)
  PROVE  /\ cmd.name = pc
         /\ i \in DOMAIN cmd.args
         /\ cmd.args[i] \in Word
<1>1. cmd.name = pc /\ cmd \in [name : {"none", "export", "unset", "assign"},
                                args : Seq(Word)]
  BY DEF Consistent, TypeOK, Locations, CdSteps
<1>2. cmd.args \in Seq(Word) /\ i \in Nat \ {0}
  BY <1>1 DEF Consistent, TypeOK
<1> QED BY <1>1, <1>2

(* Every step of the shell and of the rest of the system leaves the array  *)
(* alone, updates one variable, or removes one.                            *)
LEMMA EnvStep ==
  ASSUME Consistent, [Next]_vars
  PROVE  \/ env' = env
         \/ \E n \in Name, v \in Value : env' = Updated(env, n, v)
         \/ \E n \in Name : env' = Removed(env, n)
<1> USE NameAssumption, NamesOfCd
<1>1. CASE ExportArg
  BY <1>1, Words DEF ExportArg, update_env, Word
<1>2. CASE UnsetArg
  BY <1>2 DEF UnsetArg
<1>3. CASE Assignment
  BY <1>3, Words DEF Assignment, update_env, Word, is_valid_assignment
<1>4. CASE UpdateOldPwd
  <2>1. prev_dir \in Value
    BY <1>4 DEF UpdateOldPwd, Consistent, Locals, CdSteps, Value
  <2> QED BY <1>4, <2>1 DEF UpdateOldPwd, update_env
<1>5. CASE UpdatePwd
  <2>1. new_dir \in Value
    BY <1>5 DEF UpdatePwd, Consistent, Locals, CdSteps, Value
  <2> QED BY <1>5, <2>1 DEF UpdatePwd, update_env
<1>6. CASE Export \/ Unset \/ Assign \/ Cd \/ NoMore
  BY <1>6 DEF Export, Unset, Assign, Cd, Begin, NoMore
<1>7. CASE GetcwdBefore \/ get_cd_target \/ Chdir \/ GetcwdAfter
  BY <1>7 DEF GetcwdBefore, get_cd_target, Chdir, GetcwdAfter, CdFails
<1>8. CASE World
  BY <1>8 DEF World, Rename, Remove, Make, Elsewhere
<1>9. CASE UNCHANGED vars
  BY <1>9 DEF vars
<1> QED BY <1>1, <1>2, <1>3, <1>4, <1>5, <1>6, <1>7, <1>8, <1>9
        DEF Next, Shell, CdStep

LEMMA CommandsTyped ==
  ASSUME NEW name \in {"export", "unset", "assign"}, NEW args \in Seq(Word)
  PROVE  [name |-> name, args |-> args]
           \in [name : {"none", "export", "unset", "assign"}, args : Seq(Word)]
OBVIOUS

(* The part of TypeOK that is about the command.                           *)
CommandTyped ==
  /\ pc \in {"prompt", "export", "unset", "assign"} \cup CdSteps
  /\ cmd \in [name : {"none", "export", "unset", "assign"}, args : Seq(Word)]
             \cup [name : {"cd"}, args : {<<a>> : a \in CdArgs}]
  /\ i \in Nat \ {0}
  /\ status \in {0, 1}
  /\ {target, prev_dir, new_dir} \subseteq Value \cup {None}
  /\ before \in [env : Seq(Variable), cwd : Dir]
  /\ short \in BOOLEAN /\ moved \in BOOLEAN

(* The part of TypeOK that is about the file system.                       *)
PlaceTyped == place \in [Path -> Dir \cup {Nowhere}] /\ cwd \in Dir

LEMMA Beginning ==
  ASSUME Consistent, Export \/ Unset \/ Assign \/ Cd
  PROVE  CommandTyped' /\ Locations' /\ Locals' /\ PlaceTyped'
<1>1. /\ env \in Seq(Variable) /\ cwd \in Dir /\ PlaceTyped
  BY DEF Consistent, TypeOK, PlaceTyped
<1>2. ASSUME NEW name, NEW args, NEW first, Begin(name, args, first),
             \/ name \in {"export", "unset", "assign"} /\ args \in Seq(Word)
                  /\ first = name
             \/ name = "cd" /\ args \in {<<a>> : a \in CdArgs}
                  /\ first = "getcwd"
      PROVE  CommandTyped' /\ Locations' /\ Locals' /\ PlaceTyped'
  <2>1. cmd' = [name |-> name, args |-> args] /\ pc' = first
    BY <1>2 DEF Begin
  <2>2. cmd'.name = name /\ cmd'.args = args
    BY <2>1
  <2>3. Locations' /\ Locals'
    BY <1>2, <2>1, <2>2 DEF Locations, Locals, CdSteps
  <2>4. cmd' \in [name : {"none", "export", "unset", "assign"}, args : Seq(Word)]
              \cup [name : {"cd"}, args : {<<a>> : a \in CdArgs}]
    BY <1>2, <2>1
  <2>5. [env |-> env, cwd |-> cwd] \in [env : Seq(Variable), cwd : Dir]
    BY <1>1
  <2>6. pc' \in {"prompt", "export", "unset", "assign"} \cup CdSteps
    BY <1>2, <2>1 DEF CdSteps
  <2>7. CommandTyped'
    <3>1. /\ i' = 1 /\ status' = 0 /\ short' = FALSE /\ moved' = FALSE
          /\ before' = [env |-> env, cwd |-> cwd]
          /\ target' = None /\ prev_dir' = None /\ new_dir' = None
      BY <1>2 DEF Begin
    <3>2. i' \in Nat \ {0} /\ status' \in {0, 1}
      BY <3>1
    <3>3. {target', prev_dir', new_dir'} \subseteq Value \cup {None}
      BY <3>1
    <3> QED BY <2>4, <2>5, <2>6, <3>1, <3>2, <3>3 DEF CommandTyped
  <2>8. PlaceTyped'
    BY <1>1, <1>2 DEF Begin, PlaceTyped
  <2> QED BY <2>3, <2>7, <2>8
<1>3. CASE Export
  BY <1>2, <1>3, WordAssumption DEF Export
<1>4. CASE Unset
  BY <1>2, <1>4, WordAssumption DEF Unset
<1>5. CASE Assign
  BY <1>2, <1>5, WordAssumption DEF Assign
<1>6. CASE Cd
  <2>1. PICK arg \in CdArgs : Begin("cd", <<arg>>, "getcwd")
    BY <1>6 DEF Cd
  <2>2. <<arg>> \in {<<a>> : a \in CdArgs}
    OBVIOUS
  <2> QED BY <1>2, <2>1, <2>2
<1> QED BY <1>3, <1>4, <1>5, <1>6

LEMMA NextConsistent == Consistent /\ [Next]_vars => Consistent'
<1> SUFFICES ASSUME Consistent, [Next]_vars PROVE Consistent'
  OBVIOUS
<1>1. env' \in Seq(Variable) /\ NamesUnique'
  BY EnvStep, UpdatedIsAssignment, RemovedIsUnset
     DEF Consistent, TypeOK, NamesUnique
<1>2. CommandTyped /\ PlaceTyped /\ Locations /\ Locals
  BY DEF Consistent, TypeOK, CommandTyped, PlaceTyped, CdSteps
<1>3. CommandTyped' /\ Locations' /\ Locals' /\ PlaceTyped'
  <2>1. CASE Export \/ Unset \/ Assign \/ Cd
    BY <2>1, Beginning
  <2>2. CASE NoMore
    BY <1>2, <2>2 DEF NoMore, Finish, CommandTyped, PlaceTyped, Locations,
                      Locals, CdSteps, dirs
  <2>3. CASE ExportArg
    BY <1>2, <2>3 DEF ExportArg, NextArg, update_env, CommandTyped, PlaceTyped,
                      Locations, Locals, CdSteps, dirs
  <2>4. CASE UnsetArg
    BY <1>2, <2>4 DEF UnsetArg, NextArg, CommandTyped, PlaceTyped,
                      Locations, Locals, CdSteps, dirs
  <2>5. CASE Assignment
    BY <1>2, <2>5 DEF Assignment, NextArg, Finish, update_env, CommandTyped,
                      PlaceTyped, Locations, Locals, CdSteps, dirs
  <2>6. CASE GetcwdBefore
    <3>1. PathOf(cwd) \subseteq Path /\ Path \subseteq Value
      BY DEF PathOf, Value
    <3>2. pc = "getcwd" /\ cmd.name = "cd"
      BY <1>2, <2>6 DEF GetcwdBefore, Locations, CdSteps, CommandTyped
    <3> QED BY <1>2, <2>6, <3>1, <3>2
            DEF GetcwdBefore, CdFails, Finish, CommandTyped, PlaceTyped,
                Locations, Locals, CdSteps, dirs
  <2>7. CASE get_cd_target
    <3>1. pc = "target" /\ cmd.name = "cd"
      BY <1>2, <2>7 DEF get_cd_target, Locations, CdSteps, CommandTyped
    <3>2. PICK arg \in CdArgs : cmd.args = <<arg>>
      BY <1>2, <3>1 DEF CommandTyped
    <3>3. CdTarget(cmd.args[1]) \in Value \cup {None}
      <4>1. cmd.args[1] = arg
        BY <3>2
      <4>2. \A n : get_env_value(env, n) \in Value \cup {None}
        BY ValueType DEF Consistent, TypeOK, NamesUnique
      <4>3. arg \notin {"", "~", "-"} => arg \in Value
        BY PlaceAssumption
      <4> QED BY <4>1, <4>2, <4>3 DEF CdTarget
    <3> QED BY <1>2, <2>7, <3>1, <3>3
            DEF get_cd_target, CdFails, Finish, CommandTyped, PlaceTyped,
                Locations, Locals, CdSteps, dirs
  <2>8. CASE Chdir
    <3>1. pc = "chdir" /\ cmd.name = "cd"
      BY <1>2, <2>8 DEF Chdir, Locations, CdSteps, CommandTyped
    <3>2. Resolve(target) \in Dir \cup {Nowhere}
      BY <1>2, PlaceAssumption DEF Resolve, PlaceTyped
    <3> QED BY <1>2, <2>8, <3>1, <3>2
            DEF Chdir, CdFails, Finish, CommandTyped, PlaceTyped,
                Locations, Locals, CdSteps, dirs
  <2>9. CASE UpdateOldPwd
    <3>1. pc = "oldpwd" /\ cmd.name = "cd"
      BY <1>2, <2>9 DEF UpdateOldPwd, Locations, CdSteps, CommandTyped
    <3> QED BY <1>2, <2>9, <3>1
            DEF UpdateOldPwd, update_env, CommandTyped, PlaceTyped,
                Locations, Locals, CdSteps, dirs
  <2>10. CASE GetcwdAfter
    <3>1. PathOf(cwd) \subseteq Path /\ Path \subseteq Value
      BY DEF PathOf, Value
    <3>2. pc = "getcwd_after" /\ cmd.name = "cd"
      BY <1>2, <2>10 DEF GetcwdAfter, Locations, CdSteps, CommandTyped
    <3> QED BY <1>2, <2>10, <3>1, <3>2
            DEF GetcwdAfter, CdFails, Finish, CommandTyped, PlaceTyped,
                Locations, Locals, CdSteps, dirs
  <2>11. CASE UpdatePwd
    <3>1. pc = "pwd" /\ cmd.name = "cd"
      BY <1>2, <2>11 DEF UpdatePwd, Locations, CdSteps, CommandTyped
    <3> QED BY <1>2, <2>11, <3>1
            DEF UpdatePwd, Finish, update_env, CommandTyped, PlaceTyped,
                Locations, Locals, CdSteps, dirs
  <2>12. CASE World
    <3>1. CommandTyped' /\ Locations' /\ Locals'
      BY ZenonT(60), <1>2, <2>12 DEF World, Rename, Remove, Make, Elsewhere, shell,
                         CommandTyped, Locations, Locals
    <3>2. PlaceTyped'
      BY <1>2, <2>12 DEF World, Rename, Remove, Make, Elsewhere, PlaceTyped
    <3> QED BY <3>1, <3>2
  <2>13. CASE UNCHANGED vars
    BY <1>2, <2>13 DEF vars, CommandTyped, PlaceTyped, Locations, Locals
  <2> QED BY <2>1, <2>2, <2>3, <2>4, <2>5, <2>6, <2>7, <2>8, <2>9, <2>10,
             <2>11, <2>12, <2>13 DEF Next, Shell, CdStep
<1>4. TypeOK'
  BY <1>1, <1>3 DEF TypeOK, CommandTyped, PlaceTyped, CdSteps
<1> QED BY <1>1, <1>3, <1>4 DEF Consistent

LEMMA AlwaysConsistent == Spec => []Consistent
BY InitConsistent, NextConsistent, PTL DEF Spec

(* The environment, the directories and the command keep their types.      *)
THEOREM EnvironmentTyped == Spec => []TypeOK
BY AlwaysConsistent, PTL DEF Consistent

(* Whatever sequence of export, unset, assignments and cd runs, and        *)
(* whichever allocations fail, no name stands twice in the array.          *)
THEOREM NamesStayUnique == Spec => []NamesUnique
BY AlwaysConsistent, PTL DEF Consistent
-----------------------------------------------------------------------------
(* Refinement                                                              *)

LEMMA MapOf ==
  ASSUME Consistent
  PROVE  /\ DOMAIN AsMap = {n \in Name : IsSet(env, n)}
         /\ AsMap \in [DOMAIN AsMap -> Value]
         /\ \A n \in DOMAIN AsMap : AsMap[n] = get_env_value(env, n)
<1>1. env \in Seq(Variable) /\ Unique(env)
  BY DEF Consistent, TypeOK, NamesUnique
<1>2. \A k \in DOMAIN env : env[k].name \in Name
  <2>1. \A k \in DOMAIN env : env[k] \in Variable
    BY <1>1
  <2> QED BY <2>1 DEF Variable
<1>3. \A n : n \in DOMAIN AsMap <=> IsSet(env, n)
  BY DEF AsMap, IsSet
<1>4. \A n \in DOMAIN AsMap : AsMap[n] = get_env_value(env, n)
  BY DEF AsMap
<1>5. \A n \in DOMAIN AsMap : AsMap[n] \in Value
  BY <1>1, <1>3, <1>4, ValueType
<1>6. AsMap = [n \in DOMAIN AsMap |-> AsMap[n]]
  BY DEF AsMap
<1>7. DOMAIN AsMap = {n \in Name : IsSet(env, n)}
  BY <1>2, <1>3 DEF IsSet
<1>8. AsMap \in [DOMAIN AsMap -> Value]
  BY <1>5, <1>6
<1> QED BY <1>4, <1>7, <1>8

LEMMA RefinesInit == Consistent => Map!Init
<1> SUFFICES ASSUME Consistent PROVE Map!Init
  OBVIOUS
<1>1. DOMAIN AsMap \in SUBSET Name /\ AsMap \in [DOMAIN AsMap -> Value]
  BY MapOf
<1> QED BY <1>1 DEF Map!Init

(* A step that updates one string assigns one variable of the map; a step  *)
(* that removes one unsets one.                                            *)
LEMMA RefinesNext ==
  Consistent /\ Consistent' /\ [Next]_vars => [Map!Next]_AsMap
<1> SUFFICES ASSUME Consistent, Consistent', [Next]_vars
             PROVE  [Map!Next]_AsMap
  OBVIOUS
<1>1. env \in Seq(Variable) /\ Unique(env)
  BY DEF Consistent, TypeOK, NamesUnique
<1>2. /\ DOMAIN AsMap = {n \in Name : IsSet(env, n)}
      /\ \A n \in DOMAIN AsMap : AsMap[n] = get_env_value(env, n)
      /\ AsMap = [n \in DOMAIN AsMap |-> AsMap[n]]
  BY MapOf DEF AsMap
<1>3. /\ AsMap' = [n \in {env'[k].name : k \in DOMAIN env'} |->
                      get_env_value(env', n)]
      /\ {env'[k].name : k \in DOMAIN env'} = {n \in Name : IsSet(env', n)}
  <2>1. env' \in Seq(Variable)
    BY DEF Consistent, TypeOK
  <2>2. \A k \in DOMAIN env' : env'[k].name \in Name
    <3>1. \A k \in DOMAIN env' : env'[k] \in Variable
      BY <2>1
    <3> QED BY <3>1 DEF Variable
  <2> QED BY <2>2 DEF AsMap, IsSet
<1>4. CASE env' = env
  <2>1. AsMap' = AsMap
    BY <1>4 DEF AsMap
  <2> QED BY <2>1
<1>5. ASSUME NEW n \in Name, NEW v \in Value, env' = Updated(env, n, v)
      PROVE  Map!Next
  <2>1. {m \in Name : IsSet(env', m)} = DOMAIN AsMap \cup {n}
    BY <1>1, <1>2, <1>5, UpdatedIsAssignment
  <2>2. \A m \in DOMAIN AsMap \cup {n} :
          get_env_value(env', m) = IF m = n THEN v ELSE AsMap[m]
    BY <1>1, <1>2, <1>5, UpdatedIsAssignment
  <2>3. Map!Assign(n, v)
    BY <1>3, <2>1, <2>2 DEF Map!Assign
  <2> QED BY <2>3 DEF Map!Next
<1>6. ASSUME NEW n \in Name, env' = Removed(env, n)
      PROVE  Map!Next
  <2>1. {m \in Name : IsSet(env', m)} = DOMAIN AsMap \ {n}
    BY <1>1, <1>2, <1>6, RemovedIsUnset
  <2>2. \A m \in DOMAIN AsMap \ {n} : get_env_value(env', m) = AsMap[m]
    BY <1>1, <1>2, <1>6, RemovedIsUnset
  <2>3. Map!Unset(n)
    BY <1>3, <2>1, <2>2 DEF Map!Unset
  <2> QED BY <2>3 DEF Map!Next
<1> QED BY <1>4, <1>5, <1>6, EnvStep

(* The array of strings, read by get_env_value, implements the map: every  *)
(* step of every builtin, under every failure, is an assignment to one     *)
(* name, the removal of one name, or nothing.                              *)
THEOREM ImplementsMap == Spec => IsMap
<1>1. Init => Map!Init
  BY InitConsistent, RefinesInit
<1> QED BY <1>1, AlwaysConsistent, RefinesNext, PTL DEF Spec, IsMap, Map!Spec
-----------------------------------------------------------------------------
(* unset                                                                   *)

(* unset, between two of its arguments: the names before the i-th are gone *)
(* and no other name is touched.                                           *)
UnsetGiven(n, m) ==
  /\ n \in Identifier
  /\ \E k \in DOMAIN cmd.args :
       k < m /\ cmd.args[k] = [name |-> n, value |-> NoEqual]

UnsetSoFar ==
  cmd.name = "unset" =>
    /\ pc = "prompt" => i > Len(cmd.args)
    /\ \A n \in Name :
         get_env_value(env, n) =
           IF UnsetGiven(n, i) THEN None ELSE get_env_value(before.env, n)

LEMMA BeginUnset ==
  ASSUME Consistent, Export \/ Unset \/ Assign \/ Cd
  PROVE  UnsetSoFar'
<1>1. CASE Unset
  <2>1. PICK args \in UnsetArgs : Begin("unset", args, "unset")
    BY <1>1 DEF Unset
  <2>2. /\ pc' = "unset" /\ i' = 1 /\ env' = env
        /\ before' = [env |-> env, cwd |-> cwd]
        /\ cmd' = [name |-> "unset", args |-> args] /\ args \in Seq(Word)
    BY <2>1, WordAssumption DEF Begin
  <2>3. \A n : ~ UnsetGiven(n, i)'
    BY <2>2 DEF UnsetGiven
  <2> QED BY <2>2, <2>3 DEF UnsetSoFar
<1>2. CASE Export \/ Assign \/ Cd
  <2>1. cmd'.name # "unset"
    BY <1>2 DEF Export, Assign, Cd, Begin
  <2> QED BY <2>1 DEF UnsetSoFar
<1> QED BY <1>1, <1>2

LEMMA UnsetArgStep ==
  ASSUME Consistent, UnsetSoFar, UnsetArg
  PROVE  UnsetSoFar'
<1>1. /\ pc = "unset" /\ i <= Len(cmd.args) /\ pc' = pc /\ cmd' = cmd
      /\ i' = i + 1 /\ before' = before
  BY DEF UnsetArg, NextArg
<1>2. /\ cmd.name = "unset" /\ i \in DOMAIN cmd.args /\ cmd.args[i] \in Word
      /\ i \in Nat /\ DOMAIN cmd.args \subseteq Nat
  BY <1>1, Words DEF Consistent, TypeOK
<1>3. env \in Seq(Variable) /\ Unique(env)
  BY DEF Consistent, TypeOK, NamesUnique
<1> DEFINE w == cmd.args[i]
<1> DEFINE valid == w.name \in Identifier /\ w.value = NoEqual
<1>4. env' = IF valid THEN Removed(env, w.name) ELSE env
  BY DEF UnsetArg
<1>5. w = [name |-> w.name, value |-> w.value]
  BY <1>2 DEF Word
<1>6. ASSUME NEW n \in Name
      PROVE  UnsetGiven(n, i)' <=> UnsetGiven(n, i) \/ (valid /\ w.name = n)
  <2>1. \A k \in DOMAIN cmd.args : k < i + 1 <=> k < i \/ k = i
    BY <1>2
  <2> QED BY <1>1, <1>2, <1>5, <2>1 DEF UnsetGiven
<1>7. ASSUME NEW n \in Name
      PROVE  get_env_value(env', n) =
               IF UnsetGiven(n, i)' THEN None ELSE get_env_value(before.env, n)
  <2>1. get_env_value(env, n) =
          IF UnsetGiven(n, i) THEN None ELSE get_env_value(before.env, n)
    BY <1>2 DEF UnsetSoFar
  <2>2. get_env_value(env', n) =
          IF valid /\ w.name = n THEN None ELSE get_env_value(env, n)
    BY <1>3, <1>4, RemovedIsUnset
  <2> QED BY <1>6, <2>1, <2>2
<1> HIDE DEF w, valid
<1> QED BY <1>1, <1>7 DEF UnsetSoFar

LEMMA UnsetKept == Consistent /\ UnsetSoFar /\ [Next]_vars => UnsetSoFar'
<1> SUFFICES ASSUME Consistent, UnsetSoFar, [Next]_vars PROVE UnsetSoFar'
  OBVIOUS
<1>1. CASE Export \/ Unset \/ Assign \/ Cd
  BY <1>1, BeginUnset
<1>2. CASE UnsetArg
  BY <1>2, UnsetArgStep
<1>3. CASE NoMore
  BY <1>3 DEF NoMore, Finish, UnsetSoFar, UnsetGiven
<1>4. CASE ExportArg \/ Assignment \/ CdStep
  <2>1. cmd.name # "unset"
    BY <1>4 DEF Consistent, Locations, ExportArg, Assignment, CdStep,
                GetcwdBefore, get_cd_target, Chdir, UpdateOldPwd, GetcwdAfter,
                UpdatePwd
  <2>2. cmd' = cmd
    BY <1>4 DEF ExportArg, Assignment, NextArg, Finish, CdFails, CdStep,
                GetcwdBefore, get_cd_target, Chdir, UpdateOldPwd, GetcwdAfter,
                UpdatePwd
  <2> QED BY <2>1, <2>2 DEF UnsetSoFar
<1>5. CASE World \/ UNCHANGED vars
  BY <1>5 DEF World, Rename, Remove, Make, Elsewhere, shell, vars, UnsetSoFar,
              UnsetGiven
<1> QED BY <1>1, <1>2, <1>3, <1>4, <1>5 DEF Next, Shell

(* unset removes exactly the names it was given that are identifiers,      *)
(* wherever they stand and whatever the other arguments are.               *)
THEOREM UnsetIsExact == Spec => []UnsetTells
<1>1. Init => UnsetSoFar
  BY DEF Init, UnsetSoFar
<1>2. Consistent /\ UnsetSoFar => UnsetTells
  <2> SUFFICES ASSUME Consistent, UnsetSoFar, pc = "prompt",
                      cmd.name = "unset", NEW n \in Name
               PROVE  get_env_value(env, n) =
                        IF n \in Identifier /\ \E k \in DOMAIN cmd.args :
                             cmd.args[k] = [name |-> n, value |-> NoEqual]
                        THEN None ELSE get_env_value(before.env, n)
    BY DEF UnsetTells
  <2>1. /\ cmd.args \in Seq(Word) /\ i \in Nat
    BY DEF Consistent, TypeOK
  <2>2. \A k \in DOMAIN cmd.args : k < i
    BY <2>1 DEF UnsetSoFar
  <2> QED BY <2>2 DEF UnsetSoFar, UnsetGiven
<1> QED BY <1>1, <1>2, UnsetKept, AlwaysConsistent, PTL DEF Spec
-----------------------------------------------------------------------------
(* export and assignments                                                  *)

(* The loops of export and of the assignments, between two of their words: *)
(* every variable has the last value the words before the i-th gave it.    *)
AssignedSoFar ==
  \A n \in Name :
    /\ (\A k \in Asked(n) : k >= i) =>
         get_env_value(env, n) = get_env_value(before.env, n)
    /\ \A k \in Asked(n) :
         (k < i /\ \A j \in Asked(n) : j < i => j <= k) =>
           get_env_value(env, n) = cmd.args[k].value

ExportSoFar ==
  cmd.name \in {"export", "assign"} =>
    /\ pc = "prompt" => \A n \in Name : \A k \in Asked(n) : k < i
    /\ (pc = "prompt" /\ cmd.name = "export") => i > Len(cmd.args)
    /\ pc = "assign" =>
         \A k \in DOMAIN cmd.args :
           k < i => is_valid_assignment(cmd.args[k])
    /\ ~short => AssignedSoFar
    /\ (~short /\ cmd.name = "export") =>
         (status = 0 <=> \A k \in DOMAIN cmd.args :
                           k < i => cmd.args[k].name \in Identifier)

LEMMA BeginExport ==
  ASSUME Consistent, Export \/ Unset \/ Assign \/ Cd
  PROVE  ExportSoFar'
<1>1. CASE Unset \/ Cd
  <2>1. cmd'.name \notin {"export", "assign"}
    BY <1>1 DEF Unset, Cd, Begin
  <2> QED BY <2>1 DEF ExportSoFar
<1>2. ASSUME NEW name \in {"export", "assign"}, NEW args \in Seq(Word),
             Begin(name, args, name)
      PROVE  ExportSoFar'
  <2>1. /\ pc' = name /\ i' = 1 /\ env' = env /\ status' = 0
        /\ before' = [env |-> env, cwd |-> cwd]
        /\ cmd' = [name |-> name, args |-> args]
    BY <1>2 DEF Begin
  <2>2. \A n : Asked(n)' \subseteq DOMAIN args /\ DOMAIN args \subseteq Nat \ {0}
    BY <2>1 DEF Asked
  <2>3. \A n : \A k \in Asked(n)' : k >= i' /\ ~ (k < i')
    BY <2>1, <2>2
  <2>4. AssignedSoFar'
    BY <2>1, <2>3 DEF AssignedSoFar
  <2>5. \A k \in DOMAIN cmd'.args : ~ (k < i')
    BY <2>1, <2>2
  <2> QED BY <2>1, <2>4, <2>5 DEF ExportSoFar
<1>3. CASE Export
  BY <1>2, <1>3, WordAssumption DEF Export
<1>4. CASE Assign
  BY <1>2, <1>4, WordAssumption DEF Assign
<1> QED BY <1>1, <1>3, <1>4

(* A word the loop passes without an assignment: it was not asked for.     *)
LEMMA SkippedWord ==
  ASSUME Consistent, AssignedSoFar, NEW w, w = cmd.args[i], i \in Nat,
         ~ is_valid_assignment(w),
         UNCHANGED <<env, before, cmd>>, i' = i + 1,
         DOMAIN cmd.args \subseteq Nat
  PROVE  AssignedSoFar'
<1>1. \A n : Asked(n)' = Asked(n) /\ Asked(n) \subseteq Nat /\ i \notin Asked(n)
  BY DEF Asked, is_valid_assignment
<1>2. \A n : \A k \in Asked(n) : (k < i + 1 <=> k < i) /\ (k >= i + 1 <=> k >= i)
  BY <1>1
<1> QED BY <1>1, <1>2 DEF AssignedSoFar

(* A word that is assigned is the last one asked for so far.               *)
LEMMA AssignedWord ==
  ASSUME Consistent, AssignedSoFar, NEW w \in Word, w = cmd.args[i],
         i \in DOMAIN cmd.args, i \in Nat,
         is_valid_assignment(w),
         cmd.name = "assign" =>
           \A j \in DOMAIN cmd.args : j < i => is_valid_assignment(cmd.args[j]),
         env' = Updated(env, w.name, w.value),
         UNCHANGED <<before, cmd>>, i' = i + 1,
         DOMAIN cmd.args = 1..Len(cmd.args), Len(cmd.args) \in Nat
  PROVE  AssignedSoFar'
<1>1. /\ env \in Seq(Variable) /\ Unique(env)
      /\ w.name \in Name /\ w.value \in Value
  BY NameAssumption DEF Consistent, TypeOK, NamesUnique, is_valid_assignment, Word
<1>2. \A n : get_env_value(env', n) =
               IF n = w.name THEN w.value ELSE get_env_value(env, n)
  BY <1>1, UpdatedIsAssignment
<1>3. i \in Asked(w.name)
  <2>1. \A j \in 1..i : j \in DOMAIN cmd.args /\ (j < i \/ j = i)
    OBVIOUS
  <2> QED BY <2>1 DEF Asked
<1>4. /\ \A n : Asked(n)' = Asked(n) /\ Asked(n) \subseteq Nat
      /\ \A n : n # w.name => i \notin Asked(n)
  BY DEF Asked, is_valid_assignment
<1>5. SUFFICES ASSUME NEW n \in Name
      PROVE  /\ (\A k \in Asked(n) : k >= i + 1) =>
                  get_env_value(env', n) = get_env_value(before.env, n)
             /\ \A k \in Asked(n) :
                  (k < i + 1 /\ \A j \in Asked(n) : j < i + 1 => j <= k) =>
                    get_env_value(env', n) = cmd.args[k].value
  BY <1>4 DEF AssignedSoFar
<1>6. CASE n = w.name
  <2>3. i \in Asked(n) /\ Asked(n) \subseteq Nat
    BY <1>3, <1>4, <1>6
  <2>1. ~ (\A k \in Asked(n) : k >= i + 1)
    <3>1. ~ (i >= i + 1)
      OBVIOUS
    <3> QED BY <2>3, <3>1
  <2>2. ASSUME NEW k \in Asked(n), k < i + 1,
               \A j \in Asked(n) : j < i + 1 => j <= k
        PROVE  k = i
    <3>1. k \in Nat /\ i <= k
      BY <2>2, <2>3
    <3> QED BY <2>2, <3>1
  <2> QED BY <1>2, <1>6, <2>1, <2>2
<1>7. CASE n # w.name
  <2>1. \A k \in Asked(n) : (k < i + 1 <=> k < i) /\ (k >= i + 1 <=> k >= i)
    BY <1>4, <1>7
  <2> QED BY <1>2, <1>7, <2>1 DEF AssignedSoFar
<1> QED BY <1>6, <1>7

LEMMA ExportArgStep ==
  ASSUME Consistent, ExportSoFar, ExportArg
  PROVE  ExportSoFar'
<1>1. /\ pc = "export" /\ i <= Len(cmd.args) /\ pc' = pc /\ cmd' = cmd
      /\ i' = i + 1 /\ before' = before
  BY DEF ExportArg, NextArg
<1>2. /\ cmd.name = "export" /\ i \in DOMAIN cmd.args /\ cmd.args[i] \in Word
      /\ i \in Nat /\ DOMAIN cmd.args = 1..Len(cmd.args) /\ Len(cmd.args) \in Nat
  BY <1>1, Words DEF Consistent, TypeOK
<1> DEFINE w == cmd.args[i]
<1>3. \A k \in DOMAIN cmd.args : k < i + 1 <=> k < i \/ k = i
  BY <1>2
<1>4. ASSUME ~short'
      PROVE  AssignedSoFar' /\ ~short
  <2>1. CASE is_valid_assignment(w)
    <3>1. env' = Updated(env, w.name, w.value) /\ ~short
      BY <1>4, <2>1 DEF ExportArg, update_env, is_valid_assignment
    <3> QED BY <1>1, <1>2, <2>1, <3>1, AssignedWord DEF ExportSoFar
  <2>2. CASE ~ is_valid_assignment(w)
    <3>1. env' = env /\ short' = short
      BY <2>2 DEF ExportArg, is_valid_assignment
    <3> QED BY <1>1, <1>2, <1>4, <2>2, <3>1, SkippedWord DEF ExportSoFar
  <2> QED BY <2>1, <2>2
<1>5. ~short' => status' = IF w.name \in Identifier THEN status ELSE 1
  BY DEF ExportArg, NextArg, update_env
<1>6. ~short' => (status' = 0 <=> \A k \in DOMAIN cmd.args :
                                   k < i + 1 => cmd.args[k].name \in Identifier)
  BY <1>2, <1>3, <1>4, <1>5 DEF ExportSoFar
<1> HIDE DEF w
<1> QED BY <1>1, <1>2, <1>4, <1>6 DEF ExportSoFar

LEMMA AssignmentStep ==
  ASSUME Consistent, ExportSoFar, Assignment
  PROVE  ExportSoFar'
<1>1. /\ pc = "assign" /\ i <= Len(cmd.args) /\ cmd' = cmd /\ before' = before
  BY DEF Assignment, NextArg, Finish
<1>2. /\ cmd.name = "assign" /\ i \in DOMAIN cmd.args /\ cmd.args[i] \in Word
      /\ i \in Nat /\ DOMAIN cmd.args = 1..Len(cmd.args) /\ Len(cmd.args) \in Nat
  BY <1>1, Words DEF Consistent, TypeOK
<1> DEFINE w == cmd.args[i]
<1>3. CASE is_valid_assignment(w)
  <2>1. pc' = pc /\ i' = i + 1
    BY <1>3 DEF Assignment, NextArg
  <2>2. \A k \in DOMAIN cmd.args : k < i + 1 <=> k < i \/ k = i
    BY <1>2
  <2>3. \A k \in DOMAIN cmd.args : k < i + 1 => is_valid_assignment(cmd.args[k])
    BY <1>1, <1>2, <1>3, <2>2 DEF ExportSoFar
  <2>4. ASSUME ~short' PROVE AssignedSoFar'
    <3>1. env' = Updated(env, w.name, w.value) /\ ~short
      BY <1>3, <2>4 DEF Assignment, update_env
    <3> QED BY <1>1, <1>2, <1>3, <2>1, <3>1, AssignedWord DEF ExportSoFar
  <2> QED BY <1>1, <1>2, <2>1, <2>3, <2>4 DEF ExportSoFar
<1>4. CASE ~ is_valid_assignment(w)
  <2>1. pc' = "prompt" /\ i' = i /\ env' = env /\ short' = short
    BY <1>4 DEF Assignment, Finish
  <2>2. ASSUME NEW n, NEW k \in Asked(n)
        PROVE  k < i
    <3>1. k \in 1..Len(cmd.args) /\ \A j \in 1..k : is_valid_assignment(cmd.args[j])
      BY <1>2 DEF Asked
    <3> QED BY <1>2, <1>4, <3>1
  <2>3. \A n : Asked(n)' = Asked(n)
    BY <1>1 DEF Asked
  <2>4. AssignedSoFar => AssignedSoFar'
    BY <1>1, <2>1, <2>3 DEF AssignedSoFar
  <2>5. \A n \in Name : \A k \in Asked(n)' : k < i'
    BY <2>1, <2>2, <2>3
  <2> QED BY <1>1, <1>2, <2>1, <2>4, <2>5 DEF ExportSoFar
<1> QED BY <1>3, <1>4

LEMMA ExportKept == Consistent /\ ExportSoFar /\ [Next]_vars => ExportSoFar'
<1> SUFFICES ASSUME Consistent, ExportSoFar, [Next]_vars PROVE ExportSoFar'
  OBVIOUS
<1>1. CASE Export \/ Unset \/ Assign \/ Cd
  BY <1>1, BeginExport
<1>2. CASE ExportArg
  BY <1>2, ExportArgStep
<1>3. CASE Assignment
  BY <1>3, AssignmentStep
<1>4. CASE NoMore
  <2>1. /\ pc \in {"export", "unset", "assign"} /\ i > Len(cmd.args)
        /\ pc' = "prompt" /\ UNCHANGED <<env, before, cmd, i, status, short>>
    BY <1>4 DEF NoMore, Finish
  <2>2. cmd.name \in {"export", "assign"} =>
          cmd.args \in Seq(Word) /\ i \in Nat
    BY DEF Consistent, TypeOK
  <2>3. \A n : Asked(n)' = Asked(n) /\ Asked(n) \subseteq DOMAIN cmd.args
    BY <2>1 DEF Asked
  <2>4. cmd.name \in {"export", "assign"} => \A k \in DOMAIN cmd.args : k < i
    BY <2>1, <2>2
  <2>5. AssignedSoFar => AssignedSoFar'
    BY <2>1, <2>3 DEF AssignedSoFar
  <2> QED BY <2>1, <2>3, <2>4, <2>5 DEF ExportSoFar
<1>5. CASE UnsetArg \/ CdStep
  <2>1. cmd.name \notin {"export", "assign"}
    BY <1>5 DEF Consistent, Locations, UnsetArg, CdStep, GetcwdBefore,
                get_cd_target, Chdir, UpdateOldPwd, GetcwdAfter, UpdatePwd
  <2>2. cmd' = cmd
    BY <1>5 DEF UnsetArg, NextArg, Finish, CdFails, CdStep, GetcwdBefore,
                get_cd_target, Chdir, UpdateOldPwd, GetcwdAfter, UpdatePwd
  <2> QED BY <2>1, <2>2 DEF ExportSoFar
<1>6. CASE World \/ UNCHANGED vars
  <2>1. UNCHANGED <<env, before, cmd, i, status, short, pc>>
    BY <1>6 DEF World, Rename, Remove, Make, Elsewhere, shell, vars
  <2>2. \A n : Asked(n)' = Asked(n)
    BY <2>1 DEF Asked
  <2>3. AssignedSoFar => AssignedSoFar'
    BY <2>1, <2>2 DEF AssignedSoFar
  <2> QED BY <2>1, <2>2, <2>3 DEF ExportSoFar
<1> QED BY <1>1, <1>2, <1>3, <1>4, <1>5, <1>6 DEF Next, Shell

(* export and the assignments before a command give every variable the     *)
(* last value asked for and disturb no other, and export returns 0 exactly *)
(* when every name was an identifier, unless an allocation fails.          *)
THEOREM ExportIsExact == Spec => []ExportTells
<1>1. Init => ExportSoFar
  BY DEF Init, ExportSoFar
<1>2. Consistent /\ ExportSoFar => ExportTells
  <2> SUFFICES ASSUME Consistent, ExportSoFar, pc = "prompt", ~short,
                      cmd.name \in {"export", "assign"}
               PROVE  /\ AssignedSoFar
                      /\ \A n \in Name : \A k \in Asked(n) : k < i /\ ~ (k >= i)
                      /\ cmd.name = "export" => \A k \in DOMAIN cmd.args : k < i
    BY DEF ExportTells, AssignedSoFar, ExportSoFar
  <2>1. cmd.args \in Seq(Word) /\ i \in Nat
    BY DEF Consistent, TypeOK
  <2>2. \A n : Asked(n) \subseteq Nat
    BY <2>1 DEF Asked
  <2> QED BY <2>1, <2>2 DEF ExportSoFar
<1> QED BY <1>1, <1>2, ExportKept, AlwaysConsistent, PTL DEF Spec
-----------------------------------------------------------------------------
(* cd                                                                      *)

(* cd, step by step: what it has done to the environment so far.  The last *)
(* conjuncts hold while no path changes and no allocation fails.           *)
CdSoFar ==
  cmd.name = "cd" =>
    /\ pc \in {"getcwd", "target", "chdir"} =>
         env = before.env /\ cwd = before.cwd
    /\ pc = "oldpwd" => env = before.env
    /\ pc \in {"getcwd_after", "pwd"} =>
         short \/ get_env_value(env, "OLDPWD") = prev_dir
    /\ ~short /\ ~moved =>
         /\ pc \in CdSteps \ {"getcwd"} => prev_dir \in PathOf(before.cwd)
         /\ pc \in {"oldpwd", "getcwd_after", "pwd"} => PathOf(cwd) # {}
         /\ pc \in {"getcwd_after", "pwd"} =>
              \A n \in Name \ {"OLDPWD"} :
                get_env_value(env, n) = get_env_value(before.env, n)
         /\ pc = "pwd" => new_dir \in PathOf(cwd)
         /\ CdTells

LEMMA CdKept == Consistent /\ CdSoFar /\ [Next]_vars => CdSoFar'
<1> SUFFICES ASSUME Consistent, CdSoFar, [Next]_vars PROVE CdSoFar'
  OBVIOUS
<1>1. /\ env \in Seq(Variable) /\ Unique(env)
      /\ pc \in CdSteps => cmd.name = "cd"
  BY DEF Consistent, TypeOK, NamesUnique, Locations, CdSteps
<1>2. CASE Export \/ Unset \/ Assign
  <2>1. cmd'.name # "cd"
    BY <1>2 DEF Export, Unset, Assign, Begin
  <2> QED BY <2>1 DEF CdSoFar
<1>3. CASE Cd
  <2>1. /\ pc' = "getcwd" /\ env' = env /\ cwd' = cwd
        /\ before' = [env |-> env, cwd |-> cwd]
    BY <1>3 DEF Cd, Begin
  <2> QED BY <2>1 DEF CdSoFar, CdTells, CdSteps
<1>4. CASE NoMore \/ ExportArg \/ UnsetArg \/ Assignment
  <2>1. cmd.name # "cd" /\ cmd' = cmd
    BY <1>4 DEF Consistent, Locations, CdSteps, NoMore, ExportArg, UnsetArg,
                Assignment, NextArg, Finish
  <2> QED BY <2>1 DEF CdSoFar
<1>5. CASE GetcwdBefore
  <2>1. pc = "getcwd" /\ env' = env /\ cwd' = cwd /\ place' = place
        /\ before' = before /\ moved' = moved /\ cmd' = cmd
    BY <1>5 DEF GetcwdBefore, CdFails, Finish, dirs
  <2>2. CASE pc' = "target" /\ prev_dir' \in PathOf(cwd) /\ short' = short
    BY <1>1, <2>1, <2>2 DEF CdSoFar, CdTells, CdSteps, PathOf
  <2>3. CASE pc' = "prompt" /\ status' = 1
    BY <1>1, <2>1, <2>3 DEF CdSoFar, CdTells, CdSteps
  <2> QED BY <1>5, <2>2, <2>3 DEF GetcwdBefore, CdFails, Finish
<1>6. CASE get_cd_target
  <2>1. pc = "target" /\ env' = env /\ cwd' = cwd /\ place' = place
        /\ before' = before /\ moved' = moved /\ cmd' = cmd
        /\ short' = short /\ prev_dir' = prev_dir
    BY <1>6 DEF get_cd_target, CdFails, Finish, dirs
  <2>2. pc' = "chdir" \/ (pc' = "prompt" /\ status' = 1)
    BY <1>6 DEF get_cd_target, CdFails, Finish
  <2> QED BY <1>1, <2>1, <2>2 DEF CdSoFar, CdTells, CdSteps, PathOf
<1>7. CASE Chdir
  <2>1. pc = "chdir" /\ env' = env /\ place' = place
        /\ before' = before /\ moved' = moved /\ cmd' = cmd
        /\ short' = short /\ prev_dir' = prev_dir
    BY <1>7 DEF Chdir, CdFails, Finish, dirs
  <2>2. CASE pc' = "prompt" /\ status' = 1 /\ cwd' = cwd
    BY <1>1, <2>1, <2>2 DEF CdSoFar, CdTells, CdSteps
  <2>3. CASE pc' = "oldpwd" /\ cwd' = Resolve(target) /\ cwd' # Nowhere
    <3>1. \E p \in Path : place[p] = cwd'
      BY <2>3, PlaceAssumption DEF Resolve
    <3>2. PathOf(cwd)' # {}
      BY <2>1, <3>1 DEF PathOf
    <3>3. prev_dir \in PathOf(before.cwd) => (prev_dir \in PathOf(before.cwd))'
      BY <2>1 DEF PathOf
    <3> QED BY <1>1, <2>1, <2>3, <3>2, <3>3 DEF CdSoFar, CdTells, CdSteps
  <2> QED BY <1>7, <2>2, <2>3 DEF Chdir, CdFails, Finish, dirs
<1>8. CASE UpdateOldPwd
  <2>1. pc = "oldpwd" /\ pc' = "getcwd_after" /\ cwd' = cwd /\ place' = place
        /\ before' = before /\ moved' = moved /\ cmd' = cmd
        /\ prev_dir' = prev_dir
    BY <1>8 DEF UpdateOldPwd, dirs
  <2>2. PICK failed \in BOOLEAN : update_env("OLDPWD", prev_dir, failed)
    BY <1>8 DEF UpdateOldPwd
  <2>3. CASE failed
    <3>1. short'
      BY <2>2, <2>3 DEF update_env
    <3> QED BY <2>1, <3>1 DEF CdSoFar, CdTells, CdSteps
  <2>4. CASE ~failed
    <3>1. env' = Updated(env, "OLDPWD", prev_dir) /\ (short' <=> short)
      BY <2>2, <2>4 DEF update_env
    <3>2. prev_dir \in Value /\ "OLDPWD" \in Name
      BY <2>1, NamesOfCd, NameAssumption DEF Consistent, Locals, CdSteps, Value
    <3>3. \A n : get_env_value(env', n) =
                   IF n = "OLDPWD" THEN prev_dir ELSE get_env_value(env, n)
      BY <1>1, <3>1, <3>2, UpdatedIsAssignment
    <3>4. env = before.env
      BY <1>1, <2>1 DEF CdSoFar, CdSteps
    <3>5. ~short /\ ~moved => prev_dir \in PathOf(before.cwd) /\ PathOf(cwd) # {}
      BY <1>1, <2>1 DEF CdSoFar, CdSteps
    <3>6. PathOf(before.cwd)' = PathOf(before.cwd) /\ PathOf(cwd)' = PathOf(cwd)
      BY <2>1 DEF PathOf
    <3> QED BY <2>1, <3>1, <3>3, <3>4, <3>5, <3>6 DEF CdSoFar, CdTells, CdSteps
  <2> QED BY <2>3, <2>4
<1>9. CASE GetcwdAfter
  <2>1. pc = "getcwd_after" /\ env' = env /\ cwd' = cwd /\ place' = place
        /\ before' = before /\ moved' = moved /\ cmd' = cmd
        /\ prev_dir' = prev_dir
    BY <1>9 DEF GetcwdAfter, CdFails, Finish, dirs
  <2>2. PathOf(before.cwd)' = PathOf(before.cwd) /\ PathOf(cwd)' = PathOf(cwd)
    BY <2>1 DEF PathOf
  <2>3. CASE pc' = "pwd" /\ new_dir' \in PathOf(cwd) /\ short' = short
    BY <1>1, <2>1, <2>2, <2>3 DEF CdSoFar, CdTells, CdSteps
  <2>4. CASE pc' = "prompt" /\ (short' \/ (PathOf(cwd) = {} /\ short' = short))
    BY <1>1, <2>1, <2>2, <2>4 DEF CdSoFar, CdTells, CdSteps
  <2> QED BY <1>9, <2>3, <2>4 DEF GetcwdAfter, CdFails, Finish
<1>10. CASE UpdatePwd
  <2>1. pc = "pwd" /\ pc' = "prompt" /\ status' = 0
        /\ cwd' = cwd /\ place' = place
        /\ before' = before /\ moved' = moved /\ cmd' = cmd
    BY <1>10 DEF UpdatePwd, Finish, dirs
  <2>2. PICK failed \in BOOLEAN : update_env("PWD", new_dir, failed)
    BY <1>10 DEF UpdatePwd
  <2>3. CASE failed
    <3>1. short'
      BY <2>2, <2>3 DEF update_env
    <3> QED BY <2>1, <3>1 DEF CdSoFar, CdTells, CdSteps
  <2>4. CASE ~failed
    <3>1. env' = Updated(env, "PWD", new_dir) /\ (short' <=> short)
      BY <2>2, <2>4 DEF update_env
    <3>2. new_dir \in Value /\ "PWD" \in Name
      BY <2>1, NamesOfCd, NameAssumption DEF Consistent, Locals, CdSteps, Value
    <3>3. \A n : get_env_value(env', n) =
                   IF n = "PWD" THEN new_dir ELSE get_env_value(env, n)
      BY <1>1, <3>1, <3>2, UpdatedIsAssignment
    <3>4. PathOf(before.cwd)' = PathOf(before.cwd) /\ PathOf(cwd)' = PathOf(cwd)
      BY <2>1 DEF PathOf
    <3>5. ~short /\ ~moved =>
            /\ new_dir \in PathOf(cwd)
            /\ prev_dir \in PathOf(before.cwd)
            /\ get_env_value(env, "OLDPWD") = prev_dir
            /\ \A n \in Name \ {"OLDPWD"} :
                 get_env_value(env, n) = get_env_value(before.env, n)
      BY <1>1, <2>1 DEF CdSoFar, CdSteps
    <3>6. ~short' /\ ~moved' => CdTells'
      BY <2>1, <3>1, <3>3, <3>4, <3>5 DEF CdTells
    <3> QED BY <2>1, <3>6 DEF CdSoFar, CdSteps
  <2> QED BY <2>3, <2>4
<1>11. CASE World
  <2>1. moved' /\ env' = env /\ cwd' = cwd /\ UNCHANGED <<shell, short>>
    BY <1>11 DEF World, Rename, Remove, Make, Elsewhere
  <2> QED BY <2>1 DEF CdSoFar, shell
<1>12. CASE UNCHANGED vars
  BY <1>12 DEF vars, CdSoFar, CdTells, PathOf
<1> QED BY <1>2, <1>3, <1>4, <1>5, <1>6, <1>7, <1>8, <1>9, <1>10, <1>11, <1>12
        DEF Next, Shell, CdStep

LEMMA AlwaysCdSoFar == Spec => []CdSoFar
<1>1. Init => CdSoFar
  BY DEF Init, CdSoFar
<1> QED BY <1>1, CdKept, AlwaysConsistent, PTL DEF Spec

(* cd is all or nothing as long as no directory moves and no allocation    *)
(* fails while it runs.                                                    *)
THEOREM CdIsAtomic == Spec => []CdTells
<1>1. CdSoFar => CdTells
  BY DEF CdSoFar, CdTells
<1> QED BY <1>1, AlwaysCdSoFar, PTL

(* cd leaves a trail whatever other processes do to the directories.       *)
THEOREM CdTrail == Spec => CdLeavesTrail
<1> DEFINE Trail ==
      (cmd.name = "cd" /\ pc # "prompt" /\ pc' = "prompt") =>
        \/ cwd' = before.cwd /\ env' = before.env
        \/ prev_dir # None /\ get_env_value(env', "OLDPWD") = prev_dir
        \/ short'
<1>1. ASSUME Consistent, CdSoFar, Next PROVE Trail
  <2> SUFFICES ASSUME cmd.name = "cd", pc # "prompt", pc' = "prompt"
               PROVE  \/ cwd' = before.cwd /\ env' = before.env
                      \/ prev_dir # None /\ get_env_value(env', "OLDPWD") = prev_dir
                      \/ short'
    OBVIOUS
  <2>1. CdStep
    BY <1>1 DEF Next, Shell, Export, Unset, Assign, Cd, Begin, NoMore, ExportArg,
                UnsetArg, Assignment, World, Rename, Remove, Make, Elsewhere,
                shell, Consistent, Locations, CdSteps
  <2>2. CASE GetcwdBefore \/ get_cd_target \/ Chdir
    <3>1. pc \in {"getcwd", "target", "chdir"} /\ env' = env /\ cwd' = cwd
      BY <2>2 DEF GetcwdBefore, get_cd_target, Chdir, CdFails, dirs
    <3> QED BY <1>1, <3>1 DEF CdSoFar
  <2>3. CASE UpdateOldPwd
    BY <2>3 DEF UpdateOldPwd
  <2>4. prev_dir \in Path => prev_dir # None
    BY NoneAssumption DEF Value
  <2>5. CASE GetcwdAfter
    <3>1. pc = "getcwd_after" /\ env' = env /\ (short => short')
      BY <2>5 DEF GetcwdAfter, CdFails
    <3>2. prev_dir \in Path
      BY <1>1, <3>1 DEF Consistent, Locals, CdSteps
    <3> QED BY <1>1, <3>1, <3>2, <2>4 DEF CdSoFar
  <2>6. CASE UpdatePwd
    <3>1. pc = "pwd" /\ prev_dir \in Path /\ new_dir \in Value
      BY <1>1, <2>6 DEF UpdatePwd, Consistent, Locals, CdSteps, Value
    <3>2. PICK failed \in BOOLEAN : update_env("PWD", new_dir, failed)
      BY <2>6 DEF UpdatePwd
    <3>3. CASE failed \/ short
      BY <3>2, <3>3 DEF update_env
    <3>4. CASE ~failed /\ ~short
      <4>1. env' = Updated(env, "PWD", new_dir)
        BY <3>2, <3>4 DEF update_env
      <4>2. get_env_value(env', "OLDPWD") = get_env_value(env, "OLDPWD")
        BY <1>1, <3>1, <4>1, UpdatedIsAssignment, NamesOfCd, NameAssumption
           DEF Consistent, TypeOK, NamesUnique
      <4>3. get_env_value(env, "OLDPWD") = prev_dir
        BY <1>1, <3>1, <3>4 DEF CdSoFar
      <4> QED BY <2>4, <3>1, <4>2, <4>3
    <3> QED BY <3>3, <3>4
  <2> QED BY <2>1, <2>2, <2>3, <2>5, <2>6 DEF CdStep
<1>2. ASSUME Consistent, CdSoFar, [Next]_vars PROVE [Trail]_vars
  BY <1>1, <1>2
<1> QED BY <1>2, AlwaysConsistent, AlwaysCdSoFar, PTL DEF Spec, CdLeavesTrail
=============================================================================
