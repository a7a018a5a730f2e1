---------------------------- MODULE Environment ----------------------------
(***************************************************************************)
(* The environment of the shell and the builtins that write it: export,    *)
(* unset, cd, and the assignments a line begins with.                      *)
(*                                                                         *)
(* shell->env is an array of "name=value" strings, searched from its       *)
(* beginning; here it is the sequence env of records.  An argument of      *)
(* export or unset, and an assignment, is a word: what stands before the   *)
(* first '=', and what stands after it, or NoEqual.  cd is the sequence of *)
(* the system calls it makes, one step each, because other processes       *)
(* rename, remove and make directories between them.                       *)
(***************************************************************************)
EXTENDS Naturals, Sequences

CONSTANTS
  Name,         \* what can stand before a '='
  Identifier,   \* the names is_valid_identifier accepts
  Path,         \* the names getcwd gives to directories
  Link,         \* symbolic links: a function to Path
  Text,         \* values that lead to no directory
  Dir,          \* directories, whatever their name is
  Inherited,    \* the environments the shell may be started with
  ExportArgs, UnsetArgs, Assignments,  \* sequences of words, one per command
  CdArgs,       \* arguments of cd
  NoEqual, Nowhere, None

Value == Path \cup DOMAIN Link \cup Text
Variable == [name : Name, value : Value]
Word == [name : Name, value : Value \cup {NoEqual}]

(* No name stands twice in an array.                                       *)
Unique(e) == \A a, b \in DOMAIN e : e[a].name = e[b].name => a = b

(* The program that starts the shell gives every name once.                *)
ASSUME InheritedOnce ==
  /\ Inherited \subseteq Seq(Variable)
  /\ \A e \in Inherited : Unique(e)
ASSUME NamesOfCd == {"PWD", "OLDPWD", "HOME"} \subseteq Identifier
ASSUME NameAssumption == Identifier \subseteq Name
ASSUME WordAssumption ==
  /\ ExportArgs \subseteq Seq(Word)
  /\ UnsetArgs \subseteq Seq(Word)
  /\ Assignments \subseteq Seq(Word)
ASSUME PlaceAssumption ==
  /\ DOMAIN Link \cap Path = {}
  /\ Link \in [DOMAIN Link -> Path]
  /\ Nowhere \notin Dir
  /\ CdArgs \subseteq Value \cup {"", "~", "-"}
  /\ {"", "~", "-"} \cap Value = {}
ASSUME NoneAssumption == NoEqual \notin Value /\ None \notin Value

VARIABLES
  env,          \* shell->env
  place,        \* the file system: the directory each path leads to
  cwd,          \* the directory the shell is in
  pc,           \* the step the current command is at, "prompt" between two
  cmd,          \* the current, or the last, command and its arguments
  i,            \* the argument the loop is at
  status,       \* exit status of the command so far
  target, prev_dir, new_dir,   \* the locals of cd
  before,       \* history: env and cwd when the command began
  short,        \* history: an allocation has failed since then
  moved         \* history: a path has changed since then

vars == <<env, place, cwd, pc, cmd, i, status, target, prev_dir, new_dir,
          before, short, moved>>
shell == <<pc, cmd, i, status, target, prev_dir, new_dir, before>>
dirs == <<place, cwd, moved>>
-----------------------------------------------------------------------------
(* The array                                                               *)

IsSet(e, n) == \E k \in DOMAIN e : e[k].name = n

(* The first string that begins with the name and a '='.                   *)
First(e, n) ==
  CHOOSE k \in DOMAIN e : e[k].name = n /\ \A j \in 1..(k - 1) : e[j].name # n

get_env_value(e, n) == IF IsSet(e, n) THEN e[First(e, n)].value ELSE None

(* Slips: no search for the name; a copy of the array one string short.    *)
Updated_Appends(e, n, v) == Append(e, [name |-> n, value |-> v])
Updated_DropsLast(e, n, v) ==
  IF IsSet(e, n) THEN [e EXCEPT ![First(e, n)].value = v]
  ELSE Append(SubSeq(e, 1, Len(e) - 1), [name |-> n, value |-> v])

Updated(e, n, v) ==
  IF IsSet(e, n) THEN [e EXCEPT ![First(e, n)].value = v]
                 ELSE Append(e, [name |-> n, value |-> v])

(* A slip: the move begins one string late.                                *)
Removed_Late(e, n) ==
  IF IsSet(e, n)
  THEN [k \in 1..(Len(e) - 1) |-> IF k <= First(e, n) THEN e[k] ELSE e[k + 1]]
  ELSE e

(* The strings behind the removed one move up by one.                      *)
Removed(e, n) ==
  IF IsSet(e, n)
  THEN [k \in 1..(Len(e) - 1) |-> IF k < First(e, n) THEN e[k] ELSE e[k + 1]]
  ELSE e

(* update_env either does its work or, when an allocation fails, nothing.  *)
update_env(n, v, failed) ==
  /\ env' = IF failed THEN env ELSE Updated(env, n, v)
  /\ short' = (short \/ failed)
-----------------------------------------------------------------------------
(* The file system                                                         *)

PathOf(d) == {p \in Path : place[p] = d}

Resolve(t) ==
  IF t \in DOMAIN Link THEN place[Link[t]]
  ELSE IF t \in Path THEN place[t] ELSE Nowhere

Elsewhere == /\ moved' = TRUE
             /\ UNCHANGED <<env, cwd, shell, short>>

Rename(p, q) ==
  /\ place[p] # Nowhere /\ place[q] = Nowhere
  /\ place' = [place EXCEPT ![p] = Nowhere, ![q] = place[p]]
  /\ Elsewhere

Remove(p) ==
  /\ place[p] # Nowhere
  /\ place' = [place EXCEPT ![p] = Nowhere]
  /\ Elsewhere

(* A directory that was removed under the shell is not made again.         *)
Make(p, d) ==
  /\ place[p] = Nowhere /\ PathOf(d) = {} /\ d # cwd
  /\ place' = [place EXCEPT ![p] = d]
  /\ Elsewhere
-----------------------------------------------------------------------------
Init ==
  /\ env \in Inherited
  /\ place \in {f \in [Path -> Dir \cup {Nowhere}] :
                  \A p, q \in Path : f[p] = f[q] => p = q \/ f[p] = Nowhere}
  /\ cwd \in Dir /\ PathOf(cwd) # {}
  /\ pc = "prompt" /\ cmd = [name |-> "none", args |-> <<>>]
  /\ i = 1 /\ status = 0
  /\ target = None /\ prev_dir = None /\ new_dir = None
  /\ before = [env |-> env, cwd |-> cwd]
  /\ short = FALSE /\ moved = FALSE

Begin(name, args, first) ==
  /\ pc = "prompt"
  /\ pc' = first /\ cmd' = [name |-> name, args |-> args]
  /\ i' = 1 /\ status' = 0 /\ short' = FALSE /\ moved' = FALSE
  /\ before' = [env |-> env, cwd |-> cwd]
  /\ target' = None /\ prev_dir' = None /\ new_dir' = None
  /\ UNCHANGED <<env, place, cwd>>

Export == \E args \in ExportArgs : Begin("export", args, "export")
Unset == \E args \in UnsetArgs : Begin("unset", args, "unset")
Assign == \E args \in Assignments : Begin("assign", args, "assign")
Cd == \E arg \in CdArgs : Begin("cd", <<arg>>, "getcwd")

Finish(s) ==
  /\ pc' = "prompt" /\ status' = s
  /\ UNCHANGED <<cmd, i, before>>

(* The end of the loops over the arguments.                                *)
NoMore ==
  /\ pc \in {"export", "unset", "assign"} /\ i > Len(cmd.args)
  /\ Finish(status)
  /\ UNCHANGED <<env, dirs, target, prev_dir, new_dir, short>>

(* A slip: the statuses of the arguments are added up.                     *)
NextArg_Adds(s) ==
  /\ i' = i + 1 /\ status' = status + s
  /\ UNCHANGED <<dirs, pc, cmd, target, prev_dir, new_dir, before>>

NextArg(s) ==
  /\ i' = i + 1 /\ status' = s
  /\ UNCHANGED <<dirs, pc, cmd, target, prev_dir, new_dir, before>>

(* A slip: a bad name ends the loop.                                       *)
ExportArg_Stops ==
  /\ pc = "export" /\ i <= Len(cmd.args)
  /\ LET w == cmd.args[i] IN
     \/ /\ w.name \notin Identifier
        /\ Finish(1)
        /\ UNCHANGED <<env, dirs, target, prev_dir, new_dir, short>>
     \/ /\ w.name \in Identifier /\ w.value # NoEqual
        /\ update_env(w.name, w.value, FALSE) /\ NextArg(status)

(* A bad name is reported and the loop goes on; a name without '=' is      *)
(* accepted and nothing is recorded for it.                                *)
ExportArg ==
  /\ pc = "export" /\ i <= Len(cmd.args)
  /\ LET w == cmd.args[i] IN
     \/ /\ w.name \notin Identifier
        /\ NextArg(1) /\ UNCHANGED <<env, short>>
     \/ /\ w.name \in Identifier /\ w.value = NoEqual
        /\ NextArg(status) /\ UNCHANGED <<env, short>>
     \/ /\ w.name \in Identifier /\ w.value # NoEqual
        /\ \E failed \in BOOLEAN :
             /\ update_env(w.name, w.value, failed)
             /\ NextArg(IF failed THEN 1 ELSE status)

(* A word with a '=' in it is not an identifier.                           *)
UnsetArg ==
  /\ pc = "unset" /\ i <= Len(cmd.args)
  /\ LET w == cmd.args[i]
         valid == w.name \in Identifier /\ w.value = NoEqual IN
     /\ env' = IF valid THEN Removed(env, w.name) ELSE env
     /\ NextArg(IF valid THEN status ELSE 1)
     /\ UNCHANGED short

is_valid_assignment(w) == w.name \in Identifier /\ w.value # NoEqual

(* The assignments before a command: the first word that is none ends the  *)
(* loop, and a failed allocation is reported and forgotten.                *)
Assignment ==
  /\ pc = "assign" /\ i <= Len(cmd.args)
  /\ LET w == cmd.args[i] IN
     \/ /\ ~ is_valid_assignment(w)
        /\ Finish(status)
        /\ UNCHANGED <<env, dirs, target, prev_dir, new_dir, short>>
     \/ /\ is_valid_assignment(w)
        /\ \E failed \in BOOLEAN : update_env(w.name, w.value, failed)
        /\ NextArg(status)
-----------------------------------------------------------------------------
(* cd                                                                      *)

CdFails == /\ Finish(1)
           /\ UNCHANGED <<env, dirs, target, prev_dir, new_dir>>

(* getcwd fails in a directory that has no path any more, and when its     *)
(* buffer cannot be allocated.                                             *)
GetcwdBefore ==
  /\ pc = "getcwd"
  /\ \/ \E p \in PathOf(cwd) :
          /\ prev_dir' = p /\ pc' = "target"
          /\ UNCHANGED <<env, dirs, cmd, i, status, target, new_dir, before,
                         short>>
     \/ PathOf(cwd) = {} /\ CdFails /\ UNCHANGED short
     \/ CdFails /\ short' = TRUE

CdTarget(arg) ==
  IF arg \in {"", "~"} THEN get_env_value(env, "HOME")
  ELSE IF arg = "-" THEN get_env_value(env, "OLDPWD") ELSE arg

get_cd_target ==
  /\ pc = "target"
  /\ LET t == CdTarget(cmd.args[1]) IN
     \/ t = None /\ CdFails /\ UNCHANGED short
     \/ /\ t # None /\ target' = t /\ pc' = "chdir"
        /\ UNCHANGED <<env, dirs, cmd, i, status, prev_dir, new_dir, before,
                       short>>

Chdir ==
  /\ pc = "chdir"
  /\ \/ /\ Resolve(target) # Nowhere
        /\ cwd' = Resolve(target) /\ pc' = "oldpwd"
        /\ UNCHANGED <<env, place, moved, cmd, i, status, target, prev_dir,
                       new_dir, before, short>>
     \/ Resolve(target) = Nowhere /\ CdFails /\ UNCHANGED short

(* A slip: OLDPWD is kept until the new directory has a path.              *)
UpdateOldPwd_Late ==
  /\ pc = "oldpwd"
  /\ \/ PathOf(cwd) = {} /\ CdFails /\ UNCHANGED short
     \/ /\ PathOf(cwd) # {} /\ update_env("OLDPWD", prev_dir, FALSE)
        /\ pc' = "getcwd_after"
        /\ UNCHANGED <<dirs, cmd, i, status, target, prev_dir, new_dir, before>>

UpdateOldPwd ==
  /\ pc = "oldpwd"
  /\ \E failed \in BOOLEAN : update_env("OLDPWD", prev_dir, failed)
  /\ pc' = "getcwd_after"
  /\ UNCHANGED <<dirs, cmd, i, status, target, prev_dir, new_dir, before>>

GetcwdAfter ==
  /\ pc = "getcwd_after"
  /\ \/ \E p \in PathOf(cwd) :
          /\ new_dir' = p /\ pc' = "pwd"
          /\ UNCHANGED <<env, dirs, cmd, i, status, target, prev_dir, before,
                         short>>
     \/ PathOf(cwd) = {} /\ CdFails /\ UNCHANGED short
     \/ CdFails /\ short' = TRUE

(* A slip: PWD gets what cd was asked for, not where it led.               *)
UpdatePwd_Target ==
  /\ pc = "pwd"
  /\ \E failed \in BOOLEAN : update_env("PWD", target, failed)
  /\ Finish(0)
  /\ UNCHANGED <<dirs, target, prev_dir, new_dir>>

UpdatePwd ==
  /\ pc = "pwd"
  /\ \E failed \in BOOLEAN : update_env("PWD", new_dir, failed)
  /\ Finish(0)
  /\ UNCHANGED <<dirs, target, prev_dir, new_dir>>

CdStep == GetcwdBefore \/ get_cd_target \/ Chdir \/ UpdateOldPwd
            \/ GetcwdAfter \/ UpdatePwd
-----------------------------------------------------------------------------
Shell == Export \/ Unset \/ Assign \/ Cd \/ NoMore \/ ExportArg \/ UnsetArg
           \/ Assignment \/ CdStep

World == \/ \E p, q \in Path : Rename(p, q)
         \/ \E p \in Path : Remove(p)
         \/ \E p \in Path, d \in Dir : Make(p, d)

Next == Shell \/ World

Spec == Init /\ [][Next]_vars
-----------------------------------------------------------------------------
TypeOK ==
  /\ env \in Seq(Variable)
  /\ place \in [Path -> Dir \cup {Nowhere}]
  /\ cwd \in Dir
  /\ pc \in {"prompt", "export", "unset", "assign", "getcwd", "target",
             "chdir", "oldpwd", "getcwd_after", "pwd"}
  /\ cmd \in [name : {"none", "export", "unset", "assign"}, args : Seq(Word)]
             \cup [name : {"cd"}, args : {<<a>> : a \in CdArgs}]
  /\ i \in Nat \ {0}
  /\ status \in {0, 1}
  /\ {target, prev_dir, new_dir} \subseteq Value \cup {None}
  /\ before \in [env : Seq(Variable), cwd : Dir]
  /\ short \in BOOLEAN /\ moved \in BOOLEAN

(* No name stands twice in the array, whatever the builtins did to it: a   *)
(* second string of a name would come back to life when unset removes the  *)
(* first one, and a program that searches from the end would see it.       *)
NamesUnique == Unique(env)

(* The array, read by get_env_value, is the map of Variables.tla: every    *)
(* step of every builtin is one assignment, one removal, or nothing.       *)
AsMap == [n \in {env[k].name : k \in DOMAIN env} |-> get_env_value(env, n)]
Map == INSTANCE Variables WITH value <- AsMap
IsMap == Map!Spec

(* What the words of an export, or the assignments a line begins with, ask *)
(* for: the last word of a name decides.                                   *)
Asked(n) ==
  {k \in DOMAIN cmd.args :
     /\ is_valid_assignment(cmd.args[k]) /\ cmd.args[k].name = n
     /\ cmd.name = "assign" =>
          \A j \in 1..k : is_valid_assignment(cmd.args[j])}
(* ft_export and apply_variable_assignment, when no allocation fails:      *)
(* every variable they were asked for has the last value given and every   *)
(* other variable is as it was.  A bad name makes export return 1 and does *)
(* not stop it; it ends the assignments.                                   *)
ExportTells ==
  (pc = "prompt" /\ cmd.name \in {"export", "assign"} /\ ~short) =>
    /\ \A n \in Name :
         /\ Asked(n) = {} =>
              get_env_value(env, n) = get_env_value(before.env, n)
         /\ \A k \in Asked(n) : (\A j \in Asked(n) : j <= k) =>
              get_env_value(env, n) = cmd.args[k].value
    /\ cmd.name = "export" =>
         (status = 0 <=> \A k \in DOMAIN cmd.args :
                           cmd.args[k].name \in Identifier)

(* ft_unset: none of the names it was given is left, none of the others is *)
(* lost, whatever their places in the array and whichever of the           *)
(* arguments were bad.                                                     *)
UnsetTells ==
  (pc = "prompt" /\ cmd.name = "unset") =>
    \A n \in Name :
      get_env_value(env, n) =
        IF n \in Identifier /\ \E k \in DOMAIN cmd.args :
             cmd.args[k] = [name |-> n, value |-> NoEqual]
        THEN None ELSE get_env_value(before.env, n)

(* ft_cd, when nobody moves a directory and no allocation fails while it   *)
(* runs, and it was started in a directory that has a path: it is all or   *)
(* nothing.  0: PWD is where the shell is, OLDPWD where it was, nothing    *)
(* else changed.  1: the shell is where it was and no variable changed.    *)
CdTells ==
  (pc = "prompt" /\ cmd.name = "cd" /\ ~short /\ ~moved) =>
    \/ /\ status = 0
       /\ get_env_value(env, "PWD") \in PathOf(cwd)
       /\ get_env_value(env, "OLDPWD") \in PathOf(before.cwd)
       /\ \A n \in Name \ {"PWD", "OLDPWD"} :
            get_env_value(env, n) = get_env_value(before.env, n)
    \/ status = 1 /\ cwd = before.cwd /\ env = before.env

(* Whatever other processes do meanwhile, cd leaves a trail: it ends with  *)
(* nothing changed, or with OLDPWD the path the old directory had when cd  *)
(* began, be its own status 0 or 1; only a lack of memory breaks this.     *)
CdLeavesTrail ==
  [][(cmd.name = "cd" /\ pc # "prompt" /\ pc' = "prompt") =>
       \/ cwd' = before.cwd /\ env' = before.env
       \/ prev_dir # None /\ get_env_value(env', "OLDPWD") = prev_dir
       \/ short']_vars
=============================================================================
