---------------------------- MODULE CommandList ----------------------------
(***************************************************************************)
(* How a word becomes a command.  The parser asks search_list             *)
(* (src/parser/tokenlst): it counts the entries of the directories of      *)
(* PATH, allocates a list, reads the directories again to fill it and      *)
(* searches it.  Later the child that is to run the command asks           *)
(* find_command_path (src/execution/executor_utils_path.c), which tries    *)
(* the directories in their order.  Every readdir, stat, access and execve *)
(* is a step, and other processes create, remove, replace and rename       *)
(* entries and directories in between.                                     *)
(***************************************************************************)
EXTENDS Naturals, Sequences, FiniteSets

CONSTANTS
  Letter,       \* characters of the names of directories
  PathValues,   \* values of PATH
  NULL,         \* PATH is not set
  Cwd,          \* the working directory
  Word,         \* the word: no "/" in it
  Others,       \* other entries of directories
  Contents,     \* what a directory may hold
  NoDir,        \* the path leads to no directory
  MaxChanges,   \* bound: changes other processes make
  MaxFailures   \* bound: calls that fail

Name == {Word} \cup Others
\* A regular file one may execute or not, a directory.
Kind == {"program", "plain", "dir"}
Colon == ":"

ASSUME CommandListAssumption ==
  /\ Word \notin Others /\ IsFiniteSet(Others)
  /\ Colon \notin Letter
  /\ PathValues \subseteq Seq(Letter \cup {Colon}) /\ NULL \notin PathValues
  /\ Contents \subseteq [Name -> Kind \cup {"none"}]
  /\ NoDir \notin [Name -> Kind \cup {"none"}]
  /\ MaxChanges \in Nat /\ MaxFailures \in Nat
-----------------------------------------------------------------------------
(* ft_split: the words between separators; there are no empty words.       *)

\* ft_countwords counts these, ft_takeword goes to the next of them.
IsStart(s, c, k) == s[k] # c /\ (k > 1 => s[k - 1] = c)
Starts(s, c, k) == Cardinality({j \in 1..k : IsStart(s, c, j)})
ft_countwords(s, c) == Starts(s, c, Len(s))
ft_takeword(s, c, i) ==
  LET first == CHOOSE k \in DOMAIN s : IsStart(s, c, k) /\ Starts(s, c, k) = i
      last == CHOOSE k \in first..Len(s) :
                /\ k = Len(s) \/ s[k + 1] = c
                /\ \A j \in first..k : s[j] # c
  IN SubSeq(s, first, last)
ft_split(s, c) == [i \in 1..ft_countwords(s, c) |-> ft_takeword(s, c, i)]
-----------------------------------------------------------------------------
VARIABLES
  PATH,      \* its value, or NULL
  dirs,      \* directory -> its entries
  pc,        \* where the word is
  at,        \* the directory of PATH a loop is at
  scan,      \* the directory stream that is open
  count,     \* the entries counted
  list,      \* the entries stored; there is room for count + 1 pointers
  listed,    \* search_list's answer
  place,     \* find_command_path's answer: a place in PATH, 0 for NULL
  changes, failures,
  created,   \* history: entries that have come into being since the start
  kinds      \* history: directory -> what Word has been there since the
             \* list was filled, or find_command_path called

vars == <<PATH, dirs, pc, at, scan, count, list, listed, place, changes,
          failures, created, kinds>>
world == <<PATH, dirs, changes, created, kinds>>
answers == <<listed, place>>

Dir == {Cwd} \cup UNION {{ft_split(p, Colon)[k] : k \in 1..ft_countwords(p, Colon)} :
                           p \in PathValues}
get_path_list == ft_split(PATH, Colon)
Path(k) == get_path_list[k]

EntriesOf(content) == {n \in Name : content[n] # "none"}
KindAt(ds, d) == IF ds[d] = NoDir THEN "none" ELSE ds[d][Word]
Afresh == [d \in Dir |-> {KindAt(dirs, d)}]

NoScan == [open |-> FALSE, live |-> FALSE, may |-> {}, must |-> {},
           returned |-> {}]

Init ==
  /\ PATH \in PathValues \cup {NULL}
  /\ dirs \in [Dir -> Contents \cup {NoDir}]
  /\ pc = "stat_cwd" /\ at = 1 /\ scan = NoScan /\ count = 0 /\ list = <<>>
  /\ listed = FALSE /\ place = 0
  /\ changes = 0 /\ failures = 0 /\ created = 0
  /\ kinds = Afresh

Fails == failures < MaxFailures /\ failures' = failures + 1
Works == failures' = failures
Goto(l) == pc' = l
-----------------------------------------------------------------------------
(* search_list.                                                            *)

\* is_valid_exc, on the word itself: is_regular_file, then is_executable.
StatCwd ==
  /\ pc = "stat_cwd"
  /\ Goto(IF KindAt(dirs, Cwd) \in {"program", "plain"}
          THEN "access_cwd" ELSE "get_path")
  /\ UNCHANGED <<world, at, scan, count, list, answers, failures>>

AccessCwd ==
  /\ pc = "access_cwd"
  /\ LET ok == KindAt(dirs, Cwd) \in {"program", "dir"}
     IN listed' = ok /\ Goto(IF ok THEN "typed" ELSE "get_path")
  /\ UNCHANGED <<world, at, scan, count, list, place, failures>>

\* get_path_list, for count_commands_in_path.
GetPath ==
  /\ pc = "get_path"
  /\ \/ PATH = NULL /\ Goto("typed") /\ Works
     \/ PATH # NULL /\ Goto("typed") /\ Fails
     \/ PATH # NULL /\ Goto("count") /\ Works
  /\ UNCHANGED <<world, at, scan, count, list, answers>>

InPath == at <= Len(get_path_list)

\* opendir; a directory that cannot be opened is skipped.
OpenDir ==
  /\ pc \in {"count", "fill"} /\ InPath /\ ~scan.open
  /\ \/ /\ dirs[Path(at)] # NoDir /\ Works
        /\ scan' = [open |-> TRUE, live |-> TRUE, returned |-> {},
                    may |-> EntriesOf(dirs[Path(at)]),
                    must |-> EntriesOf(dirs[Path(at)])]
        /\ at' = at
     \/ /\ dirs[Path(at)] = NoDir /\ Works
        /\ at' = at + 1 /\ UNCHANGED scan
     \/ dirs[Path(at)] # NoDir /\ Fails /\ at' = at + 1 /\ UNCHANGED scan
  /\ UNCHANGED <<world, pc, count, list, answers>>

\* readdir gives each entry that is there all the time once, and may give or
\* not what comes or goes meanwhile.
Readdir(n) ==
  /\ scan.open /\ n \in scan.may \ scan.returned
  /\ scan' = [scan EXCEPT !.returned = @ \cup {n}]

\* Mutant: only files are counted.
CountEntry_Files ==
  /\ pc = "count" /\ Works
  /\ \E n \in Name :
       /\ Readdir(n)
       /\ count' = IF dirs[Path(at)] # NoDir /\ dirs[Path(at)][n] = "dir"
                   THEN count ELSE count + 1
  /\ UNCHANGED <<world, pc, at, list, answers>>

CountEntry ==
  /\ pc = "count" /\ Works
  /\ \E n \in Name : Readdir(n)
  /\ count' = count + 1
  /\ UNCHANGED <<world, pc, at, list, answers>>

\* readdir gives NULL, at the end or on an error; closedir.
CloseDir ==
  /\ pc \in {"count", "fill"} /\ scan.open
  /\ (scan.must \subseteq scan.returned /\ Works) \/ Fails
  /\ scan' = NoScan /\ at' = at + 1
  /\ UNCHANGED <<world, pc, count, list, answers>>

\* malloc of count + 1 pointers; populate_command_list splits PATH once more,
\* and if that fails init_command_list frees what is in a list never written.
Allocate ==
  /\ pc = "count" /\ ~InPath
  /\ \/ Goto("fill") /\ Works
     \/ Goto("typed") /\ Fails
     \/ Goto("freed_garbage") /\ Fails
  /\ at' = 1 /\ kinds' = Afresh
  /\ UNCHANGED <<PATH, dirs, scan, count, list, answers, changes, created>>

\* One entry is stored: beyond the allocation, if there are more than counted.
\* strdup may fail, which ends the search.
FillEntry ==
  /\ pc = "fill"
  /\ \E n \in Name :
       /\ Readdir(n)
       /\ \/ Len(list) > count /\ Goto("overrun") /\ Works /\ UNCHANGED list
          \/ Len(list) <= count /\ Works /\ list' = Append(list, n)
             /\ UNCHANGED pc
          \/ Len(list) <= count /\ Goto("typed") /\ Fails /\ UNCHANGED list
  /\ UNCHANGED <<world, at, count, answers>>

\* Mutant: the entry filled in last is not looked at.
Search_AllButLast ==
  /\ pc = "fill" /\ ~InPath /\ Works
  /\ IF Len(list) > count THEN Goto("overrun") /\ UNCHANGED listed
     ELSE /\ Goto("typed")
          /\ listed' = \E k \in 1..(Len(list) - 1) : list[k] = Word
  /\ UNCHANGED <<world, at, scan, count, list, place>>

\* The terminating NULL, and the search.
Search ==
  /\ pc = "fill" /\ ~InPath /\ Works
  /\ IF Len(list) > count THEN Goto("overrun") /\ UNCHANGED listed
     ELSE Goto("typed") /\ listed' = \E k \in DOMAIN list : list[k] = Word
  /\ UNCHANGED <<world, at, scan, count, list, place>>
-----------------------------------------------------------------------------
(* child_exec_external, for a word typed as a command.                     *)

\* search_in_path_env: get_env_value and ft_split.
FindCommandPath ==
  /\ pc = "typed" /\ listed
  /\ \/ PATH = NULL /\ Goto("missing") /\ Works
     \/ PATH # NULL /\ Goto("missing") /\ Fails
     \/ PATH # NULL /\ Goto("access") /\ Works
  /\ at' = 1 /\ kinds' = Afresh
  /\ UNCHANGED <<PATH, dirs, scan, count, list, answers, changes, created>>

\* check_path_access: a path is joined, which may fail, and access asks whether
\* one may execute it ...
Access ==
  /\ pc = "access"
  /\ \/ ~InPath /\ Goto("missing") /\ Works /\ UNCHANGED at
     \/ InPath /\ Goto("missing") /\ Fails /\ UNCHANGED at
     \/ /\ InPath /\ Works
        /\ KindAt(dirs, Path(at)) \in {"program", "dir"}
        /\ Goto("stat") /\ UNCHANGED at
     \/ /\ InPath /\ Works
        /\ KindAt(dirs, Path(at)) \notin {"program", "dir"}
        /\ Goto("access") /\ at' = at + 1
  /\ UNCHANGED <<world, scan, count, list, answers>>

\* Mutant: directories are not told from programs.
Stat_Any ==
  /\ pc = "stat" /\ Works
  /\ place' = at /\ Goto("execve") /\ UNCHANGED at
  /\ UNCHANGED <<world, scan, count, list, listed>>

\* ... and stat whether it is something else than a directory.
Stat ==
  /\ pc = "stat" /\ Works
  /\ IF KindAt(dirs, Path(at)) \in {"program", "plain"}
     THEN place' = at /\ Goto("execve") /\ UNCHANGED at
     ELSE at' = at + 1 /\ Goto("access") /\ UNCHANGED place
  /\ UNCHANGED <<world, scan, count, list, listed>>

\* The program runs, or is not executable (126) or gone by now (1).
Execve ==
  /\ pc = "execve" /\ Works
  /\ Goto(CASE KindAt(dirs, Path(place)) = "program" -> "runs"
            [] KindAt(dirs, Path(place)) \in {"plain", "dir"} -> "denied"
            [] OTHER -> "gone")
  /\ UNCHANGED <<world, at, scan, count, list, answers>>
-----------------------------------------------------------------------------
(* Other processes.                                                        *)

Ended == {"missing", "runs", "denied", "gone", "overrun", "freed_garbage"}

Remember ==
  /\ kinds' = [d \in Dir |-> kinds[d] \cup {KindAt(dirs', d)}]
  /\ changes < MaxChanges /\ changes' = changes + 1
  /\ pc \notin Ended /\ ~(pc = "typed" /\ ~listed)
  /\ UNCHANGED <<PATH, pc, at, count, list, answers, failures>>

Scanned(d) == scan.live /\ d = Path(at)

\* An entry is created, removed or replaced.
ChangeEntry(d, n, k) ==
  LET new == dirs[d][n] = "none" /\ k # "none" IN
  /\ dirs[d] # NoDir /\ dirs[d][n] # k
  /\ dirs' = [dirs EXCEPT ![d][n] = k]
  /\ created' = IF new THEN created + 1 ELSE created
  /\ scan' = IF ~Scanned(d) THEN scan
             ELSE IF new THEN [scan EXCEPT !.may = @ \cup {n},
                                           !.returned = @ \ {n}]
             ELSE IF k = "none" THEN [scan EXCEPT !.must = @ \ {n}]
             ELSE scan
  /\ Remember

\* A directory is renamed, and another one may take its place; a stream that is
\* open stays with the one it was opened on.
ChangeDirectory(d, content) ==
  /\ dirs[d] # content
  /\ dirs' = [dirs EXCEPT ![d] = content]
  /\ created' = IF content = NoDir THEN created
                ELSE created + Cardinality(EntriesOf(content))
  /\ scan' = IF Scanned(d) THEN [scan EXCEPT !.live = FALSE] ELSE scan
  /\ Remember

Step ==
  \/ StatCwd \/ AccessCwd \/ GetPath \/ OpenDir \/ CountEntry \/ CloseDir
  \/ Allocate \/ FillEntry \/ Search
  \/ FindCommandPath \/ Access \/ Stat \/ Execve

World ==
  \E d \in Dir :
    \/ \E k \in Kind \cup {"none"} : ChangeEntry(d, Word, k)
    \/ \E n \in Others, k \in {"plain", "none"} : ChangeEntry(d, n, k)
    \/ \E content \in Contents \cup {NoDir} : ChangeDirectory(d, content)

Next == Step \/ World

Spec == Init /\ [][Next]_vars /\ WF_vars(Step)
-----------------------------------------------------------------------------
Location == {"stat_cwd", "access_cwd", "get_path", "count", "fill", "typed",
             "access", "stat", "execve"} \cup Ended

\* Types: the list never holds more than the count + 1 pointers it has room for,
\* because what is written behind it ends the model.
TypeOK ==
  /\ PATH \in PathValues \cup {NULL}
  /\ dirs \in [Dir -> [Name -> Kind \cup {"none"}] \cup {NoDir}]
  /\ pc \in Location
  /\ at \in Nat \ {0}
  /\ scan \in [open : BOOLEAN, live : BOOLEAN, may : SUBSET Name,
               must : SUBSET Name, returned : SUBSET Name]
  /\ count \in Nat /\ list \in Seq(Name) /\ Len(list) <= count + 1
  /\ listed \in BOOLEAN /\ place \in Nat
  /\ changes \in 0..MaxChanges /\ failures \in 0..MaxFailures /\ created \in Nat
  /\ kinds \in [Dir -> SUBSET (Kind \cup {"none"})]

\* What the second pass over the directories stores is no more than what the
\* first one counted, unless an entry has come into being since: whatever is
\* removed, replaced or renamed away between two calls, and however often a
\* directory is in PATH.
FilledFits ==
  pc \in {"fill", "overrun"} /\ failures = 0 /\ created = 0 =>
    Len(list) <= count

\* search_list: a word that is taken for a command was an entry of a directory
\* of PATH at some time while the list was filled, or where the shell is it was
\* a regular file, and something one may execute, each at some time; a word that
\* is not was missing from each directory of PATH at some time.
ListTells ==
  pc = "typed" /\ PATH # NULL /\ failures = 0 =>
    LET path == {get_path_list[k] : k \in DOMAIN get_path_list} IN
    IF listed
    THEN \/ /\ kinds[Cwd] \cap {"program", "plain"} # {}
            /\ kinds[Cwd] \cap {"program", "dir"} # {}
         \/ \E d \in path : kinds[d] \cap Kind # {}
    ELSE \A d \in path : "none" \in kinds[d]

\* find_command_path gives the first program of that name: it was executable
\* and no directory, each at some time, and none of the directories before it
\* has had such a program all the time; "command not found" says this of all.
RunsFirstOnPath ==
  PATH # NULL /\ failures = 0 =>
    /\ pc \in {"execve", "runs", "denied", "gone"} =>
         /\ kinds[Path(place)] \cap {"program", "dir"} # {}
         /\ kinds[Path(place)] \cap {"program", "plain"} # {}
         /\ \A k \in 1..(place - 1) : kinds[Path(k)] # {"program"}
    /\ pc = "missing" =>
         \A k \in DOMAIN get_path_list : kinds[Path(k)] # {"program"}
=============================================================================
