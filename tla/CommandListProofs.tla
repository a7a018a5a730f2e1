-------------------------- MODULE CommandListProofs --------------------------
(***************************************************************************)
(* Theorems about CommandList for every PATH, whatever the directories     *)
(* hold and however often other processes change them.                     *)
(***************************************************************************)
EXTENDS CommandList, TLAPS, FiniteSetTheorems, SequenceTheorems

-----------------------------------------------------------------------------
(* What the helpers return. *)

LEMMA NameFinite == IsFiniteSet(Name) /\ Word \in Name
  BY CommandListAssumption, FS_AddElement DEF Name

\* The words of PATH are directories the model knows.
LEMMA PathType ==
  ASSUME TypeOK, PATH # NULL
  PROVE  /\ get_path_list \in Seq(Dir)
         /\ DOMAIN get_path_list = 1..Len(get_path_list)
         /\ \A k \in 1..Len(get_path_list) : Path(k) \in Dir
<1>1. PATH \in PathValues /\ PATH \in Seq(Letter \cup {Colon})
  BY CommandListAssumption DEF TypeOK
<1>2. ft_countwords(PATH, Colon) \in Nat
  <2> DEFINE S == {j \in 1..Len(PATH) : IsStart(PATH, Colon, j)}
  <2>1. IsFiniteSet(1..Len(PATH)) /\ S \subseteq 1..Len(PATH)
    BY <1>1, FS_Interval
  <2>2. Cardinality(S) \in Nat
    BY <2>1, FS_Subset, FS_CardinalityType
  <2> QED
    BY <2>2 DEF ft_countwords, Starts
<1>3. \A k \in 1..ft_countwords(PATH, Colon) : get_path_list[k] \in Dir
  <2> DEFINE W(p) == {ft_split(p, Colon)[k] : k \in 1..ft_countwords(p, Colon)}
  <2>1. \A k \in 1..ft_countwords(PATH, Colon) : get_path_list[k] \in W(PATH)
    BY DEF get_path_list
  <2>2. W(PATH) \subseteq UNION {W(p) : p \in PathValues}
    <3> HIDE DEF W
    <3> QED
      BY <1>1
  <2> QED
    BY <2>1, <2>2, Zenon DEF Dir
<1>4. get_path_list = [k \in 1..ft_countwords(PATH, Colon) |-> get_path_list[k]]
  BY DEF get_path_list, ft_split
<1> DEFINE n == ft_countwords(PATH, Colon)
           l == get_path_list
<1> HIDE DEF n, l
<1>5. n \in Nat /\ l = [k \in 1..n |-> l[k]] /\ \A k \in 1..n : l[k] \in Dir
  BY <1>2, <1>3, <1>4 DEF n, l
<1>6. l \in Seq(Dir) /\ Len(l) = n /\ DOMAIN l = 1..n
  BY <1>5
<1> QED
  BY <1>5, <1>6 DEF l, Path

LEMMA CwdIsDir == Cwd \in Dir
<1> DEFINE U == UNION {{ft_split(p, Colon)[k] : k \in 1..ft_countwords(p, Colon)} :
                        p \in PathValues}
<1>1. Dir = {Cwd} \cup U
  BY DEF Dir
<1> HIDE DEF U
<1> QED
  BY <1>1

LEMMA KindType ==
  ASSUME TypeOK, NEW d \in Dir
  PROVE  /\ KindAt(dirs, d) \in Kind \cup {"none"}
         /\ dirs[d] # NoDir => dirs[d] \in [Name -> Kind \cup {"none"}]
  BY NameFinite DEF TypeOK, KindAt

LEMMA AfreshType == TypeOK => Afresh \in [Dir -> SUBSET (Kind \cup {"none"})]
  BY KindType DEF Afresh
-----------------------------------------------------------------------------
(* Types. *)

LEMMA InitTypes == Init => TypeOK
<1> SUFFICES ASSUME Init PROVE TypeOK
  OBVIOUS
<1> USE DEF Location, Ended
<1>1. dirs \in [Dir -> [Name -> Kind \cup {"none"}] \cup {NoDir}]
  BY CommandListAssumption DEF Init
<1>2. \A d \in Dir : KindAt(dirs, d) \in Kind \cup {"none"}
  BY <1>1, NameFinite DEF KindAt
<1>3. kinds \in [Dir -> SUBSET (Kind \cup {"none"})]
  BY <1>2 DEF Init, Afresh
<1>4. scan \in [open : BOOLEAN, live : BOOLEAN, may : SUBSET Name,
                must : SUBSET Name, returned : SUBSET Name]
  BY DEF Init, NoScan
<1>5. listed \in BOOLEAN
  BY DEF Init
<1>6. list \in Seq(Name) /\ Len(list) <= count + 1 /\ count \in Nat
  BY DEF Init
<1> QED
  BY <1>1, <1>3, <1>4, <1>5, <1>6, CommandListAssumption DEF Init, TypeOK

\* The steps of the search leave the world alone ...
LEMMA StepTypes == TypeOK /\ Step => TypeOK'
<1> SUFFICES ASSUME TypeOK, Step PROVE TypeOK'
  OBVIOUS
<1> USE DEF Location, Ended
<1> DEFINE Scan == [open : BOOLEAN, live : BOOLEAN, may : SUBSET Name,
                    must : SUBSET Name, returned : SUBSET Name]
<1>1. failures' \in 0..MaxFailures
  <2>1. Works \/ Fails \/ UNCHANGED failures
    BY DEF Step, StatCwd, AccessCwd, GetPath, OpenDir, CountEntry, CloseDir,
           Allocate, FillEntry, Search, FindCommandPath, Access, Stat, Execve
  <2> QED
    BY <2>1, CommandListAssumption DEF Works, Fails, TypeOK
<1>2. kinds' \in [Dir -> SUBSET (Kind \cup {"none"})] /\ dirs' = dirs /\ PATH' = PATH
      /\ changes' = changes /\ created' = created
  BY AfreshType DEF Step, StatCwd, AccessCwd, GetPath, OpenDir, CountEntry, CloseDir,
         Allocate, FillEntry, Search, FindCommandPath, Access, Stat, Execve, world,
         TypeOK
<1>3. pc' \in Location
  BY DEF Step, StatCwd, AccessCwd, GetPath, OpenDir, CountEntry, CloseDir,
         Allocate, FillEntry, Search, FindCommandPath, Access, Stat, Execve, Goto,
         TypeOK
<1>4. at' \in Nat \ {0}
  <2>1. at' \in {at, at + 1, 1}
    BY Zenon DEF Step, StatCwd, AccessCwd, GetPath, OpenDir, CountEntry, CloseDir,
           Allocate, FillEntry, Search, FindCommandPath, Access, Stat, Execve
  <2> QED
    BY <2>1 DEF TypeOK
<1>5. scan' \in Scan
  <2>1. CASE OpenDir
    <3>1. dirs[Path(at)] # NoDir => EntriesOf(dirs[Path(at)]) \in SUBSET Name
      BY DEF EntriesOf
    <3>2. \/ UNCHANGED scan
          \/ /\ dirs[Path(at)] # NoDir
             /\ scan' = [open |-> TRUE, live |-> TRUE, returned |-> {},
                         may |-> EntriesOf(dirs[Path(at)]),
                         must |-> EntriesOf(dirs[Path(at)])]
      BY <2>1, Zenon DEF OpenDir
    <3> HIDE DEF Scan
    <3>3. scan \in Scan
      BY DEF TypeOK, Scan
    <3>4. \A E \in SUBSET Name : [open |-> TRUE, live |-> TRUE, returned |-> {},
                                  may |-> E, must |-> E] \in Scan
      BY DEF Scan
    <3> QED
      BY <3>1, <3>2, <3>3, <3>4, Zenon
  <2>2. CASE CountEntry \/ FillEntry
    <3>1. PICK n \in Name : Readdir(n)
      BY <2>2 DEF CountEntry, FillEntry
    <3> QED
      BY <3>1 DEF Readdir, TypeOK
  <2>3. CASE CloseDir
    BY <2>3 DEF CloseDir, NoScan
  <2>4. CASE UNCHANGED scan
    BY <2>4 DEF TypeOK
  <2> QED
    BY <2>1, <2>2, <2>3, <2>4
    DEF Step, StatCwd, AccessCwd, GetPath, Allocate, Search, FindCommandPath, Access,
        Stat, Execve
<1>6. list' \in Seq(Name) /\ count' \in Nat /\ Len(list') <= count' + 1
  <2>1. CASE CountEntry
    BY <2>1 DEF CountEntry, TypeOK
  <2>2. CASE FillEntry
    <3>1. PICK n \in Name :
            \/ UNCHANGED list
            \/ Len(list) <= count /\ list' = Append(list, n)
      BY <2>2 DEF FillEntry
    <3> QED
      BY <2>2, <3>1 DEF FillEntry, TypeOK
  <2>3. CASE UNCHANGED <<count, list>>
    BY <2>3 DEF TypeOK
  <2> QED
    BY <2>1, <2>2, <2>3
    DEF Step, StatCwd, AccessCwd, GetPath, OpenDir, CloseDir, Allocate, Search,
        FindCommandPath, Access, Stat, Execve
<1>7. listed' \in BOOLEAN
  <2>1. CASE AccessCwd
    <3>1. (KindAt(dirs, Cwd) \in {"program", "dir"}) \in BOOLEAN
      OBVIOUS
    <3> QED
      BY <2>1, <3>1, Zenon DEF AccessCwd
  <2>2. CASE Search
    BY <2>2, Zenon DEF Search, TypeOK
  <2>3. CASE UNCHANGED listed
    BY <2>3 DEF TypeOK
  <2> QED
    BY <2>1, <2>2, <2>3
    DEF Step, StatCwd, GetPath, OpenDir, CountEntry, CloseDir, Allocate, FillEntry,
        FindCommandPath, Access, Stat, Execve, answers
<1>8. place' \in Nat
  BY DEF Step, StatCwd, AccessCwd, GetPath, OpenDir, CountEntry, CloseDir,
         Allocate, FillEntry, Search, FindCommandPath, Access, Stat, Execve, answers,
         TypeOK
<1> QED
  BY <1>1, <1>2, <1>3, <1>4, <1>5, <1>6, <1>7, <1>8 DEF TypeOK

\* ... and what other processes do is no more than that.
LEMMA WorldTypes == TypeOK /\ World => TypeOK'
<1> SUFFICES ASSUME TypeOK, World PROVE TypeOK'
  OBVIOUS
<1> DEFINE Scan == [open : BOOLEAN, live : BOOLEAN, may : SUBSET Name,
                    must : SUBSET Name, returned : SUBSET Name]
<1>1. Remember
  BY DEF World, ChangeEntry, ChangeDirectory
<1> DEFINE Typed ==
             /\ dirs' \in [Dir -> [Name -> Kind \cup {"none"}] \cup {NoDir}]
             /\ scan' \in Scan /\ created' \in Nat
<1>2. Typed
  <2>1. ASSUME NEW d \in Dir, NEW n \in Name, NEW k \in Kind \cup {"none"},
               ChangeEntry(d, n, k)
        PROVE  Typed
    <3>1. dirs[d] \in [Name -> Kind \cup {"none"}]
      BY <2>1 DEF ChangeEntry, TypeOK
    <3>2. dirs' \in [Dir -> [Name -> Kind \cup {"none"}] \cup {NoDir}]
      BY <2>1, <3>1 DEF ChangeEntry, TypeOK
    <3>3. created' \in Nat
      BY <2>1 DEF ChangeEntry, TypeOK
    <3>4. scan' \in Scan
      BY <2>1 DEF ChangeEntry, TypeOK
    <3> QED
      BY <3>2, <3>3, <3>4
  <2>2. ASSUME NEW d \in Dir, NEW content \in Contents \cup {NoDir},
               ChangeDirectory(d, content)
        PROVE  Typed
    <3>1. dirs' \in [Dir -> [Name -> Kind \cup {"none"}] \cup {NoDir}]
      BY <2>2, CommandListAssumption DEF ChangeDirectory, TypeOK
    <3>2. Cardinality(EntriesOf(content)) \in Nat
      <4>1. EntriesOf(content) \in SUBSET Name
        BY DEF EntriesOf
      <4> QED
        BY <4>1, NameFinite, FS_Subset, FS_CardinalityType
    <3>3. created' \in Nat
      BY <2>2, <3>2 DEF ChangeDirectory, TypeOK
    <3>4. scan' \in Scan
      BY <2>2 DEF ChangeDirectory, TypeOK
    <3> QED
      BY <3>1, <3>3, <3>4
  <2>3. Word \in Name /\ Others \subseteq Name /\ "plain" \in Kind
    BY DEF Name, Kind
  <2> QED
    BY <2>1, <2>2, <2>3 DEF World
<1>3. kinds' \in [Dir -> SUBSET (Kind \cup {"none"})]
  <2>1. \A d \in Dir : KindAt(dirs', d) \in Kind \cup {"none"}
    BY <1>2, NameFinite DEF KindAt
  <2> QED
    BY <1>1, <2>1 DEF Remember, TypeOK
<1>4. changes' \in 0..MaxChanges
  BY <1>1, CommandListAssumption DEF Remember, TypeOK
<1> QED
  BY <1>1, <1>2, <1>3, <1>4 DEF Remember, answers, TypeOK

LEMMA NextTypes == TypeOK /\ [Next]_vars => TypeOK'
<1>1. TypeOK /\ UNCHANGED vars => TypeOK'
  BY DEF vars, TypeOK
<1> QED
  BY <1>1, StepTypes, WorldTypes DEF Next

\* Whatever other processes do to the directories, every variable keeps its type.
THEOREM TypeCorrect == Spec => []TypeOK
  BY InitTypes, NextTypes, PTL DEF Spec
-----------------------------------------------------------------------------
(* What the histories remember. *)

\* What is there now has been there.
KindsNow == \A d \in Dir : KindAt(dirs, d) \in kinds[d]

\* The last action that Remember is part of.
Grown == /\ kinds' = [d \in Dir |-> kinds[d] \cup {KindAt(dirs', d)}]
         /\ UNCHANGED <<PATH, pc, at, count, list, answers, failures>>

LEMMA WorldGrows == World => Grown
  BY DEF World, ChangeEntry, ChangeDirectory, Remember, Grown

\* What the search forgets, it forgets at the start of a loop.
LEMMA StepKeepsWorld ==
  Step => /\ dirs' = dirs /\ PATH' = PATH
          /\ kinds' = kinds \/ ((Allocate \/ FindCommandPath) /\ kinds' = Afresh)
  BY DEF Step, StatCwd, AccessCwd, GetPath, OpenDir, CountEntry, CloseDir,
         Allocate, FillEntry, Search, FindCommandPath, Access, Stat, Execve, world

LEMMA InitKindsNow == Init => KindsNow
  BY DEF Init, KindsNow, Afresh

LEMMA NextKindsNow == TypeOK /\ KindsNow /\ [Next]_vars => KindsNow'
<1> SUFFICES ASSUME TypeOK, KindsNow, [Next]_vars PROVE KindsNow'
  OBVIOUS
<1>1. CASE Step
  BY <1>1, StepKeepsWorld DEF KindsNow, Afresh, KindAt
<1>2. CASE World
  <2>1. kinds' = [d \in Dir |-> kinds[d] \cup {KindAt(dirs', d)}]
    BY <1>2, WorldGrows DEF Grown
  <2>2. \A d \in Dir : KindAt(dirs', d) = KindAt(dirs, d)'
    BY DEF KindAt
  <2> QED
    BY <2>1, <2>2 DEF KindsNow
<1>3. CASE UNCHANGED vars
  BY <1>3 DEF vars, KindsNow, KindAt
<1> QED
  BY <1>1, <1>2, <1>3 DEF Next

LEMMA AlwaysKindsNow == Spec => []KindsNow
<1>1. TypeOK /\ KindsNow /\ [Next]_vars => KindsNow'
  BY NextKindsNow
<1> QED
  BY <1>1, InitKindsNow, TypeCorrect, PTL DEF Spec

\* A stream sees an entry come and go no earlier than the history does.
LEMMA WorldScan ==
  ASSUME TypeOK, World
  PROVE  /\ scan'.open = scan.open /\ scan'.returned \subseteq scan.returned
         /\ Word \in scan'.may /\ Word \notin scan.may =>
              KindAt(dirs', Path(at)) \in Kind /\ Path(at) \in Dir
         /\ Word \notin scan'.must /\ Word \in scan.must =>
              KindAt(dirs', Path(at)) = "none" /\ Path(at) \in Dir
<1> DEFINE Goal ==
         /\ scan'.open = scan.open /\ scan'.returned \subseteq scan.returned
         /\ Word \in scan'.may /\ Word \notin scan.may =>
              KindAt(dirs', Path(at)) \in Kind /\ Path(at) \in Dir
         /\ Word \notin scan'.must /\ Word \in scan.must =>
              KindAt(dirs', Path(at)) = "none" /\ Path(at) \in Dir
<1>0. DOMAIN scan = {"open", "live", "may", "must", "returned"}
  BY DEF TypeOK
<1>1. ASSUME NEW d \in Dir, NEW n \in Name, NEW k \in Kind \cup {"none"},
             ChangeEntry(d, n, k)
      PROVE  Goal
  <2> DEFINE new == dirs[d][n] = "none" /\ k # "none"
  <2>1. /\ dirs[d] # NoDir /\ dirs' = [dirs EXCEPT ![d][n] = k]
        /\ dirs[d] \in [Name -> Kind \cup {"none"}]
        /\ dirs' \in [Dir -> [Name -> Kind \cup {"none"}] \cup {NoDir}]
    BY <1>1, WorldTypes DEF ChangeEntry, TypeOK
  <2>2. n = Word => KindAt(dirs', d) = k
    <3>1. /\ dirs'[d] = [dirs[d] EXCEPT ![n] = k]
          /\ dirs'[d] \in [Name -> Kind \cup {"none"}]
      BY <2>1 DEF TypeOK
    <3> QED
      BY <2>1, <3>1, NameFinite, CommandListAssumption DEF KindAt
  <2>4. CASE ~Scanned(d) \/ (~new /\ k # "none")
    <3>1. scan' = scan
      BY <1>1, <2>4 DEF ChangeEntry
    <3> QED
      BY <3>1
  <2>5. CASE Scanned(d) /\ new
    <3>1. scan' = [scan EXCEPT !.may = @ \cup {n}, !.returned = @ \ {n}]
      BY <1>1, <2>5 DEF ChangeEntry
    <3>2. /\ scan'.open = scan.open /\ scan'.must = scan.must
          /\ scan'.may = scan.may \cup {n} /\ scan'.returned = scan.returned \ {n}
      BY <1>0, <3>1
    <3>3. Path(at) = d /\ k \in Kind
      BY <2>5 DEF Scanned
    <3> QED
      BY <2>2, <2>5, <3>2, <3>3
  <2>6. CASE Scanned(d) /\ k = "none"
    <3>1. scan' = [scan EXCEPT !.must = @ \ {n}]
      BY <1>1, <2>6 DEF ChangeEntry
    <3>2. /\ scan'.open = scan.open /\ scan'.must = scan.must \ {n}
          /\ scan'.may = scan.may /\ scan'.returned = scan.returned
      BY <1>0, <3>1
    <3> QED
      BY <2>2, <2>6, <3>2 DEF Scanned
  <2> QED
    BY <2>4, <2>5, <2>6
<1>2. ASSUME NEW d \in Dir, NEW content \in Contents \cup {NoDir},
             ChangeDirectory(d, content)
      PROVE  Goal
  <2>1. scan' \in {scan, [scan EXCEPT !.live = FALSE]}
    BY <1>2 DEF ChangeDirectory
  <2> QED
    BY <1>0, <2>1
<1>3. Word \in Name /\ Others \subseteq Name /\ "plain" \in Kind
  BY DEF Name, Kind
<1> QED
  BY <1>1, <1>2, <1>3 DEF World
-----------------------------------------------------------------------------
(* What search_list answers. *)

Listed == \E k \in DOMAIN list : list[k] = Word

\* The state of the two loops, as far as ListTells needs it: what the open
\* stream knows of the directory, and what the list knows of those before it.
Loops ==
  /\ pc \in {"count", "fill"} => PATH # NULL /\ (scan.open => InPath)
  /\ pc \in {"stat_cwd", "access_cwd", "get_path"} => ~scan.open
  /\ pc \in {"stat_cwd", "access_cwd", "get_path", "count"} => list = <<>>
  /\ pc = "access_cwd" => kinds[Cwd] \cap {"program", "plain"} # {}
  /\ pc = "fill" /\ failures = 0 =>
       /\ scan.open =>
            /\ Word \in scan.may => kinds[Path(at)] \cap Kind # {}
            /\ Word \notin scan.must => "none" \in kinds[Path(at)]
            /\ Word \in scan.returned => Listed
       /\ Listed => \E k \in DOMAIN get_path_list : kinds[Path(k)] \cap Kind # {}
       /\ ~Listed => \A k \in DOMAIN get_path_list :
                       k < at => "none" \in kinds[Path(k)]

ListInv == Loops /\ ListTells

LEMMA InitListInv == Init => ListInv
  BY DEF Init, NoScan, ListInv, Loops, ListTells

\* Nothing that was there is forgotten while other processes change it.
LEMMA WorldListInv ==
  TypeOK /\ KindsNow /\ ListInv /\ World => ListInv'
<1> SUFFICES ASSUME TypeOK, KindsNow, ListInv, World PROVE ListInv'
  OBVIOUS
<1>1. Grown
  BY WorldGrows
<1>2. \A d \in Dir : kinds[d] \subseteq kinds'[d] /\ KindAt(dirs', d) \in kinds'[d]
  BY <1>1 DEF Grown
<1>3. /\ UNCHANGED <<PATH, pc, at, count, list, listed, failures>>
      /\ get_path_list' = get_path_list /\ \A k : Path(k)' = Path(k)
      /\ InPath' = InPath /\ Listed' = Listed
  BY <1>1 DEF Grown, answers, get_path_list, Path, InPath, Listed
<1>4. PATH # NULL => \A k \in DOMAIN get_path_list : get_path_list[k] \in Dir
  BY PathType DEF Path
<1>5. ListTells'
  <2> DEFINE path == {get_path_list[k] : k \in DOMAIN get_path_list}
  <2> SUFFICES ASSUME pc = "typed", PATH # NULL, failures = 0
               PROVE  IF listed
                      THEN \/ /\ kinds'[Cwd] \cap {"program", "plain"} # {}
                             /\ kinds'[Cwd] \cap {"program", "dir"} # {}
                           \/ \E d \in path : kinds'[d] \cap Kind # {}
                      ELSE \A d \in path : "none" \in kinds'[d]
    BY <1>3 DEF ListTells
  <2>1. path \subseteq Dir
    BY <1>4
  <2>2. IF listed
        THEN \/ /\ kinds[Cwd] \cap {"program", "plain"} # {}
                /\ kinds[Cwd] \cap {"program", "dir"} # {}
             \/ \E d \in path : kinds[d] \cap Kind # {}
        ELSE \A d \in path : "none" \in kinds[d]
    BY DEF ListInv, ListTells
  <2> QED
    BY <1>2, <2>1, <2>2, CwdIsDir
<1>6. Loops'
  <2>1. scan'.open = scan.open /\ scan'.returned \subseteq scan.returned
    BY WorldScan
  <2>2. pc \in {"count", "fill"} => PATH # NULL /\ (scan.open => InPath)
    BY DEF ListInv, Loops
  <2>3. ASSUME pc = "fill", failures = 0
        PROVE  /\ scan.open =>
                    /\ Word \in scan'.may => kinds'[Path(at)] \cap Kind # {}
                    /\ Word \notin scan'.must => "none" \in kinds'[Path(at)]
                    /\ Word \in scan'.returned => Listed
               /\ Listed => \E k \in DOMAIN get_path_list :
                              kinds'[Path(k)] \cap Kind # {}
               /\ ~Listed => \A k \in DOMAIN get_path_list :
                               k < at => "none" \in kinds'[Path(k)]
    <3>1. \A k \in DOMAIN get_path_list : Path(k) \in Dir
      BY <1>4, <2>2, <2>3 DEF Path
    <3>2. scan.open => Path(at) \in Dir
      BY <2>2, <2>3, PathType DEF InPath, TypeOK
    <3>3. /\ Word \in scan'.may /\ Word \notin scan.may =>
               KindAt(dirs', Path(at)) \in Kind
          /\ Word \notin scan'.must /\ Word \in scan.must =>
               KindAt(dirs', Path(at)) = "none"
      BY WorldScan
    <3>4. /\ scan.open =>
               /\ Word \in scan.may => kinds[Path(at)] \cap Kind # {}
               /\ Word \notin scan.must => "none" \in kinds[Path(at)]
               /\ Word \in scan.returned => Listed
          /\ Listed => \E k \in DOMAIN get_path_list : kinds[Path(k)] \cap Kind # {}
          /\ ~Listed => \A k \in DOMAIN get_path_list :
                          k < at => "none" \in kinds[Path(k)]
      BY <2>3 DEF ListInv, Loops
    <3> QED
      BY <1>2, <2>1, <3>1, <3>2, <3>3, <3>4
  <2>4. /\ pc \in {"stat_cwd", "access_cwd", "get_path"} => ~scan.open
        /\ pc \in {"stat_cwd", "access_cwd", "get_path", "count"} => list = <<>>
    BY DEF ListInv, Loops
  <2>5. pc = "access_cwd" => kinds'[Cwd] \cap {"program", "plain"} # {}
    BY <1>2, CwdIsDir DEF ListInv, Loops
  <2> QED
    BY <1>3, <2>1, <2>2, <2>3, <2>4, <2>5 DEF Loops
<1> QED
  BY <1>5, <1>6 DEF ListInv

LEMMA StepListInv ==
  TypeOK /\ KindsNow /\ ListInv /\ Step => ListInv'
<1> SUFFICES ASSUME TypeOK, KindsNow, ListInv, Step PROVE ListInv'
  OBVIOUS
<1>0. /\ dirs' = dirs /\ PATH' = PATH /\ get_path_list' = get_path_list
      /\ \A k : Path(k)' = Path(k)
  BY StepKeepsWorld DEF get_path_list, Path
<1>1. at \in Nat \ {0} /\ failures \in Nat
  BY CommandListAssumption DEF TypeOK
<1>2. CASE StatCwd \/ GetPath
  <2>1. /\ pc \in {"stat_cwd", "get_path"}
        /\ pc' \in {"access_cwd", "get_path", "count", "typed"}
        /\ pc' = "count" => PATH # NULL
        /\ pc' = "typed" => PATH = NULL \/ failures' # 0
        /\ scan' = scan /\ list' = list
        /\ kinds' = kinds
        /\ pc' = "access_cwd" => KindAt(dirs, Cwd) \in {"program", "plain"}
    BY <1>1, <1>2 DEF StatCwd, GetPath, Goto, Fails, Works, world
  <2>2. pc' = "access_cwd" => kinds'[Cwd] \cap {"program", "plain"} # {}
    BY <2>1, CwdIsDir DEF KindsNow
  <2> QED
    BY <1>0, <2>1, <2>2 DEF ListInv, Loops, ListTells
<1>3. CASE AccessCwd
  <2>1. /\ pc = "access_cwd" /\ pc' \in {"get_path", "typed"}
        /\ pc' = "typed" => listed' /\ KindAt(dirs, Cwd) \in {"program", "dir"}
        /\ scan' = scan /\ list' = list /\ kinds' = kinds
    BY <1>3 DEF AccessCwd, Goto, world
  <2>2. pc' = "typed" => /\ kinds[Cwd] \cap {"program", "plain"} # {}
                         /\ kinds[Cwd] \cap {"program", "dir"} # {}
    BY <2>1, CwdIsDir DEF KindsNow, ListInv, Loops
  <2> QED
    BY <1>0, <2>1, <2>2 DEF ListInv, Loops, ListTells
<1>4. CASE OpenDir
  <2>0. /\ pc \in {"count", "fill"} /\ pc' = pc /\ InPath /\ PATH # NULL /\ ~scan.open
        /\ list' = list /\ kinds' = kinds
    BY <1>4 DEF OpenDir, world, ListInv, Loops
  <2>1. Path(at) \in Dir /\ KindAt(dirs, Path(at)) \in kinds[Path(at)]
    BY <1>1, <2>0, PathType DEF InPath, KindsNow
  <2>2. CASE /\ dirs[Path(at)] # NoDir /\ Works /\ at' = at
             /\ scan' = [open |-> TRUE, live |-> TRUE, returned |-> {},
                         may |-> EntriesOf(dirs[Path(at)]),
                         must |-> EntriesOf(dirs[Path(at)])]
    <3>1. /\ Word \in scan'.may => kinds[Path(at)] \cap Kind # {}
          /\ Word \notin scan'.must => "none" \in kinds[Path(at)]
          /\ scan'.returned = {}
      BY <2>1, <2>2, KindType, NameFinite DEF EntriesOf, KindAt
    <3>2. failures' = failures
      BY <2>2 DEF Works
    <3> QED
      BY <1>0, <2>0, <2>2, <3>1, <3>2 DEF ListInv, Loops, ListTells, InPath, Listed
  <2>3. CASE scan' = scan /\ at' = at + 1 /\ (failures' # 0 \/ dirs[Path(at)] = NoDir)
    <3>1. failures' = 0 => failures = 0
      BY <1>1, <1>4 DEF OpenDir, Works, Fails
    <3>2. failures' = 0 => "none" \in kinds[Path(at)]
      BY <2>1, <2>3 DEF KindAt
    <3>3. \A k \in DOMAIN get_path_list : k < at + 1 => k < at \/ k = at
      BY <1>1, <2>0, PathType
    <3>4. ~scan'.open /\ pc' # "typed"
      BY <2>0, <2>3
    <3> QED
      BY <1>0, <2>0, <2>3, <3>1, <3>2, <3>3, <3>4 DEF ListInv, Loops, ListTells, Listed
  <2> QED
    BY <1>1, <1>4, <2>2, <2>3 DEF OpenDir, Fails
<1>5. CASE CountEntry
  <2>1. /\ pc = "count" /\ pc' = pc /\ at' = at /\ list' = list
        /\ scan'.open = scan.open
    BY <1>5 DEF CountEntry, Readdir, TypeOK
  <2> QED
    BY <1>0, <2>1 DEF ListInv, Loops, ListTells, InPath
<1>6. CASE CloseDir
  <2>0. /\ pc \in {"count", "fill"} /\ pc' = pc /\ InPath /\ PATH # NULL /\ scan.open
        /\ list' = list /\ kinds' = kinds /\ at' = at + 1 /\ ~scan'.open
    BY <1>6 DEF CloseDir, NoScan, world, ListInv, Loops
  <2>1. failures' = 0 => failures = 0 /\ scan.must \subseteq scan.returned
    BY <1>1, <1>6 DEF CloseDir, Works, Fails
  <2>2. \A k \in DOMAIN get_path_list : k < at + 1 => k < at \/ k = at
    BY <1>1, <2>0, PathType
  <2>3. pc = "fill" /\ failures' = 0 /\ ~Listed => "none" \in kinds[Path(at)]
    BY <2>0, <2>1 DEF ListInv, Loops
  <2> QED
    BY <1>0, <2>0, <2>1, <2>2, <2>3 DEF ListInv, Loops, ListTells, Listed
<1>7. CASE Allocate
  <2>1. /\ pc = "count" /\ pc' \in {"fill", "typed", "freed_garbage"}
        /\ PATH # NULL /\ ~scan.open /\ scan' = scan /\ list = <<>> /\ list' = list
        /\ at' = 1 /\ (pc' = "typed" => failures' # 0)
    BY <1>1, <1>7 DEF Allocate, Goto, Fails, ListInv, Loops
  <2>2. ~Listed' /\ \A k \in DOMAIN get_path_list : ~(k < 1)
    BY <2>1, PathType DEF Listed
  <2> QED
    BY <1>0, <2>1, <2>2 DEF Loops, ListInv, ListTells
<1>8. CASE FillEntry
  <2>0. PICK n \in Name :
          /\ Readdir(n)
          /\ \/ Len(list) > count /\ Goto("overrun") /\ Works /\ UNCHANGED list
             \/ Len(list) <= count /\ Works /\ list' = Append(list, n) /\ UNCHANGED pc
             \/ Len(list) <= count /\ Goto("typed") /\ Fails /\ UNCHANGED list
    BY <1>8 DEF FillEntry
  <2>1. /\ pc = "fill" /\ PATH # NULL /\ InPath /\ scan.open /\ kinds' = kinds
        /\ at' = at
    BY <1>8, <2>0 DEF FillEntry, Readdir, world, ListInv, Loops
  <2>2. /\ scan'.open = scan.open /\ scan'.may = scan.may /\ scan'.must = scan.must
        /\ scan'.returned = scan.returned \cup {n} /\ n \in scan.may
    BY <2>0 DEF Readdir, TypeOK
  <2>3. CASE pc' = "overrun" \/ (pc' = "typed" /\ failures' # 0)
    BY <2>3 DEF ListInv, Loops, ListTells
  <2>4. CASE Works /\ list' = Append(list, n) /\ UNCHANGED pc
    <3>1. Listed' <=> Listed \/ n = Word
      BY SMTT(30), <2>4 DEF Listed, TypeOK
    <3>2. at \in DOMAIN get_path_list
      BY <1>1, <2>1, PathType DEF InPath
    <3>3. failures' = failures
      BY <2>4 DEF Works
    <3>4. failures = 0 =>
            /\ Word \in scan.may => kinds[Path(at)] \cap Kind # {}
            /\ Word \notin scan.must => "none" \in kinds[Path(at)]
            /\ Word \in scan.returned => Listed
            /\ Listed => \E k \in DOMAIN get_path_list : kinds[Path(k)] \cap Kind # {}
            /\ ~Listed => \A k \in DOMAIN get_path_list :
                            k < at => "none" \in kinds[Path(k)]
      BY <2>1 DEF ListInv, Loops
    <3> QED
      BY <1>0, <2>1, <2>2, <2>4, <3>1, <3>2, <3>3, <3>4
      DEF ListInv, Loops, ListTells, InPath
  <2> QED
    BY <1>1, <2>0, <2>3, <2>4 DEF Goto, Fails
<1>9. CASE Search
  <2>0. /\ pc = "fill" /\ PATH # NULL /\ ~InPath /\ kinds' = kinds /\ failures' = failures
        /\ pc' \in {"overrun", "typed"} /\ (pc' = "typed" => listed' = Listed)
    BY <1>9 DEF Search, Works, Goto, world, Listed, ListInv, Loops
  <2>1. \A k \in DOMAIN get_path_list : k < at
    BY <1>1, <2>0, PathType DEF InPath
  <2>2. failures = 0 =>
          /\ Listed => \E k \in DOMAIN get_path_list : kinds[Path(k)] \cap Kind # {}
          /\ ~Listed => \A k \in DOMAIN get_path_list : "none" \in kinds[Path(k)]
    BY <2>0, <2>1 DEF ListInv, Loops
  <2>3. ListTells'
    BY <1>0, <2>0, <2>2 DEF ListTells, Path
  <2> QED
    BY <2>0, <2>3 DEF ListInv, Loops
<1>10. CASE FindCommandPath \/ Access \/ Stat \/ Execve
  <2>1. pc' \in {"missing", "access", "stat", "execve", "runs", "denied", "gone"}
    BY <1>10 DEF FindCommandPath, Access, Stat, Execve, Goto
  <2> QED
    BY <2>1 DEF ListInv, Loops, ListTells
<1> QED
  BY <1>2, <1>3, <1>4, <1>5, <1>6, <1>7, <1>8, <1>9, <1>10 DEF Step

LEMMA NextListInv == TypeOK /\ KindsNow /\ ListInv /\ [Next]_vars => ListInv'
<1>1. ListInv /\ UNCHANGED vars => ListInv'
  BY DEF vars, ListInv, Loops, ListTells, Listed, InPath, get_path_list, Path
<1> QED
  BY <1>1, StepListInv, WorldListInv DEF Next

\* search_list takes a word for a command only if a directory of PATH has had it,
\* or the shell's own has an executable file of that name; it takes one for
\* something else only if every directory of PATH has been without it.
THEOREM ListIsRight == Spec => []ListTells
<1>1. TypeOK /\ KindsNow /\ ListInv /\ [Next]_vars => ListInv'
  BY NextListInv
<1>2. ListInv => ListTells
  BY DEF ListInv
<1> QED
  BY <1>1, <1>2, InitListInv, TypeCorrect, AlwaysKindsNow, PTL DEF Spec
-----------------------------------------------------------------------------
(* What find_command_path finds. *)

\* The directories before the loop's have been tried, and the one it is at was
\* executable when access was called.
Choosing ==
  PATH # NULL /\ failures = 0 =>
    /\ pc \in {"access", "stat"} =>
         \A k \in 1..(at - 1) :
           k \in DOMAIN get_path_list /\ kinds[Path(k)] # {"program"}
    /\ pc = "stat" => /\ at \in DOMAIN get_path_list
                      /\ kinds[Path(at)] \cap {"program", "dir"} # {}
    /\ pc \in {"execve", "runs", "denied", "gone"} => place \in DOMAIN get_path_list

FirstInv == Choosing /\ RunsFirstOnPath

LEMMA InitFirstInv == Init => FirstInv
  BY DEF Init, FirstInv, Choosing, RunsFirstOnPath

LEMMA WorldFirstInv ==
  TypeOK /\ KindsNow /\ FirstInv /\ World => FirstInv'
<1> SUFFICES ASSUME TypeOK, KindsNow, FirstInv, World PROVE FirstInv'
  OBVIOUS
<1>1. Grown
  BY WorldGrows
<1>2. /\ UNCHANGED <<PATH, pc, at, place, failures>>
      /\ get_path_list' = get_path_list /\ \A k : Path(k)' = Path(k)
  BY <1>1 DEF Grown, answers, get_path_list, Path
<1>3. \A d \in Dir : kinds[d] # {} /\ kinds[d] \subseteq kinds'[d]
  BY <1>1 DEF Grown, KindsNow
<1>4. \A d \in Dir : kinds[d] # {"program"} => kinds'[d] # {"program"}
  BY <1>3
<1> SUFFICES ASSUME PATH # NULL, failures = 0 PROVE FirstInv'
  BY <1>2 DEF FirstInv, Choosing, RunsFirstOnPath
<1>5. /\ at \in Nat \ {0} /\ place \in Nat
      /\ \A k \in DOMAIN get_path_list : Path(k) \in Dir
      /\ DOMAIN get_path_list = 1..Len(get_path_list)
  BY PathType DEF TypeOK
<1>6. Choosing'
  BY <1>2, <1>3, <1>4, <1>5 DEF FirstInv, Choosing
<1>7. RunsFirstOnPath'
  <2>1. CASE pc \in {"execve", "runs", "denied", "gone"}
    <3>1. /\ place \in DOMAIN get_path_list
          /\ kinds[Path(place)] \cap {"program", "dir"} # {}
          /\ kinds[Path(place)] \cap {"program", "plain"} # {}
          /\ \A k \in 1..(place - 1) : kinds[Path(k)] # {"program"}
      BY <2>1 DEF FirstInv, Choosing, RunsFirstOnPath
    <3>2. \A k \in 1..(place - 1) : Path(k) \in Dir
      BY <1>5, <3>1
    <3> QED
      BY <1>2, <1>3, <1>4, <1>5, <2>1, <3>1, <3>2 DEF RunsFirstOnPath
  <2>2. CASE pc = "missing"
    BY <1>2, <1>4, <1>5, <2>2 DEF FirstInv, RunsFirstOnPath
  <2>3. CASE pc \notin {"execve", "runs", "denied", "gone", "missing"}
    BY <1>2, <2>3 DEF RunsFirstOnPath
  <2> QED
    BY <2>1, <2>2, <2>3
<1> QED
  BY <1>6, <1>7 DEF FirstInv

LEMMA StepFirstInv ==
  TypeOK /\ KindsNow /\ FirstInv /\ Step => FirstInv'
<1> SUFFICES ASSUME TypeOK, KindsNow, FirstInv, Step PROVE FirstInv'
  OBVIOUS
<1>0. /\ dirs' = dirs /\ PATH' = PATH /\ get_path_list' = get_path_list
      /\ \A k : Path(k)' = Path(k)
  BY StepKeepsWorld DEF get_path_list, Path
<1>1. at \in Nat \ {0} /\ place \in Nat /\ failures \in Nat
  BY CommandListAssumption DEF TypeOK
<1> SUFFICES ASSUME PATH # NULL, failures' = 0 PROVE FirstInv'
  BY <1>0 DEF FirstInv, Choosing, RunsFirstOnPath
<1>2. failures = 0
  <2>1. Works \/ Fails \/ UNCHANGED failures
    BY DEF Step, StatCwd, AccessCwd, GetPath, OpenDir, CountEntry, CloseDir,
           Allocate, FillEntry, Search, FindCommandPath, Access, Stat, Execve
  <2> QED
    BY <1>1, <2>1 DEF Works, Fails
<1>3. /\ \A k \in DOMAIN get_path_list :
           Path(k) \in Dir /\ KindAt(dirs, Path(k)) \in kinds[Path(k)]
      /\ DOMAIN get_path_list = 1..Len(get_path_list)
  BY PathType DEF KindsNow
<1>4. CASE StatCwd \/ AccessCwd \/ GetPath \/ OpenDir \/ CountEntry \/ CloseDir
           \/ Allocate \/ FillEntry \/ Search
  <2>1. pc' \in {"access_cwd", "get_path", "typed", "count", "fill", "overrun",
                 "freed_garbage"}
    BY <1>4 DEF StatCwd, AccessCwd, GetPath, OpenDir, CountEntry, CloseDir, Allocate,
                FillEntry, Search, Goto
  <2> QED
    BY <2>1 DEF FirstInv, Choosing, RunsFirstOnPath
<1>5. CASE FindCommandPath
  <2>1. pc' = "access" /\ at' = 1
    BY <1>1, <1>2, <1>5 DEF FindCommandPath, Fails, Goto
  <2> QED
    BY <2>1 DEF FirstInv, Choosing, RunsFirstOnPath
<1>6. CASE Access
  <2>0. /\ kinds' = kinds /\ pc = "access"
        /\ \A k \in 1..(at - 1) :
             k \in DOMAIN get_path_list /\ kinds[Path(k)] # {"program"}
    BY <1>2, <1>6 DEF Access, world, FirstInv, Choosing
  <2>1. CASE ~InPath /\ Goto("missing")
    <3>1. \A k \in DOMAIN get_path_list : k \in 1..(at - 1)
      BY <1>1, <1>3, <2>1 DEF InPath
    <3> QED
      BY <1>0, <2>0, <2>1, <3>1 DEF Goto, FirstInv, Choosing, RunsFirstOnPath
  <2>2. CASE /\ InPath /\ KindAt(dirs, Path(at)) \in {"program", "dir"}
             /\ Goto("stat") /\ UNCHANGED at
    <3>1. at \in DOMAIN get_path_list
      BY <1>1, <1>3, <2>2 DEF InPath
    <3>2. kinds[Path(at)] \cap {"program", "dir"} # {}
      BY <1>3, <2>2, <3>1
    <3> QED
      BY <1>0, <2>0, <2>2, <3>1, <3>2 DEF Goto, FirstInv, Choosing, RunsFirstOnPath
  <2>3. CASE /\ InPath /\ KindAt(dirs, Path(at)) \notin {"program", "dir"}
             /\ Goto("access") /\ at' = at + 1
    <3>1. at \in DOMAIN get_path_list
      BY <1>1, <1>3, <2>3 DEF InPath
    <3>2. kinds[Path(at)] # {"program"}
      BY <1>3, <2>3, <3>1
    <3>3. \A k \in 1..(at' - 1) : k \in 1..(at - 1) \/ k = at
      BY <1>1, <2>3
    <3> QED
      BY <1>0, <2>0, <2>3, <3>1, <3>2, <3>3 DEF Goto, FirstInv, Choosing, RunsFirstOnPath
  <2> QED
    BY <1>1, <1>2, <1>6, <2>1, <2>2, <2>3 DEF Access, Fails
<1>7. CASE Stat
  <2>0. /\ kinds' = kinds /\ pc = "stat" /\ at \in DOMAIN get_path_list
        /\ kinds[Path(at)] \cap {"program", "dir"} # {}
        /\ \A k \in 1..(at - 1) :
             k \in DOMAIN get_path_list /\ kinds[Path(k)] # {"program"}
    BY <1>2, <1>7 DEF Stat, world, FirstInv, Choosing
  <2>1. CASE /\ KindAt(dirs, Path(at)) \in {"program", "plain"}
             /\ place' = at /\ Goto("execve")
    <3>1. kinds[Path(at)] \cap {"program", "plain"} # {}
      BY <1>3, <2>0, <2>1
    <3> QED
      BY <1>0, <2>0, <2>1, <3>1 DEF Goto, FirstInv, Choosing, RunsFirstOnPath
  <2>2. CASE /\ KindAt(dirs, Path(at)) \notin {"program", "plain"}
             /\ at' = at + 1 /\ Goto("access")
    <3>1. kinds[Path(at)] # {"program"}
      BY <1>3, <2>0, <2>2
    <3>2. \A k \in 1..(at' - 1) : k \in 1..(at - 1) \/ k = at
      BY <1>1, <2>2
    <3> QED
      BY <1>0, <2>0, <2>2, <3>1, <3>2 DEF Goto, FirstInv, Choosing, RunsFirstOnPath
  <2> QED
    BY <1>7, <2>1, <2>2 DEF Stat
<1>8. CASE Execve
  <2>1. /\ kinds' = kinds /\ pc = "execve" /\ place' = place
        /\ pc' \in {"runs", "denied", "gone"}
    BY <1>8 DEF Execve, Goto, world, answers
  <2> QED
    BY <1>0, <1>2, <2>1 DEF FirstInv, Choosing, RunsFirstOnPath
<1> QED
  BY <1>4, <1>5, <1>6, <1>7, <1>8 DEF Step

LEMMA NextFirstInv == TypeOK /\ KindsNow /\ FirstInv /\ [Next]_vars => FirstInv'
<1>1. FirstInv /\ UNCHANGED vars => FirstInv'
  BY DEF vars, FirstInv, Choosing, RunsFirstOnPath, get_path_list, Path
<1> QED
  BY <1>1, StepFirstInv, WorldFirstInv DEF Next

\* find_command_path passes over a directory only if it has, at some time since,
\* been without a program of that name, and takes nothing that has not been
\* executable and no directory; "command not found" has looked at all of PATH.
THEOREM FirstProgramRuns == Spec => []RunsFirstOnPath
<1>1. TypeOK /\ KindsNow /\ FirstInv /\ [Next]_vars => FirstInv'
  BY NextFirstInv
<1>2. FirstInv => RunsFirstOnPath
  BY DEF FirstInv
<1> QED
  BY <1>1, <1>2, InitFirstInv, TypeCorrect, AlwaysKindsNow, PTL DEF Spec
-----------------------------------------------------------------------------
(* What fits the list. *)

\* The directory at a place of PATH has an entry of this name.
Holds(k, n) == dirs[Path(k)] # NoDir /\ dirs[Path(k)][n] # "none"

Places == (1..Len(get_path_list)) \X Name

\* First pass: the entries behind it that are still there, and those it has got
\* from the directory it is in.
Counted == {p \in Places : \/ p[1] < at /\ Holds(p[1], p[2])
                           \/ p[1] = at /\ scan.open /\ p[2] \in scan.returned}

\* Second pass: the entries it may still come upon.
Ahead == {p \in Places : \/ p[1] > at /\ Holds(p[1], p[2])
                         \/ p[1] = at /\ ~scan.open /\ Holds(p[1], p[2])
                         \/ p[1] = at /\ scan.open /\ p[2] \in scan.may \ scan.returned}

\* Nothing has failed or come into being: then the first pass has counted what is
\* behind it, and what the second has stored and is still to store is no more.
Room ==
  failures = 0 /\ created = 0 =>
    /\ pc \in {"stat_cwd", "access_cwd", "get_path"} => at = 1
    /\ pc = "count" =>
         /\ scan.open => \A n \in Name : Holds(at, n) => n \in scan.must
         /\ Cardinality(Counted) <= count
    /\ pc = "fill" => Len(list) + Cardinality(Ahead) <= count
    /\ pc # "overrun"

RoomInv ==
  /\ PATH # NULL => Room
  /\ PATH = NULL => pc # "overrun"

LEMMA PlacesFinite ==
  ASSUME TypeOK, PATH # NULL
  PROVE  IsFiniteSet(Places)
<1>1. Len(get_path_list) \in Nat
  BY PathType
<1>2. IsFiniteSet(1..Len(get_path_list))
  BY <1>1, FS_Interval
<1> QED
  BY <1>2, NameFinite, FS_Product DEF Places

\* The sets of places are finite, whatever they are.
LEMMA Finitely ==
  ASSUME TypeOK, PATH # NULL, NEW S \in SUBSET Places
  PROVE  /\ IsFiniteSet(S) /\ Cardinality(S) \in Nat
         /\ \A T \in SUBSET S : Cardinality(T) <= Cardinality(S)
<1>1. IsFiniteSet(S)
  BY PlacesFinite, FS_Subset
<1> QED
  BY <1>1, FS_CardinalityType, FS_Subset

LEMMA HoldsEntry ==
  ASSUME NEW k, dirs[Path(k)] # NoDir
  PROVE  \A n \in Name : Holds(k, n) <=> n \in EntriesOf(dirs[Path(k)])
  BY DEF Holds, EntriesOf

LEMMA InitRoom == Init => RoomInv
  BY DEF Init, RoomInv, Room

\* As long as nothing comes into being, other processes only take entries away.
LEMMA WorldTakesAway ==
  ASSUME TypeOK, World, created' = 0, PATH # NULL
  PROVE  /\ created = 0
         /\ scan'.open = scan.open /\ scan'.returned = scan.returned
         /\ scan'.may = scan.may
         /\ \A k \in 1..Len(get_path_list), n \in Name :
              Holds(k, n)' => Holds(k, n) /\ (k = at /\ n \in scan.must => n \in scan'.must)
<1> DEFINE Goal ==
         /\ created = 0
         /\ scan'.open = scan.open /\ scan'.returned = scan.returned
         /\ scan'.may = scan.may
         /\ \A k \in 1..Len(get_path_list), n \in Name :
              Holds(k, n)' => Holds(k, n) /\ (k = at /\ n \in scan.must => n \in scan'.must)
<1>0. DOMAIN scan = {"open", "live", "may", "must", "returned"} /\ created \in Nat
  BY DEF TypeOK
<1>1. \A k : Path(k)' = Path(k)
  BY WorldGrows DEF Grown, Path, get_path_list
<1>2. \A k \in 1..Len(get_path_list) : Path(k) \in Dir
  BY PathType
<1>3. ASSUME NEW d \in Dir, NEW m \in Name, NEW j \in Kind \cup {"none"},
             ChangeEntry(d, m, j)
      PROVE  Goal
  <2>1. /\ dirs[d] # NoDir /\ dirs' = [dirs EXCEPT ![d][m] = j]
        /\ dirs[d] \in [Name -> Kind \cup {"none"}]
        /\ dirs \in [Dir -> [Name -> Kind \cup {"none"}] \cup {NoDir}]
    BY <1>3 DEF ChangeEntry, TypeOK
  <2>2. ~(dirs[d][m] = "none" /\ j # "none") /\ created = 0
    BY <1>0, <1>3 DEF ChangeEntry
  <2>3. scan' = scan \/ (j = "none" /\ scan' = [scan EXCEPT !.must = @ \ {m}]
                         /\ d = Path(at))
    BY <1>3, <2>2 DEF ChangeEntry, Scanned
  <2>4. /\ scan'.open = scan.open /\ scan'.returned = scan.returned
        /\ scan'.may = scan.may
        /\ scan'.must = scan.must
             \/ (j = "none" /\ scan'.must = scan.must \ {m} /\ d = Path(at))
    BY <1>0, <2>3
  <2>5. ASSUME NEW k \in 1..Len(get_path_list), NEW n \in Name, Holds(k, n)'
        PROVE  Holds(k, n) /\ (k = at /\ n \in scan.must => n \in scan'.must)
    <3>1. dirs'[Path(k)] # NoDir /\ dirs'[Path(k)][n] # "none"
      BY <1>1, <2>5 DEF Holds
    <3>2. CASE Path(k) = d
      <4>1. dirs'[Path(k)] = [dirs[d] EXCEPT ![m] = j]
        BY <2>1, <3>2
      <4>2. dirs'[Path(k)][n] = IF n = m THEN j ELSE dirs[d][n]
        BY <2>1, <4>1
      <4>3. Holds(k, n) /\ (n = m => j # "none")
        BY <2>1, <2>2, <3>1, <3>2, <4>2 DEF Holds
      <4> QED
        BY <2>4, <4>3
    <3>3. CASE Path(k) # d
      <4>1. dirs'[Path(k)] = dirs[Path(k)]
        BY <1>2, <2>1, <3>3
      <4> QED
        BY <2>4, <3>1, <3>3, <4>1 DEF Holds
    <3> QED
      BY <3>2, <3>3
  <2> QED
    BY <2>2, <2>4, <2>5
<1>4. ASSUME NEW d \in Dir, NEW content \in Contents \cup {NoDir},
             ChangeDirectory(d, content)
      PROVE  Goal
  <2>1. dirs' = [dirs EXCEPT ![d] = content] /\ DOMAIN dirs = Dir
    BY <1>4 DEF ChangeDirectory, TypeOK
  <2>2. IsFiniteSet(EntriesOf(content)) /\ Cardinality(EntriesOf(content)) \in Nat
    <3>1. EntriesOf(content) \in SUBSET Name
      BY DEF EntriesOf
    <3> QED
      BY <3>1, NameFinite, FS_Subset, FS_CardinalityType
  <2>3. created = 0 /\ (content # NoDir => EntriesOf(content) = {})
    <3>1. content # NoDir => created + Cardinality(EntriesOf(content)) = 0
      BY <1>4 DEF ChangeDirectory
    <3>2. content = NoDir => created = 0
      BY <1>4 DEF ChangeDirectory
    <3> QED
      BY <1>0, <2>2, <3>1, <3>2, FS_EmptySet
  <2>4. /\ scan'.open = scan.open /\ scan'.returned = scan.returned
        /\ scan'.may = scan.may /\ scan'.must = scan.must
    <3>1. scan' \in {scan, [scan EXCEPT !.live = FALSE]}
      BY <1>4 DEF ChangeDirectory
    <3> QED
      BY <1>0, <3>1
  <2>5. ASSUME NEW k \in 1..Len(get_path_list), NEW n \in Name, Holds(k, n)'
        PROVE  Holds(k, n)
    <3>1. dirs'[Path(k)] # NoDir /\ dirs'[Path(k)][n] # "none"
      BY <1>1, <2>5 DEF Holds
    <3>2. Path(k) # d
      BY <2>1, <2>3, <3>1 DEF EntriesOf
    <3> QED
      BY <1>2, <2>1, <3>1, <3>2 DEF Holds
  <2> QED
    BY <2>3, <2>4, <2>5
<1>5. Word \in Name /\ Others \subseteq Name /\ "plain" \in Kind
  BY DEF Name, Kind
<1> QED
  BY <1>3, <1>4, <1>5 DEF World

LEMMA WorldRoom ==
  TypeOK /\ ListInv /\ RoomInv /\ World => RoomInv'
<1> SUFFICES ASSUME TypeOK, ListInv, RoomInv, World, PATH # NULL,
                    failures' = 0, created' = 0
             PROVE  Room'
  BY WorldGrows DEF Grown, RoomInv, Room
<1>1. /\ UNCHANGED <<PATH, pc, at, count, list, failures>>
      /\ get_path_list' = get_path_list /\ Places' = Places
  BY WorldGrows DEF Grown, get_path_list, Places
<1>2. /\ created = 0
      /\ scan'.open = scan.open /\ scan'.returned = scan.returned
      /\ scan'.may = scan.may
      /\ \A k \in 1..Len(get_path_list), n \in Name :
           Holds(k, n)' => Holds(k, n) /\ (k = at /\ n \in scan.must => n \in scan'.must)
  BY WorldTakesAway
<1>3. Room /\ failures = 0 /\ created = 0
  BY <1>1, <1>2 DEF RoomInv
<1>4. Counted' \subseteq Counted /\ Ahead' \subseteq Ahead
  <2>1. ASSUME NEW p \in Places
        PROVE  p[1] \in 1..Len(get_path_list) /\ p[2] \in Name
    BY DEF Places
  <2>2. ASSUME NEW p \in Places, Holds(p[1], p[2])'
        PROVE  Holds(p[1], p[2])
    BY <1>2, <2>1, <2>2
  <2>3. Counted' \subseteq Counted
    BY <1>1, <1>2, <2>2, Zenon DEF Counted
  <2>4. Ahead' \subseteq Ahead
    BY <1>1, <1>2, <2>2, Zenon DEF Ahead
  <2> QED
    BY <2>3, <2>4
<1>5. /\ Cardinality(Counted') <= Cardinality(Counted) /\ Cardinality(Counted) \in Nat
      /\ Cardinality(Ahead') <= Cardinality(Ahead) /\ Cardinality(Ahead) \in Nat
      /\ Cardinality(Counted') \in Nat /\ Cardinality(Ahead') \in Nat
  <2>1. Counted \in SUBSET Places /\ Ahead \in SUBSET Places
    BY DEF Counted, Ahead
  <2>2. Counted' \in SUBSET Places /\ Ahead' \in SUBSET Places
    BY <1>4, <2>1
  <2> QED
    BY <1>4, <2>1, <2>2, Finitely
<1>6. pc = "count" => (scan'.open => \A n \in Name : Holds(at, n)' => n \in scan'.must)
  <2>1. pc = "count" /\ scan.open => at \in 1..Len(get_path_list)
    BY PathType DEF ListInv, Loops, InPath, TypeOK
  <2>2. \A k, n : Holds(k, n)' <=> dirs'[Path(k)] # NoDir /\ dirs'[Path(k)][n] # "none"
    BY <1>1 DEF Holds, Path
  <2>3. \A n : Holds(at, n)' <=> dirs'[Path(at)] # NoDir /\ dirs'[Path(at)][n] # "none"
    BY <1>1 DEF Holds, Path
  <2> QED
    BY <1>2, <1>3, <2>1, <2>2, <2>3 DEF Room
<1>7. count \in Nat /\ Len(list) \in Nat
  BY DEF TypeOK
<1> QED
  BY <1>1, <1>2, <1>3, <1>5, <1>6, <1>7 DEF Room

LEMMA StepRoom ==
  TypeOK /\ ListInv /\ RoomInv /\ Step => RoomInv'
<1> SUFFICES ASSUME TypeOK, ListInv, RoomInv, Step, PATH # NULL,
                    failures' = 0, created' = 0
             PROVE  Room'
  <2>1. Step => PATH' = PATH
    BY StepKeepsWorld
  <2>2. ASSUME TypeOK, ListInv, RoomInv, Step, PATH = NULL
        PROVE  pc' # "overrun"
    <3>1. pc \notin {"count", "fill", "overrun"}
      BY <2>2 DEF ListInv, Loops, RoomInv
    <3> QED
      BY <2>2, <3>1 DEF Step, StatCwd, AccessCwd, GetPath, OpenDir, CountEntry, CloseDir,
         Allocate, FillEntry, Search, FindCommandPath, Access, Stat, Execve, Goto
  <2> QED
    BY <2>1, <2>2 DEF RoomInv, Room
<1>0. /\ dirs' = dirs /\ PATH' = PATH /\ get_path_list' = get_path_list
      /\ Places' = Places /\ created' = created
      /\ \A k, n : Holds(k, n)' <=> Holds(k, n)
  <2>1. created' = created
    BY DEF Step, StatCwd, AccessCwd, GetPath, OpenDir, CountEntry, CloseDir,
           Allocate, FillEntry, Search, FindCommandPath, Access, Stat, Execve, world
  <2> QED
    BY <2>1, StepKeepsWorld DEF get_path_list, Path, Places, Holds
<1>1. /\ at \in Nat \ {0} /\ count \in Nat /\ list \in Seq(Name) /\ Len(list) \in Nat
      /\ DOMAIN scan = {"open", "live", "may", "must", "returned"}
      /\ Len(get_path_list) \in Nat
  BY PathType DEF TypeOK
<1>2. failures = 0 /\ Works /\ Room
  <2>1. Works \/ Fails \/ UNCHANGED failures
    BY DEF Step, StatCwd, AccessCwd, GetPath, OpenDir, CountEntry, CloseDir,
           Allocate, FillEntry, Search, FindCommandPath, Access, Stat, Execve
  <2>2. failures \in Nat
    BY CommandListAssumption DEF TypeOK
  <2> QED
    BY <2>1, <2>2 DEF Works, Fails, RoomInv
<1>3. ~Fails
  BY <1>2, CommandListAssumption DEF Works, Fails, TypeOK
<1>4. /\ Counted \in SUBSET Places /\ Ahead \in SUBSET Places
      /\ Counted' \in SUBSET Places /\ Ahead' \in SUBSET Places
  BY <1>0 DEF Counted, Ahead
<1>5. /\ Cardinality(Counted) \in Nat /\ Cardinality(Ahead) \in Nat
      /\ Cardinality(Counted') \in Nat /\ Cardinality(Ahead') \in Nat
      /\ IsFiniteSet(Counted) /\ IsFiniteSet(Ahead)
  BY <1>4, Finitely
<1>6. \A p \in Places : p[1] \in 1..Len(get_path_list) /\ p[2] \in Name
  BY DEF Places
<1>7. Room <=> /\ pc \in {"stat_cwd", "access_cwd", "get_path"} => at = 1
               /\ pc = "count" =>
                    /\ scan.open => \A n \in Name : Holds(at, n) => n \in scan.must
                    /\ Cardinality(Counted) <= count
               /\ pc = "fill" => Len(list) + Cardinality(Ahead) <= count
               /\ pc # "overrun"
  BY <1>0, <1>2 DEF Room
<1>10. CASE StatCwd \/ AccessCwd \/ FindCommandPath \/ Access \/ Stat \/ Execve
  <2>1. /\ pc' \in {"access_cwd", "get_path", "typed", "missing", "access", "stat",
                    "execve", "runs", "denied", "gone"}
        /\ pc' \in {"access_cwd", "get_path"} =>
             at' = at /\ pc \in {"stat_cwd", "access_cwd"}
    BY <1>10 DEF StatCwd, AccessCwd, FindCommandPath, Access, Stat, Execve, Goto
  <2> QED
    BY <1>2, <1>7, <2>1 DEF Room
<1>11. CASE GetPath
  <2>1. /\ pc = "get_path" /\ pc' = "count" /\ at' = at /\ scan' = scan /\ count' = count
    BY <1>3, <1>11 DEF GetPath, Goto
  <2>2. at = 1 /\ ~scan.open
    BY <1>7, <1>2, <2>1 DEF ListInv, Loops
  <2>3. Counted' = {}
    BY <1>0, <1>6, <2>1, <2>2 DEF Counted
  <2>4. Cardinality(Counted') = 0
    BY <2>3, FS_EmptySet
  <2> QED
    BY <1>1, <2>1, <2>2, <2>4 DEF Room
<1>12. CASE OpenDir
  <2>1. /\ pc \in {"count", "fill"} /\ pc' = pc /\ at \in 1..Len(get_path_list)
        /\ ~scan.open /\ count' = count /\ list' = list
    BY <1>1, <1>12 DEF OpenDir, InPath
  <2>2. CASE /\ dirs[Path(at)] # NoDir /\ at' = at
             /\ scan' = [open |-> TRUE, live |-> TRUE, returned |-> {},
                         may |-> EntriesOf(dirs[Path(at)]),
                         must |-> EntriesOf(dirs[Path(at)])]
    <3>1. /\ scan'.open /\ scan'.returned = {} /\ scan'.may = EntriesOf(dirs[Path(at)])
          /\ scan'.must = EntriesOf(dirs[Path(at)])
      BY <2>2
    <3>2. \A n \in Name : Holds(at, n) <=> n \in EntriesOf(dirs[Path(at)])
      BY <2>2, HoldsEntry
    <3>4. Counted' \subseteq Counted
      BY <1>0, <2>2, <3>1 DEF Counted
    <3>5. Ahead' \subseteq Ahead
      BY <1>0, <1>6, <2>1, <2>2, <3>1, <3>2 DEF Ahead
    <3>6. /\ Cardinality(Counted') <= Cardinality(Counted)
          /\ Cardinality(Ahead') <= Cardinality(Ahead)
      BY <1>4, <3>4, <3>5, Finitely
    <3>7. /\ pc = "count" => Cardinality(Counted') <= count
          /\ pc = "fill" => Len(list) + Cardinality(Ahead') <= count
      BY <1>1, <1>2, <1>5, <1>7, <3>6
    <3> QED
      BY <1>0, <2>1, <2>2, <3>1, <3>2, <3>7 DEF Room
  <2>3. CASE dirs[Path(at)] = NoDir /\ at' = at + 1 /\ scan' = scan
    <3>1. \A n : ~Holds(at, n)
      BY <2>3 DEF Holds
    <3>2. Counted' \subseteq Counted
      BY <1>0, <1>1, <1>6, <2>1, <2>3, <3>1 DEF Counted
    <3>3. Ahead' \subseteq Ahead
      BY <1>0, <1>1, <1>6, <2>1, <2>3, <3>1 DEF Ahead
    <3>4. /\ Cardinality(Counted') <= Cardinality(Counted)
          /\ Cardinality(Ahead') <= Cardinality(Ahead)
      BY <1>4, <3>2, <3>3, Finitely
    <3>5. /\ pc = "count" => Cardinality(Counted') <= count
          /\ pc = "fill" => Len(list) + Cardinality(Ahead') <= count
      BY <1>1, <1>2, <1>5, <1>7, <3>4
    <3> QED
      BY <2>1, <2>3, <3>5 DEF Room
  <2> QED
    BY <1>3, <1>12, <2>2, <2>3 DEF OpenDir
<1>13. CASE CountEntry
  <2>1. PICK n \in Name : Readdir(n)
    BY <1>13 DEF CountEntry
  <2>2. /\ pc = "count" /\ pc' = pc /\ at' = at /\ count' = count + 1
        /\ scan.open /\ scan'.open /\ scan'.must = scan.must
        /\ scan'.returned = scan.returned \cup {n}
    BY <1>1, <1>13, <2>1 DEF CountEntry, Readdir
  <2>3. \A p \in Places : p = <<p[1], p[2]>>
    BY DEF Places
  <2>4. Counted' \subseteq Counted \cup {<<at, n>>}
    BY <1>0, <2>2, <2>3 DEF Counted
  <2>5. IsFiniteSet(Counted \cup {<<at, n>>})
        /\ Cardinality(Counted \cup {<<at, n>>}) <= Cardinality(Counted) + 1
    <3>1. /\ IsFiniteSet(Counted \cup {<<at, n>>})
          /\ \/ Cardinality(Counted \cup {<<at, n>>}) = Cardinality(Counted)
             \/ Cardinality(Counted \cup {<<at, n>>}) = Cardinality(Counted) + 1
      BY <1>5, FS_AddElement
    <3> QED
      BY <1>5, <3>1
  <2>6. Cardinality(Counted') <= Cardinality(Counted \cup {<<at, n>>})
        /\ Cardinality(Counted \cup {<<at, n>>}) \in Nat
    BY <2>4, <2>5, FS_Subset, FS_CardinalityType
  <2>7. Cardinality(Counted') <= count'
    BY <1>1, <1>2, <1>5, <1>7, <2>2, <2>5, <2>6
  <2> QED
    BY <1>0, <1>2, <1>7, <2>2, <2>7 DEF Room
<1>14. CASE CloseDir
  <2>1. /\ pc \in {"count", "fill"} /\ pc' = pc /\ at' = at + 1 /\ count' = count
        /\ list' = list /\ scan.open /\ ~scan'.open /\ scan.must \subseteq scan.returned
    BY <1>3, <1>14 DEF CloseDir, NoScan
  <2>2. pc = "count" => Counted' \subseteq Counted
    <3>1. pc = "count" => \A n \in Name : Holds(at, n) => n \in scan.returned
      BY <1>2, <1>7, <2>1
    <3> QED
      BY <1>0, <1>1, <1>6, <2>1, <3>1 DEF Counted
  <2>3. Ahead' \subseteq Ahead
    BY <1>0, <1>1, <1>6, <2>1 DEF Ahead
  <2>4. /\ pc = "count" => Cardinality(Counted') <= Cardinality(Counted)
        /\ Cardinality(Ahead') <= Cardinality(Ahead)
    BY <1>4, <2>2, <2>3, Finitely
  <2>5. /\ pc = "count" => Cardinality(Counted') <= count
        /\ pc = "fill" => Len(list) + Cardinality(Ahead') <= count
    BY <1>1, <1>2, <1>5, <1>7, <2>4
  <2> QED
    BY <2>1, <2>5 DEF Room
<1>15. CASE Allocate
  <2>1. /\ pc = "count" /\ pc' = "fill" /\ at > Len(get_path_list) /\ at' = 1
        /\ scan' = scan /\ count' = count /\ list' = list /\ ~scan.open /\ list = <<>>
    BY <1>1, <1>3, <1>15 DEF Allocate, Goto, InPath, ListInv, Loops
  <2>2. Ahead' \subseteq Counted
    BY <1>0, <1>1, <1>6, <2>1 DEF Ahead, Counted
  <2>3. Cardinality(Ahead') <= Cardinality(Counted) /\ Len(list) = 0
    BY <1>4, <2>1, <2>2, Finitely
  <2>4. Len(list) + Cardinality(Ahead') <= count
    BY <1>1, <1>2, <1>5, <1>7, <2>1, <2>3
  <2> QED
    BY <2>1, <2>4 DEF Room
<1>16. CASE FillEntry
  <2>1. PICK n \in Name :
          /\ Readdir(n)
          /\ \/ Len(list) > count /\ Goto("overrun") /\ Works /\ UNCHANGED list
             \/ Len(list) <= count /\ Works /\ list' = Append(list, n) /\ UNCHANGED pc
             \/ Len(list) <= count /\ Goto("typed") /\ Fails /\ UNCHANGED list
    BY <1>16 DEF FillEntry
  <2>2. /\ pc = "fill" /\ at' = at /\ count' = count /\ scan.open /\ scan'.open
        /\ n \in scan.may \ scan.returned /\ scan'.may = scan.may
        /\ scan'.returned = scan.returned \cup {n}
    BY <1>1, <1>16, <2>1 DEF FillEntry, Readdir
  <2>3. <<at, n>> \in Ahead
    <3>1. at \in 1..Len(get_path_list)
      BY <1>1, <2>2 DEF ListInv, Loops, InPath
    <3> QED
      BY <2>2, <3>1 DEF Ahead, Places
  <2>4. Ahead' \subseteq Ahead \ {<<at, n>>}
    BY <1>0, <1>1, <2>2 DEF Ahead
  <2>5. /\ IsFiniteSet(Ahead \ {<<at, n>>})
        /\ Cardinality(Ahead \ {<<at, n>>}) = Cardinality(Ahead) - 1
    BY <1>5, <2>3, FS_RemoveElement
  <2>6. Cardinality(Ahead') <= Cardinality(Ahead) - 1
    BY <2>4, <2>5, FS_Subset
  <2>7. Len(list) + Cardinality(Ahead) <= count
    BY <1>2, <1>7, <2>2
  <2>8. Len(list) < count
    BY <1>1, <1>5, <2>6, <2>7
  <2>9. list' = Append(list, n) /\ pc' = "fill"
    BY <1>1, <1>3, <2>1, <2>2, <2>8
  <2>10. Len(list') = Len(list) + 1
    BY <1>1, <2>9
  <2>11. Len(list') + Cardinality(Ahead') <= count'
    BY <1>1, <1>5, <2>2, <2>6, <2>7, <2>10
  <2> QED
    BY <2>9, <2>11 DEF Room
<1>17. CASE Search
  <2>1. pc = "fill" /\ Len(list) <= count
    BY <1>1, <1>2, <1>5, <1>7, <1>17 DEF Search
  <2>2. ~(Len(list) > count)
    BY <1>1, <2>1
  <2>3. pc' = "typed"
    BY <1>17, <2>2 DEF Search, Goto
  <2> QED
    BY <2>3 DEF Room
<1> QED
  BY <1>10, <1>11, <1>12, <1>13, <1>14, <1>15, <1>16, <1>17 DEF Step

LEMMA NextRoom == TypeOK /\ ListInv /\ RoomInv /\ [Next]_vars => RoomInv'
<1>1. RoomInv /\ UNCHANGED vars => RoomInv'
  BY DEF vars, RoomInv, Room, Counted, Ahead, Places, Holds, get_path_list, Path
<1> QED
  BY <1>1, StepRoom, WorldRoom DEF Next

\* The list fits: the second pass stores no more than the first has counted,
\* unless a call failed or an entry has come into being in between.
THEOREM ListFits == Spec => []FilledFits
<1>1. TypeOK /\ KindsNow /\ ListInv /\ [Next]_vars => ListInv'
  BY NextListInv
<1>2. TypeOK /\ ListInv /\ RoomInv /\ [Next]_vars => RoomInv'
  BY NextRoom
<1>3. TypeOK /\ ListInv /\ RoomInv => FilledFits
  <2> SUFFICES ASSUME TypeOK, ListInv, RoomInv, pc \in {"fill", "overrun"},
                      failures = 0, created = 0
               PROVE  Len(list) <= count
    BY DEF FilledFits
  <2>1. PATH # NULL /\ pc = "fill"
    BY DEF ListInv, Loops, RoomInv, Room
  <2>2. Len(list) + Cardinality(Ahead) <= count
    BY <2>1 DEF RoomInv, Room
  <2>3. Cardinality(Ahead) \in Nat
    <3>1. Ahead \in SUBSET Places
      BY DEF Ahead
    <3> QED
      BY <2>1, <3>1, Finitely
  <2> QED
    BY <2>2, <2>3 DEF TypeOK
<1> QED
  BY <1>1, <1>2, <1>3, InitListInv, InitRoom, TypeCorrect, AlwaysKindsNow, PTL DEF Spec
=============================================================================
