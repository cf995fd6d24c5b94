-------------------------- MODULE EchfsStoreProofs --------------------------
(***************************************************************************)
(* The volume implements FileStore: what the commands of echfs-utils do to *)
(* the image, read through path_resolver and the allocation table, is to   *)
(* add one directory, to add one whole file, to wipe everything, or        *)
(* nothing, for volumes of any layout, any paths and any sizes of files,   *)
(* wherever a command is cut short. And the boot manager, the second       *)
(* program that reads volumes, loads from it what was stored.              *)
(***************************************************************************)
EXTENDS EchfsProofs, EchfsLoader

-----------------------------------------------------------------------------
(* The refinement mapping, for a table, a directory and contents given as  *)
(* parameters.                                                             *)

\* The entry of a path, and whether there is one.
At(d, path, type) ==
    Search(d, path[Len(path)], Reach(d, path, Len(path) - 1), type)
There(d, path, type) == Reach(d, path, Len(path) - 1) >= 0 /\ At(d, path, type) > 0

\* What the blocks of a file hold.
Holds(T, D, e) == [k \in 1..BlocksOf(e.size) |-> D[Walk(T, e.payload, k - 1)]]

DirsIn(d) == {path \in AllDirs : There(d, path, DIRECTORY_TYPE)}
File(T, d, D, path) == [path |-> path, data |-> Holds(T, D, d[At(d, path, FILE_TYPE)])]
FilesIn(T, d, D) == {File(T, d, D, path) : path \in {p \in AllFiles : There(d, p, FILE_TYPE)}}

\* IsThere and ContentsAt read the image as the mapping does, in this state...
LEMMA MappedNow ==
    ASSUME NEW path
    PROVE  /\ \A type : IsThere(path, type) = There(dir, path, type)
           /\ ContentsAt(path) = Holds(fat, data, dir[At(dir, path, FILE_TYPE)])
<1>1. ParentId(path) = Reach(dir, path, Len(path) - 1)
  BY ParentIsReach
<1>2. \A type : Target(path, type) = At(dir, path, type)
  BY <1>1, SearchIsSearch DEF Target, At
<1>3. \A type : IsThere(path, type) = There(dir, path, type)
  BY <1>1, <1>2 DEF IsThere, There
<1>4. PICK e : e = dir[At(dir, path, FILE_TYPE)]
  OBVIOUS
<1>5. ContentsAt(path) = [k \in 1..BlocksOf(e.size) |-> data[Follow(e.payload, k - 1)]]
  BY <1>2, <1>4 DEF ContentsAt
<1>6. \A n : Follow(e.payload, n) = Walk(fat, e.payload, n)
  BY FollowIsWalk
<1>. QED BY <1>3, <1>4, <1>5, <1>6 DEF Holds

\* ...and in the next one.
LEMMA MappedNext ==
    ASSUME NEW path
    PROVE  /\ \A type : IsThere(path, type)' = There(dir', path, type)
           /\ ContentsAt(path)' = Holds(fat', data', dir'[At(dir', path, FILE_TYPE)])
<1>1. ParentId(path)' = Reach(dir', path, Len(path) - 1)
  BY ParentIsReachNext
<1>2. \A type : Target(path, type)' = At(dir', path, type)
  BY <1>1 DEF Target, At, search, Search, Match
<1>3. \A type : IsThere(path, type)' = There(dir', path, type)
  BY <1>1, <1>2 DEF IsThere, There
<1>4. PICK e : e = dir'[At(dir', path, FILE_TYPE)]
  OBVIOUS
<1>5. ContentsAt(path)' = [k \in 1..BlocksOf(e.size) |-> data'[Follow(e.payload, k - 1)']]
  BY <1>2, <1>4 DEF ContentsAt
<1>6. \A n : Follow(e.payload, n)' = Walk(fat', e.payload, n)
  BY FollowIsWalkNext
<1>. QED BY <1>3, <1>4, <1>5, <1>6 DEF Holds

\* So the variables of FileStore are these.
MappedDirs == {path \in AllDirs : IsThere(path, DIRECTORY_TYPE)}
MappedFiles == {[path |-> path, data |-> ContentsAt(path)] :
                   path \in {p \in AllFiles : IsThere(p, FILE_TYPE)}}

\* They are what the mapping of KeepsFiles makes of the image, now and next.
LEMMA Mapping ==
    /\ MappedDirs = DirsIn(dir) /\ MappedDirs' = DirsIn(dir')
    /\ MappedFiles = FilesIn(fat, dir, data) /\ MappedFiles' = FilesIn(fat', dir', data')
<1>1. MappedDirs = DirsIn(dir)
  BY MappedNow DEF MappedDirs, DirsIn
<1>2. MappedDirs' = DirsIn(dir')
  BY MappedNext DEF MappedDirs, DirsIn
<1>3. MappedFiles = FilesIn(fat, dir, data)
  BY MappedNow DEF MappedFiles, FilesIn, File
<1>4. MappedFiles' = FilesIn(fat', dir', data')
  BY MappedNext DEF MappedFiles, FilesIn, File
<1>. QED BY <1>1, <1>2, <1>3, <1>4

\* A step that adds one directory to the image is MakeDir.
LEMMA IsMakeDir ==
    ASSUME NEW path \in AllDirs, path \notin DirsIn(dir),
           Len(path) = 1 \/ SubSeq(path, 1, Len(path) - 1) \in DirsIn(dir),
           DirsIn(dir') = DirsIn(dir) \cup {path},
           FilesIn(fat', dir', data') = FilesIn(fat, dir, data)
    PROVE  Store!Next
<1>1. /\ path \in MappedDirs' \ MappedDirs
      /\ Len(path) = 1 \/ SubSeq(path, 1, Len(path) - 1) \in MappedDirs
      /\ MappedDirs' = MappedDirs \cup {path} /\ MappedFiles' = MappedFiles
  BY Mapping
<1>2. Store!MakeDir
  BY <1>1 DEF Store!MakeDir, Store!HasParent, Store!Parent, MappedDirs, MappedFiles
<1>. QED BY <1>2 DEF Store!Next

\* A step that adds one file is Store.
LEMMA IsStore ==
    ASSUME NEW path \in AllFiles, ~There(dir, path, FILE_TYPE),
           Len(path) = 1 \/ SubSeq(path, 1, Len(path) - 1) \in DirsIn(dir),
           NEW contents \in SourceOf(path),
           DirsIn(dir') = DirsIn(dir),
           FilesIn(fat', dir', data') = FilesIn(fat, dir, data)
                                            \cup {[path |-> path, data |-> contents]}
    PROVE  Store!Next
<1>. DEFINE new == [path |-> path, data |-> contents]
<1>1. \A f \in FilesIn(fat, dir, data) : f.path # path
  BY DEF FilesIn, File
<1>2. new.path = path /\ new.data = contents
  OBVIOUS
<1>. HIDE DEF new
<1>3. /\ MappedFiles' = MappedFiles \cup {new} /\ MappedDirs' = MappedDirs
      /\ Len(path) = 1 \/ SubSeq(path, 1, Len(path) - 1) \in MappedDirs
      /\ \A f \in MappedFiles : f.path # path
  BY <1>1, Mapping DEF new
<1>4. new \in MappedFiles' \ MappedFiles
  BY <1>2, <1>3
<1>5. Store!Store
  BY <1>2, <1>3, <1>4 DEF Store!Store, Store!HasParent, Store!Parent, MappedDirs, MappedFiles
<1>. QED BY <1>5 DEF Store!Next

\* A step that leaves nothing is Wipe.
LEMMA IsWipe ==
    ASSUME DirsIn(dir') = {}, FilesIn(fat', dir', data') = {}
    PROVE  Store!Next
<1>1. MappedDirs' = {} /\ MappedFiles' = {}
  BY Mapping
<1>. QED BY <1>1 DEF Store!Next, Store!Wipe, MappedDirs, MappedFiles

\* A step that changes neither is a stutter.
LEMMA IsStutter ==
    ASSUME DirsIn(dir') = DirsIn(dir),
           FilesIn(fat', dir', data') = FilesIn(fat, dir, data)
    PROVE  UNCHANGED Store!vars
<1>1. MappedDirs' = MappedDirs /\ MappedFiles' = MappedFiles
  BY Mapping
<1>. QED BY <1>1 DEF Store!vars, MappedDirs, MappedFiles

-----------------------------------------------------------------------------
(* Paths and entries.                                                      *)

\* The entry through which a path leads to a directory behind the root.
LEMMA ReachEntry ==
    ASSUME NEW d \in Seq(Entry), Tree(d), NEW path \in Paths, NEW n \in 1..(Len(path) - 1),
           Reach(d, path, n) >= 0
    PROVE  /\ Reach(d, path, n - 1) >= 0 /\ Reach(d, path, n - 1) \in Int
           /\ \E i \in 1..Len(d) :
                 /\ Search(d, path[n], Reach(d, path, n - 1), DIRECTORY_TYPE) = i
                 /\ Match(d[i], path[n], Reach(d, path, n - 1), DIRECTORY_TYPE)
                 /\ d[i].payload = Reach(d, path, n) /\ Reach(d, path, n) # ROOT_ID
<1>1. /\ Len(path) \in Nat /\ n - 1 \in 0..(Len(path) - 2) /\ (n - 1) + 1 = n
      /\ n - 1 \in 0..(Len(path) - 1) /\ n \in 0..(Len(path) - 1)
  BY DEF Paths
<1>2. PICK x : x = Reach(d, path, n - 1)
  OBVIOUS
<1>3. PICK y : y = Reach(d, path, n)
  OBVIOUS
<1>4. x \in Int /\ y \in Int /\ y >= 0 /\ y = Into(d, path[n], x)
  BY <1>1, <1>2, <1>3, ReachStep
<1>5. x >= 0
  BY <1>4 DEF Into
<1>6. PICK i : i = Search(d, path[n], x, DIRECTORY_TYPE)
  OBVIOUS
<1>7. y = IF i < 0 THEN i ELSE d[i].payload
  BY <1>4, <1>5, <1>6, IntoIs
<1>8. \/ i \in 1..Len(d) /\ Match(d[i], path[n], x, DIRECTORY_TYPE)
      \/ i \in {SEARCH_FAILURE, PANIC}
  BY <1>6, SearchFinds
<1>9. i \in 1..Len(d) /\ Match(d[i], path[n], x, DIRECTORY_TYPE)
  BY <1>4, <1>7, <1>8 DEF SEARCH_FAILURE, PANIC
<1>10. y = d[i].payload
  BY <1>7, <1>9
<1>11. d[i].payload \in 1..Len(d)
  BY <1>9, NumbersUnique DEF Tree, IsDir, Match
<1>12. y # ROOT_ID
  BY <1>10, <1>11 DEF ROOT_ID
<1>. QED BY <1>2, <1>3, <1>4, <1>5, <1>6, <1>9, <1>10, <1>12

\* Two paths that lead to the same directory have led the same way.
LEMMA OneWay ==
    ASSUME NEW d \in Seq(Entry), Tree(d), NEW p \in Paths, NEW q \in Paths
    PROVE  \A m \in 0..(Len(p) - 1) : \A n \in 0..(Len(q) - 1) :
              Reach(d, p, m) >= 0 /\ Reach(d, p, m) = Reach(d, q, n) =>
                 m = n /\ \A k \in 1..m : p[k] = q[k]
<1>. DEFINE Same(m, n) == m = n /\ \A k \in 1..m : p[k] = q[k]
            S == {m \in Nat : m <= Len(p) - 1 => \A n \in 0..(Len(q) - 1) :
                     Reach(d, p, m) >= 0 /\ Reach(d, p, m) = Reach(d, q, n) => Same(m, n)}
<1>0. Len(p) \in Nat /\ Len(q) \in Nat
  BY DEF Paths
<1>1. 0 \in S
  <2>1. SUFFICES ASSUME NEW n \in 0..(Len(q) - 1), Reach(d, p, 0) = Reach(d, q, n)
                 PROVE  n = 0
    OBVIOUS
  <2>2. Reach(d, q, n) = ROOT_ID
    BY <2>1, ReachStep
  <2>3. n # 0 => n \in 1..(Len(q) - 1) /\ Reach(d, q, n) >= 0
    BY <1>0, <2>2 DEF ROOT_ID
  <2>. QED BY <2>2, <2>3, ReachEntry
<1>2. ASSUME NEW m \in S, m + 1 <= Len(p) - 1, NEW n \in 0..(Len(q) - 1),
             Reach(d, p, m + 1) >= 0, Reach(d, p, m + 1) = Reach(d, q, n)
      PROVE  Same(m + 1, n)
  <2>1. m \in Nat /\ m + 1 \in 1..(Len(p) - 1) /\ (m + 1) - 1 = m
    BY <1>0, <1>2
  <2>2. PICK i \in 1..Len(d) : /\ Match(d[i], p[m + 1], Reach(d, p, m), DIRECTORY_TYPE)
                               /\ d[i].payload = Reach(d, p, m + 1)
                               /\ Reach(d, p, m + 1) # ROOT_ID /\ Reach(d, p, m) >= 0
    BY <1>2, <2>1, ReachEntry
  <2>3. n # 0
    BY <1>2, <2>2, ReachStep
  <2>4. n \in 1..(Len(q) - 1) /\ n - 1 \in 0..(Len(q) - 1) /\ n - 1 \in Nat
    BY <1>0, <2>3
  <2>5. PICK j \in 1..Len(d) : /\ Match(d[j], q[n], Reach(d, q, n - 1), DIRECTORY_TYPE)
                               /\ d[j].payload = Reach(d, q, n)
    BY <1>2, <2>4, ReachEntry
  <2>6. i = j
    BY <1>2, <2>2, <2>5, NumbersUnique DEF Tree, IsDir, Match
  <2>7. p[m + 1] = q[n] /\ Reach(d, p, m) = Reach(d, q, n - 1)
    BY <2>2, <2>5, <2>6 DEF Match
  <2>8. m <= Len(p) - 1
    BY <1>0, <1>2, <2>1
  <2>9. Same(m, n - 1)
    BY <2>2, <2>4, <2>7, <2>8
  <2>10. m + 1 = n
    BY <2>1, <2>4, <2>9
  <2>11. \A k \in 1..(m + 1) : k \in 1..m \/ k = m + 1
    BY <2>1
  <2>. QED BY <2>7, <2>9, <2>10, <2>11
<1>3. S \in SUBSET Nat /\ \A m \in S : m + 1 \in S
  BY <1>2
<1>. HIDE DEF S
<1>4. \A m \in Nat : m \in S
  BY <1>1, <1>3, SetInduction
<1>5. ASSUME NEW m \in 0..(Len(p) - 1) PROVE m \in Nat /\ m <= Len(p) - 1
  BY <1>0
<1>. QED BY <1>4, <1>5 DEF S

\* The entry that a path leads to is an entry of its name and type.
Leads(d, path, type, i) ==
    /\ i \in 1..Len(d)
    /\ Reach(d, path, Len(path) - 1) >= 0 /\ At(d, path, type) = i

\* path_resolver finds an entry where the path leads to one.
LEMMA ThereLeads ==
    ASSUME NEW d \in Seq(Entry), NEW path \in Paths, NEW type
    PROVE  /\ There(d, path, type) => Leads(d, path, type, At(d, path, type))
           /\ \A i : Leads(d, path, type, i) =>
                 /\ There(d, path, type) /\ At(d, path, type) = i
                 /\ Match(d[i], path[Len(path)], Reach(d, path, Len(path) - 1), type)
<1>1. PICK x : x = Reach(d, path, Len(path) - 1)
  OBVIOUS
<1>2. PICK j : j = Search(d, path[Len(path)], x, type)
  OBVIOUS
<1>3. At(d, path, type) = j
  BY <1>1, <1>2 DEF At
<1>4. \/ j \in 1..Len(d) /\ Match(d[j], path[Len(path)], x, type)
      \/ j \in {SEARCH_FAILURE, PANIC}
  BY <1>2, SearchFinds
<1>5. j > 0 <=> j \in 1..Len(d)
  BY <1>4 DEF SEARCH_FAILURE, PANIC
<1>6. j \in 1..Len(d) => Match(d[j], path[Len(path)], x, type)
  BY <1>4 DEF SEARCH_FAILURE, PANIC
<1>. QED BY <1>1, <1>3, <1>5, <1>6 DEF There, Leads

\* No two paths lead to the same entry.
LEMMA OnePath ==
    ASSUME NEW d \in Seq(Entry), Tree(d), NEW p \in Paths, NEW q \in Paths,
           NEW s, NEW t, NEW i, Leads(d, p, s, i), Leads(d, q, t, i)
    PROVE  p = q /\ s = t
<1>1. PICK m, n : m = Len(p) - 1 /\ n = Len(q) - 1
  OBVIOUS
<1>2. /\ m \in 0..(Len(p) - 1) /\ n \in 0..(Len(q) - 1) /\ m \in Nat /\ n \in Nat
      /\ Len(p) = m + 1 /\ Len(q) = n + 1
  BY <1>1 DEF Paths
<1>3. /\ Match(d[i], p[Len(p)], Reach(d, p, m), s) /\ Match(d[i], q[Len(q)], Reach(d, q, n), t)
      /\ Reach(d, p, m) >= 0
  BY <1>1, ThereLeads DEF Leads
<1>4. s = t /\ p[Len(p)] = q[Len(q)] /\ Reach(d, p, m) = Reach(d, q, n)
  BY <1>3 DEF Match
<1>5. m = n /\ \A k \in 1..m : p[k] = q[k]
  BY <1>2, <1>3, <1>4, OneWay
<1>6. Len(p) = Len(q) /\ \A k \in 1..Len(p) : k \in 1..m \/ k = Len(p)
  BY <1>2, <1>5
<1>7. \A k \in 1..Len(p) : p[k] = q[k]
  BY <1>4, <1>5, <1>6
<1>8. p \in Seq(Names) /\ q \in Seq(Names)
  BY DEF Paths
<1>. QED BY <1>4, <1>6, <1>7, <1>8, SeqEqual

\* The paths that entries of a type may have.
PathsOf(type) == IF type = FILE_TYPE THEN AllFiles ELSE AllDirs

\* What can be stored is named by the paths that commands are given.
LEMMA AllArePaths == AllFiles \subseteq Paths /\ AllDirs \subseteq Paths
<1>1. AllFiles \subseteq Paths
  BY GivenPaths DEF AllFiles
<1>2. MkdirPaths \subseteq Paths
  BY GivenPaths
<1>3. <<"">> \in Paths
  <2>1. "" \in Names
    BY DEF Names
  <2>. QED BY <2>1, NameIsPath
<1>4. ASSUME NEW p \in AllFiles, NEW n \in 1..(Len(p) - 1) PROVE SubSeq(p, 1, n) \in Paths
  <2>1. p \in Seq(Names) /\ Len(p) \in Nat
    BY <1>1 DEF Paths
  <2>2. SubSeq(p, 1, n) \in Seq(Names) /\ Len(SubSeq(p, 1, n)) = n
    BY <2>1
  <2>3. n # 0
    OBVIOUS
  <2>. QED BY <2>2, <2>3, LongIsPath
<1>5. UNION {{SubSeq(p, 1, n) : n \in 1..(Len(p) - 1)} : p \in AllFiles} \subseteq Paths
  <2>1. ASSUME NEW x \in UNION {{SubSeq(p, 1, n) : n \in 1..(Len(p) - 1)} : p \in AllFiles}
        PROVE  x \in Paths
    <3>1. PICK p \in AllFiles : x \in {SubSeq(p, 1, n) : n \in 1..(Len(p) - 1)}
      BY Zenon
    <3>2. PICK n \in 1..(Len(p) - 1) : x = SubSeq(p, 1, n)
      BY <3>1, Zenon
    <3>. QED BY <1>4, <3>2
  <2>. QED BY <2>1
<1>. QED BY <1>1, <1>2, <1>3, <1>5 DEF AllDirs

\* Every entry has a path, one that a command was given or made.
Named(d) ==
    \A i \in 1..Len(d) : \E q \in PathsOf(d[i].type) : Leads(d, q, d[i].type, i)

\* An entry e is new under a path if its directory is there and has no such entry.
NewAt(d, e, path) ==
    /\ Reach(d, path, Len(path) - 1) >= 0
    /\ e.parent_id = Reach(d, path, Len(path) - 1) /\ e.name = path[Len(path)]
    /\ \A j \in 1..Len(d) : ~Match(d[j], e.name, e.parent_id, e.type)

\* What a longer directory does to paths: those that lead to an entry still do,
\* and the path of the new entry leads to that.
LEMMA LeadsLonger ==
    ASSUME NEW d \in Seq(Entry), NEW e \in Entry, NEW path \in Paths, NewAt(d, e, path),
           NEW c, c = Append(d, e)
    PROVE  /\ \A q \in Paths : \A t, i : Leads(d, q, t, i) => Leads(c, q, t, i)
           /\ Leads(c, path, e.type, Len(d) + 1)
<1>1. /\ c \in Seq(Entry) /\ Len(c) = Len(d) + 1 /\ Len(d) \in Nat
      /\ \A i \in 1..Len(d) : c[i] = d[i]
      /\ c[Len(d) + 1] = e
  BY Longer
<1>2. ASSUME NEW q \in Paths, Reach(d, q, Len(q) - 1) >= 0
      PROVE  Reach(c, q, Len(q) - 1) = Reach(d, q, Len(q) - 1)
  <2>1. Len(q) - 1 \in 0..(Len(q) - 1)
    BY DEF Paths
  <2>. QED BY <1>2, <2>1, ReachLonger
<1>3. ASSUME NEW q \in Paths, NEW t, NEW i, Leads(d, q, t, i) PROVE Leads(c, q, t, i)
  <2>1. i \in 1..Len(d) /\ Reach(d, q, Len(q) - 1) >= 0 /\ At(d, q, t) = i
    BY <1>3 DEF Leads
  <2>2. Reach(c, q, Len(q) - 1) = Reach(d, q, Len(q) - 1)
    BY <1>2, <2>1
  <2>3. Search(d, q[Len(q)], Reach(d, q, Len(q) - 1), t) \in 1..Len(d)
    BY <2>1 DEF At
  <2>4. At(c, q, t) = i
    BY <2>1, <2>2, <2>3, SearchLonger DEF At
  <2>5. i \in 1..Len(c)
    BY <1>1, <2>1
  <2>. QED BY <2>1, <2>2, <2>4, <2>5 DEF Leads
<1>4. Leads(c, path, e.type, Len(d) + 1)
  <2>1. PICK x : x = Reach(d, path, Len(path) - 1)
    OBVIOUS
  <2>2. x >= 0 /\ Reach(c, path, Len(path) - 1) = x /\ e.parent_id = x /\ e.name = path[Len(path)]
    BY <1>2, <2>1 DEF NewAt
  <2>3. PICK j : j = Search(c, path[Len(path)], x, e.type)
    OBVIOUS
  <2>4. Len(d) + 1 \in 1..Len(c) /\ Match(c[Len(d) + 1], path[Len(path)], x, e.type)
    BY <1>1, <2>2 DEF Match
  <2>5. j \in 1..Len(c) /\ Match(c[j], path[Len(path)], x, e.type)
    BY <1>1, <2>3, <2>4, SearchFinds
  <2>6. j \notin 1..Len(d)
    BY <1>1, <2>2, <2>5 DEF NewAt
  <2>7. j = Len(d) + 1
    BY <1>1, <2>5, <2>6
  <2>. QED BY <2>2, <2>3, <2>4, <2>7 DEF Leads, At
<1>. QED BY <1>3, <1>4

\* Exactly one path more leads to an entry in c than in d.
Grown(d, c, path, type) ==
    /\ ~There(d, path, type)
    /\ At(c, path, type) = Len(d) + 1
    /\ \A q \in Paths : \A t :
          /\ There(c, q, t) <=> There(d, q, t) \/ (q = path /\ t = type)
          /\ There(d, q, t) => At(c, q, t) = At(d, q, t) /\ At(d, q, t) \in 1..Len(d)

\* So it is when an entry is new.
LEMMA OneMore ==
    ASSUME NEW d \in Seq(Entry), NEW e \in Entry, NEW path \in Paths, NewAt(d, e, path),
           NEW c, c = Append(d, e), Tree(c), Named(d)
    PROVE  Grown(d, c, path, e.type)
<1>1. /\ c \in Seq(Entry) /\ Len(c) = Len(d) + 1 /\ Len(d) \in Nat
      /\ \A i \in 1..Len(d) : c[i] = d[i]
  BY Longer
<1>2. /\ \A q \in Paths : \A t, i : Leads(d, q, t, i) => Leads(c, q, t, i)
      /\ Leads(c, path, e.type, Len(d) + 1)
  BY LeadsLonger
<1>3. There(c, path, e.type) /\ At(c, path, e.type) = Len(d) + 1
  <2>1. PICK u, n : u = e.type /\ n = Len(d) + 1
    OBVIOUS
  <2>2. Leads(c, path, u, n)
    BY <1>2, <2>1
  <2>3. There(c, path, u) /\ At(c, path, u) = n
    BY <1>1, <2>2, ThereLeads
  <2>. QED BY <2>1, <2>3
<1>4. ~There(d, path, e.type)
  <2>1. SUFFICES ASSUME There(d, path, e.type) PROVE FALSE
    OBVIOUS
  <2>2. PICK i : Leads(d, path, e.type, i)
    BY <2>1, ThereLeads
  <2>3. /\ Match(d[i], path[Len(path)], Reach(d, path, Len(path) - 1), e.type)
        /\ i \in 1..Len(d)
    BY <2>2, ThereLeads DEF Leads
  <2>. QED BY <2>3 DEF NewAt
<1>5. ASSUME NEW q \in Paths, NEW t, There(d, q, t)
      PROVE  /\ There(c, q, t) /\ At(c, q, t) = At(d, q, t) /\ At(d, q, t) \in 1..Len(d)
  <2>1. Leads(d, q, t, At(d, q, t))
    BY <1>5, ThereLeads
  <2>2. Leads(c, q, t, At(d, q, t))
    BY <1>2, <2>1
  <2>3. There(c, q, t) /\ At(c, q, t) = At(d, q, t)
    BY <1>1, <2>2, ThereLeads
  <2>. QED BY <2>1, <2>3 DEF Leads
<1>6. ASSUME NEW q \in Paths, NEW t, There(c, q, t)
      PROVE  There(d, q, t) \/ (q = path /\ t = e.type)
  <2>1. PICK i : Leads(c, q, t, i)
    BY <1>1, <1>6, ThereLeads
  <2>2. CASE i = Len(d) + 1
    <3>1. PICK u : u = e.type
      OBVIOUS
    <3>2. Leads(c, path, u, i)
      BY <1>2, <2>2, <3>1
    <3>3. q = path /\ t = u
      BY <1>1, <2>1, <3>2, OnePath
    <3>. QED BY <3>1, <3>3
  <2>3. CASE i \in 1..Len(d)
    <3>1. PICK r \in PathsOf(d[i].type) : Leads(d, r, d[i].type, i)
      BY <2>3 DEF Named
    <3>2. r \in Paths
      BY AllArePaths DEF PathsOf
    <3>3. Leads(c, r, d[i].type, i)
      BY <1>2, <3>1, <3>2
    <3>4. q = r /\ t = d[i].type
      BY <1>1, <2>1, <3>2, <3>3, OnePath
    <3>. QED BY <3>1, <3>2, <3>4, ThereLeads
  <2>4. i \in 1..Len(c)
    BY <2>1 DEF Leads
  <2>. QED BY <1>1, <2>2, <2>3, <2>4
<1>. QED BY <1>3, <1>4, <1>5, <1>6 DEF Grown

\* Every entry still has its path.
LEMMA NamedGrows ==
    ASSUME NEW d \in Seq(Entry), NEW e \in Entry, NEW path \in PathsOf(e.type),
           NewAt(d, e, path), Named(d)
    PROVE  Named(Append(d, e))
<1>1. PICK c : c = Append(d, e)
  OBVIOUS
<1>2. /\ Len(c) = Len(d) + 1 /\ Len(d) \in Nat
      /\ \A i \in 1..Len(d) : c[i] = d[i]
      /\ c[Len(d) + 1] = e
  BY <1>1, Longer
<1>3. path \in Paths /\ \A t : PathsOf(t) \subseteq Paths
  BY AllArePaths DEF PathsOf
<1>4. /\ \A q \in Paths : \A t, i : Leads(d, q, t, i) => Leads(c, q, t, i)
      /\ Leads(c, path, e.type, Len(d) + 1)
  BY <1>1, <1>3, LeadsLonger
<1>5. ASSUME NEW i \in 1..Len(c)
      PROVE  \E q \in PathsOf(c[i].type) : Leads(c, q, c[i].type, i)
  <2>1. CASE i = Len(d) + 1
    BY <1>2, <1>4, <2>1
  <2>2. CASE i \in 1..Len(d)
    <3>1. PICK q \in PathsOf(d[i].type) : Leads(d, q, d[i].type, i)
      BY <2>2 DEF Named
    <3>2. Leads(c, q, d[i].type, i)
      BY <1>3, <1>4, <3>1
    <3>. QED BY <1>2, <2>2, <3>1, <3>2
  <2>. QED BY <1>2, <2>1, <2>2
<1>. QED BY <1>1, <1>5 DEF Named

\* The directory of a path that has one is there under the path without its
\* last name.
LEMMA ParentThere ==
    ASSUME NEW d \in Seq(Entry), Tree(d), Named(d), NEW path \in Paths,
           Reach(d, path, Len(path) - 1) >= 0
    PROVE  Len(path) = 1 \/ SubSeq(path, 1, Len(path) - 1) \in DirsIn(d)
<1>1. SUFFICES ASSUME Len(path) # 1 PROVE SubSeq(path, 1, Len(path) - 1) \in DirsIn(d)
  OBVIOUS
<1>2. PICK n : n = Len(path) - 1
  OBVIOUS
<1>3. /\ n \in 1..(Len(path) - 1) /\ n \in Nat /\ n # 0 /\ n - 1 \in Nat /\ Len(path) = n + 1
      /\ path \in Seq(Names)
  BY <1>1, <1>2 DEF Paths
<1>4. PICK p : p = SubSeq(path, 1, n)
  OBVIOUS
<1>5. p \in Seq(Names) /\ Len(p) = n /\ \A k \in 1..n : p[k] = path[k]
  BY <1>3, <1>4
<1>6. p \in Paths
  BY <1>3, <1>5, LongIsPath
<1>7. Reach(d, p, n - 1) = Reach(d, path, n - 1)
  <2>1. Alike(p, path, n - 1)
    BY <1>3, <1>5 DEF Alike
  <2>. QED BY <1>3, <1>6, <2>1, ReachPrefix
<1>8. PICK i \in 1..Len(d) :
         /\ Search(d, path[n], Reach(d, path, n - 1), DIRECTORY_TYPE) = i
         /\ Match(d[i], path[n], Reach(d, path, n - 1), DIRECTORY_TYPE)
         /\ Reach(d, path, n - 1) >= 0
  BY <1>2, <1>3, ReachEntry
<1>9. p[n] = path[n]
  BY <1>3, <1>5
<1>10. Leads(d, p, DIRECTORY_TYPE, i)
  BY <1>5, <1>7, <1>8, <1>9 DEF Leads, At
<1>11. d[i].type = DIRECTORY_TYPE
  BY <1>8 DEF Match
<1>12. PICK q \in AllDirs : Leads(d, q, DIRECTORY_TYPE, i)
  <2>1. PathsOf(DIRECTORY_TYPE) = AllDirs
    BY DEF PathsOf, FILE_TYPE, DIRECTORY_TYPE
  <2>. QED BY <1>8, <1>11, <2>1 DEF Named
<1>13. q = p
  BY <1>6, <1>10, <1>12, AllArePaths, OnePath
<1>14. There(d, p, DIRECTORY_TYPE)
  BY <1>6, <1>10, ThereLeads
<1>. QED BY <1>2, <1>4, <1>12, <1>13, <1>14 DEF DirsIn

-----------------------------------------------------------------------------
(* The invariant of the refinement: IInv, the paths of the entries, and    *)
(* what import has written so far.                                         *)

Asked ==
    /\ data = [b \in Word |-> data[b]]
    /\ pc # "idle" => job.path \in AllFiles /\ job.size \in Sizes

\* Block m of the chain under construction holds block m of the source file;
\* the last one does not yet, when it has only been found.
Written ==
    pc \in Importing => \A m \in 0..(job.k - 1) :
        (pc = "write" => m # job.k - 1) =>
            data[Walk(fat, job.start, m)] = Block(job.path, m + 1)

SInv == IInv /\ Asked /\ Named(dir) /\ Written

\* What a step has to be in FileStore.
StoreStep == Store!Next \/ UNCHANGED Store!vars

\* A file keeps its chain and its contents when nothing changes but a block that
\* is not its own.
LEMMA FileWalk ==
    ASSUME NEW T \in Table, NEW U \in Table, NEW x, \A w \in Word : w # x => U[w] = T[w],
           NEW e \in Entry, Whole(T, e), x \notin FileChain(T, e)
    PROVE  \A m \in 0..(BlocksOf(e.size) - 1) :
              /\ Walk(U, e.payload, m) = Walk(T, e.payload, m)
              /\ Walk(T, e.payload, m) # x /\ Walk(T, e.payload, m) \in Word
<1>. DEFINE n == BlocksOf(e.size)
<1>1. e.payload \in Int /\ n \in Nat \ {0}
  BY BlocksPositive DEF Entry
<1>2. \A m \in 0..(n - 1) : Walk(T, e.payload, m) # x
  BY DEF FileChain, ChainOf
<1>3. \A m \in 0..(n - 1) : Walk(T, e.payload, m) \in Word
  BY Layout DEF Whole, FileChain, ChainOf
<1>. HIDE DEF n
<1>4. \A m \in 0..n : Walk(U, e.payload, m) = Walk(T, e.payload, m)
  BY <1>1, <1>2, TableInt, WalkFrame
<1>5. \A m \in 0..(n - 1) : m \in 0..n
  BY <1>1
<1>. QED BY <1>2, <1>3, <1>4, <1>5 DEF n

\* Two tables, or two images of the blocks, that differ in block x at most.
AllBut(x, U, T) == \A w \in Word : w # x => U[w] = T[w]

\* Block x belongs to no file.
NoFiles(x, T, d) == \A i \in FilesOf(d) : x \notin FileChain(T, d[i])

\* All files keep their contents when only a block of none of them changes.
LEMMA FilesInFrame ==
    ASSUME NEW d \in Seq(Entry), NEW T \in Table, NEW U \in Table, NEW D, NEW E, NEW x,
           Files(T, d), AllBut(x, U, T), AllBut(x, E, D), NoFiles(x, T, d)
    PROVE  FilesIn(U, d, E) = FilesIn(T, d, D)
<1>. /\ \A w \in Word : w # x => U[w] = T[w]
     /\ \A w \in Word : w # x => E[w] = D[w]
     /\ \A i \in FilesOf(d) : x \notin FileChain(T, d[i])
  BY DEF AllBut, NoFiles
<1>1. ASSUME NEW i \in FilesOf(d) PROVE Holds(U, E, d[i]) = Holds(T, D, d[i])
  <2>1. PICK e : e = d[i]
    OBVIOUS
  <2>2. e \in Entry /\ Whole(T, e) /\ x \notin FileChain(T, e)
    BY <2>1 DEF FilesOf, Files
  <2>3. PICK b, n : b = e.payload /\ n = BlocksOf(e.size)
    OBVIOUS
  <2>4. n \in Nat \ {0}
    BY <2>2, <2>3, BlocksPositive DEF Entry
  <2>5. \A m \in 0..(n - 1) : Walk(U, b, m) = Walk(T, b, m) /\ Walk(T, b, m) # x
                              /\ Walk(T, b, m) \in Word
    BY <2>2, <2>3, FileWalk
  <2>6. \A k \in 1..n : k - 1 \in 0..(n - 1)
    BY <2>4
  <2>7. \A k \in 1..n : E[Walk(U, b, k - 1)] = D[Walk(T, b, k - 1)]
    BY <2>5, <2>6
  <2>. QED BY <2>1, <2>3, <2>7 DEF Holds
<1>2. ASSUME NEW p \in AllFiles, There(d, p, FILE_TYPE) PROVE At(d, p, FILE_TYPE) \in FilesOf(d)
  <2>1. p \in Paths
    BY AllArePaths
  <2>2. PICK i : Leads(d, p, FILE_TYPE, i)
    BY <1>2, <2>1, ThereLeads
  <2>3. i \in 1..Len(d) /\ At(d, p, FILE_TYPE) = i /\ d[i].type = FILE_TYPE
    BY <2>1, <2>2, ThereLeads DEF Leads, Match
  <2>. QED BY <2>3 DEF FilesOf
<1>3. \A p \in AllFiles : There(d, p, FILE_TYPE) => File(U, d, E, p) = File(T, d, D, p)
  BY <1>1, <1>2 DEF File
<1>. QED BY <1>3 DEF FilesIn

\* Steps that leave the image alone.
LEMMA QuietStep ==
    ASSUME SInv, UNCHANGED <<fat, dir, data>> PROVE Named(dir') /\ StoreStep
<1>1. DirsIn(dir') = DirsIn(dir) /\ FilesIn(fat', dir', data') = FilesIn(fat, dir, data)
  OBVIOUS
<1>2. Named(dir')
  BY DEF SInv
<1>. QED BY <1>1, <1>2, IsStutter DEF StoreStep

\* mkdir_cmd makes one directory, or none.
LEMMA MkdirStep ==
    ASSUME SInv, NEW path \in AllDirs, mkdir_cmd(path), UNCHANGED <<fat, data>>
    PROVE  Named(dir') /\ StoreStep
<1>1. dir \in Seq(Entry) /\ Len(dir) <= Entries /\ Tree(dir) /\ Named(dir) /\ path \in Paths
  BY AllArePaths DEF SInv, IInv, Types
<1>2. dir' = Made(dir, path)
  BY MkdirIsMade
<1>3. CASE Made(dir, path) = dir
  BY <1>2, <1>3, QuietStep
<1>4. CASE Made(dir, path) # dir
  <2>1. PICK d, c, e : d = dir /\ c = dir' /\ e = MkdirEntry(dir, path)
    OBVIOUS
  <2>2. c = Append(d, e) /\ e \in Entry /\ Tree(c)
    BY <1>1, <1>2, <1>4, <2>1, MadeSound
  <2>3. /\ e.type = DIRECTORY_TYPE /\ e.parent_id = Reach(d, path, Len(path) - 1)
        /\ e.name = path[Len(path)]
    BY <2>1 DEF MkdirEntry
  <2>4. /\ Reach(d, path, Len(path) - 1) >= 0
        /\ Search(d, path[Len(path)], Reach(d, path, Len(path) - 1), DIRECTORY_TYPE)
              = SEARCH_FAILURE
    BY <1>4, <2>1 DEF Made
  <2>5. NewAt(d, e, path)
    <3>1. PICK x : x = Reach(d, path, Len(path) - 1)
      OBVIOUS
    <3>2. \A j \in 1..Len(d) : ~Match(d[j], path[Len(path)], x, DIRECTORY_TYPE)
      BY <1>1, <2>1, <2>4, <3>1, SearchFinds DEF SEARCH_FAILURE
    <3>. QED BY <2>3, <2>4, <3>1, <3>2 DEF NewAt
  <2>6. /\ ~There(d, path, DIRECTORY_TYPE)
        /\ \A q \in Paths : \A t :
              /\ There(c, q, t) <=> There(d, q, t) \/ (q = path /\ t = DIRECTORY_TYPE)
              /\ There(d, q, t) => At(c, q, t) = At(d, q, t) /\ At(d, q, t) \in 1..Len(d)
    <3>1. d \in Seq(Entry) /\ Named(d)
      BY <1>1, <2>1
    <3>2. Grown(d, c, path, e.type)
      BY <1>1, <2>2, <2>5, <3>1, OneMore
    <3>. QED BY <2>3, <3>2 DEF Grown
  <2>7. \A i \in 1..Len(d) : c[i] = d[i]
    BY <1>1, <2>1, <2>2, Longer
  <2>8. Named(c)
    BY <1>1, <2>1, <2>2, <2>3, <2>5, NamedGrows DEF PathsOf, FILE_TYPE, DIRECTORY_TYPE
  <2>9. DirsIn(c) = DirsIn(d) \cup {path} /\ path \notin DirsIn(d)
    BY <2>6, AllArePaths DEF DirsIn
  <2>10. FilesIn(fat, c, data) = FilesIn(fat, d, data)
    <3>1. \A q \in AllFiles : There(c, q, FILE_TYPE) <=> There(d, q, FILE_TYPE)
      BY <2>6, AllArePaths DEF FILE_TYPE, DIRECTORY_TYPE
    <3>2. \A q \in AllFiles : There(d, q, FILE_TYPE) =>
                                 File(fat, c, data, q) = File(fat, d, data, q)
      BY <2>6, <2>7, AllArePaths DEF File
    <3>. QED BY <3>1, <3>2 DEF FilesIn
  <2>11. Len(path) = 1 \/ SubSeq(path, 1, Len(path) - 1) \in DirsIn(d)
    BY <1>1, <2>1, <2>4, ParentThere
  <2>12. Store!Next
    BY <2>1, <2>9, <2>10, <2>11, IsMakeDir
  <2>. QED BY <2>1, <2>8, <2>12 DEF StoreStep
<1>. QED BY <1>3, <1>4

-----------------------------------------------------------------------------
(* The steps of the commands.                                              *)

\* mkdir.
LEMMA MkdirImplements == ASSUME SInv, Mkdir PROVE SInv' /\ StoreStep
<1>1. PICK path \in MkdirPaths : mkdir_cmd(path)
  BY DEF Mkdir
<1>2. pc = "idle" /\ UNCHANGED <<fat, data, pc, job, cut>> /\ path \in AllDirs
  BY DEF Mkdir, AllDirs
<1>3. Named(dir') /\ StoreStep
  BY <1>1, <1>2, MkdirStep
<1>4. IInv'
  BY MkdirIInv DEF SInv
<1>5. Asked' /\ Written'
  BY <1>2 DEF SInv, Asked, Written, Importing
<1>. QED BY <1>3, <1>4, <1>5 DEF SInv

\* import begins.
LEMMA ImportImplements == ASSUME SInv, Import PROVE SInv' /\ StoreStep
<1>1. PICK p \in ImportPaths, size \in Sizes :
         job' = [NoJob EXCEPT !.path = p.names, !.abs = p.abs, !.size = size,
                              !.depth = IF p.abs THEN 0 ELSE 1]
  BY DEF Import
<1>2. pc' = "dirs" /\ UNCHANGED <<fat, dir, data, cut>>
  BY DEF Import
<1>3. job'.path \in AllFiles /\ job'.size \in Sizes
  <2>1. job' = [path |-> p.names, abs |-> p.abs, size |-> size,
                depth |-> IF p.abs THEN 0 ELSE 1, k |-> 0, start |-> 0, block |-> 0]
    BY <1>1 DEF NoJob
  <2>. QED BY <2>1 DEF AllFiles
<1>4. Asked' /\ Written'
  BY <1>2, <1>3 DEF SInv, Asked, Written, Importing
<1>5. IInv'
  BY ImportIInv DEF SInv
<1>6. Named(dir') /\ StoreStep
  BY <1>2, QuietStep
<1>. QED BY <1>4, <1>5, <1>6 DEF SInv

\* import makes a missing directory.
LEMMA MakePrefixImplements == ASSUME SInv, MakePrefix PROVE SInv' /\ StoreStep
<1>. DEFINE path == job.path
            n == Len(path)
<1>1. /\ pc = "dirs" /\ mkdir_cmd(Prefix) /\ job' = [job EXCEPT !.depth = @ + 1]
      /\ UNCHANGED <<fat, data, pc, cut>>
  BY DEF MakePrefix
<1>2. path \in Paths /\ n \in Nat \ {0} /\ job.depth \in Nat
  BY <1>1 DEF SInv, IInv, Types, Paths
<1>3. path \in AllFiles /\ job.size \in Sizes
  BY <1>1 DEF SInv, Asked
<1>4. Prefix \in AllDirs
  <2>1. CASE job.depth = 0
    BY <2>1 DEF Prefix, AllDirs
  <2>2. CASE job.depth # 0
    <3>1. job.depth <= n /\ Reach(dir, path, job.depth - 1) # SEARCH_FAILURE
      BY <1>1, <1>2, <2>2 DEF SInv, IInv, Import_path
    <3>2. Reach(dir, path, n - 1) = SEARCH_FAILURE
      BY ParentIsReach DEF MakePrefix
    <3>3. job.depth \in 1..(n - 1)
      BY <1>2, <2>2, <3>1, <3>2
    <3>4. Prefix = SubSeq(path, 1, job.depth)
      BY <2>2 DEF Prefix
    <3>5. Prefix \in {SubSeq(path, 1, k) : k \in 1..(Len(path) - 1)}
      BY <3>3, <3>4
    <3>. QED BY <1>3, <3>5, Zenon DEF AllDirs
  <2>. QED BY <2>1, <2>2
<1>5. Named(dir') /\ StoreStep
  BY <1>1, <1>4, MkdirStep
<1>6. IInv'
  BY MakePrefixIInv DEF SInv
<1>7. job'.path = path /\ job'.size = job.size
  BY <1>1 DEF SInv, IInv, Types
<1>8. Asked' /\ Written'
  BY <1>1, <1>3, <1>7 DEF SInv, Asked, Written, Importing
<1>. QED BY <1>5, <1>6, <1>8 DEF SInv

\* import looks for the file.
LEMMA CheckImplements == ASSUME SInv, Check PROVE SInv' /\ StoreStep
<1>1. /\ pc = "dirs" /\ UNCHANGED <<fat, dir, data, cut>>
      /\ (pc' = "find" /\ job' = job) \/ pc' = "idle"
  BY DEF Check
<1>2. job.k = 0
  BY <1>1 DEF SInv, IInv, Import_chain
<1>3. Asked' /\ Written'
  BY <1>1, <1>2 DEF SInv, Asked, Written, Importing
<1>4. IInv'
  BY CheckIInv DEF SInv
<1>5. Named(dir') /\ StoreStep
  BY <1>1, QuietStep
<1>. QED BY <1>3, <1>4, <1>5 DEF SInv

\* A command that is cut short.
LEMMA KilledImplements == ASSUME SInv, Killed PROVE SInv' /\ StoreStep
<1>1. pc' = "idle" /\ UNCHANGED <<fat, dir, data>>
  BY DEF Killed
<1>2. Asked' /\ Written'
  BY <1>1 DEF SInv, Asked, Written, Importing
<1>3. IInv'
  BY KilledIInv DEF SInv
<1>4. Named(dir') /\ StoreStep
  BY <1>1, QuietStep
<1>. QED BY <1>2, <1>3, <1>4 DEF SInv

\* Nothing is there in a volume without entries.
LEMMA EmptyVolume ==
    ASSUME NEW d, d = <<>>
    PROVE  Named(d) /\ DirsIn(d) = {} /\ \A T, D : FilesIn(T, d, D) = {}
<1>1. d \in Seq(Entry) /\ Len(d) = 0 /\ 1..Len(d) = {}
  OBVIOUS
<1>2. ASSUME NEW path \in Paths, NEW t PROVE ~There(d, path, t)
  BY <1>1, ThereLeads DEF Leads
<1>. QED BY <1>1, <1>2, AllArePaths DEF Named, DirsIn, FilesIn

\* format starts over.
LEMMA FormatImplements == ASSUME SInv, Format PROVE SInv' /\ StoreStep
<1>1. pc' = "idle" /\ dir' = <<>> /\ data' = [b \in Word |-> Nothing]
  BY DEF Format
<1>2. Asked' /\ Written'
  BY <1>1 DEF Asked, Written, Importing
<1>3. IInv'
  BY FormatIInv DEF SInv
<1>4. Named(dir') /\ DirsIn(dir') = {} /\ FilesIn(fat', dir', data') = {}
  BY <1>1, EmptyVolume
<1>5. StoreStep
  BY <1>4, IsWipe DEF StoreStep
<1>. QED BY <1>2, <1>3, <1>4, <1>5 DEF SInv

\* import_chain finds a block and links to it: no file is touched.
LEMMA FindBlockImplements == ASSUME SInv, FindBlock PROVE SInv' /\ StoreStep
<1>1. /\ pc = "find" /\ pc' = "write" /\ UNCHANGED <<dir, data, cut>>
      /\ job' = [job EXCEPT !.block = NextFree, !.k = @ + 1,
                            !.start = IF job.k = 0 THEN NextFree ELSE @]
      /\ fat' = IF job.k = 0 THEN fat ELSE [fat EXCEPT ![job.block] = NextFree]
  BY DEF FindBlock
<1>2. IInv /\ fat \in Table /\ dir \in Seq(Entry) /\ job.k \in Nat /\ Files(fat, dir)
  BY DEF SInv, IInv, Types
<1>3. /\ job'.k = job.k + 1 /\ job'.path = job.path /\ job'.size = job.size
      /\ job.k # 0 => job'.start = job.start
  BY <1>1 DEF SInv, IInv, Types
<1>4. IInv'
  BY FindBlockIInv DEF SInv
<1>5. Asked' /\ Named(dir')
  BY <1>1, <1>3 DEF SInv, Asked
<1>6. CASE job.k = 0
  <2>1. fat' = fat
    BY <1>1, <1>6
  <2>2. Written'
    <3>1. \A m \in 0..(job'.k - 1) : m = job'.k - 1
      BY <1>3, <1>6
    <3>. QED BY <1>1, <3>1 DEF Written
  <2>3. StoreStep
    BY <1>1, <2>1, QuietStep
  <2>. QED BY <1>4, <1>5, <2>2, <2>3 DEF SInv
<1>7. CASE job.k # 0
  <2>1. job.k > 0 /\ fat' = [fat EXCEPT ![job.block] = NextFree] /\ fat' \in Table
    BY <1>1, <1>2, <1>4, <1>7 DEF IInv, Types
  <2>2. \A w \in Word : w # job.block => fat'[w] = fat[w]
    BY <1>2, <2>1 DEF Table
  <2>3. /\ job.block \in Built
        /\ \A m \in 0..(job.k - 1) : Walk(fat', job.start, m) = Walk(fat, job.start, m)
    BY <1>1, <1>2, <2>1, <2>2, LastBlockFrame DEF Importing
  <2>4. \A i \in FilesOf(dir) : job.block \notin FileChain(fat, dir[i])
    BY <1>1, <2>1, <2>3 DEF SInv, IInv, Import_chain, Importing
  <2>5. FilesIn(fat', dir, data) = FilesIn(fat, dir, data)
    <3>1. /\ AllBut(job.block, fat', fat) /\ AllBut(job.block, data, data)
          /\ NoFiles(job.block, fat, dir)
      BY <2>2, <2>4 DEF AllBut, NoFiles
    <3>. QED BY <1>2, <2>1, <3>1, FilesInFrame
  <2>6. StoreStep
    BY <1>1, <2>5, IsStutter DEF StoreStep
  <2>7. Written'
    <3>1. \A m \in 0..(job'.k - 1) : m # job'.k - 1 => m \in 0..(job.k - 1)
      BY <1>2, <1>3
    <3>2. \A m \in 0..(job.k - 1) : data[Walk(fat, job.start, m)] = Block(job.path, m + 1)
      BY <1>1 DEF SInv, Written, Importing
    <3>. QED BY <1>1, <1>3, <1>7, <2>3, <3>1, <3>2 DEF Written
  <2>. QED BY <1>4, <1>5, <2>6, <2>7 DEF SInv
<1>. QED BY <1>6, <1>7

\* import_chain writes the block it has found: no file is touched.
LEMMA WriteBlockImplements == ASSUME SInv, WriteBlock PROVE SInv' /\ StoreStep
<1>1. /\ pc = "write" /\ pc' \in {"find", "entry"}
      /\ fat' = [fat EXCEPT ![job.block] = END_OF_CHAIN]
      /\ data' = [data EXCEPT ![job.block] = Block(job.path, job.k)]
      /\ UNCHANGED <<dir, job, cut>>
  BY DEF WriteBlock
<1>2. IInv /\ fat \in Table /\ dir \in Seq(Entry) /\ job.k \in Nat /\ Files(fat, dir)
  BY DEF SInv, IInv, Types
<1>3. IInv'
  BY WriteBlockIInv DEF SInv
<1>4. data = [b \in Word |-> data[b]] /\ job.path \in AllFiles /\ job.size \in Sizes
  BY <1>1 DEF SInv, Asked
<1>5. /\ data' = [b \in Word |-> data'[b]]
      /\ \A w \in Word : w # job.block => data'[w] = data[w]
      /\ job.block \in Word => data'[job.block] = Block(job.path, job.k)
  BY <1>1, <1>4
<1>6. Asked' /\ Named(dir')
  BY <1>1, <1>4, <1>5 DEF SInv, Asked
<1>7. job.k > 0
  <2>1. job.k \in 1..BlocksOf(job.size)
    BY <1>1 DEF SInv, IInv, Import_chain
  <2>. QED BY <2>1
<1>8. fat' \in Table /\ \A w \in Word : w # job.block => fat'[w] = fat[w]
  BY <1>1, <1>2 DEF Table
<1>9. /\ job.block \in Built /\ job.block \in DataArea
      /\ Walk(fat', job.start, job.k - 1) = job.block
      /\ \A m \in 0..(job.k - 1) : Walk(fat', job.start, m) = Walk(fat, job.start, m)
      /\ \A m \in 0..((job.k - 1) - 1) : Walk(fat, job.start, m) # job.block
  BY <1>1, <1>2, <1>7, <1>8, LastBlockFrame DEF Importing
<1>10. /\ \A i \in FilesOf(dir) : job.block \notin FileChain(fat, dir[i])
       /\ Built \subseteq DataArea
  BY <1>1, <1>7, <1>9 DEF SInv, IInv, Import_chain, Importing
<1>11. FilesIn(fat', dir, data') = FilesIn(fat, dir, data)
  <2>1. /\ AllBut(job.block, fat', fat) /\ AllBut(job.block, data', data)
        /\ NoFiles(job.block, fat, dir)
    BY <1>5, <1>8, <1>10 DEF AllBut, NoFiles
  <2>. QED BY <1>2, <1>8, <2>1, FilesInFrame
<1>12. StoreStep
  BY <1>1, <1>11, IsStutter DEF StoreStep
<1>13. ASSUME NEW m \in 0..(job.k - 1)
       PROVE  data'[Walk(fat', job.start, m)] = Block(job.path, m + 1)
  <2>1. CASE m = job.k - 1
    <3>1. m + 1 = job.k /\ job.block \in Word
      BY <1>2, <1>9, <2>1, Layout
    <3>. QED BY <1>5, <1>9, <2>1, <3>1
  <2>2. CASE m # job.k - 1
    <3>1. m \in 0..((job.k - 1) - 1)
      BY <1>2, <2>2
    <3>2. data[Walk(fat, job.start, m)] = Block(job.path, m + 1)
      BY <1>1, <2>2 DEF SInv, Written, Importing
    <3>3. Walk(fat, job.start, m) \in Built
      BY DEF Built, ChainOf
    <3>4. Walk(fat, job.start, m) \in Word /\ Walk(fat, job.start, m) # job.block
      BY <1>9, <1>10, <3>1, <3>3, Layout
    <3>. QED BY <1>5, <1>9, <3>2, <3>4
  <2>. QED BY <2>1, <2>2
<1>14. Written'
  BY <1>1, <1>13 DEF Written
<1>. QED BY <1>3, <1>6, <1>12, <1>14 DEF SInv

\* The entry makes the file appear, whole.
LEMMA WriteEntryImplements == ASSUME SInv, WriteEntry PROVE SInv' /\ StoreStep
<1>1. PICK path, d, c, e : path = job.path /\ d = dir /\ c = dir'
                           /\ e = NewEntry(path, FILE_TYPE, job.start, job.size)
  OBVIOUS
<1>2. /\ pc = "entry" /\ pc' = "idle" /\ c = Append(d, e) /\ UNCHANGED <<fat, data, cut>>
  BY <1>1 DEF WriteEntry
<1>3. d \in Seq(Entry) /\ Tree(d) /\ Named(d)
  BY <1>1 DEF SInv, IInv, Types
<1>4. path \in AllFiles /\ path \in Paths /\ job.size \in Sizes
      /\ job.start \in Int /\ job.size \in Nat /\ job.k \in Nat
  BY <1>1, <1>2, AllArePaths DEF SInv, Asked, IInv, Types
<1>5. IInv'
  BY WriteEntryIInv DEF SInv
<1>6. c \in Seq(Entry) /\ Tree(c)
  BY <1>1, <1>5 DEF IInv, Types
<1>7. PICK x : x = Reach(d, path, Len(path) - 1)
  OBVIOUS
<1>8. e = [parent_id |-> x, type |-> FILE_TYPE, name |-> path[Len(path)],
           payload |-> job.start, size |-> job.size]
  BY <1>1, <1>7, ParentIsReach DEF NewEntry
<1>9. e \in Entry
  <2>1. Len(path) \in 1..Len(path) /\ path \in Seq(Names) /\ Len(path) - 1 \in 0..(Len(path) - 1)
    BY <1>4 DEF Paths
  <2>2. x \in Int /\ path[Len(path)] \in Names
    BY <1>3, <1>4, <1>7, <2>1, ReachStep
  <2>. QED BY <1>4, <1>8, <2>2 DEF Entry
<1>10. /\ e.parent_id = x /\ e.type = FILE_TYPE /\ e.name = path[Len(path)]
       /\ e.payload = job.start /\ e.size = job.size
  BY <1>8
<1>11. x >= 0 /\ Search(d, path[Len(path)], x, FILE_TYPE) = SEARCH_FAILURE
  BY <1>1, <1>2, <1>7 DEF SInv, IInv, Import_path, Importing
<1>12. NewAt(d, e, path)
  <2>1. \A j \in 1..Len(d) : ~Match(d[j], path[Len(path)], x, FILE_TYPE)
    BY <1>3, <1>11, SearchFinds DEF SEARCH_FAILURE
  <2>. QED BY <1>7, <1>10, <1>11, <2>1 DEF NewAt
<1>13. Grown(d, c, path, e.type)
  BY <1>2, <1>3, <1>4, <1>6, <1>9, <1>12, OneMore
<1>14. /\ \A i \in 1..Len(d) : c[i] = d[i]
       /\ c[Len(d) + 1] = e
  BY <1>2, <1>3, <1>9, Longer
<1>15. Named(c)
  BY <1>2, <1>3, <1>4, <1>9, <1>10, <1>12, NamedGrows DEF PathsOf
<1>16. DirsIn(c) = DirsIn(d)
  <2>1. \A q \in AllDirs : There(c, q, DIRECTORY_TYPE) <=> There(d, q, DIRECTORY_TYPE)
    BY <1>10, <1>13, AllArePaths DEF Grown, FILE_TYPE, DIRECTORY_TYPE
  <2>. QED BY <2>1 DEF DirsIn
<1>17. PICK contents : contents = Holds(fat, data, e)
  OBVIOUS
<1>18. FilesIn(fat, c, data) = FilesIn(fat, d, data) \cup {[path |-> path, data |-> contents]}
  <2>1. \A q \in AllFiles : There(c, q, FILE_TYPE) <=> There(d, q, FILE_TYPE) \/ q = path
    BY <1>10, <1>13, AllArePaths DEF Grown
  <2>2. \A q \in AllFiles : There(d, q, FILE_TYPE) =>
                               File(fat, c, data, q) = File(fat, d, data, q)
    BY <1>13, <1>14, AllArePaths DEF Grown, File
  <2>3. File(fat, c, data, path) = [path |-> path, data |-> contents]
    BY <1>10, <1>13, <1>14, <1>17 DEF Grown, File
  <2>. QED BY <1>4, <2>1, <2>2, <2>3 DEF FilesIn
<1>19. contents \in SourceOf(path)
  <2>1. job.k = BlocksOf(job.size)
    BY <1>2 DEF SInv, IInv, Import_chain
  <2>2. \A m \in 0..(job.k - 1) : data[Walk(fat, job.start, m)] = Block(path, m + 1)
    BY <1>1, <1>2 DEF SInv, Written, Importing
  <2>3. \A k \in 1..BlocksOf(job.size) : k - 1 \in 0..(job.k - 1) /\ (k - 1) + 1 = k
    BY <1>4, <2>1
  <2>4. contents = [k \in 1..BlocksOf(job.size) |-> data[Walk(fat, job.start, k - 1)]]
    BY <1>10, <1>17 DEF Holds
  <2>5. \A k \in 1..BlocksOf(job.size) : data[Walk(fat, job.start, k - 1)] = Block(path, k)
    BY <2>2, <2>3
  <2>6. contents = [k \in 1..BlocksOf(job.size) |-> Block(path, k)]
    BY <2>4, <2>5
  <2>. QED BY <1>4, <2>6 DEF SourceOf
<1>20. Len(path) = 1 \/ SubSeq(path, 1, Len(path) - 1) \in DirsIn(d)
  BY <1>3, <1>4, <1>7, <1>11, ParentThere
<1>21. ~There(d, path, FILE_TYPE)
  BY <1>10, <1>13 DEF Grown
<1>22. StoreStep
  <2>1. Store!Next
    BY <1>1, <1>2, <1>4, <1>16, <1>18, <1>19, <1>20, <1>21, IsStore
  <2>. QED BY <2>1 DEF StoreStep
<1>23. Asked' /\ Written'
  BY <1>2 DEF SInv, Asked, Written, Importing
<1>. QED BY <1>1, <1>5, <1>15, <1>22, <1>23 DEF SInv

-----------------------------------------------------------------------------
(* The theorems.                                                           *)

\* SInv holds at the start, where nothing is stored.
LEMMA InitSInv == Init => SInv /\ Store!Init
<1>. SUFFICES ASSUME Init PROVE SInv /\ Store!Init
  OBVIOUS
<1>1. IInv
  BY InitIInv
<1>2. Asked /\ Written
  BY DEF Init, Asked, Written, Importing
<1>3. Named(dir) /\ DirsIn(dir) = {} /\ FilesIn(fat, dir, data) = {}
  BY EmptyVolume DEF Init
<1>4. MappedDirs = {} /\ MappedFiles = {}
  BY <1>3, Mapping
<1>5. Store!Init
  BY <1>4 DEF Store!Init, MappedDirs, MappedFiles
<1>. QED BY <1>1, <1>2, <1>3, <1>5 DEF SInv

\* Every step keeps SInv, and is a step of FileStore or a stutter.
LEMMA NextSInv == ASSUME SInv, [Next]_vars PROVE SInv' /\ [Store!Next]_(Store!vars)
<1>1. CASE UNCHANGED vars
  <2>1. UNCHANGED <<fat, dir, data, pc, job, cut>>
    BY <1>1 DEF vars
  <2>2. IInv'
    BY <2>1 DEF SInv, IInv, Types, Import_chain, Owners, Import_path, Built, Unused, FreeBlocks
  <2>3. Asked' /\ Written'
    BY <2>1 DEF SInv, Asked, Written
  <2>4. Named(dir') /\ StoreStep
    BY <2>1, QuietStep
  <2>. QED BY <2>2, <2>3, <2>4 DEF SInv, StoreStep
<1>2. CASE Next
  BY <1>2, MkdirImplements, ImportImplements, MakePrefixImplements, CheckImplements,
     FindBlockImplements, WriteBlockImplements, WriteEntryImplements, FormatImplements,
     KilledImplements DEF Next, StoreStep
<1>. QED BY <1>1, <1>2

\* Implements: for every volume, the image behaves as FileStore. A file appears
\* whole, with the contents of its source, when import writes the entry, under
\* a path whose directory is there and that had no file; it stays as it is until
\* format; a directory appears when mkdir_cmd writes its entry; nothing else
\* changes either, also when a command is cut short (KeepsFiles).
THEOREM Implements == Spec => KeepsFiles
<1>1. SInv /\ [Next]_vars => SInv' /\ [Store!Next]_(Store!vars)
  BY NextSInv
<1>. QED BY <1>1, InitSInv, PTL DEF Spec, KeepsFiles, Store!Spec

-----------------------------------------------------------------------------
(* The boot manager reads the same volume.                                 *)

\* Division with remainder, as the loader uses it to find words and entries.
LEMMA DivMod ==
    ASSUME NEW a \in Nat, NEW b \in Nat \ {0}
    PROVE  /\ a \div b \in Nat /\ a % b \in 0..(b - 1)
           /\ (a \div b) * b + (a % b) = a
OBVIOUS

LEMMA SmallDiv ==
    ASSUME NEW a \in Nat, NEW b \in Nat \ {0}, a < b
    PROVE  a \div b = 0 /\ a % b = a
<1>1. PICK q, r : q = a \div b /\ r = a % b
  OBVIOUS
<1>2. q \in Nat /\ r \in 0..(b - 1) /\ q * b + r = a
  BY <1>1, DivMod
<1>3. CASE q # 0
  <2>1. (q - 1) * b >= 0 /\ q * b = (q - 1) * b + b
    <3>1. PICK p : p = q - 1
      OBVIOUS
    <3>2. p \in Nat /\ q = p + 1
      BY <1>2, <1>3, <3>1
    <3>. QED BY <3>1, <3>2
  <2>. QED BY <1>2, <2>1
<1>4. CASE q = 0
  BY <1>1, <1>2, <1>4
<1>. QED BY <1>3, <1>4

\* A block of one chunk comes into the disk buffer as it is.
LEMMA HeldAll ==
    ASSUME NEW size \in Nat \ {0}, NEW chunk \in Nat \ {0}, size <= chunk,
           NEW w \in 0..(size - 1)
    PROVE  Held(w, size, chunk) = w
<1>1. (size - 1) \div chunk = 0
  BY SmallDiv
<1>2. chunk * ((size - 1) \div chunk) = 0
  BY <1>1
<1>3. w < chunk /\ 0 + w = w /\ w < size
  OBVIOUS
<1>. QED BY <1>2, <1>3 DEF Held

\* Both programs put the directory in the same place.
LEMMA SameDirectory == ASSUME Loadable PROVE echfs_directory = RESERVED_BLOCKS + fatsize
<1>1. PICK a, b : a = Blocks /\ b = FatPerBlock
  OBVIOUS
<1>2. a \in Nat /\ b \in Nat \ {0} /\ RESERVED_BLOCKS \in Nat
  BY <1>1, EchfsAssumption
<1>3. PICK q, r, c : q = a \div b /\ r = a % b /\ c = (a + b - 1) \div b
  OBVIOUS
<1>4. q \in Nat /\ r \in 0..(b - 1) /\ q * b + r = a
  BY <1>2, <1>3, DivMod
<1>5. c \in Int /\ c * b <= a + b - 1 /\ a + b - 1 < c * b + b
  BY <1>2, <1>3
<1>8. AllocationWords = a
  <2>1. PICK h : h = TableSpan \div 2
    OBVIOUS
  <2>2. TableSpan \in Nat \ {0, 1} /\ h \in Nat \ {0} /\ h < TableSpan /\ a < h
    BY <1>1, <2>1, LoaderAssumption DEF Loadable
  <2>3. a \div h = 0 /\ a % TableSpan = a
    BY <1>2, <2>2, SmallDiv
  <2>4. TableSpan * (a \div h) = 0
    BY <2>2, <2>3
  <2>. QED BY <1>1, <1>2, <2>1, <2>3, <2>4 DEF AllocationWords
<1>6. CASE r = 0
  <2>1. c * b < (q + 1) * b /\ (q - 1) * b < c * b
    BY <1>2, <1>4, <1>5, <1>6
  <2>2. c < q + 1 /\ q - 1 < c
    BY <1>2, <1>4, <1>5, <2>1
  <2>3. c = q
    BY <1>4, <1>5, <2>2
  <2>. QED BY <1>1, <1>2, <1>3, <1>6, <1>8, <2>3 DEF echfs_directory, fatsize, Ceiling
<1>7. CASE r # 0
  <2>1. c * b < (q + 2) * b /\ q * b < c * b
    BY <1>2, <1>4, <1>5, <1>7
  <2>2. c < q + 2 /\ q < c
    BY <1>2, <1>4, <1>5, <2>1
  <2>3. c = q + 1
    BY <1>4, <1>5, <2>2
  <2>. QED BY <1>1, <1>2, <1>3, <1>4, <1>7, <1>8, <2>3 DEF echfs_directory, fatsize, Ceiling
<1>. QED BY <1>6, <1>7

\* echfs_next_block reads the word of the block.
LEMMA NextBlockIsWord ==
    ASSUME Loadable, NEW b \in Word
    PROVE  echfs_next_block(b) = fat[b]
<1>1. /\ b \in Nat /\ FatPerBlock \in Nat \ {0} /\ RESERVED_BLOCKS \in Nat
      /\ ChunkWords \in Nat \ {0} /\ FatPerBlock <= ChunkWords
  BY EchfsAssumption, LoaderAssumption, Layout DEF Loadable
<1>2. PICK q, r : q = b \div FatPerBlock /\ r = b % FatPerBlock
  OBVIOUS
<1>3. q \in Nat /\ r \in 0..(FatPerBlock - 1) /\ q * FatPerBlock + r = b
  BY <1>1, <1>2, DivMod
<1>4. (RESERVED_BLOCKS + q) - RESERVED_BLOCKS = q
  BY <1>1, <1>3
<1>5. r % (2 * SegmentWords) = r /\ r < SegmentWords
  <2>1. /\ r \in Nat /\ 2 * SegmentWords \in Nat \ {0}
        /\ r < SegmentWords /\ r < 2 * SegmentWords
    BY <1>1, <1>3 DEF SegmentWords
  <2>. QED BY <2>1, SmallDiv
<1>6. Held(r, FatPerBlock, ChunkWords) = r
  BY <1>1, <1>3, HeldAll
<1>. QED BY <1>2, <1>3, <1>4, <1>5, <1>6 DEF echfs_next_block, TableWord

\* The scan takes the entries of a block, and all of the directory.
LEMMA TurnsAreEntries ==
    ASSUME Loadable
    PROVE  Turns = EntriesPerBlock /\ ToScan = Entries
<1>1. /\ EntriesPerBlock \in Nat \ {0} /\ ChunkEntries \in Nat \ {0}
      /\ EntriesPerBlock <= ChunkEntries /\ dirsize \in Nat \ {0}
  <2>1. dirsize \in Nat
    BY EchfsAssumption, DivMod DEF dirsize
  <2>. QED BY <2>1, EchfsAssumption, LoaderAssumption DEF Loadable
<1>2. SegmentEntries \in Nat \ {0} /\ EntriesPerBlock < SegmentEntries
  BY <1>1 DEF SegmentEntries
<1>3. EntriesPerBlock % SegmentEntries = EntriesPerBlock
  BY <1>1, <1>2, SmallDiv
<1>4. Turns = EntriesPerBlock
  BY <1>1, <1>3 DEF Turns, echfs_entries_per_block
<1>5. EntriesPerBlock * dirsize = dirsize * EntriesPerBlock
  BY <1>1
<1>. QED BY <1>1, <1>4, <1>5 DEF ToScan, Entries

\* The scan comes to the entries in their order.
LEMMA ScannedIs ==
    ASSUME Loadable, NEW n \in Nat
    PROVE  Scanned(n) = IF n + 1 \in 1..Len(dir) THEN dir[n + 1] ELSE NoEntry
<1>1. /\ EntriesPerBlock \in Nat \ {0} /\ RESERVED_BLOCKS + fatsize \in Nat
      /\ ChunkEntries \in Nat \ {0} /\ EntriesPerBlock <= ChunkEntries
  <2>1. fatsize \in Nat
    BY EchfsAssumption, CeilingBounds DEF fatsize
  <2>. QED BY <2>1, EchfsAssumption, LoaderAssumption DEF Loadable
<1>2. PICK q, r, s : /\ q = n \div EntriesPerBlock /\ r = n % EntriesPerBlock
                     /\ s = RESERVED_BLOCKS + fatsize
  OBVIOUS
<1>3. q \in Nat /\ r \in 0..(EntriesPerBlock - 1) /\ q * EntriesPerBlock + r = n
  BY <1>1, <1>2, DivMod
<1>4. (s + q) - s = q
  BY <1>1, <1>2, <1>3
<1>5. ((s + q) - s) * EntriesPerBlock + r + 1 = n + 1
  BY <1>1, <1>3, <1>4
<1>6. Held(r, EntriesPerBlock, ChunkEntries) = r
  BY <1>1, <1>3, HeldAll
<1>7. r < SegmentEntries \div 2
  BY <1>1, <1>3 DEF SegmentEntries
<1>. QED BY <1>2, <1>5, <1>6, <1>7, SameDirectory, TurnsAreEntries DEF Scanned, DirEntry

\* Two places of a chain that hold the same block go on alike.
LEMMA WalkOn ==
    ASSUME NEW T \in Table, NEW b \in Int, NEW i \in Nat, NEW j \in Nat,
           Walk(T, b, i) = Walk(T, b, j)
    PROVE  \A m \in Nat : Walk(T, b, i + m) = Walk(T, b, j + m)
<1>. DEFINE S == {m \in Nat : Walk(T, b, i + m) = Walk(T, b, j + m)}
<1>1. 0 \in S
  OBVIOUS
<1>2. ASSUME NEW m \in S PROVE m + 1 \in S
  <2>1. /\ i + (m + 1) = (i + m) + 1 /\ j + (m + 1) = (j + m) + 1
        /\ i + m \in Nat /\ j + m \in Nat
    OBVIOUS
  <2>2. /\ Walk(T, b, (i + m) + 1) = Along(T, Walk(T, b, i + m))
        /\ Walk(T, b, (j + m) + 1) = Along(T, Walk(T, b, j + m))
    BY <2>1, TableInt, WalkStep
  <2>. QED BY <2>1, <2>2
<1>3. S \in SUBSET Nat
  OBVIOUS
<1>. HIDE DEF S
<1>4. \A m \in Nat : m \in S
  BY <1>1, <1>2, <1>3, SetInduction
<1>. QED BY <1>4 DEF S

\* The chain of a file comes to no block twice, so that the read loop ends
\* before it has read as many blocks as there are.
LEMMA ChainFits ==
    ASSUME NEW T \in Table, NEW e \in Entry, Whole(T, e)
    PROVE  BlocksOf(e.size) <= Blocks
<1>1. PICK b, n : b = e.payload /\ n = BlocksOf(e.size)
  OBVIOUS
<1>2. b \in Int /\ n \in Nat \ {0}
  BY <1>1, BlocksPositive DEF Entry
<1>3. /\ \A m \in 0..(n - 1) : Walk(T, b, m) \in DataArea
      /\ Walk(T, b, n) = END_OF_CHAIN
  BY <1>1 DEF Whole, FileChain, ChainOf
<1>4. END_OF_CHAIN \notin DataArea
  BY Layout DEF END_OF_CHAIN
<1>5. ASSUME NEW i \in 0..(n - 1), NEW j \in 0..(n - 1), i < j,
             Walk(T, b, i) = Walk(T, b, j)
      PROVE  FALSE
  <2>1. n - j \in Nat /\ i + (n - j) \in 0..(n - 1) /\ j + (n - j) = n
    BY <1>2, <1>5
  <2>2. Walk(T, b, i + (n - j)) = Walk(T, b, j + (n - j))
    BY <1>2, <1>5, <2>1, WalkOn
  <2>. QED BY <1>3, <1>4, <2>1, <2>2
<1>6. SUFFICES ASSUME n > Blocks PROVE FALSE
  BY <1>1, <1>2, EchfsAssumption
<1>7. PICK f : f = [m \in 0..(n - 1) |-> Walk(T, b, m)]
  OBVIOUS
<1>8. f \in [0..(n - 1) -> DataArea] /\ \A m \in 0..(n - 1) : f[m] = Walk(T, b, m)
  BY <1>3, <1>7
<1>9. /\ IsFiniteSet(0..(n - 1)) /\ Cardinality(0..(n - 1)) = n
      /\ IsFiniteSet(DataArea) /\ Cardinality(DataArea) <= Blocks
  <2>1. n - 1 \in Int /\ Blocks - 1 \in Int /\ Blocks \in Nat /\ datastart \in Nat
    BY <1>2, EchfsAssumption, Layout
  <2>2. IsFiniteSet(0..(n - 1)) /\ Cardinality(0..(n - 1)) = n
    BY <1>2, <2>1, FS_Interval
  <2>3. /\ IsFiniteSet(DataArea)
        /\ Cardinality(DataArea) = IF datastart > Blocks - 1 THEN 0
                                   ELSE (Blocks - 1) - datastart + 1
    BY <2>1, FS_Interval DEF DataArea
  <2>. QED BY <2>1, <2>2, <2>3
<1>10. Cardinality(DataArea) < Cardinality(0..(n - 1))
  <2>1. Cardinality(DataArea) \in Nat
    BY <1>9, FS_CardinalityType
  <2>. QED BY <1>2, <1>6, <1>9, <2>1, EchfsAssumption
<1>11. PICK i, j \in 0..(n - 1) : i # j /\ f[i] = f[j]
  <2>1. PICK M, D : M = 0..(n - 1) /\ D = DataArea
    OBVIOUS
  <2>2. /\ IsFiniteSet(M) /\ IsFiniteSet(D) /\ Cardinality(D) < Cardinality(M)
        /\ f \in [M -> D]
    BY <1>8, <1>9, <1>10, <2>1
  <2>3. \E x, y \in M : x # y /\ f[x] = f[y]
    BY <2>2, FS_PigeonHole, Zenon
  <2>. QED BY <2>1, <2>3
<1>12. Walk(T, b, i) = Walk(T, b, j) /\ (i < j \/ j < i)
  BY <1>2, <1>8, <1>11
<1>. QED BY <1>5, <1>12

\* The recursion of the read loop.
Reads(b, n, f) ==
    f = [m \in 0..n |-> IF m = 0 THEN b
                        ELSE IF f[m - 1] \in Word THEN echfs_next_block(f[m - 1])
                        ELSE RESERVED_BLOCK]

\* As long as the chain goes through blocks, the read loop follows it.
LEMMA ReadsWalk ==
    ASSUME Loadable, fat \in Table, NEW b \in Int, NEW n \in Nat,
           \A m \in 0..(n - 1) : Walk(fat, b, m) \in Word
    PROVE  ReadAt(b, n) = Walk(fat, b, n)
<1>1. /\ Walk(fat, b, 0) = b
      /\ \A m \in 0..(n - 1) : Walk(fat, b, m + 1) = fat[Walk(fat, b, m)]
  <2>1. /\ Walk(fat, b, 0) = b
        /\ \A m \in Nat : Walk(fat, b, m + 1) = Along(fat, Walk(fat, b, m))
    BY TableInt, WalkStep
  <2>. QED BY <2>1 DEF Along
<1>2. PICK w : w = [m \in 0..n |-> Walk(fat, b, m)]
  OBVIOUS
<1>3. Reads(b, n, w)
  <2>1. ASSUME NEW m \in 0..n
        PROVE  w[m] = IF m = 0 THEN b
                      ELSE IF w[m - 1] \in Word THEN echfs_next_block(w[m - 1])
                      ELSE RESERVED_BLOCK
    <3>1. CASE m = 0
      BY <1>1, <1>2, <3>1
    <3>2. CASE m # 0
      <4>1. m - 1 \in 0..(n - 1) /\ m - 1 \in 0..n /\ (m - 1) + 1 = m
        BY <3>2
      <4>2. w[m - 1] = Walk(fat, b, m - 1) /\ w[m] = Walk(fat, b, m)
        BY <1>2, <4>1
      <4>3. w[m - 1] \in Word /\ w[m] = fat[w[m - 1]]
        BY <1>1, <4>1, <4>2
      <4>. QED BY <3>2, <4>3, NextBlockIsWord
    <3>. QED BY <3>1, <3>2
  <2>2. w = [m \in 0..n |-> w[m]]
    BY <1>2
  <2>. QED BY <2>1, <2>2 DEF Reads
<1>4. PICK g : g = CHOOSE f : Reads(b, n, f)
  OBVIOUS
<1>5. Reads(b, n, g)
  BY <1>3, <1>4
<1>6. ReadAt(b, n) = g[n]
  BY <1>4 DEF ReadAt, Reads
<1>. DEFINE S == {m \in Nat : m <= n => g[m] = Walk(fat, b, m)}
<1>7. 0 \in S
  BY <1>1, <1>5 DEF Reads
<1>8. ASSUME NEW m \in S PROVE m + 1 \in S
  <2>1. SUFFICES ASSUME m + 1 <= n PROVE g[m + 1] = Walk(fat, b, m + 1)
    OBVIOUS
  <2>2. m + 1 \in 0..n /\ m + 1 # 0 /\ (m + 1) - 1 = m /\ m \in 0..(n - 1)
    BY <2>1
  <2>3. g[m] = Walk(fat, b, m) /\ g[m] \in Word
    BY <2>2
  <2>4. g[m + 1] = echfs_next_block(g[m])
    BY <1>5, <2>2, <2>3 DEF Reads
  <2>. QED BY <1>1, <2>2, <2>3, <2>4, NextBlockIsWord
<1>9. S \in SUBSET Nat
  OBVIOUS
<1>. HIDE DEF S
<1>10. \A m \in Nat : m \in S
  BY <1>7, <1>8, <1>9, SetInduction
<1>. QED BY <1>6, <1>10 DEF S

\* The read loop loads the whole file and stops at its end.
LEMMA LoadsFile ==
    ASSUME Loadable, fat \in Table, NEW e \in Entry, Whole(fat, e)
    PROVE  LoadChain(e.payload) =
              Loaded([k \in 1..BlocksOf(e.size) |-> data[Follow(e.payload, k - 1)]])
<1>1. PICK b, n : b = e.payload /\ n = BlocksOf(e.size)
  OBVIOUS
<1>2. b \in Int /\ n \in Nat \ {0} /\ n <= Blocks /\ Blocks \in Nat
  BY <1>1, BlocksPositive, ChainFits, EchfsAssumption DEF Entry
<1>3. /\ \A m \in 0..(n - 1) : Walk(fat, b, m) \in DataArea
      /\ Walk(fat, b, n) = END_OF_CHAIN
  BY <1>1 DEF Whole, FileChain, ChainOf
<1>4. DataArea \subseteq Word /\ END_OF_CHAIN \notin DataArea
  BY Layout DEF END_OF_CHAIN
<1>5. ASSUME NEW m \in 0..n PROVE ReadAt(b, m) = Walk(fat, b, m)
  <2>1. m \in Nat /\ \A k \in 0..(m - 1) : k \in 0..(n - 1)
    BY <1>2
  <2>2. \A k \in 0..(m - 1) : Walk(fat, b, k) \in Word
    BY <1>3, <1>4, <2>1
  <2>. QED BY <1>2, <2>1, <2>2, ReadsWalk
<1>6. PICK ends : ends = {k \in 1..Blocks : ReadAt(b, k) = END_OF_CHAIN}
  OBVIOUS
<1>7. n \in ends
  BY <1>2, <1>3, <1>5, <1>6
<1>8. \A k \in ends : k \in Nat /\ n <= k
  <2>1. ASSUME NEW k \in ends, k < n PROVE FALSE
    <3>1. k \in 0..n /\ k \in 0..(n - 1)
      BY <1>2, <1>6, <2>1
    <3>. QED BY <1>3, <1>4, <1>5, <1>6, <3>1
  <2>. QED BY <1>2, <1>6, <2>1
<1>9. Min(ends) = n
  <2>1. \A k \in ends : (\A m \in ends : k <= m) => k = n
    BY <1>2, <1>7, <1>8
  <2>. QED BY <1>7, <1>8, <2>1 DEF Min
<1>10. \A k \in 1..n : ReadAt(b, k - 1) = Follow(b, k - 1)
  BY <1>2, <1>5, FollowIsWalk
<1>11. [k \in 1..n |-> data[ReadAt(b, k - 1)]] = [k \in 1..n |-> data[Follow(b, k - 1)]]
  BY <1>10
<1>12. LoadChain(b) = Loaded([k \in 1..n |-> data[ReadAt(b, k - 1)]])
  BY <1>6, <1>7, <1>9 DEF LoadChain
<1>. QED BY <1>1, <1>11, <1>12

\* The entries of the root under a name.
Root(name) == {i \in 1..Len(dir) : dir[i].parent_id = ROOT_ID /\ dir[i].name = name}

\* What decides is the first of them.
LEMMA LoadDecides ==
    ASSUME Loadable, Types, NEW name
    PROVE  \/ Root(name) = {} /\ echfs_load(name) = Failure
           \/ \E i \in Root(name) :
                /\ \A j \in Root(name) : i <= j
                /\ echfs_load(name) =
                      IF dir[i].type = FILE_TYPE THEN LoadChain(dir[i].payload) ELSE Failure
<1>1. /\ dir \in Seq(Entry) /\ Len(dir) \in Nat /\ Len(dir) <= Entries /\ Entries \in Nat
      /\ ToScan = Entries
  BY Layout, TurnsAreEntries DEF Types
<1>2. NoEntry.parent_id # ROOT_ID
  BY DEF NoEntry, ROOT_ID
<1>3. ASSUME NEW n \in 0..(Entries - 1) PROVE n \in Hits(name) <=> n + 1 \in Root(name)
  <2>1. n \in Nat
    BY <1>1
  <2>2. CASE n + 1 \in 1..Len(dir)
    <3>1. Scanned(n) = dir[n + 1]
      BY <2>1, <2>2, ScannedIs
    <3>. QED BY <1>1, <2>2, <3>1 DEF Hits, Root
  <2>3. CASE n + 1 \notin 1..Len(dir)
    <3>1. Scanned(n) = NoEntry
      BY <2>1, <2>3, ScannedIs
    <3>. QED BY <1>1, <1>2, <2>3, <3>1 DEF Hits, Root
  <2>. QED BY <2>2, <2>3
<1>4. \A i \in Root(name) : i - 1 \in 0..(Entries - 1) /\ (i - 1) + 1 = i /\ i \in Nat
  BY <1>1 DEF Root
<1>5. \A i \in Root(name) : i - 1 \in Hits(name)
  BY <1>3, <1>4
<1>6. CASE Hits(name) = {}
  BY <1>5, <1>6 DEF echfs_load
<1>7. CASE Hits(name) # {}
  <2>1. Hits(name) \in SUBSET Nat
    BY <1>1 DEF Hits
  <2>2. PICK n \in Hits(name) : \A m \in Hits(name) : n <= m
    BY <1>7, <2>1, LeastNat
  <2>3. Min(Hits(name)) = n
    <3>1. \A k \in Hits(name) : (\A m \in Hits(name) : k <= m) => k = n
      BY <2>1, <2>2
    <3>. QED BY <2>2, <3>1 DEF Min
  <2>4. n \in 0..(Entries - 1) /\ n \in Nat
    BY <1>1, <2>1, <2>2 DEF Hits
  <2>5. n + 1 \in Root(name)
    BY <1>3, <2>2, <2>4
  <2>6. n + 1 \in 1..Len(dir)
    BY <2>5 DEF Root
  <2>7. Scanned(n) = dir[n + 1]
    BY <2>4, <2>6, ScannedIs
  <2>8. \A j \in Root(name) : n + 1 <= j
    <3>1. \A j \in Root(name) : n <= j - 1
      BY <1>5, <2>2
    <3>. QED BY <1>4, <2>4, <3>1
  <2>9. echfs_load(name) =
           IF dir[n + 1].type = FILE_TYPE THEN LoadChain(dir[n + 1].payload) ELSE Failure
    BY <1>7, <2>3, <2>7 DEF echfs_load
  <2>. QED BY <2>5, <2>8, <2>9
<1>. QED BY <1>6, <1>7

\* The boot manager finds what the tool has stored.
LEMMA LoaderFinds == IInv => LoaderAgrees
<1>1. SUFFICES ASSUME IInv, Loadable, NEW name \in RootNames
               PROVE  echfs_load(name) =
                         IF IsThere(<<name>>, FILE_TYPE) /\ ~Shadowed(name)
                         THEN Loaded(ContentsAt(<<name>>)) ELSE Failure
  BY DEF LoaderAgrees, LoadsStored
<1>2. /\ Types /\ fat \in Table /\ dir \in Seq(Entry) /\ Len(dir) \in Nat
      /\ Files(fat, dir) /\ Distinct(dir)
  BY <1>1 DEF IInv, Types, Tree
<1>3. \A i \in 1..Len(dir) : dir[i] \in Entry /\ dir[i].type \in {FILE_TYPE, DIRECTORY_TYPE}
  <2>1. \A i \in 1..Len(dir) : dir[i] \in Entry
    BY <1>2
  <2>. QED BY <2>1 DEF Entry
<1>4. PICK t : t = Target(<<name>>, FILE_TYPE)
  OBVIOUS
<1>5. ParentId(<<name>>) = ROOT_ID
  <2>1. name \in Names
    <3>1. PICK p \in Paths : name = p[1]
      BY AllArePaths DEF RootNames
    <3>. QED BY <3>1 DEF Paths
  <2>2. <<name>> \in Paths /\ Len(<<name>>) - 1 = 0
    BY <2>1, NameIsPath
  <2>. QED BY <1>2, <2>2, ParentIsReach, ReachStep
<1>6. t = Search(dir, name, ROOT_ID, FILE_TYPE)
  <2>1. <<name>>[Len(<<name>>)] = name
    OBVIOUS
  <2>. QED BY <1>4, <1>5, <2>1, SearchIsSearch DEF Target
<1>7. IsThere(<<name>>, FILE_TYPE) <=> t > 0
  BY <1>4, <1>5 DEF IsThere, ROOT_ID
<1>8. \A i \in Root(name) : i \in 1..Len(dir) /\ i \in Nat
  BY DEF Root
<1>9. CASE t \in 1..Len(dir) /\ Match(dir[t], name, ROOT_ID, FILE_TYPE)
  <2>1. t \in Root(name) /\ t \in FilesOf(dir) /\ t > 0
    BY <1>9 DEF Root, Match, FilesOf
  <2>2. PICK i \in Root(name) :
           /\ \A j \in Root(name) : i <= j
           /\ echfs_load(name) =
                 IF dir[i].type = FILE_TYPE THEN LoadChain(dir[i].payload) ELSE Failure
    BY <1>1, <1>2, <2>1, LoadDecides
  <2>3. dir[i].type = FILE_TYPE => i = t
    BY <1>2, <1>8, <1>9, <2>2 DEF Distinct, Match, Root
  <2>4. CASE Shadowed(name)
    <3>1. PICK j \in 1..t : /\ dir[j].parent_id = ROOT_ID /\ dir[j].name = name
                            /\ dir[j].type = DIRECTORY_TYPE
      BY <1>4, <2>4 DEF Shadowed
    <3>2. j \in Root(name) /\ j # t
      BY <1>2, <1>9, <3>1 DEF Root, Match, FILE_TYPE, DIRECTORY_TYPE
    <3>3. i # t
      BY <1>8, <1>9, <2>2, <3>1, <3>2
    <3>. QED BY <2>2, <2>3, <2>4, <3>3
  <2>5. CASE ~Shadowed(name)
    <3>1. i <= t /\ i \in 1..t
      BY <1>8, <1>9, <2>1, <2>2
    <3>2. dir[i].type # DIRECTORY_TYPE
      BY <1>4, <2>2, <2>5, <3>1 DEF Shadowed, Root
    <3>3. i = t /\ dir[i].type = FILE_TYPE
      BY <1>3, <1>8, <2>2, <2>3, <3>2
    <3>4. echfs_load(name) = LoadChain(dir[t].payload)
      BY <2>2, <3>3
    <3>5. dir[t] \in Entry /\ Whole(fat, dir[t])
      BY <1>2, <1>3, <1>9, <2>1 DEF Files
    <3>6. LoadChain(dir[t].payload) = Loaded(ContentsAt(<<name>>))
      BY <1>1, <1>2, <1>4, <3>5, LoadsFile DEF ContentsAt
    <3>. QED BY <1>7, <2>1, <2>5, <3>4, <3>6
  <2>. QED BY <2>4, <2>5
<1>10. CASE /\ t \in {SEARCH_FAILURE, PANIC}
            /\ \A j \in 1..Len(dir) : ~Match(dir[j], name, ROOT_ID, FILE_TYPE)
  <2>1. ~(t > 0)
    BY <1>10 DEF SEARCH_FAILURE, PANIC
  <2>2. \A i \in Root(name) : dir[i].type # FILE_TYPE
    BY <1>10 DEF Root, Match
  <2>3. echfs_load(name) = Failure
    BY <1>1, <1>2, <2>2, LoadDecides
  <2>. QED BY <1>7, <2>1, <2>3
<1>. QED BY <1>2, <1>6, <1>9, <1>10, SearchFinds

\* LoaderIsRight: on every image that the tool can produce on a volume that the
\* loader is made for (Loadable: blocks of 8 KiB at most, fewer than 2^28 of
\* them), the boot manager loads exactly the contents that the tool stored under
\* a name of the root, and fails for every other name (LoaderAgrees).
THEOREM LoaderIsRight == Spec => []LoaderAgrees
BY Inductive, LoaderFinds, PTL

=============================================================================
