---------------------------- MODULE EchfsProofs ----------------------------
(***************************************************************************)
(* Proofs about Echfs for volumes of any size and layout, any paths and    *)
(* any sizes of files.                                                     *)
(***************************************************************************)
EXTENDS Echfs, FiniteSetTheorems, SequenceTheorems, WellFoundedInduction, TLAPS

-----------------------------------------------------------------------------
(* Induction, and recursion over a finite range.                           *)

\* A set of natural numbers that is not empty has a least element.
LEMMA LeastNat ==
    ASSUME NEW S \in SUBSET Nat, S # {}
    PROVE  \E x \in S : \A y \in S : x <= y
<1>. DEFINE R == {s \in Nat \X Nat : s[1] < s[2]}
<1>1. IsWellFoundedOn(R, Nat)
  BY NatLessThanWellFounded, Zenon DEF OpToRel
<1>. HIDE DEF R
<1>2. PICK x \in S : \A y \in S : ~(<<y, x>> \in R)
  BY <1>1, WFMin
<1>3. ASSUME NEW y \in S PROVE x <= y
  <2>1. ~(<<y, x>> \in R)
    BY <1>2
  <2>. QED BY <2>1 DEF R
<1>. QED BY <1>3

\* Induction, for a property given as a set.
LEMMA SetInduction ==
    ASSUME NEW S \in SUBSET Nat, 0 \in S, \A n \in S : n + 1 \in S
    PROVE  \A n \in Nat : n \in S
<1>1. SUFFICES ASSUME Nat \ S # {} PROVE FALSE
  OBVIOUS
<1>2. PICK x \in Nat \ S : \A y \in Nat \ S : x <= y
  BY <1>1, LeastNat
<1>3. x # 0 /\ x - 1 \in Nat
  BY <1>2
<1>4. x - 1 \in S
  BY <1>2, <1>3
<1>5. (x - 1) + 1 \in S
  BY <1>4
<1>. QED BY <1>2, <1>3, <1>5

\* A rule F that gives the m-th value from the one before it, and the values
\* that it gives from b on.
Rule(V, F) == F \in [Nat -> [V -> V]]
Solvable(V, F, b) ==
    \A n \in Nat : \E f \in [0..n -> V] :
        f[0] = b /\ \A m \in 1..n : f[m] = F[m][f[m - 1]]

\* A recursion that computes each value from the one before it has a solution.
LEMMA RecursionExists ==
    ASSUME NEW V, NEW b \in V, NEW F, Rule(V, F)
    PROVE  Solvable(V, F, b)
<1>. USE DEF Rule
<1>. DEFINE Good(n, f) == f[0] = b /\ \A m \in 1..n : f[m] = F[m][f[m - 1]]
            S == {n \in Nat : \E f \in [0..n -> V] : Good(n, f)}
<1>1. 0 \in S
  <2>1. [m \in 0..0 |-> b] \in [0..0 -> V] /\ Good(0, [m \in 0..0 |-> b])
    OBVIOUS
  <2>. QED BY <2>1
<1>2. ASSUME NEW n \in S PROVE n + 1 \in S
  <2>1. PICK f \in [0..n -> V] : Good(n, f)
    OBVIOUS
  <2>. DEFINE g == [m \in 0..(n + 1) |-> IF m <= n THEN f[m] ELSE F[n + 1][f[n]]]
  <2>2. n \in Nat /\ f[n] \in V
    OBVIOUS
  <2>3. g \in [0..(n + 1) -> V]
    BY <2>2
  <2>4. ASSUME NEW m \in 1..(n + 1) PROVE g[m] = F[m][g[m - 1]]
    <3>1. CASE m <= n
      BY <2>1, <2>2, <3>1
    <3>2. CASE m = n + 1
      <4>1. ~(m <= n) /\ m - 1 = n /\ n \in 0..(n + 1)
        BY <2>2, <3>2
      <4>. QED BY <2>2, <3>2, <4>1
    <3>. QED BY <2>2, <3>1, <3>2
  <2>5. g[0] = b
    BY <2>1, <2>2
  <2>6. Good(n + 1, g)
    BY <2>4, <2>5
  <2>. HIDE DEF g, Good
  <2>. QED BY <2>2, <2>3, <2>6
<1>. HIDE DEF S
<1>3. S \in SUBSET Nat
  BY DEF S
<1>4. \A n \in Nat : n \in S
  BY <1>1, <1>2, <1>3, SetInduction
<1>. QED BY <1>4 DEF S, Solvable

-----------------------------------------------------------------------------
(* Chains. Follow is a recursive function of the table.                    *)

\* The block behind block i, by a table T.
Along(T, i) == IF i \in Word THEN T[i] ELSE END_OF_CHAIN

Links(T, b, n, f) == f = [m \in 0..n |-> IF m = 0 THEN b ELSE Along(T, f[m - 1])]

\* Follow, for a table T.
Walk(T, b, n) == (CHOOSE f : Links(T, b, n, f))[n]

\* Follow is Walk for the allocation table.
LEMMA FollowIsWalk == ASSUME NEW b, NEW n PROVE Follow(b, n) = Walk(fat, b, n)
BY DEF Follow, Walk, Links, Along

\* And so it is in the next state.
LEMMA FollowIsWalkNext == ASSUME NEW b, NEW n PROVE Follow(b, n)' = Walk(fat', b, n)
BY DEF Follow, Walk, Links, Along

\* The recursion of Follow has a solution...
LEMMA LinksExist ==
    ASSUME NEW T \in [Word -> Int], NEW b \in Int, NEW n \in Nat
    PROVE  \E f \in [0..n -> Int] : Links(T, b, n, f)
<1>. DEFINE F == [m \in Nat |-> [i \in Int |-> IF i \in Word THEN T[i] ELSE END_OF_CHAIN]]
<1>1. Rule(Int, F)
  BY DEF END_OF_CHAIN, Rule
<1>2. \A m \in Nat, i \in Int : F[m][i] = Along(T, i)
  BY DEF Along
<1>. HIDE DEF F
<1>a. Solvable(Int, F, b)
  BY <1>1, RecursionExists
<1>3. PICK f \in [0..n -> Int] : f[0] = b /\ \A m \in 1..n : f[m] = F[m][f[m - 1]]
  BY <1>a DEF Solvable
<1>4. ASSUME NEW m \in 0..n
      PROVE  f[m] = IF m = 0 THEN b ELSE Along(T, f[m - 1])
  <2>1. CASE m = 0
    BY <1>3, <2>1
  <2>2. CASE m # 0
    <3>1. m \in 1..n /\ m - 1 \in 0..n /\ f[m - 1] \in Int
      BY <2>2
    <3>2. f[m] = F[m][f[m - 1]]
      BY <1>3, <3>1
    <3>3. m \in Nat
      OBVIOUS
    <3>. QED BY <1>2, <2>2, <3>1, <3>2, <3>3
  <2>. QED BY <2>1, <2>2
<1>5. Links(T, b, n, f)
  BY <1>4 DEF Links
<1>. QED BY <1>5

\* ...and only one; its shorter beginnings solve the shorter recursions.
LEMMA LinksAgree ==
    ASSUME NEW T, NEW b, NEW n \in Nat, NEW k \in Nat, NEW f, NEW g,
           Links(T, b, n, f), Links(T, b, k, g)
    PROVE  \A m \in Nat : m <= n /\ m <= k => f[m] = g[m]
<1>. DEFINE S == {m \in Nat : m <= n /\ m <= k => f[m] = g[m]}
<1>1. 0 \in S
  BY DEF Links
<1>2. ASSUME NEW m \in S, m + 1 <= n, m + 1 <= k PROVE f[m + 1] = g[m + 1]
  <2>1. m \in Nat /\ f[m] = g[m]
    BY <1>2
  <2>2. m + 1 \in 0..n /\ m + 1 \in 0..k /\ (m + 1) - 1 = m /\ m + 1 # 0
    BY <1>2, <2>1
  <2>3. f[m + 1] = Along(T, f[m])
    BY <2>2 DEF Links
  <2>4. g[m + 1] = Along(T, g[m])
    BY <2>2 DEF Links
  <2>. QED BY <2>1, <2>3, <2>4
<1>3. S \in SUBSET Nat /\ \A m \in S : m + 1 \in S
  BY <1>2
<1>. HIDE DEF S
<1>4. \A m \in Nat : m \in S
  BY <1>1, <1>3, SetInduction
<1>. QED BY <1>4 DEF S

\* What Follow computes: block by block along the table.
LEMMA WalkStep ==
    ASSUME NEW T \in [Word -> Int], NEW b \in Int
    PROVE  /\ Walk(T, b, 0) = b
           /\ \A n \in Nat : Walk(T, b, n) \in Int
           /\ \A n \in Nat : Walk(T, b, n + 1) = Along(T, Walk(T, b, n))
<1>1. ASSUME NEW n \in Nat, NEW f, Links(T, b, n, f) PROVE Walk(T, b, n) = f[n]
  <2>1. PICK g : g = CHOOSE h : Links(T, b, n, h)
    OBVIOUS
  <2>2. Links(T, b, n, g)
    BY <1>1, <2>1
  <2>3. g[n] = f[n]
    BY <1>1, <2>2, LinksAgree
  <2>. QED BY <2>1, <2>3 DEF Walk
<1>2. Walk(T, b, 0) = b
  <2>1. PICK f \in [0..0 -> Int] : Links(T, b, 0, f)
    BY LinksExist
  <2>2. Walk(T, b, 0) = f[0]
    BY <1>1, <2>1
  <2>. QED BY <2>1, <2>2 DEF Links
<1>3. ASSUME NEW n \in Nat
      PROVE  /\ Walk(T, b, n) \in Int
             /\ Walk(T, b, n + 1) = Along(T, Walk(T, b, n))
  <2>1. PICK g \in [0..n -> Int] : Links(T, b, n, g)
    BY LinksExist
  <2>2. Walk(T, b, n) = g[n] /\ g[n] \in Int
    BY <1>1, <2>1
  <2>3. n + 1 \in Nat
    OBVIOUS
  <2>4. PICK f \in [0..(n + 1) -> Int] : Links(T, b, n + 1, f)
    BY <2>3, LinksExist
  <2>5. Walk(T, b, n + 1) = f[n + 1]
    BY <1>1, <2>3, <2>4
  <2>6. f[n] = g[n]
    BY <2>1, <2>3, <2>4, LinksAgree
  <2>7. f[n + 1] = Along(T, f[n])
    BY <2>3, <2>4 DEF Links
  <2>. QED BY <2>2, <2>5, <2>6, <2>7
<1>. QED BY <1>2, <1>3

\* A change of a word leaves a chain alone that does not come to that block.
LEMMA WalkFrame ==
    ASSUME NEW T \in [Word -> Int], NEW U \in [Word -> Int], NEW x,
           \A w \in Word : w # x => U[w] = T[w],
           NEW b \in Int, NEW k \in Nat,
           \A n \in 0..(k - 1) : Walk(T, b, n) # x
    PROVE  \A n \in 0..k : Walk(U, b, n) = Walk(T, b, n)
<1>. DEFINE S == {n \in Nat : n <= k => Walk(U, b, n) = Walk(T, b, n)}
<1>2. 0 \in S
  BY WalkStep
<1>3. ASSUME NEW n \in S, n + 1 <= k PROVE Walk(U, b, n + 1) = Walk(T, b, n + 1)
  <2>1. n \in Nat /\ n \in 0..(k - 1) /\ Walk(U, b, n) = Walk(T, b, n)
    BY <1>3
  <2>2. Walk(U, b, n + 1) = Along(U, Walk(U, b, n))
    BY <2>1, WalkStep
  <2>3. Walk(T, b, n + 1) = Along(T, Walk(T, b, n))
    BY <2>1, WalkStep
  <2>4. Walk(T, b, n) # x
    BY <2>1
  <2>. QED BY <2>1, <2>2, <2>3, <2>4 DEF Along
<1>4. S \in SUBSET Nat /\ \A n \in S : n + 1 \in S
  BY <1>3
<1>. HIDE DEF S
<1>5. \A n \in Nat : n \in S
  BY <1>2, <1>4, SetInduction
<1>6. \A n \in Nat : n <= k => Walk(U, b, n) = Walk(T, b, n)
  BY <1>5 DEF S
<1>. QED BY <1>6

-----------------------------------------------------------------------------
(* The directory. search and ParentId, for a directory d.                  *)

\* The names in the paths that commands are given, and the one in front of a
\* leading slash.
Names ==
    {""} \cup UNION {{s[i] : i \in 1..Len(s)} :
                         s \in {p.names : p \in ImportPaths} \cup MkdirPaths}

Entry == [parent_id : Int, type : {FILE_TYPE, DIRECTORY_TYPE}, name : Names,
          payload : Int, size : Nat]
Paths == Seq(Names) \ {<<>>}

Match(e, name, parent, type) == e.parent_id = parent /\ e.type = type /\ e.name = name

Search(d, name, parent, type) ==
    LET found == {i \in 1..Len(d) : Match(d[i], name, parent, type)}
    IN  IF found # {} THEN Min(found)
        ELSE IF Len(d) < Entries THEN SEARCH_FAILURE ELSE PANIC

\* search is Search for the main directory.
LEMMA SearchIsSearch ==
    ASSUME NEW name, NEW parent, NEW type
    PROVE  search(name, parent, type) = Search(dir, name, parent, type)
BY DEF search, Search, Match

\* What search returns: the first entry that matches, or a failure when there is none.
LEMMA SearchFinds ==
    ASSUME NEW d \in Seq(Entry), NEW name, NEW parent, NEW type
    PROVE  LET i == Search(d, name, parent, type) IN
           \/ /\ i \in 1..Len(d) /\ Match(d[i], name, parent, type)
              /\ \A j \in 1..(i - 1) : ~Match(d[j], name, parent, type)
           \/ /\ i = (IF Len(d) < Entries THEN SEARCH_FAILURE ELSE PANIC)
              /\ \A j \in 1..Len(d) : ~Match(d[j], name, parent, type)
<1>. DEFINE found == {i \in 1..Len(d) : Match(d[i], name, parent, type)}
<1>1. CASE found = {}
  BY <1>1 DEF Search
<1>2. CASE found # {}
  <2>1. Len(d) \in Nat /\ found \in SUBSET Nat
    OBVIOUS
  <2>2. PICK x \in found : \A y \in found : x <= y
    BY <1>2, <2>1, LeastNat
  <2>3. Min(found) \in found /\ \A y \in found : Min(found) <= y
    BY <2>2 DEF Min
  <2>4. Search(d, name, parent, type) = Min(found)
    BY <1>2 DEF Search
  <2>5. \A j \in 1..(Min(found) - 1) : ~Match(d[j], name, parent, type)
    <3>1. SUFFICES ASSUME NEW j \in 1..(Min(found) - 1), Match(d[j], name, parent, type)
                   PROVE  FALSE
      OBVIOUS
    <3>2. Min(found) \in 1..Len(d)
      BY <2>3
    <3>3. j \in found
      BY <2>1, <3>1, <3>2
    <3>. QED BY <2>3, <3>1, <3>2, <3>3
  <2>. QED BY <2>3, <2>4, <2>5
<1>. QED BY <1>1, <1>2

\* One turn of path_resolver: from directory x to what is there under a name.
Into(d, name, x) ==
    IF x < 0 THEN x
    ELSE LET i == Search(d, name, x, DIRECTORY_TYPE) IN IF i < 0 THEN i ELSE d[i].payload

Steps(d, path, f) ==
    f = [n \in 0..(Len(path) - 1) |-> IF n = 0 THEN ROOT_ID ELSE Into(d, path[n], f[n - 1])]

\* Where path_resolver is after n names of a path.
Reach(d, path, n) == (CHOOSE f : Steps(d, path, f))[n]

\* The directory of a path is where its last name but one leads.
LEMMA ParentIsReach == ASSUME NEW path PROVE ParentId(path) = Reach(dir, path, Len(path) - 1)
BY DEF ParentId, Reach, Steps, Into, search, Search, Match

\* And so it is in the next state.
LEMMA ParentIsReachNext ==
    ASSUME NEW path PROVE ParentId(path)' = Reach(dir', path, Len(path) - 1)
BY DEF ParentId, Reach, Steps, Into, search, Search, Match

\* A turn from a directory that is there.
LEMMA IntoIs ==
    ASSUME NEW d, NEW name, NEW x \in Int, x >= 0,
           NEW i, i = Search(d, name, x, DIRECTORY_TYPE)
    PROVE  Into(d, name, x) = IF i < 0 THEN i ELSE d[i].payload
<1>1. ~(x < 0)
  OBVIOUS
<1>. QED BY <1>1 DEF Into

\* A turn leads to a number, of an entry or of a failure.
LEMMA IntoInt ==
    ASSUME NEW d \in Seq(Entry), NEW name, NEW x \in Int PROVE Into(d, name, x) \in Int
<1>1. PICK i : i = Search(d, name, x, DIRECTORY_TYPE)
  OBVIOUS
<1>2. i \in 1..Len(d) \/ i \in {SEARCH_FAILURE, PANIC}
  BY <1>1, SearchFinds
<1>3. CASE i \in 1..Len(d)
  <2>1. d[i] \in Entry
    BY <1>3
  <2>2. d[i].payload \in Int
    BY <2>1 DEF Entry
  <2>3. ~(i < 0)
    BY <1>3
  <2>. QED BY <1>1, <2>2, <2>3 DEF Into
<1>4. CASE i \in {SEARCH_FAILURE, PANIC}
  BY <1>1, <1>4 DEF Into, SEARCH_FAILURE, PANIC
<1>. QED BY <1>2, <1>3, <1>4

\* The recursion of ParentId has a solution...
LEMMA StepsExist ==
    ASSUME NEW d \in Seq(Entry), NEW path \in Paths
    PROVE  \E f \in [0..(Len(path) - 1) -> Int] : Steps(d, path, f)
<1>. DEFINE F == [m \in Nat |-> [x \in Int |-> Into(d, path[m], x)]]
            n == Len(path) - 1
<1>1. Rule(Int, F)
  BY IntoInt DEF Rule
<1>2. \A m \in Nat, x \in Int : F[m][x] = Into(d, path[m], x)
  OBVIOUS
<1>3. n \in Nat /\ ROOT_ID \in Int
  BY DEF Paths, ROOT_ID
<1>. HIDE DEF F, n
<1>4. Solvable(Int, F, ROOT_ID)
  BY <1>1, <1>3, RecursionExists
<1>5. PICK f \in [0..n -> Int] : f[0] = ROOT_ID /\ \A m \in 1..n : f[m] = F[m][f[m - 1]]
  BY <1>3, <1>4 DEF Solvable
<1>6. ASSUME NEW m \in 0..n
      PROVE  f[m] = IF m = 0 THEN ROOT_ID ELSE Into(d, path[m], f[m - 1])
  <2>1. CASE m = 0
    BY <1>5, <2>1
  <2>2. CASE m # 0
    <3>1. m \in 1..n /\ m - 1 \in 0..n /\ f[m - 1] \in Int /\ m \in Nat
      BY <1>3, <2>2
    <3>2. f[m] = F[m][f[m - 1]]
      BY <1>5, <3>1
    <3>. QED BY <1>2, <2>2, <3>1, <3>2
  <2>. QED BY <2>1, <2>2
<1>7. f = [m \in 0..n |-> IF m = 0 THEN ROOT_ID ELSE Into(d, path[m], f[m - 1])]
  BY <1>6
<1>. QED BY <1>7 DEF Steps, n

\* Two paths have the same first k names, and more.
Alike(p, q, k) == k < Len(p) /\ k < Len(q) /\ \A m \in 1..k : p[m] = q[m]

\* ...and only one: paths that begin alike lead the same way.
LEMMA StepsAgree ==
    ASSUME NEW d, NEW p \in Paths, NEW q \in Paths, NEW k \in Nat, NEW f, NEW g,
           Steps(d, p, f), Steps(d, q, g), Alike(p, q, k)
    PROVE  f[k] = g[k]
<1>. USE DEF Alike
<1>. DEFINE S == {m \in Nat : m <= k => f[m] = g[m]}
<1>0. Len(p) \in Nat /\ Len(q) \in Nat
  BY DEF Paths
<1>1. 0 \in S
  BY <1>0 DEF Steps
<1>2. ASSUME NEW m \in S, m + 1 <= k PROVE f[m + 1] = g[m + 1]
  <2>1. m \in Nat /\ f[m] = g[m]
    BY <1>2
  <2>2. m + 1 \in 0..(Len(p) - 1) /\ m + 1 \in 0..(Len(q) - 1) /\ (m + 1) - 1 = m /\ m + 1 # 0
    BY <1>0, <1>2, <2>1
  <2>3. f[m + 1] = Into(d, p[m + 1], f[m])
    BY <2>2 DEF Steps
  <2>4. g[m + 1] = Into(d, q[m + 1], g[m])
    BY <2>2 DEF Steps
  <2>5. p[m + 1] = q[m + 1]
    BY <1>2, <2>1
  <2>. QED BY <2>1, <2>3, <2>4, <2>5
<1>3. S \in SUBSET Nat /\ \A m \in S : m + 1 \in S
  BY <1>2
<1>. HIDE DEF S
<1>4. \A m \in Nat : m \in S
  BY <1>1, <1>3, SetInduction
<1>. QED BY <1>4 DEF S

\* What Reach computes.
LEMMA ReachStep ==
    ASSUME NEW d \in Seq(Entry), NEW path \in Paths
    PROVE  /\ Reach(d, path, 0) = ROOT_ID
           /\ \A n \in 0..(Len(path) - 1) : Reach(d, path, n) \in Int
           /\ \A n \in 0..(Len(path) - 2) :
                 Reach(d, path, n + 1) = Into(d, path[n + 1], Reach(d, path, n))
<1>1. PICK f \in [0..(Len(path) - 1) -> Int] : Steps(d, path, f)
  BY StepsExist
<1>2. PICK g : g = CHOOSE h : Steps(d, path, h)
  OBVIOUS
<1>3. Steps(d, path, g)
  BY <1>1, <1>2
<1>4. \A n : Reach(d, path, n) = g[n]
  BY <1>2 DEF Reach
<1>5. Len(path) \in Nat /\ Len(path) # 0
  BY DEF Paths
<1>6. g[0] = ROOT_ID
  BY <1>3, <1>5 DEF Steps
<1>7. ASSUME NEW n \in 0..(Len(path) - 1) PROVE g[n] \in Int
  <2>1. n \in Nat /\ n < Len(path)
    BY <1>5
  <2>2. f[n] = g[n]
    BY <1>1, <1>3, <2>1, StepsAgree DEF Alike
  <2>. QED BY <1>1, <2>2
<1>8. ASSUME NEW n \in 0..(Len(path) - 2) PROVE g[n + 1] = Into(d, path[n + 1], g[n])
  <2>1. n + 1 \in 0..(Len(path) - 1) /\ n + 1 # 0 /\ (n + 1) - 1 = n
    BY <1>5
  <2>. QED BY <1>3, <2>1 DEF Steps
<1>. QED BY <1>4, <1>6, <1>7, <1>8

\* A path that begins like another one leads the same way.
LEMMA ReachPrefix ==
    ASSUME NEW d \in Seq(Entry), NEW p \in Paths, NEW q \in Paths, NEW k \in Nat,
           Alike(p, q, k)
    PROVE  Reach(d, p, k) = Reach(d, q, k)
<1>1. PICK f : f = CHOOSE h : Steps(d, p, h)
  OBVIOUS
<1>2. PICK g : g = CHOOSE h : Steps(d, q, h)
  OBVIOUS
<1>3. Steps(d, p, f)
  <2>1. \E h : Steps(d, p, h)
    BY StepsExist
  <2>. QED BY <1>1, <2>1
<1>4. Steps(d, q, g)
  <2>1. \E h : Steps(d, q, h)
    BY StepsExist
  <2>. QED BY <1>2, <2>1
<1>5. f[k] = g[k]
  BY <1>3, <1>4, StepsAgree
<1>. QED BY <1>1, <1>2, <1>5 DEF Reach

\* The numbers that get_free_id goes through, for a directory d.
Ids(d, f) ==
    f = [n \in 0..Len(d) |->
            IF n = 0 THEN 1
            ELSE IF d[n].type = DIRECTORY_TYPE /\ d[n].payload = f[n - 1] THEN f[n - 1] + 1
            ELSE f[n - 1]]
Id(d, n) == (CHOOSE f : Ids(d, f))[n]

\* get_free_id is the last of them.
LEMMA FreeIdIsId == get_free_id = Id(dir, Len(dir))
BY DEF get_free_id, Id, Ids

\* The recursion of get_free_id has a solution...
LEMMA IdsExist ==
    ASSUME NEW d \in Seq(Entry)
    PROVE  \E f \in [0..Len(d) -> Nat] : Ids(d, f)
<1>. DEFINE F == [m \in Nat |-> [x \in Nat |->
                     IF d[m].type = DIRECTORY_TYPE /\ d[m].payload = x THEN x + 1 ELSE x]]
            n == Len(d)
<1>1. Rule(Nat, F)
  BY DEF Rule
<1>2. \A m \in Nat, x \in Nat :
         F[m][x] = IF d[m].type = DIRECTORY_TYPE /\ d[m].payload = x THEN x + 1 ELSE x
  OBVIOUS
<1>3. n \in Nat /\ 1 \in Nat
  OBVIOUS
<1>. HIDE DEF F, n
<1>4. Solvable(Nat, F, 1)
  BY <1>1, <1>3, RecursionExists
<1>5. PICK f \in [0..n -> Nat] : f[0] = 1 /\ \A m \in 1..n : f[m] = F[m][f[m - 1]]
  BY <1>3, <1>4 DEF Solvable
<1>6. ASSUME NEW m \in 0..n
      PROVE  f[m] = IF m = 0 THEN 1
                    ELSE IF d[m].type = DIRECTORY_TYPE /\ d[m].payload = f[m - 1]
                    THEN f[m - 1] + 1 ELSE f[m - 1]
  <2>1. CASE m = 0
    BY <1>5, <2>1
  <2>2. CASE m # 0
    <3>1. m \in 1..n /\ m - 1 \in 0..n /\ f[m - 1] \in Nat /\ m \in Nat
      BY <1>3, <2>2
    <3>2. f[m] = F[m][f[m - 1]]
      BY <1>5, <3>1
    <3>. QED BY <1>2, <2>2, <3>1, <3>2
  <2>. QED BY <2>1, <2>2
<1>7. Ids(d, f)
  BY <1>6 DEF Ids, n
<1>. QED BY <1>7 DEF n

\* ...and only one: a longer directory begins with the same numbers.
LEMMA IdsAgree ==
    ASSUME NEW d \in Seq(Entry), NEW e \in Seq(Entry), NEW f, NEW g, Ids(d, f), Ids(e, g),
           Len(d) <= Len(e), \A i \in 1..Len(d) : d[i] = e[i]
    PROVE  \A m \in 0..Len(d) : f[m] = g[m]
<1>. DEFINE S == {m \in Nat : m <= Len(d) => f[m] = g[m]}
<1>0. Len(d) \in Nat /\ Len(e) \in Nat
  OBVIOUS
<1>1. 0 \in S
  BY <1>0 DEF Ids
<1>2. ASSUME NEW m \in S, m + 1 <= Len(d) PROVE f[m + 1] = g[m + 1]
  <2>1. m \in Nat /\ f[m] = g[m]
    BY <1>0, <1>2
  <2>2. /\ m + 1 \in 0..Len(d) /\ m + 1 \in 0..Len(e) /\ (m + 1) - 1 = m /\ m + 1 # 0
        /\ m + 1 \in 1..Len(d)
    BY <1>0, <1>2, <2>1
  <2>3. f[m + 1] = IF d[m + 1].type = DIRECTORY_TYPE /\ d[m + 1].payload = f[m]
                   THEN f[m] + 1 ELSE f[m]
    BY <2>2 DEF Ids
  <2>4. g[m + 1] = IF e[m + 1].type = DIRECTORY_TYPE /\ e[m + 1].payload = g[m]
                   THEN g[m] + 1 ELSE g[m]
    BY <2>2 DEF Ids
  <2>5. d[m + 1] = e[m + 1]
    BY <2>2
  <2>. QED BY <2>1, <2>3, <2>4, <2>5
<1>3. S \in SUBSET Nat /\ \A m \in S : m + 1 \in S
  BY <1>0, <1>2
<1>. HIDE DEF S
<1>4. \A m \in Nat : m \in S
  BY <1>1, <1>3, SetInduction
<1>. QED BY <1>0, <1>4 DEF S

\* What get_free_id computes.
LEMMA IdStep ==
    ASSUME NEW d \in Seq(Entry)
    PROVE  /\ Id(d, 0) = 1
           /\ \A n \in 0..Len(d) : Id(d, n) \in Nat
           /\ \A n \in 1..Len(d) :
                 Id(d, n) = IF d[n].type = DIRECTORY_TYPE /\ d[n].payload = Id(d, n - 1)
                            THEN Id(d, n - 1) + 1 ELSE Id(d, n - 1)
<1>1. PICK f \in [0..Len(d) -> Nat] : Ids(d, f)
  BY IdsExist
<1>2. PICK g : g = CHOOSE h : Ids(d, h)
  OBVIOUS
<1>3. Ids(d, g)
  BY <1>1, <1>2
<1>4. \A n : Id(d, n) = g[n]
  BY <1>2 DEF Id
<1>5. Len(d) \in Nat
  OBVIOUS
<1>6. g[0] = 1
  BY <1>3, <1>5 DEF Ids
<1>7. \A n \in 0..Len(d) : g[n] \in Nat
  <2>1. \A n \in 0..Len(d) : f[n] = g[n]
    BY <1>1, <1>3, <1>5, IdsAgree
  <2>. QED BY <1>1, <2>1
<1>8. ASSUME NEW n \in 1..Len(d)
      PROVE  g[n] = IF d[n].type = DIRECTORY_TYPE /\ d[n].payload = g[n - 1]
                    THEN g[n - 1] + 1 ELSE g[n - 1]
  <2>1. n \in 0..Len(d) /\ n # 0
    BY <1>5
  <2>. QED BY <1>3, <2>1 DEF Ids
<1>. QED BY <1>4, <1>6, <1>7, <1>8

\* A longer directory begins with the same numbers.
LEMMA IdPrefix ==
    ASSUME NEW d \in Seq(Entry), NEW e \in Seq(Entry),
           Len(d) <= Len(e), \A i \in 1..Len(d) : d[i] = e[i]
    PROVE  \A n \in 0..Len(d) : Id(e, n) = Id(d, n)
<1>1. PICK f : f = CHOOSE h : Ids(d, h)
  OBVIOUS
<1>2. PICK g : g = CHOOSE h : Ids(e, h)
  OBVIOUS
<1>3. Ids(d, f)
  <2>1. \E h : Ids(d, h)
    BY IdsExist
  <2>. QED BY <1>1, <2>1
<1>4. Ids(e, g)
  <2>1. \E h : Ids(e, h)
    BY IdsExist
  <2>. QED BY <1>2, <2>1
<1>5. \A n \in 0..Len(d) : f[n] = g[n]
  BY <1>3, <1>4, IdsAgree
<1>. QED BY <1>1, <1>2, <1>5 DEF Id

\* The numbers never go down, and grow by at most one with an entry.
LEMMA IdGrows ==
    ASSUME NEW d \in Seq(Entry)
    PROVE  \A n \in 0..Len(d) :
              Id(d, n) \in 1..(n + 1) /\ \A m \in 0..n : Id(d, m) <= Id(d, n)
<1>. DEFINE P(n) == Id(d, n) \in 1..(n + 1) /\ \A m \in 0..n : Id(d, m) <= Id(d, n)
            S == {n \in Nat : n <= Len(d) => P(n)}
<1>0. Len(d) \in Nat
  OBVIOUS
<1>1. 0 \in S
  BY IdStep
<1>2. ASSUME NEW n \in S, n + 1 <= Len(d) PROVE P(n + 1)
  <2>1. n \in Nat /\ P(n)
    BY <1>0, <1>2
  <2>2. n + 1 \in 1..Len(d) /\ (n + 1) - 1 = n
    BY <1>0, <1>2, <2>1
  <2>3. Id(d, n + 1) = Id(d, n) \/ Id(d, n + 1) = Id(d, n) + 1
    BY <2>2, IdStep
  <2>4. \A m \in 0..n : Id(d, m) \in Nat
    BY <1>0, <1>2, <2>1, IdStep
  <2>. QED BY <2>1, <2>3, <2>4
<1>3. S \in SUBSET Nat /\ \A n \in S : n + 1 \in S
  BY <1>2
<1>. HIDE DEF S
<1>4. \A n \in Nat : n \in S
  BY <1>1, <1>3, SetInduction
<1>. QED BY <1>0, <1>4 DEF S

-----------------------------------------------------------------------------
(* The inductive invariant.                                                *)

\* The data area, and the first n blocks of a chain.
DataArea == datastart..(Blocks - 1)
ChainOf(T, b, n) == {Walk(T, b, m) : m \in 0..(n - 1)}
FileChain(T, e) == ChainOf(T, e.payload, BlocksOf(e.size))

\* What the allocation table may hold.
Table == [Word -> {FREE, RESERVED_BLOCK, END_OF_CHAIN} \cup 1..(Blocks - 1)]

Importing == {"find", "write", "entry"}

Types ==
    /\ fat \in Table
    /\ dir \in Seq(Entry) /\ Len(dir) <= Entries
    /\ pc \in {"idle", "dirs"} \cup Importing
    /\ job \in [path : Seq(Names), abs : BOOLEAN, size : Nat, depth : Nat, k : Nat,
                start : Int, block : Int]
    /\ cut \in BOOLEAN
    /\ pc # "idle" => job.path \in Paths
    /\ \A b \in Word : b < datastart => fat[b] = RESERVED_BLOCK

\* The chains of the files, from which everything that import changes is apart.
Whole(T, e) ==
    /\ FileChain(T, e) \subseteq DataArea
    /\ Walk(T, e.payload, BlocksOf(e.size)) = END_OF_CHAIN
Files(T, d) ==
    /\ \A i \in FilesOf(d) : Whole(T, d[i])
    /\ \A i, j \in FilesOf(d) : i # j => FileChain(T, d[i]) \cap FileChain(T, d[j]) = {}

\* The chain that import_chain has built so far: its last block is job.block,
\* which it has linked to before it is taken. There are blocks for the rest.
Built == ChainOf(fat, job.start, job.k)
Unused == {b \in FreeBlocks : b < Blocks}

Import_chain ==
    /\ pc = "dirs" => job.k = 0
    /\ pc = "find" => job.k < BlocksOf(job.size)
    /\ pc = "write" => job.k \in 1..BlocksOf(job.size)
    /\ pc = "entry" => job.k = BlocksOf(job.size)
    /\ pc \in Importing /\ job.k > 0 =>
          /\ Built \subseteq DataArea
          /\ Walk(fat, job.start, job.k - 1) = job.block
          /\ fat[job.block] = IF pc = "write" THEN FREE ELSE END_OF_CHAIN
          /\ \A i \in FilesOf(dir) : Built \cap FileChain(fat, dir[i]) = {}
    /\ pc \in {"dirs", "find"} => Cardinality(Unused) >= BlocksOf(job.size) - job.k
    /\ pc = "write" => Cardinality(Unused) >= BlocksOf(job.size) - job.k + 1

\* Without a command that was cut short, every block that is taken has an owner.
Owners ==
    ~cut => \A b \in Word : fat[b] \notin {FREE, RESERVED_BLOCK} =>
        \/ \E i \in FilesOf(dir) : b \in FileChain(fat, dir[i])
        \/ pc \in Importing /\ b \in Built

\* Directories are numbered in the order of their entries, as get_free_id counts.
IsDir(d, i) == d[i].type = DIRECTORY_TYPE
Numbered(d) == \A n \in 1..Len(d) : IsDir(d, n) => d[n].payload = Id(d, n - 1)
Rooted(d) == \A i \in 1..Len(d) :
    d[i].parent_id = ROOT_ID \/ \E j \in 1..Len(d) : IsDir(d, j) /\ d[j].payload = d[i].parent_id
Distinct(d) == \A i, j \in 1..Len(d) :
    Match(d[i], d[j].name, d[j].parent_id, d[j].type) => i = j
Tree(d) == Numbered(d) /\ Rooted(d) /\ Distinct(d)

\* The loop that makes missing directories has come past those that are there;
\* behind it the directory of the file is there and the file is not.
Import_path ==
    /\ pc = "dirs" =>
          /\ job.depth <= Len(job.path)
          /\ job.depth >= 1 => Reach(dir, job.path, job.depth - 1) # SEARCH_FAILURE
    /\ pc \in Importing =>
          /\ Reach(dir, job.path, Len(job.path) - 1) >= 0
          /\ Search(dir, job.path[Len(job.path)], Reach(dir, job.path, Len(job.path) - 1),
                    FILE_TYPE) = SEARCH_FAILURE

IInv == Types /\ Files(fat, dir) /\ Import_chain /\ Owners /\ Tree(dir) /\ Import_path

-----------------------------------------------------------------------------
(* The layout, and the chains of files.                                    *)

\* Rounding up, as main does for the table and import for the blocks of a file.
LEMMA CeilingBounds ==
    ASSUME NEW a \in Nat, NEW b \in Nat \ {0}
    PROVE  /\ Ceiling(a, b) \in Nat
           /\ Ceiling(a, b) * b >= a
           /\ a > 0 => Ceiling(a, b) >= 1
<1>1. PICK q : q = (a + b - 1) \div b
  OBVIOUS
<1>2. q \in Int /\ q * b <= a + b - 1 /\ a + b - 1 < q * b + b
  BY <1>1
<1>3. q * b >= a
  BY <1>2
<1>4. q >= 0
  BY <1>2
<1>5. a > 0 => q >= 1
  BY <1>2, <1>3, <1>4
<1>. QED BY <1>1, <1>2, <1>3, <1>4, <1>5 DEF Ceiling

\* Every block has its word in the table, and block 0 is not in the data area.
LEMMA Layout ==
    /\ datastart \in Nat /\ Entries \in Nat
    /\ DataArea \subseteq Word
    /\ \A b \in DataArea : b \in Nat \ {0} /\ b < Blocks /\ b >= datastart
    /\ \A b \in Word : b \in Nat
<1>1. fatsize \in Nat /\ fatsize * FatPerBlock >= Blocks /\ (Blocks > 0 => fatsize >= 1)
  BY EchfsAssumption, CeilingBounds DEF fatsize
<1>2. dirsize \in Nat
  BY EchfsAssumption DEF dirsize
<1>3. datastart \in Nat /\ datastart >= fatsize
  BY <1>1, <1>2, EchfsAssumption DEF datastart
<1>4. Entries \in Nat
  BY <1>2, EchfsAssumption DEF Entries
<1>5. PICK w : w = fatsize * FatPerBlock
  OBVIOUS
<1>6. w \in Int /\ w >= Blocks /\ Word = 0..(w - 1)
  BY <1>1, <1>5, EchfsAssumption DEF Word
<1>. QED BY <1>1, <1>3, <1>4, <1>6, EchfsAssumption DEF DataArea

\* A file has a block, also if it is empty.
LEMMA BlocksPositive == ASSUME NEW s \in Nat PROVE BlocksOf(s) \in Nat \ {0}
<1>1. Ceiling(s, bytesperblock) \in Nat /\ (s > 0 => Ceiling(s, bytesperblock) >= 1)
  BY EchfsAssumption, CeilingBounds
<1>. QED BY <1>1 DEF BlocksOf

\* A table holds numbers.
LEMMA TableInt == ASSUME NEW T \in Table PROVE T \in [Word -> Int]
BY EchfsAssumption DEF Table, FREE, RESERVED_BLOCK, END_OF_CHAIN

\* A block that a chain goes through before its end is not free: its word
\* names the next block.
LEMMA ChainTaken ==
    ASSUME NEW T \in Table, NEW b \in Int, NEW n \in Nat, NEW m \in 0..(n - 1),
           ChainOf(T, b, n) \subseteq DataArea
    PROVE  /\ Walk(T, b, m) \in DataArea
           /\ T[Walk(T, b, m)] = Walk(T, b, m + 1)
           /\ m + 1 < n => Walk(T, b, m + 1) \in DataArea
<1>1. Walk(T, b, m) \in DataArea
  BY DEF ChainOf
<1>2. Walk(T, b, m) \in Word
  BY <1>1, Layout
<1>3. m \in Nat
  OBVIOUS
<1>4. Walk(T, b, m + 1) = Along(T, Walk(T, b, m))
  BY <1>3, TableInt, WalkStep
<1>5. m + 1 < n => Walk(T, b, m + 1) \in DataArea
  <2>1. SUFFICES ASSUME m + 1 < n PROVE m + 1 \in 0..(n - 1)
    BY DEF ChainOf
  <2>. QED BY <1>3, <2>1
<1>. QED BY <1>1, <1>2, <1>4, <1>5 DEF Along

\* No block of a whole file is free.
LEMMA FileTaken ==
    ASSUME NEW T \in Table, NEW e \in Entry, Whole(T, e)
    PROVE  \A x \in FileChain(T, e) : x \in DataArea /\ T[x] # FREE
<1>. DEFINE n == BlocksOf(e.size)
<1>1. e.payload \in Int /\ n \in Nat \ {0}
  BY BlocksPositive DEF Entry
<1>2. Walk(T, e.payload, n) = END_OF_CHAIN /\ ChainOf(T, e.payload, n) \subseteq DataArea
  BY DEF Whole, FileChain
<1>. HIDE DEF n
<1>3. ASSUME NEW m \in 0..(n - 1)
      PROVE  Walk(T, e.payload, m) \in DataArea /\ T[Walk(T, e.payload, m)] # FREE
  <2>1. /\ Walk(T, e.payload, m) \in DataArea
        /\ T[Walk(T, e.payload, m)] = Walk(T, e.payload, m + 1)
        /\ m + 1 < n => Walk(T, e.payload, m + 1) \in DataArea
    BY <1>1, <1>2, ChainTaken
  <2>2. CASE m + 1 < n
    BY <2>1, <2>2, Layout DEF FREE
  <2>3. CASE m + 1 = n
    BY <1>2, <2>1, <2>3 DEF FREE, END_OF_CHAIN
  <2>. QED BY <1>1, <2>2, <2>3
<1>. QED BY <1>3 DEF FileChain, ChainOf, n

\* A file stays whole, with the blocks it has, when the word of a block changes
\* that is not its own.
LEMMA FileFrame ==
    ASSUME NEW T \in Table, NEW U \in Table, NEW x, \A w \in Word : w # x => U[w] = T[w],
           NEW e \in Entry, Whole(T, e), x \notin FileChain(T, e)
    PROVE  Whole(U, e) /\ FileChain(U, e) = FileChain(T, e)
<1>. DEFINE n == BlocksOf(e.size)
<1>1. e.payload \in Int /\ n \in Nat \ {0}
  BY BlocksPositive DEF Entry
<1>2. \A m \in 0..(n - 1) : Walk(T, e.payload, m) # x
  BY DEF FileChain, ChainOf
<1>. HIDE DEF n
<1>3. \A m \in 0..n : Walk(U, e.payload, m) = Walk(T, e.payload, m)
  BY <1>1, <1>2, TableInt, WalkFrame
<1>4. ChainOf(U, e.payload, n) = ChainOf(T, e.payload, n)
  BY <1>1, <1>3 DEF ChainOf
<1>5. Walk(U, e.payload, n) = Walk(T, e.payload, n)
  BY <1>1, <1>3
<1>. QED BY <1>4, <1>5 DEF Whole, FileChain, n

-----------------------------------------------------------------------------
(* Entries that are added to the directory.                                *)

\* The facts about a longer directory that the lemmas need.
LEMMA Longer ==
    ASSUME NEW d \in Seq(Entry), NEW e \in Entry
    PROVE  /\ Append(d, e) \in Seq(Entry)
           /\ Len(Append(d, e)) = Len(d) + 1
           /\ \A i \in 1..Len(d) : Append(d, e)[i] = d[i]
           /\ Append(d, e)[Len(d) + 1] = e
           /\ Len(d) \in Nat
OBVIOUS

\* A directory that a path leads to is the root, or has an entry.
LEMMA ReachIsDir ==
    ASSUME NEW d \in Seq(Entry), NEW path \in Paths, NEW n \in 0..(Len(path) - 1),
           Reach(d, path, n) >= 0
    PROVE  \/ Reach(d, path, n) = ROOT_ID
           \/ \E j \in 1..Len(d) : IsDir(d, j) /\ d[j].payload = Reach(d, path, n)
<1>1. CASE n = 0
  BY <1>1, ReachStep
<1>2. CASE n # 0
  <2>1. PICK x : x = Reach(d, path, n - 1)
    OBVIOUS
  <2>2. n - 1 \in 0..(Len(path) - 2) /\ (n - 1) + 1 = n /\ n - 1 \in 0..(Len(path) - 1)
    BY <1>2 DEF Paths
  <2>3. Reach(d, path, n) = Into(d, path[n], x) /\ x \in Int
    BY <2>1, <2>2, ReachStep
  <2>4. PICK i : i = Search(d, path[n], x, DIRECTORY_TYPE)
    OBVIOUS
  <2>5. \/ i \in 1..Len(d) /\ Match(d[i], path[n], x, DIRECTORY_TYPE)
        \/ i \in {SEARCH_FAILURE, PANIC}
    BY <2>4, SearchFinds
  <2>6. CASE i \in 1..Len(d) /\ Match(d[i], path[n], x, DIRECTORY_TYPE)
    <3>1. x >= 0
      BY <2>3 DEF Into
    <3>2. Reach(d, path, n) = d[i].payload
      BY <2>3, <2>4, <2>6, <3>1 DEF Into
    <3>. QED BY <2>6, <3>2 DEF IsDir, Match
  <2>7. CASE i \in {SEARCH_FAILURE, PANIC}
    BY <2>3, <2>4, <2>7 DEF Into, SEARCH_FAILURE, PANIC
  <2>. QED BY <2>5, <2>6, <2>7
<1>. QED BY <1>1, <1>2

\* What search finds it finds in a longer directory, too.
LEMMA SearchLonger ==
    ASSUME NEW d \in Seq(Entry), NEW e \in Entry, NEW name, NEW parent, NEW type,
           Search(d, name, parent, type) \in 1..Len(d)
    PROVE  Search(Append(d, e), name, parent, type) = Search(d, name, parent, type)
<1>1. PICK i : i = Search(d, name, parent, type)
  OBVIOUS
<1>2. PICK c : c = Append(d, e)
  OBVIOUS
<1>3. PICK j : j = Search(c, name, parent, type)
  OBVIOUS
<1>4. /\ c \in Seq(Entry) /\ Len(c) = Len(d) + 1 /\ Len(d) \in Nat
      /\ \A k \in 1..Len(d) : c[k] = d[k]
  BY <1>2, Longer
<1>5. /\ i \in 1..Len(d) /\ Match(d[i], name, parent, type)
      /\ \A k \in 1..(i - 1) : ~Match(d[k], name, parent, type)
  BY <1>1, SearchFinds DEF SEARCH_FAILURE, PANIC
<1>6. \/ /\ j \in 1..Len(c) /\ Match(c[j], name, parent, type)
         /\ \A k \in 1..(j - 1) : ~Match(c[k], name, parent, type)
      \/ \A k \in 1..Len(c) : ~Match(c[k], name, parent, type)
  BY <1>3, <1>4, SearchFinds
<1>7. Match(c[i], name, parent, type) /\ i \in 1..Len(c)
  BY <1>4, <1>5
<1>8. /\ j \in 1..Len(c) /\ Match(c[j], name, parent, type)
      /\ \A k \in 1..(j - 1) : ~Match(c[k], name, parent, type)
  BY <1>6, <1>7
<1>9. ~(i < j)
  BY <1>5, <1>7, <1>8
<1>10. ~(j < i)
  <2>1. SUFFICES ASSUME j < i PROVE FALSE
    OBVIOUS
  <2>2. j \in 1..(i - 1) /\ j \in 1..Len(d)
    BY <1>4, <1>5, <1>8, <2>1
  <2>3. c[j] = d[j]
    BY <1>4, <2>2
  <2>. QED BY <1>5, <1>8, <2>2, <2>3
<1>. QED BY <1>1, <1>2, <1>3, <1>5, <1>8, <1>9, <1>10

\* A path that leads somewhere leads there in a longer directory.
LEMMA ReachLonger ==
    ASSUME NEW d \in Seq(Entry), NEW e \in Entry, NEW path \in Paths
    PROVE  \A n \in 0..(Len(path) - 1) :
              Reach(d, path, n) >= 0 => Reach(Append(d, e), path, n) = Reach(d, path, n)
<1>1. PICK c : c = Append(d, e)
  OBVIOUS
<1>. DEFINE S == {n \in Nat : n <= Len(path) - 1 /\ Reach(d, path, n) >= 0 =>
                     Reach(c, path, n) = Reach(d, path, n)}
<1>2. /\ c \in Seq(Entry) /\ Len(path) \in Nat /\ Len(path) # 0
      /\ Len(c) = Len(d) + 1 /\ Len(d) \in Nat
      /\ \A i \in 1..Len(d) : c[i] = d[i]
  BY <1>1, Longer DEF Paths
<1>3. 0 \in S
  BY <1>2, ReachStep
<1>4. ASSUME NEW n \in S, n + 1 <= Len(path) - 1, Reach(d, path, n + 1) >= 0
      PROVE  Reach(c, path, n + 1) = Reach(d, path, n + 1)
  <2>1. n \in Nat
    OBVIOUS
  <2>2. n \in 0..(Len(path) - 2) /\ n \in 0..(Len(path) - 1)
    BY <1>2, <1>4, <2>1
  <2>3. PICK x : x = Reach(d, path, n)
    OBVIOUS
  <2>4. Reach(d, path, n + 1) = Into(d, path[n + 1], x) /\ x \in Int
    BY <2>2, <2>3, ReachStep
  <2>5. x >= 0
    <3>1. Into(d, path[n + 1], x) >= 0
      BY <1>4, <2>4
    <3>. QED BY <2>4, <3>1 DEF Into
  <2>6. Reach(c, path, n) = x
    BY <1>2, <2>2, <2>3, <2>5
  <2>7. Reach(c, path, n + 1) = Into(c, path[n + 1], x)
    <3>1. Reach(c, path, n + 1) = Into(c, path[n + 1], Reach(c, path, n))
      BY <1>2, <2>2, ReachStep
    <3>. QED BY <2>6, <3>1
  <2>8. PICK i : i = Search(d, path[n + 1], x, DIRECTORY_TYPE)
    OBVIOUS
  <2>9. i \in 1..Len(d) \/ i \in {SEARCH_FAILURE, PANIC}
    BY <2>8, SearchFinds
  <2>10. ~(i < 0)
    <3>1. Into(d, path[n + 1], x) >= 0
      BY <1>4, <2>4
    <3>2. Into(d, path[n + 1], x) = IF i < 0 THEN i ELSE d[i].payload
      BY <2>4, <2>5, <2>8, IntoIs
    <3>. QED BY <2>9, <3>1, <3>2 DEF SEARCH_FAILURE, PANIC
  <2>11. i \in 1..Len(d)
    BY <2>9, <2>10 DEF SEARCH_FAILURE, PANIC
  <2>12. Search(c, path[n + 1], x, DIRECTORY_TYPE) = i
    BY <1>1, <2>8, <2>11, SearchLonger
  <2>13. Into(c, path[n + 1], x) = c[i].payload /\ Into(d, path[n + 1], x) = d[i].payload
    <3>1. Into(d, path[n + 1], x) = IF i < 0 THEN i ELSE d[i].payload
      BY <2>4, <2>5, <2>8, IntoIs
    <3>2. Into(c, path[n + 1], x) = IF i < 0 THEN i ELSE c[i].payload
      BY <2>4, <2>5, <2>12, IntoIs
    <3>. QED BY <2>10, <3>1, <3>2
  <2>. QED BY <1>2, <2>4, <2>7, <2>11, <2>13
<1>5. S \in SUBSET Nat /\ \A n \in S : n + 1 \in S
  BY <1>4
<1>. HIDE DEF S
<1>6. \A n \in Nat : n \in S
  BY <1>3, <1>5, SetInduction
<1>. QED BY <1>1, <1>2, <1>6 DEF S

\* The tree stays sound when an entry is added under a name that its directory
\* does not have, and a directory under the number that get_free_id gives.
LEMMA TreeGrows ==
    ASSUME NEW d \in Seq(Entry), NEW e \in Entry, Tree(d),
           \/ e.parent_id = ROOT_ID
           \/ \E j \in 1..Len(d) : IsDir(d, j) /\ d[j].payload = e.parent_id,
           \A j \in 1..Len(d) : ~Match(d[j], e.name, e.parent_id, e.type),
           e.type = DIRECTORY_TYPE => e.payload = Id(d, Len(d))
    PROVE  Tree(Append(d, e))
<1>1. PICK c : c = Append(d, e)
  OBVIOUS
<1>2. /\ c \in Seq(Entry) /\ Len(c) = Len(d) + 1 /\ Len(d) \in Nat
      /\ \A i \in 1..Len(d) : c[i] = d[i]
      /\ c[Len(d) + 1] = e
  BY <1>1, Longer
<1>3. Numbered(c)
  <2>1. SUFFICES ASSUME NEW n \in 1..Len(c), IsDir(c, n) PROVE c[n].payload = Id(c, n - 1)
    BY DEF Numbered
  <2>2. n - 1 \in 0..Len(d)
    BY <1>2
  <2>3. Id(c, n - 1) = Id(d, n - 1)
    BY <1>2, <2>2, IdPrefix
  <2>4. CASE n \in 1..Len(d)
    <3>1. IsDir(d, n)
      BY <1>2, <2>1, <2>4 DEF IsDir
    <3>2. d[n].payload = Id(d, n - 1)
      BY <2>4, <3>1 DEF Tree, Numbered
    <3>. QED BY <1>2, <2>3, <2>4, <3>2
  <2>5. CASE n = Len(d) + 1
    <3>1. e.payload = Id(d, Len(d))
      BY <1>2, <2>1, <2>5 DEF IsDir
    <3>2. n - 1 = Len(d)
      BY <1>2, <2>5
    <3>. QED BY <1>2, <2>3, <2>5, <3>1, <3>2
  <2>. QED BY <1>2, <2>4, <2>5
<1>4. Rooted(c)
  <2>1. SUFFICES ASSUME NEW i \in 1..Len(c), c[i].parent_id # ROOT_ID
                 PROVE  \E j \in 1..Len(c) : IsDir(c, j) /\ c[j].payload = c[i].parent_id
    BY DEF Rooted
  <2>2. PICK j \in 1..Len(d) : IsDir(d, j) /\ d[j].payload = c[i].parent_id
    <3>1. CASE i \in 1..Len(d)
      BY <1>2, <2>1, <3>1 DEF Tree, Rooted
    <3>2. CASE i = Len(d) + 1
      BY <1>2, <2>1, <3>2
    <3>. QED BY <1>2, <3>1, <3>2
  <2>3. j \in 1..Len(c) /\ c[j] = d[j]
    BY <1>2
  <2>. QED BY <2>2, <2>3 DEF IsDir
<1>5. Distinct(c)
  <2>1. SUFFICES ASSUME NEW i \in 1..Len(c), NEW j \in 1..Len(c),
                        Match(c[i], c[j].name, c[j].parent_id, c[j].type)
                 PROVE  i = j
    BY DEF Distinct
  <2>2. CASE i \in 1..Len(d) /\ j \in 1..Len(d)
    BY <1>2, <2>1, <2>2 DEF Tree, Distinct
  <2>3. CASE i \in 1..Len(d) /\ j = Len(d) + 1
    BY <1>2, <2>1, <2>3
  <2>4. CASE i = Len(d) + 1 /\ j \in 1..Len(d)
    <3>1. Match(d[j], e.name, e.parent_id, e.type)
      BY <1>2, <2>1, <2>4 DEF Match
    <3>. QED BY <2>4, <3>1
  <2>. QED BY <1>2, <2>2, <2>3, <2>4
<1>. QED BY <1>1, <1>3, <1>4, <1>5 DEF Tree

\* What mkdir_cmd makes of a directory d.
MkdirEntry(d, path) ==
    [parent_id |-> Reach(d, path, Len(path) - 1), type |-> DIRECTORY_TYPE,
     name |-> path[Len(path)], payload |-> Id(d, Len(d)), size |-> 0]
Made(d, path) ==
    IF /\ Reach(d, path, Len(path) - 1) >= 0
       /\ Search(d, path[Len(path)], Reach(d, path, Len(path) - 1), DIRECTORY_TYPE)
             = SEARCH_FAILURE
    THEN Append(d, MkdirEntry(d, path))
    ELSE d

\* mkdir_cmd makes it of the main directory.
LEMMA MkdirIsMade == ASSUME NEW path, mkdir_cmd(path) PROVE dir' = Made(dir, path)
BY ParentIsReach, SearchIsSearch, FreeIdIsId
   DEF mkdir_cmd, Made, MkdirEntry, NewEntry, Target

\* mkdir_cmd leaves the directory alone, or adds an entry to it for which there
\* is room and which the tree does not have.
LEMMA MadeSound ==
    ASSUME NEW d \in Seq(Entry), Len(d) <= Entries, Tree(d), NEW path \in Paths
    PROVE  \/ Made(d, path) = d
           \/ /\ Made(d, path) = Append(d, MkdirEntry(d, path))
              /\ MkdirEntry(d, path) \in Entry
              /\ Len(d) < Entries
              /\ Tree(Append(d, MkdirEntry(d, path)))
<1>. DEFINE n == Len(path)
            x == Reach(d, path, n - 1)
            e == MkdirEntry(d, path)
<1>1. SUFFICES ASSUME x >= 0, Search(d, path[n], x, DIRECTORY_TYPE) = SEARCH_FAILURE
               PROVE  e \in Entry /\ Len(d) < Entries /\ Tree(Append(d, e))
  BY DEF Made
<1>2. n \in Nat \ {0} /\ path[n] \in Names /\ n - 1 \in 0..(Len(path) - 1)
  BY DEF Paths
<1>3. x \in Int
  BY <1>2, ReachStep
<1>4. Len(d) \in Nat /\ Entries \in Nat
  BY Layout
<1>5. Id(d, Len(d)) \in Nat
  BY <1>4, IdStep
<1>6. /\ e.parent_id = x /\ e.type = DIRECTORY_TYPE /\ e.name = path[n]
      /\ e.payload = Id(d, Len(d)) /\ e \in Entry
  BY <1>2, <1>3, <1>5 DEF MkdirEntry, Entry
<1>. HIDE DEF e
<1>7. x = ROOT_ID \/ \E j \in 1..Len(d) : IsDir(d, j) /\ d[j].payload = x
  BY <1>1, <1>2, ReachIsDir
<1>. HIDE DEF x
<1>8. Len(d) < Entries /\ \A j \in 1..Len(d) : ~Match(d[j], path[n], x, DIRECTORY_TYPE)
  BY <1>1, <1>4, SearchFinds DEF SEARCH_FAILURE, PANIC
<1>9. \A j \in 1..Len(d) : ~Match(d[j], e.name, e.parent_id, e.type)
  BY <1>6, <1>8
<1>10. Tree(Append(d, e))
  BY <1>6, <1>7, <1>9, TreeGrows
<1>. QED BY <1>6, <1>8, <1>10

\* A failure stays a failure to the end of the path.
LEMMA ReachStuck ==
    ASSUME NEW d \in Seq(Entry), NEW path \in Paths, NEW n \in 0..(Len(path) - 1),
           Reach(d, path, n) < 0
    PROVE  Reach(d, path, Len(path) - 1) = Reach(d, path, n)
<1>. DEFINE S == {m \in Nat : n + m <= Len(path) - 1 => Reach(d, path, n + m) = Reach(d, path, n)}
<1>0. Len(path) \in Nat /\ n \in Nat
  BY DEF Paths
<1>1. 0 \in S
  BY <1>0
<1>2. ASSUME NEW m \in S, n + (m + 1) <= Len(path) - 1
      PROVE  Reach(d, path, n + (m + 1)) = Reach(d, path, n)
  <2>1. PICK k : k = n + m
    OBVIOUS
  <2>2. k \in 0..(Len(path) - 2) /\ k + 1 = n + (m + 1) /\ Reach(d, path, k) = Reach(d, path, n)
    BY <1>0, <1>2, <2>1
  <2>3. Reach(d, path, k + 1) = Into(d, path[k + 1], Reach(d, path, k))
    BY <2>2, ReachStep
  <2>. QED BY <2>2, <2>3 DEF Into
<1>3. S \in SUBSET Nat /\ \A m \in S : m + 1 \in S
  <2>1. ASSUME NEW m \in S PROVE m + 1 \in S
    <3>1. m \in Nat /\ m + 1 \in Nat
      BY <1>0
    <3>. QED BY <1>2, <3>1
  <2>. QED BY <2>1
<1>. HIDE DEF S
<1>4. \A m \in Nat : m \in S
  BY <1>1, <1>3, SetInduction
<1>5. PICK m \in Nat : n + m = Len(path) - 1
  <2>1. (Len(path) - 1) - n \in Nat /\ n + ((Len(path) - 1) - n) = Len(path) - 1
    BY <1>0
  <2>. QED BY <2>1
<1>6. n + m <= Len(path) - 1 => Reach(d, path, n + m) = Reach(d, path, n)
  BY <1>4 DEF S
<1>. QED BY <1>0, <1>5, <1>6

\* Progress of the loop in import: when the next prefix has been made, the path
\* leads one name further, or the directory is full.
LEMMA PrefixMade ==
    ASSUME NEW d \in Seq(Entry), Len(d) <= Entries, Tree(d), NEW path \in Paths,
           NEW k \in 1..(Len(path) - 1),
           Reach(d, path, k - 1) # SEARCH_FAILURE,
           Reach(d, path, Len(path) - 1) = SEARCH_FAILURE
    PROVE  Reach(Made(d, SubSeq(path, 1, k)), path, k) # SEARCH_FAILURE
<1>. DEFINE p == SubSeq(path, 1, k)
            x == Reach(d, path, k - 1)
<1>1. /\ Len(path) \in Nat /\ k \in Nat /\ k - 1 \in Nat /\ k - 1 \in 0..(Len(path) - 1)
      /\ k - 1 \in 0..(Len(path) - 2) /\ (k - 1) + 1 = k
  BY DEF Paths
<1>2. p \in Paths /\ Len(p) = k /\ \A m \in 1..k : p[m] = path[m]
  BY <1>1 DEF Paths
<1>3. x \in Int /\ x >= 0
  BY <1>1, ReachStep, ReachStuck
<1>. HIDE DEF p
<1>4. Reach(d, p, k - 1) = x
  <2>1. Alike(p, path, k - 1)
    BY <1>1, <1>2 DEF Alike
  <2>. QED BY <1>1, <1>2, <2>1, ReachPrefix
<1>. HIDE DEF x
<1>5. p[Len(p)] = path[k] /\ Len(p) - 1 = k - 1 /\ k \in 1..k
  BY <1>1, <1>2
<1>6. PICK i : i = Search(d, path[k], x, DIRECTORY_TYPE)
  OBVIOUS
<1>7. \/ i \in 1..Len(d) /\ Match(d[i], path[k], x, DIRECTORY_TYPE)
      \/ i = IF Len(d) < Entries THEN SEARCH_FAILURE ELSE PANIC
  BY <1>6, SearchFinds
<1>8. Made(d, p) = IF i = SEARCH_FAILURE THEN Append(d, MkdirEntry(d, p)) ELSE d
  BY <1>3, <1>4, <1>5, <1>6 DEF Made
<1>9. CASE i = SEARCH_FAILURE
  <2>1. PICK e : e = MkdirEntry(d, p)
    OBVIOUS
  <2>2. PICK c : c = Append(d, e)
    OBVIOUS
  <2>3. e \in Entry /\ Tree(c)
    <3>1. Append(d, e) # d
      BY Longer
    <3>. QED BY <1>2, <1>8, <1>9, <2>1, <2>2, MadeSound
  <2>4. /\ c \in Seq(Entry) /\ Len(c) = Len(d) + 1 /\ Len(d) \in Nat
        /\ c[Len(d) + 1] = e
    BY <2>2, <2>3, Longer
  <2>5. e.name = path[k] /\ e.parent_id = x /\ e.type = DIRECTORY_TYPE
    BY <1>4, <1>5, <2>1 DEF MkdirEntry
  <2>6. Reach(c, path, k - 1) = x
    BY <1>1, <1>3, <2>2, <2>3, ReachLonger DEF x
  <2>7. Reach(c, path, k) = Into(c, path[k], x)
    BY <1>1, <2>4, <2>6, ReachStep
  <2>8. PICK j : j = Search(c, path[k], x, DIRECTORY_TYPE)
    OBVIOUS
  <2>9. Match(c[Len(d) + 1], path[k], x, DIRECTORY_TYPE) /\ Len(d) + 1 \in 1..Len(c)
    BY <2>4, <2>5 DEF Match
  <2>10. j \in 1..Len(c) /\ Match(c[j], path[k], x, DIRECTORY_TYPE)
    BY <2>4, <2>8, <2>9, SearchFinds
  <2>11. Into(c, path[k], x) = c[j].payload
    BY <1>3, <2>8, <2>10, IntoIs
  <2>12. c[j].payload = Id(c, j - 1) /\ j - 1 \in 0..Len(c)
    BY <2>3, <2>4, <2>10 DEF Tree, Numbered, IsDir, Match
  <2>13. c[j].payload \in Nat
    BY <2>4, <2>12, IdStep
  <2>14. Reach(c, path, k) # SEARCH_FAILURE
    BY <2>7, <2>11, <2>13 DEF SEARCH_FAILURE
  <2>15. Made(d, p) = c
    BY <1>8, <1>9, <2>1, <2>2
  <2>. QED BY <2>14, <2>15 DEF p
<1>10. CASE i # SEARCH_FAILURE
  <2>1. Reach(d, path, k) = Into(d, path[k], x)
    BY <1>1, ReachStep DEF x
  <2>2. Into(d, path[k], x) = IF i < 0 THEN i ELSE d[i].payload
    BY <1>3, <1>6, IntoIs
  <2>3. CASE i \in 1..Len(d) /\ Match(d[i], path[k], x, DIRECTORY_TYPE)
    <3>1. d[i].payload = Id(d, i - 1) /\ i - 1 \in 0..Len(d)
      BY <2>3 DEF Tree, Numbered, IsDir, Match
    <3>2. d[i].payload \in Nat
      BY <3>1, IdStep
    <3>3. ~(i < 0)
      BY <2>3
    <3>. QED BY <1>8, <1>10, <2>1, <2>2, <3>2, <3>3 DEF SEARCH_FAILURE, p
  <2>4. CASE i = PANIC
    BY <1>8, <1>10, <2>1, <2>2, <2>4 DEF SEARCH_FAILURE, PANIC, p
  <2>. QED BY <1>7, <1>10, <2>3, <2>4
<1>. QED BY <1>9, <1>10

-----------------------------------------------------------------------------
(* The steps of the commands.                                              *)

\* A formatted volume, with no command under way, satisfies the invariant.
LEMMA FormattedIInv ==
    ASSUME fat = Formatted, dir = <<>>, pc = "idle", cut \in BOOLEAN,
           job \in [path : Seq(Names), abs : BOOLEAN, size : Nat, depth : Nat, k : Nat,
                    start : Int, block : Int]
    PROVE  IInv
<1>1. dir \in Seq(Entry) /\ Len(dir) = 0 /\ FilesOf(dir) = {} /\ 1..Len(dir) = {}
  BY DEF FilesOf
<1>2. Types
  BY <1>1, Layout DEF Types, Formatted, Table, FREE, RESERVED_BLOCK
<1>3. Files(fat, dir)
  BY <1>1 DEF Files
<1>4. Import_chain /\ Import_path
  BY DEF Import_chain, Import_path, Importing
<1>5. Owners
  BY DEF Owners, Formatted
<1>6. Tree(dir)
  BY <1>1 DEF Tree, Numbered, Rooted, Distinct
<1>. QED BY <1>2, <1>3, <1>4, <1>5, <1>6 DEF IInv

\* So does the volume at the start.
LEMMA InitIInv == Init => IInv
<1>1. NoJob \in [path : Seq(Names), abs : BOOLEAN, size : Nat, depth : Nat, k : Nat,
                 start : Int, block : Int]
  BY DEF NoJob
<1>. QED BY <1>1, FormattedIInv DEF Init

SameFiles(c, d) == FilesOf(c) = FilesOf(d) /\ \A i \in FilesOf(d) : c[i] = d[i]

\* A directory more does not change which files there are.
LEMMA DirsAreNoFiles ==
    ASSUME NEW d \in Seq(Entry), NEW e \in Entry, e.type = DIRECTORY_TYPE
    PROVE  SameFiles(Append(d, e), d)
<1>1. PICK c : c = Append(d, e)
  OBVIOUS
<1>2. /\ Len(c) = Len(d) + 1 /\ Len(d) \in Nat
      /\ \A i \in 1..Len(d) : c[i] = d[i]
      /\ c[Len(d) + 1] = e
  BY <1>1, Longer
<1>3. FilesOf(c) = FilesOf(d)
  BY <1>2 DEF FilesOf, FILE_TYPE, DIRECTORY_TYPE
<1>4. \A i \in FilesOf(d) : c[i] = d[i]
  BY <1>2 DEF FilesOf
<1>. QED BY <1>1, <1>3, <1>4 DEF SameFiles

\* What mkdir_cmd leaves of a directory, for all its callers.
LEMMA MkdirKeeps ==
    ASSUME IInv, NEW path \in Paths, mkdir_cmd(path)
    PROVE  /\ dir' \in Seq(Entry) /\ Len(dir') <= Entries
           /\ Tree(dir') /\ SameFiles(dir', dir)
           /\ dir' = Made(dir, path)
<1>1. dir \in Seq(Entry) /\ Len(dir) <= Entries /\ Tree(dir) /\ Len(dir) \in Nat
  BY DEF IInv, Types
<1>2. dir' = Made(dir, path)
  BY MkdirIsMade
<1>3. CASE Made(dir, path) = dir
  BY <1>1, <1>2, <1>3 DEF SameFiles
<1>4. CASE Made(dir, path) # dir
  <2>1. PICK e : e = MkdirEntry(dir, path)
    OBVIOUS
  <2>2. e.type = DIRECTORY_TYPE
    BY <2>1 DEF MkdirEntry
  <2>3. dir' = Append(dir, e) /\ e \in Entry /\ Len(dir) < Entries /\ Tree(Append(dir, e))
    BY <1>1, <1>2, <1>4, <2>1, MadeSound
  <2>4. Append(dir, e) \in Seq(Entry) /\ Len(Append(dir, e)) = Len(dir) + 1
    BY <1>1, <2>3, Longer
  <2>5. SameFiles(Append(dir, e), dir)
    BY <1>1, <2>2, <2>3, DirsAreNoFiles
  <2>6. Len(dir) + 1 <= Entries
    BY <1>1, <2>3, Layout
  <2>. QED BY <1>2, <2>3, <2>4, <2>5, <2>6
<1>. QED BY <1>3, <1>4

\* Chains stay as they are under a step that adds no file and leaves the table
\* and the work of import_chain alone.
LEMMA ChainsKept ==
    ASSUME IInv, UNCHANGED <<fat, cut, pc>>, SameFiles(dir', dir),
           job'.k = job.k, job'.start = job.start, job'.block = job.block, job'.size = job.size
    PROVE  Files(fat, dir)' /\ Import_chain' /\ Owners'
<1>1. FilesOf(dir') = FilesOf(dir) /\ \A i \in FilesOf(dir) : dir'[i] = dir[i]
  BY DEF SameFiles
<1>2. Files(fat, dir)'
  BY <1>1 DEF IInv, Files
<1>3. Built' = Built /\ Unused' = Unused
  BY DEF Built, Unused, FreeBlocks
<1>4. Import_chain'
  BY <1>1, <1>3 DEF IInv, Import_chain
<1>5. Owners'
  BY <1>1, <1>3 DEF IInv, Owners
<1>. QED BY <1>2, <1>4, <1>5

\* The arguments of commands are paths.
LEMMA GivenPaths ==
    /\ \A path \in MkdirPaths : path \in Paths
    /\ \A p \in ImportPaths : p.names \in Paths
<1>1. ASSUME NEW s \in {p.names : p \in ImportPaths} \cup MkdirPaths PROVE s \in Paths
  <2>1. s \in Seq(STRING) /\ s # <<>>
    BY EchfsAssumption
  <2>2. ASSUME NEW i \in 1..Len(s) PROVE s[i] \in Names
    <3>1. s[i] \in {s[j] : j \in 1..Len(s)}
      OBVIOUS
    <3>. QED BY <3>1, Zenon DEF Names
  <2>. QED BY <2>1, <2>2 DEF Paths
<1>. QED BY <1>1

\* mkdir.
LEMMA MkdirIInv == ASSUME IInv, Mkdir PROVE IInv'
<1>1. PICK path \in MkdirPaths : mkdir_cmd(path)
  BY DEF Mkdir
<1>2. path \in Paths
  BY GivenPaths
<1>3. /\ dir' \in Seq(Entry) /\ Len(dir') <= Entries
      /\ Tree(dir') /\ SameFiles(dir', dir)
  BY <1>1, <1>2, MkdirKeeps
<1>4. pc = "idle" /\ UNCHANGED <<fat, data, pc, job, cut>>
  BY DEF Mkdir
<1>5. Types'
  BY <1>3, <1>4 DEF IInv, Types
<1>6. Import_path'
  BY <1>4 DEF Import_path, Importing
<1>7. Files(fat, dir)' /\ Import_chain' /\ Owners'
  BY <1>3, <1>4, ChainsKept
<1>. QED BY <1>3, <1>5, <1>6, <1>7 DEF IInv

\* import begins.
LEMMA ImportIInv == ASSUME IInv, Import PROVE IInv'
<1>1. PICK p \in ImportPaths, size \in Sizes :
         /\ Room(size)
         /\ job' = [NoJob EXCEPT !.path = p.names, !.abs = p.abs, !.size = size,
                                 !.depth = IF p.abs THEN 0 ELSE 1]
  BY DEF Import
<1>2. pc = "idle" /\ pc' = "dirs" /\ UNCHANGED <<fat, dir, data, cut>>
  BY DEF Import
<1>3. p.names \in Paths /\ p.names \in Seq(Names) /\ p.abs \in BOOLEAN /\ size \in Nat
  BY EchfsAssumption, GivenPaths DEF Paths
<1>4. /\ job'.path = p.names /\ job'.size = size /\ job'.k = 0
      /\ job'.depth = IF p.abs THEN 0 ELSE 1
      /\ job' \in [path : Seq(Names), abs : BOOLEAN, size : Nat, depth : Nat, k : Nat,
                   start : Int, block : Int]
  <2>1. job' = [path |-> p.names, abs |-> p.abs, size |-> size,
                depth |-> IF p.abs THEN 0 ELSE 1, k |-> 0, start |-> 0, block |-> 0]
    BY <1>1 DEF NoJob
  <2>2. (IF p.abs THEN 0 ELSE 1) \in Nat
    OBVIOUS
  <2>. QED BY <1>3, <2>1, <2>2
<1>5. Types'
  BY <1>2, <1>3, <1>4 DEF IInv, Types
<1>6. Import_path'
  <2>1. Len(p.names) \in Nat \ {0}
    BY <1>3 DEF Paths
  <2>2. Reach(dir, p.names, 0) = ROOT_ID
    BY <1>3, ReachStep DEF IInv, Types
  <2>3. job'.depth <= Len(p.names)
    BY <1>4, <2>1
  <2>4. job'.depth >= 1 => Reach(dir, p.names, job'.depth - 1) # SEARCH_FAILURE
    <3>1. job'.depth >= 1 => job'.depth - 1 = 0
      BY <1>4
    <3>. QED BY <2>2, <3>1 DEF ROOT_ID, SEARCH_FAILURE
  <2>. QED BY <1>2, <1>4, <2>3, <2>4 DEF Import_path, Importing
<1>7. Import_chain'
  <2>1. Unused' = Unused
    BY <1>2 DEF Unused, FreeBlocks
  <2>2. Cardinality(Unused) >= BlocksOf(size)
    BY <1>1 DEF Room, Unused
  <2>3. BlocksOf(size) \in Nat
    BY <1>3, BlocksPositive
  <2>. QED BY <1>2, <1>4, <2>1, <2>2, <2>3 DEF Import_chain, Importing
<1>8. Files(fat, dir)' /\ Tree(dir)'
  BY <1>2 DEF IInv
<1>9. Owners'
  BY <1>2 DEF IInv, Owners, Importing
<1>. QED BY <1>5, <1>6, <1>7, <1>8, <1>9 DEF IInv

\* A sequence of names is a path if it has any.
LEMMA LongIsPath == ASSUME NEW s \in Seq(Names), Len(s) # 0 PROVE s \in Paths
BY DEF Paths

\* A single name is a path.
LEMMA NameIsPath == ASSUME NEW x \in Names PROVE <<x>> \in Paths
<1>1. <<x>> \in Seq(Names)
  OBVIOUS
<1>2. Len(<<x>>) # 0
  OBVIOUS
<1>. QED BY <1>1, <1>2, LongIsPath

\* import makes a missing directory.
LEMMA MakePrefixIInv == ASSUME IInv, MakePrefix PROVE IInv'
<1>. DEFINE path == job.path
            n == Len(path)
<1>1. /\ pc = "dirs" /\ mkdir_cmd(Prefix) /\ job' = [job EXCEPT !.depth = @ + 1]
      /\ UNCHANGED <<fat, data, pc, cut>>
  BY DEF MakePrefix
<1>2. path \in Paths /\ n \in Nat \ {0} /\ job.depth \in Nat
  BY <1>1 DEF IInv, Types, Paths
<1>3. job.depth <= n /\ (job.depth >= 1 => Reach(dir, path, job.depth - 1) # SEARCH_FAILURE)
  BY <1>1 DEF IInv, Import_path
<1>4. Reach(dir, path, n - 1) = SEARCH_FAILURE
  BY ParentIsReach DEF MakePrefix
<1>5. job.depth >= 1 => job.depth \in 1..(n - 1)
  BY <1>2, <1>3, <1>4
<1>6. job.depth = 0 => Prefix = <<"">>
  BY DEF Prefix
<1>7. ASSUME job.depth >= 1 PROVE Prefix = SubSeq(path, 1, job.depth)
  <2>1. job.depth # 0
    BY <1>7
  <2>. QED BY <2>1, Zenon DEF Prefix
<1>8. Prefix \in Paths
  <2>1. CASE job.depth = 0
    <3>1. "" \in Names
      BY DEF Names
    <3>. QED BY <1>6, <2>1, <3>1, NameIsPath
  <2>2. CASE job.depth >= 1
    <3>1. SubSeq(path, 1, job.depth) \in Seq(Names) /\ Len(SubSeq(path, 1, job.depth)) = job.depth
      BY <1>2, <1>5, <2>2 DEF Paths
    <3>2. Len(SubSeq(path, 1, job.depth)) # 0
      BY <2>2, <3>1
    <3>. QED BY <1>7, <2>2, <3>1, <3>2, LongIsPath
  <2>. QED BY <1>2, <2>1, <2>2
<1>9. /\ dir' \in Seq(Entry) /\ Len(dir') <= Entries
      /\ Tree(dir') /\ SameFiles(dir', dir) /\ dir' = Made(dir, Prefix)
  BY <1>1, <1>8, MkdirKeeps
<1>10. /\ job'.path = path /\ job'.size = job.size /\ job'.k = job.k /\ job'.start = job.start
       /\ job'.block = job.block /\ job'.depth = job.depth + 1
       /\ job' \in [path : Seq(Names), abs : BOOLEAN, size : Nat, depth : Nat, k : Nat,
                    start : Int, block : Int]
  BY <1>1 DEF IInv, Types
<1>11. Types'
  BY <1>1, <1>2, <1>9, <1>10 DEF IInv, Types
<1>12. Reach(dir', path, job.depth) # SEARCH_FAILURE
  <2>1. CASE job.depth = 0
    BY <1>2, <1>9, <2>1, ReachStep DEF ROOT_ID, SEARCH_FAILURE
  <2>2. CASE job.depth >= 1
    <3>1. dir \in Seq(Entry) /\ Len(dir) <= Entries /\ Tree(dir)
      BY DEF IInv, Types
    <3>2. Reach(Made(dir, SubSeq(path, 1, job.depth)), path, job.depth) # SEARCH_FAILURE
      BY <1>2, <1>3, <1>4, <1>5, <2>2, <3>1, PrefixMade
    <3>. QED BY <1>7, <1>9, <2>2, <3>2
  <2>. QED BY <1>2, <2>1, <2>2
<1>13. Import_path'
  <2>1. job.depth + 1 <= n /\ (job.depth + 1) - 1 = job.depth
    BY <1>2, <1>5
  <2>. QED BY <1>1, <1>10, <1>12, <2>1 DEF Import_path, Importing
<1>14. Files(fat, dir)' /\ Import_chain' /\ Owners'
  BY <1>1, <1>9, <1>10, ChainsKept
<1>. QED BY <1>9, <1>11, <1>13, <1>14 DEF IInv

\* import looks for the file.
LEMMA CheckIInv == ASSUME IInv, Check PROVE IInv'
<1>. DEFINE path == job.path
            x == Reach(dir, path, Len(path) - 1)
<1>1. pc = "dirs" /\ UNCHANGED <<fat, dir, data, cut>>
  BY DEF Check
<1>2. ParentId(path) = x /\ Target(path, FILE_TYPE) = Search(dir, path[Len(path)], x, FILE_TYPE)
  BY ParentIsReach, SearchIsSearch DEF Target
<1>3. Built' = Built \/ job' = NoJob
  BY <1>1 DEF Check, Built
<1>4. Files(fat, dir)' /\ Tree(dir)' /\ Unused' = Unused
  BY <1>1 DEF IInv, Unused, FreeBlocks
<1>5. job.k = 0 /\ job.size \in Nat
  BY <1>1 DEF IInv, Import_chain, Types
<1>6. CASE ParentId(path) >= 0 /\ Target(path, FILE_TYPE) = SEARCH_FAILURE
  <2>1. pc' = "find" /\ job' = job
    BY <1>6 DEF Check
  <2>2. Types'
    BY <1>1, <2>1 DEF IInv, Types, Importing
  <2>3. Import_path'
    BY <1>1, <1>2, <1>6, <2>1 DEF Import_path
  <2>4. Import_chain'
    BY <1>1, <1>4, <1>5, <2>1, BlocksPositive DEF IInv, Import_chain
  <2>5. Owners'
    BY <1>1, <2>1 DEF IInv, Owners, Importing
  <2>. QED BY <1>4, <2>2, <2>3, <2>4, <2>5 DEF IInv
<1>7. CASE ~(ParentId(path) >= 0 /\ Target(path, FILE_TYPE) = SEARCH_FAILURE)
  <2>1. pc' = "idle" /\ job' = NoJob
    BY <1>7 DEF Check
  <2>2. Types'
    <3>1. NoJob \in [path : Seq(Names), abs : BOOLEAN, size : Nat, depth : Nat, k : Nat,
                     start : Int, block : Int]
      BY DEF NoJob
    <3>. QED BY <1>1, <2>1, <3>1 DEF IInv, Types
  <2>3. Import_path' /\ Import_chain'
    BY <2>1 DEF Import_path, Import_chain, Importing
  <2>4. Owners'
    BY <1>1, <2>1 DEF IInv, Owners, Importing
  <2>. QED BY <1>4, <2>2, <2>3, <2>4 DEF IInv
<1>. QED BY <1>6, <1>7

\* A command that is cut short leaves the files as they are.
LEMMA KilledIInv == ASSUME IInv, Killed PROVE IInv'
<1>1. pc' = "idle" /\ job' = NoJob /\ cut' = TRUE /\ UNCHANGED <<fat, dir, data>>
  BY DEF Killed
<1>2. NoJob \in [path : Seq(Names), abs : BOOLEAN, size : Nat, depth : Nat, k : Nat,
                 start : Int, block : Int]
  BY DEF NoJob
<1>3. Types'
  BY <1>1, <1>2 DEF IInv, Types
<1>4. Files(fat, dir)' /\ Tree(dir)'
  BY <1>1 DEF IInv
<1>5. Import_path' /\ Import_chain' /\ Owners'
  BY <1>1 DEF Import_path, Import_chain, Owners, Importing
<1>. QED BY <1>3, <1>4, <1>5 DEF IInv

\* The search of import_chain stays inside the volume and finds a block of the
\* data area.
LEMMA NextFreeFound ==
    ASSUME IInv, pc = "find"
    PROVE  NextFree \in DataArea /\ NextFree \in Word /\ fat[NextFree] = FREE
<1>1. job.k < BlocksOf(job.size) /\ Cardinality(Unused) >= BlocksOf(job.size) - job.k
  BY DEF IInv, Import_chain
<1>2. job.k \in Nat /\ BlocksOf(job.size) \in Nat
  BY BlocksPositive DEF IInv, Types
<1>3. Unused # {}
  <2>1. SUFFICES ASSUME Unused = {} PROVE FALSE
    OBVIOUS
  <2>2. Cardinality({}) = 0
    BY FS_EmptySet
  <2>. QED BY <1>1, <1>2, <2>1, <2>2
<1>4. PICK u \in Unused : TRUE
  BY <1>3
<1>5. FreeBlocks \in SUBSET Nat /\ u \in FreeBlocks /\ u < Blocks
  BY Layout DEF FreeBlocks, Unused
<1>6. PICK x \in FreeBlocks : \A y \in FreeBlocks : x <= y
  BY <1>5, LeastNat
<1>7. NextFree \in FreeBlocks /\ NextFree <= u
  BY <1>5, <1>6 DEF NextFree, Min
<1>8. NextFree \in Word /\ fat[NextFree] = FREE /\ NextFree \in Nat /\ NextFree < Blocks
  BY <1>5, <1>7, EchfsAssumption DEF FreeBlocks
<1>9. ~(NextFree < datastart)
  BY <1>8 DEF IInv, Types, FREE, RESERVED_BLOCK
<1>. QED BY <1>8, <1>9, Layout, EchfsAssumption DEF DataArea

\* A change of the word of job.block, the end of the chain under construction,
\* leaves the chain up to there and all files as they are.
LEMMA LastBlockFrame ==
    ASSUME IInv, pc \in Importing, job.k > 0,
           NEW U \in Table, \A w \in Word : w # job.block => U[w] = fat[w]
    PROVE  /\ job.block \in Built /\ job.block \in DataArea
           /\ Files(U, dir)
           /\ \A i \in FilesOf(dir) : FileChain(U, dir[i]) = FileChain(fat, dir[i])
           /\ ChainOf(U, job.start, job.k) = Built
           /\ Walk(U, job.start, job.k - 1) = job.block
           /\ \A m \in 0..(job.k - 1) : Walk(U, job.start, m) = Walk(fat, job.start, m)
           /\ \A m \in 0..((job.k - 1) - 1) : Walk(fat, job.start, m) # job.block
<1>1. /\ Built \subseteq DataArea /\ Walk(fat, job.start, job.k - 1) = job.block
      /\ fat[job.block] = IF pc = "write" THEN FREE ELSE END_OF_CHAIN
      /\ \A i \in FilesOf(dir) : Built \cap FileChain(fat, dir[i]) = {}
  BY DEF IInv, Import_chain
<1>2. /\ job.k \in Nat /\ job.k - 1 \in Nat /\ job.start \in Int /\ fat \in Table
      /\ dir \in Seq(Entry)
  BY DEF IInv, Types
<1>3. job.k - 1 \in 0..(job.k - 1)
  BY <1>2
<1>4. job.block \in Built /\ job.block \in DataArea
  BY <1>1, <1>3 DEF Built, ChainOf
<1>5. ASSUME NEW m \in 0..((job.k - 1) - 1) PROVE Walk(fat, job.start, m) # job.block
  <2>1. m \in 0..(job.k - 1) /\ m + 1 < job.k
    BY <1>2
  <2>2. ChainOf(fat, job.start, job.k) \subseteq DataArea
    BY <1>1 DEF Built
  <2>3. fat[Walk(fat, job.start, m)] \in DataArea
    BY <1>2, <2>1, <2>2, ChainTaken
  <2>4. fat[Walk(fat, job.start, m)] \in Nat \ {0}
    BY <2>3, Layout
  <2>5. fat[job.block] \notin Nat \ {0}
    BY <1>1 DEF FREE, END_OF_CHAIN
  <2>. QED BY <2>4, <2>5
<1>6. \A m \in 0..(job.k - 1) : Walk(U, job.start, m) = Walk(fat, job.start, m)
  <2>1. U \in [Word -> Int] /\ fat \in [Word -> Int]
    BY <1>2, TableInt
  <2>2. PICK k : k = job.k - 1
    OBVIOUS
  <2>3. k \in Nat /\ \A m \in 0..(k - 1) : Walk(fat, job.start, m) # job.block
    BY <1>2, <1>5, <2>2
  <2>4. PICK x, b : x = job.block /\ b = job.start
    OBVIOUS
  <2>5. b \in Int /\ (\A w \in Word : w # x => U[w] = fat[w])
        /\ (\A m \in 0..(k - 1) : Walk(fat, b, m) # x)
    BY <1>2, <2>3, <2>4
  <2>6. \A m \in 0..k : Walk(U, b, m) = Walk(fat, b, m)
    BY <2>1, <2>3, <2>5, WalkFrame
  <2>. QED BY <2>2, <2>4, <2>6
<1>7. ChainOf(U, job.start, job.k) = Built
  BY <1>6 DEF ChainOf, Built
<1>8. Walk(U, job.start, job.k - 1) = job.block
  BY <1>1, <1>3, <1>6
<1>9. ASSUME NEW i \in FilesOf(dir)
      PROVE  Whole(U, dir[i]) /\ FileChain(U, dir[i]) = FileChain(fat, dir[i])
  <2>1. dir[i] \in Entry
    BY <1>2 DEF FilesOf
  <2>2. Whole(fat, dir[i])
    BY DEF IInv, Files
  <2>3. job.block \notin FileChain(fat, dir[i])
    BY <1>1, <1>4
  <2>. QED BY <1>2, <2>1, <2>2, <2>3, FileFrame
<1>10. Files(U, dir)
  BY <1>9 DEF IInv, Files
<1>. QED BY <1>4, <1>5, <1>6, <1>7, <1>8, <1>9, <1>10

\* import_chain finds a block and links to it.
LEMMA FindBlockIInv == ASSUME IInv, FindBlock PROVE IInv'
<1>. DEFINE nf == NextFree
<1>1. /\ pc = "find" /\ pc' = "write" /\ UNCHANGED <<dir, data, cut>>
      /\ job' = [job EXCEPT !.block = nf, !.k = @ + 1, !.start = IF job.k = 0 THEN nf ELSE @]
      /\ fat' = IF job.k = 0 THEN fat ELSE [fat EXCEPT ![job.block] = nf]
  BY DEF FindBlock
<1>2. nf \in DataArea /\ nf \in Word /\ fat[nf] = FREE
  BY <1>1, NextFreeFound
<1>. HIDE DEF nf
<1>3. /\ fat \in Table /\ dir \in Seq(Entry) /\ Tree(dir) /\ Files(fat, dir)
      /\ job.k \in Nat /\ job.start \in Int /\ job.size \in Nat /\ job.path \in Paths
  BY <1>1 DEF IInv, Types
<1>4. nf \in 1..(Blocks - 1) /\ nf \in Int /\ nf >= datastart /\ datastart \in Nat
  BY <1>2, Layout, EchfsAssumption
<1>5. /\ job'.k = job.k + 1 /\ job'.block = nf /\ job'.size = job.size /\ job'.path = job.path
      /\ job'.start = (IF job.k = 0 THEN nf ELSE job.start)
      /\ job' \in [path : Seq(Names), abs : BOOLEAN, size : Nat, depth : Nat, k : Nat,
                   start : Int, block : Int]
  <2>1. job \in [path : Seq(Names), abs : BOOLEAN, size : Nat, depth : Nat, k : Nat,
                 start : Int, block : Int]
    BY DEF IInv, Types
  <2>2. job' = [path |-> job.path, abs |-> job.abs, size |-> job.size, depth |-> job.depth,
                k |-> job.k + 1, start |-> IF job.k = 0 THEN nf ELSE job.start, block |-> nf]
    BY <1>1, <2>1
  <2>3. (IF job.k = 0 THEN nf ELSE job.start) \in Int /\ job.k + 1 \in Nat
    BY <1>3, <1>4
  <2>. QED BY <1>4, <2>1, <2>2, <2>3
<1>6. job.k < BlocksOf(job.size) /\ Cardinality(Unused) >= BlocksOf(job.size) - job.k
  BY <1>1 DEF IInv, Import_chain
<1>7. BlocksOf(job.size) \in Nat
  BY <1>3, BlocksPositive
<1>8. \A i \in FilesOf(dir) : nf \notin FileChain(fat, dir[i])
  <2>1. SUFFICES ASSUME NEW i \in FilesOf(dir) PROVE nf \notin FileChain(fat, dir[i])
    OBVIOUS
  <2>2. dir[i] \in Entry /\ Whole(fat, dir[i])
    BY <1>3 DEF FilesOf, Files
  <2>. QED BY <1>2, <1>3, <2>2, FileTaken
<1>9. Import_path' /\ Tree(dir)'
  BY <1>1, <1>5 DEF IInv, Import_path, Importing
<1>10. CASE job.k = 0
  <2>1. fat' = fat /\ job'.k = 1 /\ job'.start = nf
    BY <1>1, <1>5, <1>10
  <2>2. Walk(fat, nf, 0) = nf
    BY <1>3, <1>4, TableInt, WalkStep
  <2>3. Built' = {nf}
    BY <2>1, <2>2 DEF Built, ChainOf
  <2>4. Types'
    BY <1>1, <1>3, <1>5, <2>1 DEF IInv, Types, Importing
  <2>5. Unused' = Unused
    BY <2>1 DEF Unused, FreeBlocks
  <2>6. Import_chain'
    <3>1. Walk(fat', job'.start, job'.k - 1) = job'.block
      BY <1>5, <2>1, <2>2
    <3>2. \A i \in FilesOf(dir) : {nf} \cap FileChain(fat, dir[i]) = {}
      BY <1>8
    <3>3. job'.k \in 1..BlocksOf(job'.size)
      <4>1. 1 \in 1..BlocksOf(job.size)
        BY <1>3, <1>6, <1>7, <1>10
      <4>. QED BY <1>5, <2>1, <4>1
    <3>4. Cardinality(Unused) >= BlocksOf(job'.size) - job'.k + 1
      BY <1>5, <1>6, <1>7, <1>10, <2>1
    <3>. QED BY <1>1, <1>2, <1>5, <2>1, <2>3, <2>5, <3>1, <3>2, <3>3, <3>4
             DEF Import_chain
  <2>7. Owners'
    <3>1. Built = {}
      BY <1>10 DEF Built, ChainOf
    <3>. QED BY <1>1, <2>1, <3>1 DEF IInv, Owners
  <2>. QED BY <1>1, <1>3, <1>9, <2>1, <2>4, <2>6, <2>7 DEF IInv
<1>11. CASE job.k # 0
  <2>1. job.k > 0 /\ job'.start = job.start /\ fat' = [fat EXCEPT ![job.block] = nf]
    BY <1>1, <1>3, <1>5, <1>11
  <2>2. fat[job.block] = END_OF_CHAIN
    BY <1>1, <2>1 DEF IInv, Import_chain, Importing
  <2>3. fat' \in Table /\ \A w \in Word : w # job.block => fat'[w] = fat[w]
    BY <1>3, <1>4, <2>1 DEF Table
  <2>4. /\ job.block \in Built /\ job.block \in DataArea
        /\ Files(fat', dir)
        /\ \A i \in FilesOf(dir) : FileChain(fat', dir[i]) = FileChain(fat, dir[i])
        /\ ChainOf(fat', job.start, job.k) = Built
        /\ Walk(fat', job.start, job.k - 1) = job.block
    BY <1>1, <2>1, <2>3, LastBlockFrame DEF Importing
  <2>5. job.block \in Word /\ job.block >= datastart /\ job.block # nf
    BY <1>2, <2>2, <2>4, Layout DEF FREE, END_OF_CHAIN
  <2>6. fat'[job.block] = nf /\ fat'[nf] = FREE
    BY <1>2, <1>3, <2>1, <2>3, <2>5 DEF Table
  <2>7. Walk(fat', job.start, job.k) = nf
    <3>1. job.k - 1 \in Nat /\ (job.k - 1) + 1 = job.k
      BY <1>3, <2>1
    <3>2. Walk(fat', job.start, (job.k - 1) + 1) = Along(fat', Walk(fat', job.start, job.k - 1))
      BY <1>3, <2>3, <3>1, TableInt, WalkStep
    <3>. QED BY <2>4, <2>5, <2>6, <3>1, <3>2 DEF Along
  <2>8. Built' = Built \cup {nf}
    <3>1. Built' = {Walk(fat', job.start, m) : m \in 0..((job.k + 1) - 1)}
      BY <1>5, <2>1 DEF Built, ChainOf
    <3>2. 0..((job.k + 1) - 1) = (0..(job.k - 1)) \cup {job.k}
      BY <1>3
    <3>. QED BY <2>4, <2>7, <3>1, <3>2 DEF ChainOf
  <2>9. Types'
    <3>1. \A b \in Word : b < datastart => fat[b] = RESERVED_BLOCK
      BY DEF IInv, Types
    <3>2. ASSUME NEW b \in Word, b < datastart PROVE fat'[b] = RESERVED_BLOCK
      <4>1. b # job.block
        BY <2>5, <3>2, <1>4, Layout
      <4>. QED BY <2>3, <3>1, <3>2, <4>1
    <3>3. job'.path \in Paths /\ pc' \in Importing
      BY <1>1, <1>3, <1>5 DEF Importing
    <3>4. dir' \in Seq(Entry) /\ Len(dir') <= Entries /\ cut' \in BOOLEAN
      BY <1>1 DEF IInv, Types
    <3>. QED BY <1>5, <2>3, <3>2, <3>3, <3>4 DEF Types
  <2>10. Unused' = Unused
    <3>1. FreeBlocks' = FreeBlocks
      BY <1>4, <2>2, <2>3, <2>5, <2>6 DEF FreeBlocks, FREE, END_OF_CHAIN
    <3>. QED BY <3>1 DEF Unused
  <2>11. Import_chain'
    <3>1. /\ Built \subseteq DataArea
          /\ \A i \in FilesOf(dir) : Built \cap FileChain(fat, dir[i]) = {}
      BY <1>1, <2>1 DEF IInv, Import_chain, Importing
    <3>2. Built' \subseteq DataArea
      BY <1>2, <2>8, <3>1
    <3>3. \A i \in FilesOf(dir) : Built' \cap FileChain(fat', dir[i]) = {}
      BY <1>8, <2>4, <2>8, <3>1
    <3>4. Walk(fat', job'.start, job'.k - 1) = job'.block
      BY <1>3, <1>5, <2>1, <2>7
    <3>5. job'.k \in 1..BlocksOf(job'.size)
      BY <1>3, <1>5, <1>6, <1>7
    <3>6. Cardinality(Unused) >= BlocksOf(job'.size) - job'.k + 1
      <4>1. BlocksOf(job.size) - (job.k + 1) + 1 = BlocksOf(job.size) - job.k
        BY <1>3, <1>7
      <4>. QED BY <1>5, <1>6, <4>1
    <3>7. fat'[job'.block] = FREE /\ dir' = dir /\ pc' = "write"
      BY <1>1, <1>5, <2>6
    <3>8. \A i \in FilesOf(dir') : Built' \cap FileChain(fat', dir'[i]) = {}
      BY <3>3, <3>7
    <3>9. Cardinality(Unused') >= BlocksOf(job'.size) - job'.k + 1
      BY <2>10, <3>6
    <3>. QED BY <3>2, <3>4, <3>5, <3>7, <3>8, <3>9 DEF Import_chain
  <2>12. Owners'
    BY <1>1, <2>3, <2>4, <2>8 DEF IInv, Owners, Importing
  <2>. QED BY <1>1, <1>9, <2>4, <2>9, <2>11, <2>12 DEF IInv
<1>. QED BY <1>10, <1>11

\* import_chain ends the chain at the block it has found.
LEMMA WriteBlockIInv == ASSUME IInv, WriteBlock PROVE IInv'
<1>1. /\ pc = "write" /\ pc' = (IF More THEN "find" ELSE "entry")
      /\ fat' = [fat EXCEPT ![job.block] = END_OF_CHAIN]
      /\ UNCHANGED <<dir, job, cut>>
  BY DEF WriteBlock
<1>2. /\ fat \in Table /\ dir \in Seq(Entry) /\ Tree(dir)
      /\ job.k \in Nat /\ job.start \in Int /\ job.size \in Nat
  BY DEF IInv, Types
<1>3. /\ job.k \in 1..BlocksOf(job.size) /\ job.k > 0 /\ BlocksOf(job.size) \in Nat
      /\ Built \subseteq DataArea /\ fat[job.block] = FREE
      /\ \A i \in FilesOf(dir) : Built \cap FileChain(fat, dir[i]) = {}
      /\ Cardinality(Unused) >= BlocksOf(job.size) - job.k + 1
  <2>1. job.k \in 1..BlocksOf(job.size) /\ BlocksOf(job.size) \in Nat
    BY <1>1, <1>2, BlocksPositive DEF IInv, Import_chain
  <2>2. job.k > 0
    BY <2>1
  <2>. QED BY <1>1, <2>1, <2>2 DEF IInv, Import_chain, Importing
<1>4. fat' \in Table /\ \A w \in Word : w # job.block => fat'[w] = fat[w]
  BY <1>1, <1>2 DEF Table
<1>5. /\ job.block \in Built /\ job.block \in DataArea
      /\ Files(fat', dir)
      /\ \A i \in FilesOf(dir) : FileChain(fat', dir[i]) = FileChain(fat, dir[i])
      /\ ChainOf(fat', job.start, job.k) = Built
      /\ Walk(fat', job.start, job.k - 1) = job.block
  BY <1>1, <1>3, <1>4, LastBlockFrame DEF Importing
<1>6. job.block \in Word /\ job.block >= datastart /\ job.block < Blocks
  BY <1>5, Layout
<1>7. fat'[job.block] = END_OF_CHAIN
  BY <1>1, <1>2, <1>6 DEF Table
<1>8. Built' = Built
  BY <1>1, <1>5 DEF Built
<1>9. pc' \in Importing /\ pc' # "write" /\ pc' # "dirs"
  BY <1>1 DEF Importing
<1>10. Types'
  <2>1. \A b \in Word : b < datastart => fat[b] = RESERVED_BLOCK
    BY DEF IInv, Types
  <2>2. ASSUME NEW b \in Word, b < datastart PROVE fat'[b] = RESERVED_BLOCK
    <3>1. b # job.block
      BY <1>6, <2>2, Layout
    <3>. QED BY <1>4, <2>1, <2>2, <3>1
  <2>3. /\ dir' \in Seq(Entry) /\ Len(dir') <= Entries /\ cut' \in BOOLEAN
        /\ job' \in [path : Seq(Names), abs : BOOLEAN, size : Nat, depth : Nat, k : Nat,
                     start : Int, block : Int]
        /\ job'.path \in Paths
    BY <1>1 DEF IInv, Types
  <2>. QED BY <1>4, <1>9, <2>2, <2>3 DEF Types
<1>11. Import_path' /\ Tree(dir)' /\ Files(fat, dir)'
  BY <1>1, <1>5, <1>9 DEF IInv, Import_path, Importing
<1>12. Owners'
  <2>1. SUFFICES ASSUME ~cut', NEW b \in Word, fat'[b] \notin {FREE, RESERVED_BLOCK}
                 PROVE  \/ \E i \in FilesOf(dir') : b \in FileChain(fat', dir'[i])
                        \/ pc' \in Importing /\ b \in Built'
    BY DEF Owners
  <2>2. CASE b = job.block
    BY <1>5, <1>8, <1>9, <2>2
  <2>3. CASE b # job.block
    <3>1. fat[b] \notin {FREE, RESERVED_BLOCK} /\ ~cut
      BY <1>1, <1>4, <2>1, <2>3
    <3>2. (\E i \in FilesOf(dir) : b \in FileChain(fat, dir[i])) \/ b \in Built
      BY <3>1 DEF IInv, Owners
    <3>. QED BY <1>1, <1>5, <1>8, <1>9, <3>2
  <2>. QED BY <2>2, <2>3
<1>13. Cardinality(Unused') >= BlocksOf(job.size) - job.k
  <2>1. Unused' = Unused \ {job.block} /\ job.block \in Unused
    BY <1>3, <1>4, <1>6, <1>7 DEF Unused, FreeBlocks, FREE, END_OF_CHAIN
  <2>2. IsFiniteSet(Unused)
    <3>1. IsFiniteSet(0..Blocks)
      BY EchfsAssumption, FS_Interval
    <3>2. Unused \subseteq 0..Blocks
      BY Layout, EchfsAssumption DEF Unused, FreeBlocks
    <3>. QED BY <3>1, <3>2, FS_Subset
  <2>3. Cardinality(Unused) \in Nat
    BY <2>2, FS_CardinalityType
  <2>4. Cardinality(Unused \ {job.block}) = Cardinality(Unused) - 1
    BY <2>1, <2>2, FS_RemoveElement
  <2>. QED BY <1>2, <1>3, <2>1, <2>3, <2>4
<1>14. /\ pc' = "find" => job.k < BlocksOf(job.size)
       /\ pc' = "entry" => job.k = BlocksOf(job.size)
  BY <1>1, <1>2, <1>3 DEF More
<1>15. Import_chain'
  <2>1. \A i \in FilesOf(dir') : Built' \cap FileChain(fat', dir'[i]) = {}
    BY <1>1, <1>3, <1>5, <1>8
  <2>2. Walk(fat', job'.start, job'.k - 1) = job'.block /\ fat'[job'.block] = END_OF_CHAIN
    BY <1>1, <1>5, <1>7
  <2>3. Built' \subseteq DataArea
    BY <1>3, <1>8
  <2>. QED BY <1>1, <1>9, <1>13, <1>14, <2>1, <2>2, <2>3 DEF Import_chain
<1>. QED BY <1>10, <1>11, <1>12, <1>15 DEF IInv

\* The entry of a file makes the chain that was built the file's.
LEMMA WriteEntryIInv == ASSUME IInv, WriteEntry PROVE IInv'
<1>. DEFINE path == job.path
            n == Len(path)
            x == Reach(dir, path, n - 1)
            N == Len(dir) + 1
<1>1. PICK e : e = NewEntry(path, FILE_TYPE, job.start, job.size)
  OBVIOUS
<1>2. /\ pc = "entry" /\ pc' = "idle" /\ job' = NoJob /\ dir' = Append(dir, e)
      /\ UNCHANGED <<fat, cut>>
  BY <1>1 DEF WriteEntry
<1>3. /\ fat \in Table /\ dir \in Seq(Entry) /\ Tree(dir) /\ Files(fat, dir)
      /\ Len(dir) <= Entries /\ path \in Paths
      /\ job.k \in Nat /\ job.start \in Int /\ job.size \in Nat
  BY <1>2 DEF IInv, Types
<1>4. n \in Nat \ {0} /\ path[n] \in Names /\ n - 1 \in 0..(Len(path) - 1)
  BY <1>3 DEF Paths
<1>5. x \in Int
  BY <1>3, <1>4, ReachStep
<1>6. x >= 0 /\ Search(dir, path[n], x, FILE_TYPE) = SEARCH_FAILURE
  BY <1>2 DEF IInv, Import_path, Importing
<1>7. /\ e.parent_id = x /\ e.type = FILE_TYPE /\ e.name = path[n]
      /\ e.payload = job.start /\ e.size = job.size
  BY <1>1, ParentIsReach DEF NewEntry
<1>8. e \in Entry
  <2>1. e = [parent_id |-> x, type |-> FILE_TYPE, name |-> path[n],
             payload |-> job.start, size |-> job.size]
    BY <1>1, ParentIsReach DEF NewEntry
  <2>. QED BY <1>3, <1>4, <1>5, <2>1 DEF Entry
<1>9. x = ROOT_ID \/ \E j \in 1..Len(dir) : IsDir(dir, j) /\ dir[j].payload = x
  BY <1>3, <1>4, <1>6, ReachIsDir
<1>. HIDE DEF x
<1>10. Len(dir) < Entries /\ \A j \in 1..Len(dir) : ~Match(dir[j], path[n], x, FILE_TYPE)
  <2>1. Len(dir) \in Nat /\ Entries \in Nat
    BY <1>3, Layout
  <2>. QED BY <1>3, <1>6, <2>1, SearchFinds DEF SEARCH_FAILURE, PANIC
<1>11. Tree(Append(dir, e))
  <2>1. \A j \in 1..Len(dir) : ~Match(dir[j], e.name, e.parent_id, e.type)
    BY <1>7, <1>10
  <2>2. e.type # DIRECTORY_TYPE
    BY <1>7 DEF FILE_TYPE, DIRECTORY_TYPE
  <2>3. e.parent_id = ROOT_ID
        \/ \E j \in 1..Len(dir) : IsDir(dir, j) /\ dir[j].payload = e.parent_id
    BY <1>7, <1>9
  <2>. QED BY <1>3, <1>8, <2>1, <2>2, <2>3, TreeGrows
<1>12. /\ dir' \in Seq(Entry) /\ Len(dir') = N /\ Len(dir) \in Nat
       /\ \A i \in 1..Len(dir) : dir'[i] = dir[i]
       /\ dir'[N] = e
  BY <1>2, <1>3, <1>8, Longer
<1>13. /\ job.k = BlocksOf(job.size) /\ job.k > 0 /\ Built \subseteq DataArea
       /\ Walk(fat, job.start, job.k - 1) = job.block /\ fat[job.block] = END_OF_CHAIN
       /\ \A i \in FilesOf(dir) : Built \cap FileChain(fat, dir[i]) = {}
  <2>1. job.k = BlocksOf(job.size)
    BY <1>2 DEF IInv, Import_chain
  <2>2. job.k > 0
    BY <1>3, <2>1, BlocksPositive
  <2>. QED BY <1>2, <2>1, <2>2 DEF IInv, Import_chain, Importing
<1>14. FileChain(fat, e) = Built
  BY <1>7, <1>13 DEF FileChain, Built
<1>15. Whole(fat, e)
  <2>1. job.k - 1 \in Nat /\ (job.k - 1) + 1 = job.k /\ job.k - 1 \in 0..(job.k - 1)
    BY <1>3, <1>13
  <2>2. Walk(fat, job.start, (job.k - 1) + 1) = Along(fat, Walk(fat, job.start, job.k - 1))
    BY <1>3, <2>1, TableInt, WalkStep
  <2>3. job.block \in Built
    BY <1>13, <2>1 DEF Built, ChainOf
  <2>4. job.block \in Word
    BY <1>13, <2>3, Layout
  <2>5. Walk(fat, job.start, job.k) = END_OF_CHAIN
    BY <1>13, <2>1, <2>2, <2>4 DEF Along
  <2>. QED BY <1>7, <1>13, <1>14, <2>5 DEF Whole
<1>16. FilesOf(dir') = FilesOf(dir) \cup {N} /\ N \notin FilesOf(dir)
       /\ \A i \in FilesOf(dir) : dir'[i] = dir[i]
  <2>1. \A i \in 1..N : i \in 1..Len(dir) \/ i = N
    BY <1>12
  <2>2. N \in 1..N /\ N \notin 1..Len(dir) /\ 1..Len(dir) \subseteq 1..N
    BY <1>12
  <2>. QED BY <1>7, <1>12, <2>1, <2>2 DEF FilesOf
<1>17. Files(fat, dir)'
  <2>1. \A i \in FilesOf(dir') : Whole(fat, dir'[i])
    BY <1>3, <1>12, <1>15, <1>16 DEF Files
  <2>2. \A i, j \in FilesOf(dir') :
           i # j => FileChain(fat, dir'[i]) \cap FileChain(fat, dir'[j]) = {}
    BY <1>3, <1>12, <1>13, <1>14, <1>16 DEF Files
  <2>. QED BY <1>2, <2>1, <2>2 DEF Files
<1>18. Types'
  <2>1. NoJob \in [path : Seq(Names), abs : BOOLEAN, size : Nat, depth : Nat, k : Nat,
                   start : Int, block : Int]
    BY DEF NoJob
  <2>2. Len(dir') <= Entries
    BY <1>10, <1>12, Layout
  <2>. QED BY <1>2, <1>12, <2>1, <2>2 DEF IInv, Types
<1>19. Import_chain' /\ Import_path'
  BY <1>2 DEF Import_chain, Import_path, Importing
<1>20. Owners'
  BY <1>2, <1>12, <1>14, <1>16 DEF IInv, Owners
<1>. QED BY <1>2, <1>11, <1>17, <1>18, <1>19, <1>20 DEF IInv

\* format starts over.
LEMMA FormatIInv == ASSUME IInv, Format PROVE IInv'
<1>1. fat' = Formatted /\ dir' = <<>> /\ pc' = "idle" /\ cut' = FALSE /\ job' = job
  BY DEF Format
<1>2. dir' \in Seq(Entry) /\ Len(dir') = 0 /\ FilesOf(dir') = {} /\ 1..Len(dir') = {}
  BY <1>1 DEF FilesOf
<1>3. Types'
  <2>1. fat' \in Table
    BY <1>1 DEF Formatted, Table
  <2>2. \A b \in Word : b < datastart => fat'[b] = RESERVED_BLOCK
    BY <1>1 DEF Formatted
  <2>3. Len(dir') <= Entries
    BY <1>2, Layout
  <2>4. job' \in [path : Seq(Names), abs : BOOLEAN, size : Nat, depth : Nat, k : Nat,
                  start : Int, block : Int]
    BY <1>1 DEF IInv, Types
  <2>. QED BY <1>1, <1>2, <2>1, <2>2, <2>3, <2>4 DEF Types
<1>4. Files(fat, dir)'
  BY <1>2 DEF Files
<1>5. Import_chain' /\ Import_path'
  BY <1>1 DEF Import_chain, Import_path, Importing
<1>6. Owners'
  BY <1>1 DEF Owners, Formatted
<1>7. Tree(dir)'
  BY <1>2 DEF Tree, Numbered, Rooted, Distinct
<1>. QED BY <1>3, <1>4, <1>5, <1>6, <1>7 DEF IInv

\* Inductive: at every write of format, mkdir and import, and wherever one of
\* them is cut short, the table, the directory and the chain under construction
\* fit together.
THEOREM Inductive == Spec => []IInv
<1>1. IInv /\ [Next]_vars => IInv'
  <2>1. SUFFICES ASSUME IInv, [Next]_vars PROVE IInv'
    OBVIOUS
  <2>2. CASE UNCHANGED vars
    BY <2>1, <2>2 DEF vars, IInv, Types, Import_chain, Owners, Import_path, Built, Unused,
                      FreeBlocks
  <2>. QED BY <2>1, <2>2, MkdirIInv, ImportIInv, MakePrefixIInv, CheckIInv, FindBlockIInv,
              WriteBlockIInv, WriteEntryIInv, FormatIInv, KilledIInv DEF Next
<1>. QED BY <1>1, InitIInv, PTL DEF Spec

-----------------------------------------------------------------------------
(* What follows from it for the properties of Echfs.                       *)

\* The chain of a file, as ChainsSound and NoOrphans read it.
LEMMA ChainIsFileChain == ASSUME NEW e PROVE Chain(e) = FileChain(fat, e)
<1>1. \A n : Follow(e.payload, n) = Walk(fat, e.payload, n)
  BY FollowIsWalk
<1>. QED BY <1>1 DEF Chain, FileChain, ChainOf

\* The numbers that mkdir gives to directories: no two the same, and no more
\* than there are entries.
LEMMA NumbersUnique ==
    ASSUME NEW d \in Seq(Entry), Numbered(d)
    PROVE  /\ \A i \in 1..Len(d) : IsDir(d, i) => d[i].payload \in 1..Len(d)
           /\ \A i, j \in 1..Len(d) :
                 IsDir(d, i) /\ IsDir(d, j) /\ d[i].payload = d[j].payload => i = j
<1>0. Len(d) \in Nat
  OBVIOUS
<1>1. ASSUME NEW i \in 1..Len(d), IsDir(d, i) PROVE d[i].payload \in 1..Len(d)
  <2>1. i - 1 \in 0..Len(d)
    BY <1>0
  <2>2. Id(d, i - 1) \in 1..((i - 1) + 1)
    BY <2>1, IdGrows
  <2>. QED BY <1>0, <1>1, <2>2 DEF Numbered
<1>2. ASSUME NEW i \in 1..Len(d), NEW j \in 1..Len(d), IsDir(d, i), IsDir(d, j), i < j
      PROVE  d[i].payload # d[j].payload
  <2>1. i - 1 \in 0..Len(d) /\ i \in 0..Len(d) /\ j - 1 \in 0..Len(d) /\ i \in 0..(j - 1)
    BY <1>0, <1>2
  <2>2. d[i].payload = Id(d, i - 1) /\ d[j].payload = Id(d, j - 1)
    BY <1>2 DEF Numbered
  <2>3. Id(d, i) = Id(d, i - 1) + 1
    BY <1>2, <2>2, IdStep DEF IsDir
  <2>4. Id(d, i) <= Id(d, j - 1)
    BY <2>1, IdGrows
  <2>5. Id(d, i - 1) \in Int /\ Id(d, j - 1) \in Int
    BY <2>1, IdStep
  <2>. QED BY <2>2, <2>3, <2>4, <2>5
<1>. QED BY <1>0, <1>1, <1>2

\* TypeCorrect: the table never holds anything but its special words and block
\* numbers, the directory never outgrows its blocks, and no payload is wild,
\* for every layout, whatever was imported or made and however often a command
\* was cut short (TypeOK).
THEOREM TypeCorrect == Spec => []TypeOK
<1>1. IInv => TypeOK
  <2>1. SUFFICES ASSUME IInv PROVE TypeOK
    OBVIOUS
  <2>2. fat \in Table /\ dir \in Seq(Entry) /\ Len(dir) <= Entries /\ Len(dir) \in Nat
    BY <2>1 DEF IInv, Types
  <2>3. pc \in {"idle", "dirs", "find", "write", "entry"}
    BY <2>1 DEF IInv, Types, Importing
  <2>4. ASSUME NEW i \in 1..Len(dir), dir[i].type = FILE_TYPE
        PROVE  dir[i].payload \in 1..(Blocks - 1)
    <3>0. i \in FilesOf(dir) /\ dir[i] \in Entry
      BY <2>2, <2>4 DEF FilesOf
    <3>1. i \in FilesOf(dir) /\ dir[i].payload \in Int /\ dir[i].size \in Nat
      BY <3>0 DEF Entry
    <3>2. FileChain(fat, dir[i]) \subseteq DataArea
      BY <2>1, <3>1 DEF IInv, Files, Whole
    <3>3. Walk(fat, dir[i].payload, 0) = dir[i].payload
      BY <2>2, <3>1, TableInt, WalkStep
    <3>4. 0 \in 0..(BlocksOf(dir[i].size) - 1)
      <4>1. BlocksOf(dir[i].size) \in Nat \ {0}
        BY <3>1, BlocksPositive
      <4>. QED BY <4>1
    <3>5. dir[i].payload \in DataArea
      BY <3>2, <3>3, <3>4 DEF FileChain, ChainOf
    <3>. QED BY <3>5, Layout, EchfsAssumption
  <2>5. ASSUME NEW i \in 1..Len(dir), dir[i].type # FILE_TYPE
        PROVE  dir[i].payload \in 1..Entries
    <3>0. dir[i] \in Entry
      BY <2>2
    <3>1. IsDir(dir, i)
      BY <2>5, <3>0 DEF Entry, IsDir
    <3>2. dir[i].payload \in 1..Len(dir)
      BY <2>1, <2>2, <3>1, NumbersUnique DEF IInv, Tree
    <3>. QED BY <2>2, <3>2, Layout
  <2>6. ASSUME NEW i \in 1..Len(dir)
        PROVE  dir[i].payload \in 1..(IF dir[i].type = FILE_TYPE THEN Blocks - 1 ELSE Entries)
    BY <2>4, <2>5
  <2>. QED BY <2>2, <2>3, <2>6 DEF TypeOK, Table
<1>. QED BY <1>1, Inductive, PTL

\* FilesAreWhole: every file's chain has as many blocks as its size needs, all
\* of them in the data area, ends there, and shares no block with another
\* file (ChainsSound).
THEOREM FilesAreWhole == Spec => []ChainsSound
<1>1. IInv => ChainsSound
  <2>1. SUFFICES ASSUME IInv PROVE ChainsSound
    OBVIOUS
  <2>2. \A i : Chain(dir[i]) = FileChain(fat, dir[i])
    BY ChainIsFileChain
  <2>3. \A i : Follow(dir[i].payload, BlocksOf(dir[i].size))
                  = Walk(fat, dir[i].payload, BlocksOf(dir[i].size))
    BY FollowIsWalk
  <2>. QED BY <2>1, <2>2, <2>3 DEF IInv, Files, Whole, ChainsSound, DataArea
<1>. QED BY <1>1, Inductive, PTL

\* NoBlockIsLost: between commands, if none was cut short since format, every
\* block that the table marks as taken is in the chain of a file (NoOrphans).
THEOREM NoBlockIsLost == Spec => []NoOrphans
<1>1. IInv => NoOrphans
  <2>1. \A i : Chain(dir[i]) = FileChain(fat, dir[i])
    BY ChainIsFileChain
  <2>. QED BY <2>1 DEF IInv, Owners, NoOrphans, Importing
<1>. QED BY <1>1, Inductive, PTL

\* TreeIsSound: get_free_id never gives a number twice, every entry is in a
\* directory that exists, and no directory has two entries of the same type
\* and name (TreeSound).
THEOREM TreeIsSound == Spec => []TreeSound
<1>1. IInv => TreeSound
  <2>1. SUFFICES ASSUME IInv PROVE TreeSound
    OBVIOUS
  <2>2. dir \in Seq(Entry) /\ Numbered(dir) /\ Rooted(dir) /\ Distinct(dir)
    BY <2>1 DEF IInv, Types, Tree
  <2>3. \A i, j \in 1..Len(dir) :
           IsDir(dir, i) /\ IsDir(dir, j) /\ dir[i].payload = dir[j].payload => i = j
    BY <2>2, NumbersUnique
  <2>. QED BY <2>2, <2>3 DEF TreeSound, Rooted, Distinct, Match, IsDir
<1>. QED BY <1>1, Inductive, PTL

=============================================================================
