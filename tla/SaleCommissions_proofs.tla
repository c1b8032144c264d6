------------------------ MODULE SaleCommissions_proofs ------------------------
(***************************************************************************)
(* Theorems about NetworkHierarchy and SaleCommissions, for every number   *)
(* of members, page size, budget and tier, for all amounts, rates, numbers *)
(* of levels and trees, and for all interleavings of registrations and     *)
(* requests, of plan and tier edits.                                       *)
(***************************************************************************)
EXTENDS SaleCommissions, FiniteSetTheorems, WellFoundedInduction, TLAPS

\* A nonempty set of naturals has a least element.
LEMMA LeastNatural ==
  ASSUME NEW T \in SUBSET Nat, T # {}
  PROVE  \E x \in T : \A y \in T : x <= y
<1>1. PICK x \in T : \A y \in T : ~ (<<y, x>> \in OpToRel(<, Nat))
  BY NatLessThanWellFounded, WFMin
<1>2. \A y \in T : ~ (y < x)
  BY <1>1 DEF OpToRel
<1> QED BY <1>2

(***************************************************************************)
(* The tree.                                                               *)
(***************************************************************************)
Nodes == Members \cup {TenantRoot}

TreeTypes ==
  /\ clock \in Nat
  /\ joined \in SUBSET Members
  /\ stamp \in [Members -> Nat]
  /\ path \in [Nodes -> SUBSET Nodes]
  /\ sponsor \in [Members -> Nodes]

\* A path is the member and the path of its sponsor, who has joined earlier.
Placed ==
  /\ path[TenantRoot] = {TenantRoot}
  /\ \A m \in Members \ joined : path[m] = {m}
  /\ \A m \in joined :
       /\ sponsor[m] \in joined \cup {TenantRoot}
       /\ path[m] = {m} \cup path[sponsor[m]]
       /\ m \notin path[sponsor[m]]
       /\ path[m] \subseteq joined \cup {TenantRoot}
       /\ TenantRoot \in path[m]
       /\ stamp[m] <= clock

\* Ancestors are ordered: their paths are parts of each other, and they have joined one
\* after the other.
Ordered ==
  \A m \in joined :
    /\ \A a \in path[m] : path[a] \subseteq path[m]
    /\ \A a \in path[m] \ {TenantRoot} : stamp[a] <= stamp[m]
    /\ \A a \in path[m] \ {m} :
         /\ m \notin path[a]
         /\ \E c \in path[m] \ {TenantRoot} : sponsor[c] = a
    /\ \A a, b \in path[m] : a \in path[b] \/ b \in path[a]

TreeOK == TreeTypes /\ Placed /\ Ordered

\* Members are numbered from 1, and the tenant's root is none of them.
LEMMA NodesType ==
  /\ N \in Nat
  /\ Members \subseteq Nat /\ TenantRoot \notin Members /\ Nodes \subseteq Nat
  /\ TenantRoot = 0 /\ Start = 0
  /\ IsFiniteSet(Members) /\ IsFiniteSet(Nodes)
<1>1. N \in Nat
  BY SizeAssumption
<1>2. IsFiniteSet(1 .. N)
  BY <1>1, FS_Interval
<1>3. IsFiniteSet(Nodes)
  BY <1>2, FS_AddElement DEF Nodes, Members
<1> QED BY <1>1, <1>2, <1>3 DEF Members, Nodes, TenantRoot, Start

\* An empty tenant.
LEMMA TreeInitially == Init => TreeOK
<1> SUFFICES ASSUME Init PROVE TreeOK
  OBVIOUS
<1> USE NodesType
<1>1. TreeTypes
  BY DEF Init, TreeTypes, Nodes
<1>2. Placed
  BY DEF Init, Placed, Nodes
<1>3. Ordered
  BY DEF Init, Ordered
<1> QED BY <1>1, <1>2, <1>3 DEF TreeOK

\* A step that leaves the tree alone.
LEMMA TreeRests ==
  ASSUME TreeOK, UNCHANGED tree, clock' \in Nat, clock <= clock'
  PROVE  TreeOK'
<1>1. joined \subseteq Members /\ \A m \in joined : stamp[m] \in Nat
  BY DEF TreeOK, TreeTypes
<1>2. UNCHANGED <<joined, stamp, path, sponsor>>
  BY DEF tree
<1>3. TreeTypes'
  BY <1>2 DEF TreeOK, TreeTypes
<1>4. Placed'
  BY <1>1, <1>2 DEF TreeOK, Placed, TreeTypes
<1>5. Ordered'
  BY <1>2 DEF TreeOK, Ordered
<1> QED BY <1>3, <1>4, <1>5 DEF TreeOK

\* A new leaf.
LEMMA InsertKeepsTree ==
  ASSUME TreeOK, NEW m \in Members, NEW p \in joined \cup {TenantRoot},
         NEW earliest \in Nat, p \in joined => stamp[p] <= earliest, Insert(m, p, earliest)
  PROVE  /\ TreeOK'
         /\ joined' = joined \cup {m} /\ m \notin joined
         /\ \A k \in joined : /\ stamp'[k] = stamp[k] /\ path'[k] = path[k]
                              /\ sponsor'[k] = sponsor[k]
<1> USE NodesType
<1>1. PICK t \in earliest .. clock : stamp' = [stamp EXCEPT ![m] = t]
  BY DEF Insert
<1>2. /\ m \notin joined /\ joined' = joined \cup {m}
      /\ path' = [path EXCEPT ![m] = {m} \cup path[p]]
      /\ sponsor' = [sponsor EXCEPT ![m] = p]
      /\ clock' = clock
  BY DEF Insert
<1>3. TreeTypes /\ Placed /\ Ordered
  BY DEF TreeOK
<1>4. /\ p \in Nodes /\ m \in Nodes /\ p # m /\ m # TenantRoot
      /\ t \in Nat /\ t <= clock /\ clock \in Nat
      /\ path[p] \subseteq joined \cup {TenantRoot}
      /\ TenantRoot \in path[p] /\ p \in path[p]
  BY <1>1, <1>2, <1>3 DEF TreeTypes, Placed, Nodes
<1>5. TreeTypes'
  BY <1>1, <1>2, <1>3, <1>4 DEF TreeTypes, Nodes
<1>6. /\ stamp'[m] = t /\ path'[m] = {m} \cup path[p] /\ sponsor'[m] = p
      /\ \A k \in Members \ {m} : stamp'[k] = stamp[k] /\ sponsor'[k] = sponsor[k]
      /\ \A k \in Nodes \ {m} : path'[k] = path[k]
  BY <1>1, <1>2, <1>3, <1>4 DEF TreeTypes
<1>7. \A k \in joined \cup {TenantRoot} : path'[k] = path[k]
  BY <1>2, <1>3, <1>4, <1>6 DEF TreeTypes, Nodes
<1>8. \A k \in joined : stamp'[k] = stamp[k] /\ sponsor'[k] = sponsor[k]
  BY <1>2, <1>3, <1>6 DEF TreeTypes
<1>9. Placed'
  <2>1. path'[TenantRoot] = {TenantRoot}
    BY <1>3, <1>7 DEF Placed
  <2>2. \A k \in Members \ joined' : path'[k] = {k}
    BY <1>2, <1>3, <1>6 DEF Placed, Nodes
  <2>3. ASSUME NEW k \in joined
        PROVE  /\ sponsor'[k] \in joined' \cup {TenantRoot}
               /\ path'[k] = {k} \cup path'[sponsor'[k]]
               /\ k \notin path'[sponsor'[k]]
               /\ path'[k] \subseteq joined' \cup {TenantRoot}
               /\ TenantRoot \in path'[k]
               /\ stamp'[k] <= clock'
    BY <1>2, <1>3, <1>7, <1>8 DEF Placed
  <2>4. /\ sponsor'[m] \in joined' \cup {TenantRoot}
        /\ path'[m] = {m} \cup path'[sponsor'[m]]
        /\ m \notin path'[sponsor'[m]]
        /\ path'[m] \subseteq joined' \cup {TenantRoot}
        /\ TenantRoot \in path'[m]
        /\ stamp'[m] <= clock'
    BY <1>2, <1>4, <1>6, <1>7
  <2> QED BY <1>2, <2>1, <2>2, <2>3, <2>4 DEF Placed
<1>10. Ordered'
  <2>1. ASSUME NEW k \in joined
        PROVE  /\ \A a \in path'[k] : path'[a] \subseteq path'[k]
               /\ \A a \in path'[k] \ {TenantRoot} : stamp'[a] <= stamp'[k]
               /\ \A a \in path'[k] \ {k} :
                    /\ k \notin path'[a]
                    /\ \E c \in path'[k] \ {TenantRoot} : sponsor'[c] = a
               /\ \A a, b \in path'[k] : a \in path'[b] \/ b \in path'[a]
    <3>1. path[k] \subseteq joined \cup {TenantRoot}
      BY <1>3 DEF Placed
    <3> QED BY <1>3, <1>7, <1>8, <3>1 DEF Ordered
  <2>2. p \in joined => /\ \A a \in path[p] : path[a] \subseteq path[p]
                        /\ \A a \in path[p] \ {TenantRoot} : stamp[a] <= stamp[p]
                        /\ \A a \in path[p] \ {p} : \E c \in path[p] \ {TenantRoot} : sponsor[c] = a
                        /\ \A a, b \in path[p] : a \in path[b] \/ b \in path[a]
    BY <1>3 DEF Ordered
  <2>3. p = TenantRoot => path[p] = {TenantRoot}
    BY <1>3 DEF Placed
  <2>4. \A a \in path[p] : path'[a] = path[a] /\ m \notin path[a] /\ path[a] \subseteq path[p]
    <3>1. \A a \in path[p] : path'[a] = path[a]
      BY <1>4, <1>7
    <3>2. \A a \in path[p] : path[a] \subseteq path[p]
      BY <2>2, <2>3
    <3> QED BY <1>2, <1>4, <3>1, <3>2
  <2>5. \A a \in path'[m] : path'[a] \subseteq path'[m]
    BY <1>6, <2>4
  <2>6. \A a \in path'[m] \ {TenantRoot} : stamp'[a] <= stamp'[m]
    <3>1. ASSUME NEW a \in path[p] \ {TenantRoot}
          PROVE stamp[a] <= t /\ a \in joined
      <4>1. p \in joined /\ a \in joined
        BY <1>4, <2>3, <3>1
      <4>2. stamp[a] \in Nat /\ stamp[p] \in Nat /\ stamp[a] <= stamp[p] /\ stamp[p] <= earliest
        BY <1>3, <2>2, <3>1, <4>1 DEF TreeTypes
      <4> QED BY <1>1, <4>1, <4>2
    <3>2. t <= t
      BY <1>4
    <3> QED BY <1>6, <1>8, <3>1, <3>2
  <2>7. ASSUME NEW a \in path'[m] \ {m}
        PROVE  m \notin path'[a] /\ \E c \in path'[m] \ {TenantRoot} : sponsor'[c] = a
    <3>1. a \in path[p]
      BY <1>6
    <3>2. CASE a = p
      BY <1>4, <1>6, <2>4, <3>1, <3>2
    <3>3. CASE a # p
      <4>1. p \in joined
        BY <1>4, <2>3, <3>1, <3>3
      <4>2. PICK c \in path[p] \ {TenantRoot} : sponsor[c] = a
        BY <2>2, <3>1, <3>3, <4>1
      <4>3. c \in joined /\ sponsor'[c] = a /\ c \in path'[m]
        BY <1>4, <1>6, <1>8, <4>2
      <4> QED BY <2>4, <3>1, <4>2, <4>3
    <3> QED BY <3>2, <3>3
  <2>8. \A a, b \in path'[m] : a \in path'[b] \/ b \in path'[a]
    <3>1. \A a, b \in path[p] : a \in path[b] \/ b \in path[a]
      BY <2>2, <2>3
    <3> QED BY <1>6, <2>4, <3>1
  <2> QED BY <1>2, <2>1, <2>5, <2>6, <2>7, <2>8 DEF Ordered
<1> QED BY <1>2, <1>5, <1>7, <1>8, <1>9, <1>10 DEF TreeOK

(***************************************************************************)
(* What follows of a tree.                                                 *)
(***************************************************************************)
\* Nodes that are there.
Here == joined \cup {TenantRoot}

\* A path starts with its member, and consists of members that are there.
LEMMA PathType ==
  ASSUME TreeOK, NEW m \in Here
  PROVE  /\ m \in path[m] /\ TenantRoot \in path[m]
         /\ path[m] \subseteq Here /\ path[m] \subseteq Nodes
         /\ IsFiniteSet(path[m])
         /\ \A a \in path[m] : path[a] \subseteq path[m]
<1> USE NodesType DEF TreeOK, Here
<1>1. m \in path[m] /\ TenantRoot \in path[m] /\ path[m] \subseteq Here
  BY DEF Placed
<1>2. path[m] \subseteq Nodes
  BY DEF TreeTypes, Nodes
<1>3. IsFiniteSet(path[m])
  BY <1>2, FS_Subset
<1>4. \A a \in path[m] : path[a] \subseteq path[m]
  BY DEF Ordered, Placed
<1> QED BY <1>1, <1>2, <1>3, <1>4

\* Above a member are its sponsor and those above it.
LEMMA Above ==
  ASSUME TreeOK, NEW m \in joined
  PROVE  /\ sponsor[m] \in Here /\ sponsor[m] # m /\ sponsor[m] \in path[m]
         /\ m \notin path[sponsor[m]]
         /\ \A a \in path[m] \ {m} : a \in path[sponsor[m]]
         /\ path[m] = {m} \cup path[sponsor[m]]
<1> USE DEF TreeOK, Here
<1>1. sponsor[m] \in Here /\ path[m] = {m} \cup path[sponsor[m]] /\ m \notin path[sponsor[m]]
  BY DEF Placed
<1>2. sponsor[m] \in path[sponsor[m]]
  BY <1>1, PathType
<1> QED BY <1>1, <1>2

\* Nobody is above somebody who is above it.
LEMMA NoCycles ==
  ASSUME TreeOK, NEW a \in Here, NEW b \in Here, a \in path[b], b \in path[a]
  PROVE  a = b
<1>1. CASE b \in joined
  BY <1>1 DEF TreeOK, Ordered
<1>2. CASE a \in joined
  BY <1>2 DEF TreeOK, Ordered
<1> QED BY <1>1, <1>2 DEF Here

\* Between a member and somebody above it there is one child on the way.
LEMMA OneWayDown ==
  ASSUME TreeOK, NEW m \in Here, NEW a \in path[m], a # m
  PROVE  \E c \in path[m] \ {TenantRoot} :
           /\ sponsor[c] = a /\ c \in joined
           /\ \A d \in path[m] \ {TenantRoot} : sponsor[d] = a => d = c
<1>1. m \in joined
  <2>1. path[TenantRoot] = {TenantRoot}
    BY DEF TreeOK, Placed
  <2> QED BY <2>1 DEF Here
<1>2. PICK c \in path[m] \ {TenantRoot} : sponsor[c] = a
  BY <1>1 DEF TreeOK, Ordered
<1>3. c \in joined /\ path[m] \ {TenantRoot} \subseteq joined
  BY PathType, <1>2 DEF Here
<1>4. ASSUME NEW d \in path[m] \ {TenantRoot}, sponsor[d] = a PROVE d = c
  <2>1. d \in joined
    BY <1>3
  <2>2. d \in path[c] \/ c \in path[d]
    BY <1>1 DEF TreeOK, Ordered
  <2>3. ASSUME NEW x \in joined, NEW y \in joined, sponsor[x] = a, sponsor[y] = a, x \in path[y]
        PROVE  x = y
    <3>1. SUFFICES ASSUME x # y PROVE FALSE
      OBVIOUS
    <3>2. x \in path[a]
      BY <2>3, <3>1, Above
    <3> QED BY <2>3, <3>2, Above
  <2> QED BY <1>2, <1>3, <1>4, <2>1, <2>2, <2>3
<1> QED BY <1>2, <1>3, <1>4

\* Levels are counted by sponsors.
LEMMA TierSteps ==
  ASSUME TreeOK, NEW m \in Here, NEW a \in path[m]
  PROVE  /\ Tier(m, a) \in Nat
         /\ m = a => Tier(m, a) = 0
         /\ m # a => m \in joined /\ a \in path[sponsor[m]] /\ Tier(m, a) = Tier(sponsor[m], a) + 1
<1> DEFINE between(x) == {k \in path[x] : k = a \/ a \in path[k]}
<1>1. \A x \in Here : IsFiniteSet(between(x)) /\ Cardinality(between(x)) \in Nat
  <2> SUFFICES ASSUME NEW x \in Here PROVE IsFiniteSet(between(x))
    BY FS_CardinalityType
  <2>1. IsFiniteSet(path[x]) /\ between(x) \in SUBSET path[x]
    BY PathType
  <2> QED BY <2>1, FS_Subset
<1>2. \A x : Tier(x, a) = Cardinality(between(x)) - 1
  BY DEF Tier
<1>3. a \in Here
  BY PathType
<1>4. CASE m = a
  <2>1. between(m) = {a}
    <3>1. \A k \in path[a] : a \in path[k] => k = a
      BY <1>3, PathType, NoCycles
    <3>2. a \in path[a]
      BY <1>3, PathType
    <3> QED BY <1>4, <3>1, <3>2
  <2>2. Cardinality(between(m)) = 1
    BY <2>1, FS_Singleton
  <2> QED BY <1>2, <1>4, <2>2
<1>5. CASE m # a
  <2>1. m \in joined
    <3>1. path[TenantRoot] = {TenantRoot}
      BY DEF TreeOK, Placed
    <3> QED BY <1>5, <3>1 DEF Here
  <2>2. sponsor[m] \in Here /\ a \in path[sponsor[m]] /\ m \notin path[sponsor[m]]
        /\ path[m] = {m} \cup path[sponsor[m]]
    BY <1>5, <2>1, Above
  <2>3. between(m) = between(sponsor[m]) \cup {m} /\ m \notin between(sponsor[m])
    BY <2>2
  <2>4. Cardinality(between(m)) = Cardinality(between(sponsor[m])) + 1
    <3>1. IsFiniteSet(between(sponsor[m]))
      BY <1>1, <2>2
    <3> HIDE DEF between
    <3> QED BY <2>3, <3>1, FS_AddElement
  <2>5. a \in between(sponsor[m])
    <3>1. a \in path[a]
      BY <1>3, PathType
    <3> QED BY <2>2, <3>1
  <2>6. Cardinality(between(sponsor[m])) >= 1
    <3>1. IsFiniteSet(between(sponsor[m])) /\ Cardinality(between(sponsor[m])) \in Nat
      BY <1>1, <2>2
    <3>2. Cardinality(between(sponsor[m])) # 0
      <4> HIDE DEF between
      <4> QED BY <3>1, <2>5, FS_EmptySet
    <3> HIDE DEF between
    <3> QED BY <3>1, <3>2
  <2> HIDE DEF between
  <2> QED BY <1>1, <1>2, <1>5, <2>1, <2>2, <2>4, <2>6
<1> QED BY <1>4, <1>5

(***************************************************************************)
(* The order of siblings.                                                  *)
(***************************************************************************)
\* (joined_at, id) is a total order.
LEMMA BeforeOrders ==
  ASSUME TreeOK
  PROVE  /\ \A a \in Members : ~Before(a, a)
         /\ \A a, b \in Members : a # b => Before(a, b) \/ Before(b, a)
         /\ \A a, b, c \in Members : Before(a, b) /\ Before(b, c) => Before(a, c)
<1>1. \A a \in Members : a \in Nat /\ stamp[a] \in Nat
  BY NodesType DEF TreeOK, TreeTypes
<1> QED BY <1>1 DEF Before

\* How many of a set come before a member.
Rank(m, S) == Cardinality({k \in S : Before(k, m)})

\* The later of two members has more before it.
LEMMA RankGrows ==
  ASSUME TreeOK, NEW S \in SUBSET Members, NEW a \in S, NEW b \in S, Before(a, b)
  PROVE  Rank(a, S) \in Nat /\ Rank(b, S) \in Nat /\ Rank(a, S) < Rank(b, S)
<1> DEFINE A == {k \in S : Before(k, a)}
           B == {k \in S : Before(k, b)}
<1>1. IsFiniteSet(S)
  BY NodesType, FS_Subset
<1>2. A \subseteq B /\ a \in B /\ a \notin A
  BY BeforeOrders
<1>3. IsFiniteSet(A) /\ IsFiniteSet(B)
  BY <1>1, FS_Subset
<1>4. Rank(a, S) = Cardinality(A) /\ Rank(b, S) = Cardinality(B)
  BY DEF Rank
<1> HIDE DEF A, B
<1>5. Cardinality(A) \in Nat /\ Cardinality(B) \in Nat
  BY <1>3, FS_CardinalityType
<1>6. Cardinality(A) <= Cardinality(B) /\ (Cardinality(B) = Cardinality(A) => B = A)
  BY <1>2, <1>3, FS_Subset
<1> QED BY <1>2, <1>4, <1>5, <1>6

\* What was left out of a page comes after it.
LEMMA PagesAreFirst ==
  ASSUME TreeOK, NEW S \in SUBSET Members, NEW n \in Int,
         NEW k \in Earliest(n, S), NEW a \in S \ Earliest(n, S)
  PROVE  Before(k, a)
<1>1. k \in S /\ Rank(k, S) < n /\ ~(Rank(a, S) < n) /\ a # k
  BY DEF Earliest, Rank
<1>2. Before(a, k) => FALSE
  BY <1>1, RankGrows
<1> QED BY <1>1, <1>2, BeforeOrders

\* The last one of a set.
LEMMA LatestIsLast ==
  ASSUME TreeOK, NEW S \in SUBSET Members
  PROVE  /\ S = {} => Latest(S) = Start
         /\ S # {} => Latest(S) \in S /\ \A k \in S \ {Latest(S)} : Before(k, Latest(S))
<1>1. CASE S = {}
  BY <1>1 DEF Latest
<1>2. CASE S # {}
  <2>1. IsFiniteSet(S) /\ Cardinality(S) \in Nat
    BY NodesType, FS_Subset, FS_CardinalityType
  <2>2. \A k \in S : Rank(k, S) \in Nat /\ Rank(k, S) <= Cardinality(S)
    <3> SUFFICES ASSUME NEW k \in S PROVE Rank(k, S) \in Nat /\ Rank(k, S) <= Cardinality(S)
      OBVIOUS
    <3>1. {j \in S : Before(j, k)} \in SUBSET S
      OBVIOUS
    <3> QED BY <2>1, <3>1, FS_Subset, FS_CardinalityType DEF Rank
  <2> DEFINE Gaps == {Cardinality(S) - Rank(k, S) : k \in S}
  <2>3. Gaps \in SUBSET Nat /\ Gaps # {}
    BY <1>2, <2>1, <2>2
  <2>4. PICK g \in Gaps : \A h \in Gaps : g <= h
    BY <2>3, LeastNatural
  <2>5. PICK l \in S : g = Cardinality(S) - Rank(l, S)
    BY <2>4
  <2>6. ASSUME NEW k \in S \ {l} PROVE Before(k, l)
    <3>1. SUFFICES ASSUME Before(l, k) PROVE FALSE
      BY BeforeOrders
    <3>2. Rank(l, S) < Rank(k, S)
      BY <3>1, RankGrows
    <3>3. g <= Cardinality(S) - Rank(k, S)
      BY <2>4
    <3> QED BY <2>1, <2>2, <2>5, <3>2, <3>3
  <2>7. \E x \in S : \A k \in S \ {x} : Before(k, x)
    BY <2>6
  <2>8. Latest(S) = CHOOSE x \in S : \A k \in S \ {x} : Before(k, x)
    BY <1>2 DEF Latest
  <2> QED BY <1>2, <2>7, <2>8
<1> QED BY <1>1, <1>2

(***************************************************************************)
(* The rows of a context.                                                  *)
(***************************************************************************)
\* Rows below an anchor: whoever is on the way to one of them is one of them, and of the
\* recruits of a member the first ones are.
RowsOK(R, anchor, S) ==
  /\ R \subseteq S
  /\ \A r \in R :
       /\ anchor \in path[r] /\ r # anchor
       /\ \A a \in path[r] : anchor \in path[a] => a \in R \cup {anchor}
       /\ \A c \in S \ R : sponsor[c] = sponsor[r] => Before(r, c)

\* What has been loaded after a number of levels.
LoadOK(l, t, anchor, S) ==
  /\ RowsOK(l.rows, anchor, S)
  /\ \A r \in l.rows : Tier(r, anchor) <= t
  /\ l.frontier \subseteq l.rows \cup {anchor}
  /\ \A r \in l.frontier : Tier(r, anchor) <= t

\* The next level.
NextLoad(above, budget, S) ==
  LET next == Level(above.frontier, budget - Cardinality(above.rows), S)
  IN [rows |-> above.rows \cup next, frontier |-> next]

\* A level takes the first recruits of every parent, whatever the budget leaves.
LEMMA LevelIsFirst ==
  ASSUME TreeOK, NEW S \in SUBSET joined, NEW parents, NEW left \in Int
  PROVE  /\ Level(parents, left, S) \subseteq S
         /\ \A r \in Level(parents, left, S) :
              /\ sponsor[r] \in parents
              /\ \A c \in S \ Level(parents, left, S) : sponsor[c] = sponsor[r] => Before(r, c)
<1> DEFINE page == IF left < PageSize THEN left ELSE PageSize
           U == UNION {Earliest(page, Kids(p, S)) : p \in parents}
<1>1. page \in Int /\ S \subseteq Members
  BY SizeAssumption DEF TreeOK, TreeTypes
<1>2. Level(parents, left, S) = Earliest(left, U)
  BY DEF Level
<1>3. /\ \A p : Kids(p, S) \subseteq Members /\ Kids(p, S) \subseteq S
      /\ \A p : \A r \in Kids(p, S) : sponsor[r] = p
      /\ \A r \in S : r \in Kids(sponsor[r], S)
  BY <1>1 DEF Kids
<1>4. \A n, T : Earliest(n, T) \subseteq T
  BY DEF Earliest
<1> HIDE DEF page
<1>5. /\ U \in SUBSET Members /\ U \subseteq S
      /\ \A r \in U : sponsor[r] \in parents /\ r \in Earliest(page, Kids(sponsor[r], S))
  BY <1>3, <1>4
<1>6. ASSUME NEW r \in Earliest(left, U), NEW c \in S \ Earliest(left, U), sponsor[c] = sponsor[r]
      PROVE  Before(r, c)
  <2>1. r \in U /\ sponsor[r] \in parents /\ r \in Earliest(page, Kids(sponsor[r], S))
    BY <1>4, <1>5
  <2>2. CASE c \in U
    <3> HIDE DEF U
    <3> QED BY <1>5, <1>6, <2>2, PagesAreFirst
  <2>3. CASE c \notin U
    <3>1. c \in Kids(sponsor[r], S) /\ c \notin Earliest(page, Kids(sponsor[r], S))
      BY <1>3, <1>6, <2>1, <2>3
    <3> QED BY <1>1, <1>3, <2>1, <3>1, PagesAreFirst
  <2> QED BY <2>2, <2>3
<1> HIDE DEF U
<1> QED BY <1>2, <1>4, <1>5, <1>6

\* The next level keeps the rows the first ones.
LEMMA NextLoadOK ==
  ASSUME TreeOK, NEW S \in SUBSET joined, NEW anchor \in Here, NEW budget \in Int,
         NEW above, NEW t \in Nat, LoadOK(above, t, anchor, S)
  PROVE  LoadOK(NextLoad(above, budget, S), t + 1, anchor, S)
<1> DEFINE next == Level(above.frontier, budget - Cardinality(above.rows), S)
           rows == above.rows \cup next
<1>1. /\ NextLoad(above, budget, S).rows = rows
      /\ NextLoad(above, budget, S).frontier = next
  BY DEF NextLoad
<1>2. RowsOK(above.rows, anchor, S) /\ above.frontier \subseteq above.rows \cup {anchor}
  BY DEF LoadOK
<1>3. S \subseteq Members /\ S \subseteq Here /\ above.rows \subseteq S
  BY <1>2 DEF TreeOK, TreeTypes, Here, RowsOK
<1>4. Cardinality(above.rows) \in Nat
  BY <1>3, NodesType, FS_Subset, FS_CardinalityType
<1>5. /\ next \subseteq S
      /\ \A r \in next :
           /\ sponsor[r] \in above.frontier
           /\ \A c \in S \ next : sponsor[c] = sponsor[r] => Before(r, c)
  BY <1>4, LevelIsFirst
<1> HIDE DEF next
<1>6. ASSUME NEW r \in next
      PROVE  /\ anchor \in path[r] /\ r # anchor /\ Tier(r, anchor) <= t + 1
             /\ \A a \in path[r] : anchor \in path[a] => a \in rows \cup {anchor}
  <2>1. r \in joined /\ sponsor[r] \in above.frontier /\ sponsor[r] \in above.rows \cup {anchor}
    BY <1>2, <1>5
  <2>2. /\ sponsor[r] \in Here /\ sponsor[r] \in path[r] /\ r \notin path[sponsor[r]]
        /\ path[r] = {r} \cup path[sponsor[r]]
    BY <2>1, Above
  <2>3. anchor \in path[sponsor[r]]
    BY <1>2, <2>1, PathType DEF RowsOK
  <2>4. anchor \in path[r] /\ r # anchor
    <3>1. CASE r = anchor
      BY <2>1, <2>2, <2>3, <3>1
    <3> QED BY <2>2, <2>3, <3>1
  <2>5. Tier(r, anchor) <= t + 1
    <3>1. Tier(r, anchor) = Tier(sponsor[r], anchor) + 1 /\ Tier(sponsor[r], anchor) \in Nat
      BY <2>1, <2>2, <2>3, <2>4, TierSteps DEF Here
    <3>2. Tier(sponsor[r], anchor) <= t
      BY <2>1 DEF LoadOK
    <3> QED BY <3>1, <3>2
  <2>6. ASSUME NEW a \in path[r], anchor \in path[a] PROVE a \in rows \cup {anchor}
    <3>1. CASE a = r
      BY <3>1
    <3>2. CASE a # r /\ sponsor[r] = anchor
      <4>1. a \in path[anchor] /\ a \in Here
        BY <2>2, <3>2, PathType
      <4> QED BY <2>6, <4>1, NoCycles
    <3>3. CASE a # r /\ sponsor[r] # anchor
      BY <1>2, <2>1, <2>2, <2>6, <3>3 DEF RowsOK
    <3> QED BY <3>1, <3>2, <3>3
  <2> QED BY <2>4, <2>5, <2>6
<1>7. ASSUME NEW r \in rows, NEW c \in S \ rows, sponsor[c] = sponsor[r] PROVE Before(r, c)
  BY <1>2, <1>5, <1>7 DEF RowsOK
<1>8. RowsOK(rows, anchor, S)
  BY <1>2, <1>5, <1>6, <1>7 DEF RowsOK
<1>9. \A r \in rows : Tier(r, anchor) <= t + 1
  <2>1. \A r \in above.rows : Tier(r, anchor) <= t + 1
    <3> SUFFICES ASSUME NEW r \in above.rows PROVE Tier(r, anchor) <= t + 1
      OBVIOUS
    <3>1. r \in Here /\ anchor \in path[r]
      BY <1>2, <1>3 DEF RowsOK
    <3>2. Tier(r, anchor) \in Nat /\ Tier(r, anchor) <= t
      BY <3>1, TierSteps DEF LoadOK
    <3> QED BY <3>2
  <2> QED BY <1>6, <2>1
<1> HIDE DEF rows
<1> QED
  <2>1. next \subseteq rows
    BY DEF rows
  <2> QED BY <1>1, <1>8, <1>9, <2>1 DEF LoadOK

\* The levels below an anchor, for any number of them: contextRows in contextFrom.
LEMMA ContextRowsOK ==
  ASSUME TreeOK, NEW S \in SUBSET joined, NEW anchor \in Here, NEW budget \in Int,
         NEW levels \in Nat
  PROVE  LET R == ContextRows(anchor, levels, budget, S)
         IN  RowsOK(R, anchor, S) /\ \A r \in R : Tier(r, anchor) <= levels
<1> DEFINE first == [rows |-> {}, frontier |-> {anchor}]
           Loads(f, n) == f = [t \in 0 .. n |-> IF t = 0 THEN first
                                               ELSE NextLoad(f[t - 1], budget, S)]
           load == CHOOSE f : Loads(f, levels)
<1>1. ContextRows(anchor, levels, budget, S) = load[levels].rows
  BY DEF ContextRows, NextLoad
<1>2. ASSUME NEW n \in Nat PROVE \E f : Loads(f, n)
  <2> DEFINE Bad == {k \in Nat : ~\E f : Loads(f, k)}
  <2>1. SUFFICES ASSUME Bad # {} PROVE FALSE
    OBVIOUS
  <2>2. PICK k \in Bad : \A j \in Bad : k <= j
    <3>1. Bad \in SUBSET Nat
      OBVIOUS
    <3> HIDE DEF Bad
    <3> QED BY <2>1, <3>1, LeastNatural
  <2>3. k # 0
    <3>1. Loads([t \in 0 .. 0 |-> first], 0)
      OBVIOUS
    <3> HIDE DEF Loads
    <3> QED BY <2>2, <3>1
  <2>4. k - 1 \in Nat /\ k - 1 \notin Bad
    <3>1. k \in Nat
      BY <2>2
    <3> HIDE DEF Bad
    <3> QED BY <2>2, <2>3, <3>1
  <2>5. PICK f : Loads(f, k - 1)
    BY <2>4
  <2> DEFINE g == [t \in 0 .. k |-> IF t = k THEN NextLoad(f[k - 1], budget, S) ELSE f[t]]
  <2>6. \A t \in 0 .. k : g[t] = IF t = 0 THEN first ELSE NextLoad(g[t - 1], budget, S)
    <3> HIDE DEF first
    <3> QED BY <2>3, <2>4, <2>5
  <2>7. g = [t \in 0 .. k |-> g[t]]
    OBVIOUS
  <2>8. Loads(g, k)
    <3> HIDE DEF g, first
    <3> QED BY <2>6, <2>7
  <2> HIDE DEF Loads
  <2> QED BY <2>2, <2>8
<1>3. \A t \in 0 .. levels : load[t] = IF t = 0 THEN first ELSE NextLoad(load[t - 1], budget, S)
  <2>1. Loads(load, levels)
    BY <1>2
  <2> HIDE DEF load, first
  <2> QED BY <2>1
<1> HIDE DEF load, Loads
<1>4. LoadOK(first, 0, anchor, S)
  BY TierSteps, PathType DEF LoadOK, RowsOK
<1> HIDE DEF first
<1>5. LoadOK(load[levels], levels, anchor, S)
  <2> DEFINE Bad == {t \in 0 .. levels : ~LoadOK(load[t], t, anchor, S)}
  <2>1. SUFFICES ASSUME Bad # {} PROVE FALSE
    OBVIOUS
  <2>2. PICK t \in Bad : \A j \in Bad : t <= j
    <3>1. Bad \in SUBSET Nat
      OBVIOUS
    <3> HIDE DEF Bad
    <3> QED BY <2>1, <3>1, LeastNatural
  <2>3. t # 0
    BY <1>3, <1>4, <2>2
  <2>4. t - 1 \in Nat /\ t - 1 \in 0 .. levels /\ LoadOK(load[t - 1], t - 1, anchor, S)
    BY <2>2, <2>3
  <2>5. LoadOK(NextLoad(load[t - 1], budget, S), (t - 1) + 1, anchor, S)
    BY <2>4, NextLoadOK
  <2>6. load[t] = NextLoad(load[t - 1], budget, S) /\ (t - 1) + 1 = t
    BY <1>3, <2>2, <2>3
  <2> QED BY <2>2, <2>5, <2>6
<1> QED BY <1>1, <1>5 DEF LoadOK

(***************************************************************************)
(* The view.                                                               *)
(***************************************************************************)
\* Between the reads of a context, in the state that its transaction reads ...
ReadingTypes ==
  /\ view = [step |-> "reading", kind |-> view.kind, at |-> view.at, anchor |-> view.anchor,
             db |-> view.db, total |-> view.total, rows |-> view.rows]
  /\ view.kind \in {"admin", "member"}
  /\ view.at \in Nat /\ view.at <= clock
  /\ view.db \subseteq joined
  /\ \A m \in view.db : path[m] \subseteq view.db \cup {TenantRoot}
  /\ view.anchor \in view.db \cup {TenantRoot}
  /\ view.anchor \in view.db => stamp[view.anchor] <= view.at
  /\ view.kind = "member" => view.anchor # TenantRoot

\* ... the first rows were loaded, and the total was counted.
ReadingCounts ==
  /\ RowsOK(view.rows, view.anchor, AsOf(view.db))
  /\ view.kind = "admin" => view.total = Cardinality(Under({view.anchor}, AsOf(view.db)))
  /\ view.kind = "member" =>
       /\ view.total = Cardinality(MemberTiers(view.anchor, AsOf(view.db))) + 1
       /\ \A r \in view.rows : Tier(r, view.anchor) <= MaxTier

ReadingOK == ReadingTypes /\ ReadingCounts

\* A list and a search page through one set; a context through one per branch.
Flat == view.kind \in {"list", "search", "direct"}

\* The members a token pages through.
Among(t, m) == view.kind \in {"list", "search"} \/ sponsor[m] = t.parent

OpenTypes ==
  /\ view = [step |-> "open", kind |-> view.kind, at |-> view.at, anchor |-> view.anchor,
             total |-> view.total, represented |-> view.represented,
             tokens |-> view.tokens, seen |-> view.seen, promised |-> view.promised,
             match |-> view.match]
  /\ view.kind \in {"admin", "member", "list", "search", "direct"}
  /\ view.at \in Nat /\ view.at <= clock
  /\ view.anchor \in Here
  /\ view.kind = "search" => view.anchor = TenantRoot
  /\ ~Flat \/ view.kind = "list" => view.match = Members
  /\ view.tokens \subseteq [parent : Here, after : joined \cup {Start}]
  /\ view.seen \in [Members -> Nat]
  /\ view.promised \subseteq {m \in joined : stamp[m] <= view.at}

\* Only members of the scope are shown, and below the anchor nobody before its sponsor.
Shown ==
  \A m \in Members : view.seen[m] > 0 =>
    /\ m \in joined /\ stamp[m] <= view.at /\ InScope(m)
    /\ ~Flat => \/ m = view.anchor \/ sponsor[m] = view.anchor
                \/ sponsor[m] \in Members /\ view.seen[sponsor[m]] > 0

\* A token is for the anchor or for a member that was shown, and lies behind all the
\* recruits of its parent that were shown.
Tokens ==
  /\ \A t \in view.tokens :
       \/ t.parent = view.anchor
       \/ ~Flat /\ t.parent \in Members /\ view.seen[t.parent] > 0
  /\ \A t, u \in view.tokens : t.parent = u.parent => t = u
  /\ \A t \in view.tokens, m \in Members :
       view.seen[m] > 0 /\ Among(t, m) => t.after # Start /\ ~Before(t.after, m)

\* The parts of the invariant that are properties themselves, of an open view.
Missed ==
  \A m \in view.promised : InScope(m) =>
    \/ view.seen[m] > 0
    \/ \E t \in view.tokens : \E a \in path[m] \ {TenantRoot} :
         /\ t.after = Start \/ Before(t.after, a)
         /\ IF view.kind \in {"list", "search"} THEN a = m ELSE sponsor[a] = t.parent

OpenOK ==
  /\ OpenTypes /\ Shown /\ Tokens /\ Missed
  /\ \A m \in Members : view.seen[m] <= 1
  /\ ContextIsComplete

ViewOK ==
  \/ view = Closed
  \/ view.step = "reading" /\ ReadingOK
  \/ view.step = "open" /\ OpenOK

(***************************************************************************)
(* Steps that leave the view alone.                                        *)
(***************************************************************************)
\* The tree may have grown, but not above anybody who was there.
TreeKept ==
  /\ joined \subseteq joined'
  /\ path'[TenantRoot] = path[TenantRoot]
  /\ \A k \in joined : stamp'[k] = stamp[k] /\ path'[k] = path[k] /\ sponsor'[k] = sponsor[k]

\* Who is there is where it was: order, levels and scope are the same.
LEMMA KeptPlaces ==
  ASSUME TreeOK, TreeKept
  PROVE  /\ \A m \in Here : path'[m] = path[m] /\ \A a \in path[m] : path'[a] = path[a]
         /\ \A a, b \in joined : Before(a, b)' <=> Before(a, b)
         /\ \A m \in Here : \A a : Cardinality({k \in path'[m] : k = a \/ a \in path'[k]})
                                     = Cardinality({k \in path[m] : k = a \/ a \in path[k]})
<1>1. \A m \in Here : path'[m] = path[m]
  BY DEF TreeKept, Here
<1>2. \A m \in Here : \A a \in path[m] : path'[a] = path[a]
  BY <1>1, PathType
<1>3. \A a, b \in joined : Before(a, b)' <=> Before(a, b)
  BY DEF TreeKept, Before
<1>4. \A m \in Here : \A a : {k \in path'[m] : k = a \/ a \in path'[k]} = {k \in path[m] : k = a \/ a \in path[k]}
  BY <1>1, <1>2
<1>5. \A m \in Here : \A a : Cardinality({k \in path'[m] : k = a \/ a \in path'[k]})
                                     = Cardinality({k \in path[m] : k = a \/ a \in path[k]})
  BY <1>4
<1> QED BY <1>1, <1>2, <1>3, <1>5

\* Levels are counted along paths, which are the same.
LEMMA KeptTiers ==
  ASSUME TreeOK, TreeKept, NEW m \in Here, NEW a
  PROVE  Tier(m, a)' = Tier(m, a)
BY KeptPlaces DEF Tier

\* A context that is being read keeps the state it reads.
LEMMA ReadingKept ==
  ASSUME TreeOK, TreeKept, UNCHANGED view, clock \in Nat, clock' \in Nat, clock <= clock', ReadingOK
  PROVE  ReadingOK'
<1>1. /\ view.db \subseteq joined /\ view.db \subseteq Members /\ AsOf(view.db) \subseteq view.db
      /\ view.at \in Nat /\ view.rows \subseteq AsOf(view.db)
  BY DEF ReadingOK, ReadingTypes, ReadingCounts, RowsOK, TreeOK, TreeTypes, AsOf
<1>2. \A m \in Here : path'[m] = path[m]
  BY KeptPlaces
<1>3. AsOf(view.db)' = AsOf(view.db)
  BY <1>1 DEF AsOf, TreeKept
<1>4. RowsOK(view.rows, view.anchor, AsOf(view.db))'
  <2>1. RowsOK(view.rows, view.anchor, AsOf(view.db))
    BY DEF ReadingOK, ReadingCounts
  <2>2. \A r \in view.rows : /\ path'[r] = path[r] /\ \A a \in path[r] : path'[a] = path[a]
    BY <1>1, KeptPlaces DEF Here
  <2>3. \A r, c \in AsOf(view.db) : Before(r, c)' <=> Before(r, c)
    BY <1>1, KeptPlaces
  <2>4. \A r \in AsOf(view.db) : sponsor'[r] = sponsor[r]
    BY <1>1 DEF TreeKept
  <2> QED BY <1>1, <1>3, <2>1, <2>2, <2>3, <2>4 DEF RowsOK
<1>5. Under({view.anchor}, AsOf(view.db))' = Under({view.anchor}, AsOf(view.db))
  BY <1>1, <1>2, <1>3 DEF Under, Here
<1>6. MemberTiers(view.anchor, AsOf(view.db))' = MemberTiers(view.anchor, AsOf(view.db))
  <2>1. \A m \in AsOf(view.db) : Tier(m, view.anchor)' = Tier(m, view.anchor)
    BY <1>1, KeptTiers DEF Here
  <2> QED BY <1>3, <2>1 DEF MemberTiers
<1>7. \A r \in view.rows : Tier(r, view.anchor)' = Tier(r, view.anchor)
  BY <1>1, KeptTiers DEF Here
<1>8. ReadingTypes'
  <2>1. \A m \in view.db : path'[m] = path[m] /\ stamp'[m] = stamp[m]
    BY <1>1 DEF TreeKept
  <2>2. view.at <= clock' /\ view.db \subseteq joined'
    BY <1>1 DEF ReadingOK, ReadingTypes, TreeKept
  <2> QED BY <1>1, <2>1, <2>2 DEF ReadingOK, ReadingTypes
<1>9. ReadingCounts'
  BY <1>4, <1>5, <1>6, <1>7 DEF ReadingOK, ReadingCounts
<1> QED BY <1>8, <1>9 DEF ReadingOK

\* Nor does the tree grow into or out of the scope of a view.
LEMMA KeptScope ==
  ASSUME TreeOK, TreeKept, UNCHANGED view, NEW m \in joined
  PROVE  InScope(m)' <=> InScope(m)
<1>1. path'[m] = path[m] /\ sponsor'[m] = sponsor[m]
  BY DEF TreeKept
<1>2. Tier(m, view.anchor)' = Tier(m, view.anchor)
  BY KeptTiers DEF Here
<1> QED BY <1>1, <1>2 DEF InScope

\* An open view: a member that has joined since is neither shown nor promised.
LEMMA OpenKept ==
  ASSUME TreeOK, TreeKept, UNCHANGED view, clock \in Nat, clock' \in Nat, clock <= clock',
         view.step = "open", OpenOK, joined' \subseteq Members
  PROVE  OpenOK'
<1> USE NodesType DEF OpenOK
<1>1. /\ joined \subseteq Members /\ view.promised \subseteq joined /\ joined \subseteq joined'
      /\ \A m \in Members : view.seen[m] > 0 => m \in joined
      /\ \A t \in view.tokens : t.parent \in Here /\ t.after \in joined \cup {Start}
      /\ view.at \in Nat /\ Flat' = Flat
  BY DEF OpenTypes, Shown, TreeOK, TreeTypes, TreeKept, Flat
<1>2. \A m \in joined : /\ InScope(m)' <=> InScope(m)
                        /\ path'[m] = path[m] /\ stamp'[m] = stamp[m] /\ sponsor'[m] = sponsor[m]
                        /\ path[m] \subseteq Here
  BY KeptScope, PathType DEF TreeKept, Here
<1>3. \A a, b \in joined : Before(a, b)' <=> Before(a, b)
  BY KeptPlaces
<1>4. OpenTypes'
  <2>1. view.at <= clock'
    BY DEF OpenTypes
  <2>2. Here \subseteq Here'
    BY <1>1 DEF Here
  <2>3. view.promised \subseteq {m \in joined' : stamp'[m] <= view.at}
    BY <1>1, <1>2 DEF OpenTypes
  <2> QED BY <1>1, <2>1, <2>2, <2>3 DEF OpenTypes
<1>5. Shown'
  BY <1>1, <1>2 DEF Shown
<1>6. Tokens'
  <2>1. \A t \in view.tokens, m \in Members : view.seen[m] > 0 => (Among(t, m)' <=> Among(t, m))
    BY <1>1, <1>2 DEF Among
  <2>2. \A t \in view.tokens, m \in Members :
          view.seen[m] > 0 /\ t.after # Start => (Before(t.after, m)' <=> Before(t.after, m))
    BY <1>1, <1>3
  <2> QED BY <1>1, <2>1, <2>2 DEF Tokens
<1>7. Missed'
  <2> SUFFICES ASSUME NEW m \in view'.promised, InScope(m)'
               PROVE  \/ view'.seen[m] > 0
                      \/ \E t \in view'.tokens : \E a \in path'[m] \ {TenantRoot} :
                           /\ t.after = Start \/ Before(t.after, a)'
                           /\ IF view'.kind \in {"list", "search"} THEN a = m
                              ELSE sponsor'[a] = t.parent
    BY DEF Missed
  <2> SUFFICES ASSUME ~(view.seen[m] > 0)
               PROVE  \E t \in view.tokens : \E a \in path[m] \ {TenantRoot} :
                           /\ t.after = Start \/ Before(t.after, a)'
                           /\ IF view.kind \in {"list", "search"} THEN a = m
                              ELSE sponsor'[a] = t.parent
    BY <1>1, <1>2
  <2>0. m \in view.promised /\ m \in joined /\ InScope(m)
    BY <1>1, <1>2
  <2>1. PICK t \in view.tokens : \E a \in path[m] \ {TenantRoot} :
          /\ t.after = Start \/ Before(t.after, a)
          /\ IF view.kind \in {"list", "search"} THEN a = m ELSE sponsor[a] = t.parent
    BY <2>0 DEF Missed
  <2>2. PICK a \in path[m] \ {TenantRoot} :
          /\ t.after = Start \/ Before(t.after, a)
          /\ IF view.kind \in {"list", "search"} THEN a = m ELSE sponsor[a] = t.parent
    BY <2>1
  <2>3. m \in joined /\ a \in joined
    BY <1>2, <2>0, <2>2 DEF Here
  <2> QED BY <1>1, <1>2, <1>3, <2>2, <2>3
<1>8. ContextIsComplete'
  BY DEF ContextIsComplete
<1> QED BY <1>4, <1>5, <1>6, <1>7, <1>8

\* A step of the tree or of the clock.
LEMMA ViewKept ==
  ASSUME TreeOK, TreeOK', TreeKept, UNCHANGED view, clock <= clock', ViewOK
  PROVE  ViewOK'
<1>1. clock \in Nat /\ clock' \in Nat /\ joined' \subseteq Members
  BY DEF TreeOK, TreeTypes, Members
<1>2. CASE view = Closed
  BY <1>2 DEF ViewOK, Closed
<1>3. CASE view.step = "reading" /\ ReadingOK
  BY <1>1, <1>3, ReadingKept DEF ViewOK
<1>4. CASE view.step = "open" /\ OpenOK
  BY <1>1, <1>4, OpenKept DEF ViewOK
<1> QED BY <1>2, <1>3, <1>4 DEF ViewOK

(***************************************************************************)
(* Views are opened.                                                       *)
(***************************************************************************)
\* The rows of a database that count now.
Now(S) == {m \in S : stamp[m] <= clock}

\* The first answer of a context, of rows that are the first ones of the present state.
LEMMA ReadingOpened ==
  ASSUME TreeOK, UNCHANGED <<clock, tree>>, NEW kind \in {"admin", "member"},
         NEW a \in Here, NEW total, NEW R, view' = Reading(kind, a, total, R),
         RowsOK(R, a, Now(joined)),
         kind = "admin" => total = Cardinality(Under({a}, Now(joined))),
         kind = "member" => /\ a # TenantRoot
                            /\ total = Cardinality(MemberTiers(a, Now(joined))) + 1
                            /\ \A r \in R : Tier(r, a) <= MaxTier
  PROVE  ReadingOK'
<1>1. UNCHANGED <<clock, joined, stamp, path, sponsor>>
  BY DEF tree
<1>2. view' = [step |-> "reading", kind |-> kind, at |-> clock, anchor |-> a, db |-> joined,
               total |-> total, rows |-> R]
  BY DEF Reading
<1>3. AsOf(view.db)' = Now(joined)
  BY <1>1, <1>2 DEF AsOf, Now
<1>4. ReadingTypes'
  <2>1. clock \in Nat /\ \A m \in joined : stamp[m] <= clock /\ path[m] \subseteq Here
    BY PathType DEF TreeOK, TreeTypes, Placed, Here
  <2> QED BY <1>1, <1>2, <2>1 DEF ReadingTypes, Here
<1>5. RowsOK(view.rows, view.anchor, AsOf(view.db))'
  BY <1>1, <1>2, <1>3 DEF RowsOK, Before
<1>6. Under({view.anchor}, AsOf(view.db))' = Under({a}, Now(joined))
  BY <1>1, <1>2, <1>3 DEF Under
<1>7. \A m : Tier(m, view.anchor)' = Tier(m, a)
  BY <1>1, <1>2 DEF Tier
<1>8. MemberTiers(view.anchor, AsOf(view.db))' = MemberTiers(a, Now(joined))
  BY <1>3, <1>7 DEF MemberTiers
<1>9. ReadingCounts'
  BY <1>2, <1>5, <1>6, <1>7, <1>8 DEF ReadingCounts
<1> QED BY <1>4, <1>9 DEF ReadingOK

\* An administrator's context of the tenant, or of a focus and what is below it.
LEMMA OpenAdminContextKeepsView ==
  ASSUME TreeOK, NEW a, NEW d \in 1 .. MaxDepth, OpenAdminContext(a, d)
  PROVE  ViewOK'
<1> USE DEF Here
<1>1. a \in Here /\ UNCHANGED <<clock, tree>> /\ Now(joined) \in SUBSET joined
      /\ MaxDepth \in Nat /\ Budget \in Nat /\ d \in Nat /\ d - 1 \in Nat /\ Budget - 1 \in Int
  BY SizeAssumption DEF OpenAdminContext, Now
<1> DEFINE R == IF a = TenantRoot THEN ContextRows(a, d, Budget, Now(joined))
                ELSE ContextRows(a, d - 1, Budget - 1, Now(joined))
           total == Cardinality(Under({a}, Now(joined)))
<1>2. view' = Reading("admin", a, total, R)
  BY DEF OpenAdminContext, Now
<1>3. RowsOK(R, a, Now(joined))
  <2>1. \A budget \in Int, levels \in Nat :
          RowsOK(ContextRows(a, levels, budget, Now(joined)), a, Now(joined))
    BY <1>1, ContextRowsOK
  <2> QED BY <1>1, <2>1
<1> HIDE DEF R, total
<1>4. total = Cardinality(Under({a}, Now(joined)))
  BY DEF total
<1>5. ReadingOK'
  BY <1>1, <1>2, <1>3, <1>4, ReadingOpened
<1>6. view'.step = "reading"
  BY <1>2 DEF Reading
<1> QED BY <1>5, <1>6 DEF ViewOK

\* A member's context.
LEMMA OpenMemberContextKeepsView ==
  ASSUME TreeOK, NEW a, OpenMemberContext(a)
  PROVE  ViewOK'
<1> USE DEF Here
<1>1. a \in Here /\ a # TenantRoot /\ UNCHANGED <<clock, tree>> /\ Now(joined) \in SUBSET joined
      /\ MaxTier \in Nat /\ Budget - 1 \in Int
  BY SizeAssumption, NodesType DEF OpenMemberContext, Now, TreeOK, TreeTypes
<1> DEFINE R == ContextRows(a, MaxTier, Budget - 1, Now(joined))
           total == Cardinality(MemberTiers(a, Now(joined))) + 1
<1>2. view' = Reading("member", a, total, R)
  BY DEF OpenMemberContext, Now
<1>3. RowsOK(R, a, Now(joined)) /\ \A r \in R : Tier(r, a) <= MaxTier
  BY <1>1, ContextRowsOK
<1> HIDE DEF R, total
<1>4. total = Cardinality(MemberTiers(a, Now(joined))) + 1
  BY DEF total
<1>5. ReadingOK'
  BY <1>1, <1>2, <1>3, <1>4, ReadingOpened
<1>6. view'.step = "reading"
  BY <1>2 DEF Reading
<1> QED BY <1>5, <1>6 DEF ViewOK

\* The first token of a list or a search leads to everybody who fits.
LEMMA OpenFlatKeepsView ==
  ASSUME TreeOK, NEW kind \in {"list", "search", "direct"}, NEW a \in Here, NEW match,
         kind = "search" => a = TenantRoot, kind = "list" => match = Members,
         OpenFlat(kind, a, match)
  PROVE  ViewOK'
<1> USE NodesType
<1>1. UNCHANGED <<clock, joined, stamp, path, sponsor>>
  BY DEF OpenFlat, tree
<1>2. view' = [step |-> "open", kind |-> kind, at |-> clock, anchor |-> a,
               total |-> 0, represented |-> 0, tokens |-> {[parent |-> a, after |-> Start]},
               seen |-> [m \in Members |-> 0], promised |-> Now(joined), match |-> match]
  BY DEF OpenFlat, Now
<1>3. joined \subseteq Members /\ Now(joined) \subseteq joined /\ clock \in Nat /\ Flat'
  BY <1>2 DEF Now, TreeOK, TreeTypes, Flat
<1>4. OpenTypes'
  BY <1>1, <1>2, <1>3 DEF OpenTypes, Here, Now
<1>5. Shown' /\ Tokens' /\ (\A m \in Members : view.seen[m] <= 1)' /\ ContextIsComplete'
  BY <1>2 DEF Shown, Tokens, ContextIsComplete
<1>6. Missed'
  <2>1. ASSUME NEW m \in Now(joined), kind = "direct" => sponsor[m] = a
        PROVE  \E t \in view'.tokens : \E b \in path'[m] \ {TenantRoot} :
                 /\ t.after = Start \/ Before(t.after, b)'
                 /\ IF view'.kind \in {"list", "search"} THEN b = m ELSE sponsor'[b] = t.parent
    <3>1. m \in path[m] \ {TenantRoot}
      BY <1>3, PathType DEF Here
    <3> QED BY <1>1, <1>2, <2>1, <3>1
  <2>2. \A m : InScope(m)' => (kind = "direct" => sponsor[m] = a)
    BY <1>1, <1>2 DEF InScope
  <2>3. view'.promised = Now(joined)
    BY <1>2
  <2> QED BY <2>1, <2>2, <2>3 DEF Missed
<1>7. OpenOK' /\ view'.step = "open"
  BY <1>2, <1>4, <1>5, <1>6 DEF OpenOK
<1> QED BY <1>7 DEF ViewOK

(***************************************************************************)
(* A context is answered.                                                  *)
(***************************************************************************)
\* What the later reads see: the members that were loaded, their ancestors and recruits.
LEMMA SnapshotFacts ==
  ASSUME TreeOK, ReadingOK
  PROVE  /\ AsOf(Snapshot) \subseteq joined /\ AsOf(Snapshot) \subseteq Members
         /\ view.anchor \in Here
         /\ view.rows \subseteq AsOf(Snapshot)
         /\ Loaded \subseteq AsOf(Snapshot) /\ Loaded \subseteq Parents
         /\ Parents \subseteq Here /\ Rest \subseteq AsOf(Snapshot)
         /\ \A p \in Parents : view.anchor \in path[p] /\ p \in Loaded \cup {TenantRoot}
         /\ \A m \in AsOf(Snapshot) : \A k \in path[m] \ {TenantRoot} : k \in AsOf(Snapshot)
         /\ \A m \in view.rows : \A k \in path[m] : view.anchor \in path[k] => k \in Parents
<1> USE DEF ReadingOK, ReadingTypes, ReadingCounts, RowsOK, Snapshot
<1>1. /\ AsOf(Snapshot) \subseteq joined /\ joined \subseteq Members /\ TenantRoot \notin joined
      /\ AsOf(Snapshot) \subseteq Snapshot /\ Snapshot \subseteq joined
      /\ view.at \in Nat /\ \A m \in joined : stamp[m] \in Nat
  BY NodesType DEF AsOf, TreeOK, TreeTypes
<1>2. view.anchor \in Here /\ view.rows \subseteq AsOf(Snapshot)
  BY DEF Here
<1>3. view.anchor \in path[view.anchor]
  BY <1>2, PathType
<1>4. view.anchor # TenantRoot => view.anchor \in AsOf(Snapshot)
  BY <1>1 DEF AsOf
<1>5. \A p \in Parents : view.anchor \in path[p]
  BY <1>3 DEF Parents
<1>6. \A m \in AsOf(Snapshot) : \A k \in path[m] \ {TenantRoot} : k \in AsOf(Snapshot)
  <2> SUFFICES ASSUME NEW m \in AsOf(Snapshot), NEW k \in path[m] \ {TenantRoot} PROVE k \in AsOf(Snapshot)
    OBVIOUS
  <2>1. k \in view.db
    BY <1>1
  <2>2. stamp[k] <= stamp[m]
    BY <1>1 DEF TreeOK, Ordered
  <2>3. stamp[k] \in Nat /\ stamp[m] \in Nat /\ stamp[m] <= view.at
    BY <1>1, <2>1 DEF AsOf
  <2> QED BY <1>1, <2>1, <2>2, <2>3 DEF AsOf
<1>7. \A m \in view.rows : \A k \in path[m] : view.anchor \in path[k] => k \in Parents
  BY DEF Parents
<1>8. Loaded \subseteq AsOf(Snapshot) /\ Loaded \subseteq Parents
  BY <1>2, <1>4 DEF Loaded, Parents
<1>9. Parents \subseteq Here /\ Rest \subseteq AsOf(Snapshot) /\ \A p \in Parents : p \in Loaded \cup {TenantRoot}
  BY <1>1, <1>2 DEF Parents, Rest, Here, Loaded
<1> QED BY <1>1, <1>2, <1>5, <1>6, <1>7, <1>8, <1>9

\* On the way down to a member of the branch that was not loaded there is one whose
\* sponsor was.
LEMMA WayIn ==
  ASSUME TreeOK, ReadingOK, NEW m \in AsOf(Snapshot), view.anchor \in path[m], m \notin Parents
  PROVE  \E k \in path[m] \ {TenantRoot} : k \in Rest
<1> DEFINE A == view.anchor
           Out == {k \in path[m] : A \in path[k] /\ k \notin Parents}
           Levels == {Tier(k, A) : k \in Out}
<1>1. m \in Here /\ path[m] \subseteq Here /\ m \in path[m]
  BY SnapshotFacts, PathType DEF Here
<1>2. Out \subseteq Here /\ Out # {}
  BY <1>1
<1>3. Levels \in SUBSET Nat /\ Levels # {}
  <2>1. \A k \in Out : Tier(k, A) \in Nat
    BY <1>2, TierSteps
  <2> QED BY <1>2, <2>1
<1>4. PICK t \in Levels : \A u \in Levels : t <= u
  <2> HIDE DEF Levels
  <2> QED BY <1>3, LeastNatural
<1>5. PICK k \in Out : t = Tier(k, A)
  BY <1>4
<1>6. k # A
  BY <1>5 DEF Parents
<1>7. k \in joined /\ A \in path[sponsor[k]] /\ Tier(k, A) = Tier(sponsor[k], A) + 1
  BY <1>2, <1>5, <1>6, TierSteps
<1>8. sponsor[k] \in Here /\ sponsor[k] \in path[k]
  BY <1>7, Above
<1>9. sponsor[k] \in path[m]
  BY <1>1, <1>5, <1>8, PathType
<1>10. sponsor[k] \in Parents
  <2>1. Tier(sponsor[k], A) \in Nat
    BY <1>7, <1>8, TierSteps
  <2>2. sponsor[k] \in Out => t <= Tier(sponsor[k], A)
    BY <1>4
  <2> QED BY <1>5, <1>7, <1>9, <2>1, <2>2
<1>11. k \in path[m] \ {TenantRoot} /\ k \in AsOf(Snapshot)
  <2>1. k # TenantRoot
    BY <1>7, NodesType DEF TreeOK, TreeTypes
  <2> QED BY <1>5, <2>1, SnapshotFacts
<1> QED BY <1>5, <1>10, <1>11 DEF Rest

\* Loaded members and the branches below the others are the whole branch of the anchor,
\* counted once: branchNodeCount and clusters of an administrator's context.
LEMMA BranchIsCounted ==
  ASSUME TreeOK, ReadingOK
  PROVE  Cardinality(Loaded) + Cardinality(Under(Rest, AsOf(Snapshot)))
           = Cardinality(Under({view.anchor}, AsOf(Snapshot)))
<1> DEFINE A == view.anchor
           S == AsOf(Snapshot)
           B == Under(Rest, S)
<1>1. S \subseteq Members /\ Loaded \subseteq S /\ B \subseteq S /\ IsFiniteSet(S) /\ S \subseteq Here
      /\ Loaded \subseteq Parents
  <2>1. S \subseteq Members /\ Loaded \subseteq S /\ S \subseteq joined /\ Loaded \subseteq Parents
    BY SnapshotFacts
  <2>2. B \subseteq S
    BY DEF Under
  <2>3. IsFiniteSet(S)
    BY <2>1, NodesType, FS_Subset
  <2> QED BY <2>1, <2>2, <2>3 DEF Here
<1>2. \A k \in Rest : k \notin Parents /\ k \in joined /\ A \in path[k] /\ sponsor[k] \in path[k]
  <2> SUFFICES ASSUME NEW k \in Rest
               PROVE  k \notin Parents /\ k \in joined /\ A \in path[k] /\ sponsor[k] \in path[k]
    OBVIOUS
  <2>1. k \notin Parents /\ k \in joined /\ sponsor[k] \in Parents
    BY SnapshotFacts DEF Rest
  <2>2. A \in path[sponsor[k]] /\ path[k] = {k} \cup path[sponsor[k]] /\ sponsor[k] \in path[k]
    BY <2>1, Above, SnapshotFacts
  <2> QED BY <2>1, <2>2
<1>3. Loaded \cap B = {}
  <2> SUFFICES ASSUME NEW m \in Loaded, NEW k \in path[m], k \in Rest PROVE FALSE
    BY DEF Under
  <2>1. A \in path[k] /\ k \notin Parents /\ k \in Here
    BY <1>2 DEF Here
  <2>2. CASE m \in view.rows
    BY <2>1, <2>2, SnapshotFacts
  <2>3. CASE m = A
    <3>1. k = A
      BY <2>1, <2>3, NoCycles, SnapshotFacts
    <3> QED BY <2>1, <3>1 DEF Parents
  <2> QED BY <2>2, <2>3 DEF Loaded
<1>4. Loaded \cup B = Under({A}, S)
  <2>1. ASSUME NEW m \in Loaded PROVE m \in Under({A}, S)
    <3>1. A \in path[m] /\ m \in S
      BY <1>1, SnapshotFacts
    <3> QED BY <3>1 DEF Under
  <2>2. ASSUME NEW m \in B PROVE m \in Under({A}, S)
    <3>1. PICK k \in path[m] : k \in Rest
      BY DEF Under
    <3>2. A \in path[k] /\ m \in Here
      BY <1>1, <1>2, <3>1
    <3>3. A \in path[m]
      BY <3>2, PathType
    <3> QED BY <1>1, <3>3 DEF Under
  <2>3. ASSUME NEW m \in Under({A}, S), m \notin Loaded PROVE m \in B
    <3>1. m \in S /\ A \in path[m] /\ m # TenantRoot
      BY <1>1, NodesType DEF Under
    <3>2. m \notin Parents
      BY <2>3, <3>1, SnapshotFacts
    <3>3. \E k \in path[m] \ {TenantRoot} : k \in Rest
      BY <3>1, <3>2, WayIn
    <3> QED BY <3>1, <3>3 DEF Under
  <2> QED BY <2>1, <2>2, <2>3
<1>5. IsFiniteSet(Loaded) /\ IsFiniteSet(B)
  BY <1>1, FS_Subset
<1> HIDE DEF B, S
<1>6. Cardinality(Loaded \cup B) = Cardinality(Loaded) + Cardinality(B) - Cardinality(Loaded \cap B)
  BY <1>5, FS_Union
<1>7. Cardinality(Loaded \cap B) = 0 /\ Cardinality(Loaded) \in Nat /\ Cardinality(B) \in Nat
  BY <1>3, <1>5, FS_EmptySet, FS_CardinalityType
<1>8. Cardinality(Loaded) + Cardinality(B) = Cardinality(Under({A}, S))
  <2> DEFINE x == Cardinality(Loaded)
             y == Cardinality(B)
             z == Cardinality(Loaded \cup B)
  <2>1. z = x + y - 0 /\ x \in Nat /\ y \in Nat /\ z = Cardinality(Under({A}, S))
    BY <1>4, <1>6, <1>7
  <2> HIDE DEF x, y, z
  <2>2. x + y = z
    BY <2>1
  <2> QED BY <2>1, <2>2 DEF x, y
<1> QED BY <1>8 DEF B, S

\* A member that has recruits left is told of more members than its nodes and clusters
\* stand for.
LEMMA RecruitsAreNotCounted ==
  ASSUME TreeOK, ReadingOK, view.kind = "member",
         NEW d \in Rest, sponsor[d] = view.anchor
  PROVE  Cardinality(Loaded)
           + Cardinality({m \in MemberTiers(view.anchor, Rest) : sponsor[m] \in view.rows})
           # Cardinality(MemberTiers(view.anchor, AsOf(Snapshot))) + 1
<1> DEFINE A == view.anchor
           S == AsOf(Snapshot)
           T == MemberTiers(A, S)
           C == {m \in MemberTiers(A, Rest) : sponsor[m] \in view.rows}
<1>1. /\ S \subseteq Members /\ S \subseteq joined /\ view.rows \subseteq S /\ Rest \subseteq S
      /\ A \in joined /\ A \in Here
      /\ RowsOK(view.rows, A, S)
  <2>1. A \in joined
    BY DEF ReadingOK, ReadingTypes
  <2>2. RowsOK(view.rows, A, S)
    BY DEF ReadingOK, ReadingCounts, Snapshot
  <2> QED BY <2>1, <2>2, SnapshotFacts
<1>2. T \subseteq S /\ C \subseteq T
  BY <1>1 DEF MemberTiers
<1>3. view.rows \subseteq T
  <2> SUFFICES ASSUME NEW r \in view.rows PROVE Tier(r, A) \in 1 .. MaxTier
    BY <1>1 DEF MemberTiers
  <2>1. r \in joined /\ r \in Here /\ A \in path[r] /\ r # A
    BY <1>1 DEF RowsOK, Here
  <2>2. Tier(r, A) \in Nat /\ sponsor[r] \in Here /\ A \in path[sponsor[r]]
        /\ Tier(r, A) = Tier(sponsor[r], A) + 1
    BY <2>1, TierSteps, Above
  <2>3. Tier(sponsor[r], A) \in Nat
    BY <2>2, TierSteps
  <2>4. Tier(r, A) <= MaxTier /\ MaxTier \in Nat
    BY SizeAssumption DEF ReadingOK, ReadingCounts
  <2> QED BY <2>2, <2>3, <2>4
<1>4. d \in T /\ d \notin view.rows /\ d \notin C /\ A \notin view.rows
  <2>1. A \notin view.rows
    BY <1>1 DEF RowsOK
  <2>2. d \in S /\ d \in joined /\ d \in Here /\ d \notin view.rows /\ d # A
    BY <1>1 DEF Rest, Parents, Here
  <2>3. A \in path[d]
    BY <2>2, Above
  <2>4. Tier(d, A) = Tier(A, A) + 1 /\ Tier(A, A) = 0
    <3>1. A \in path[A]
      BY <1>1, PathType
    <3> QED BY <1>1, <2>2, <2>3, <3>1, TierSteps
  <2>5. Tier(d, A) \in 1 .. MaxTier
    BY <2>4, SizeAssumption
  <2> QED BY <2>1, <2>2, <2>5 DEF MemberTiers
<1>5. view.rows \cap C = {}
  BY DEF MemberTiers, Rest, Parents
<1>6. Loaded = view.rows \cup {A}
  BY <1>1, NodesType DEF Loaded, TreeOK, TreeTypes
<1>7. IsFiniteSet(T) /\ IsFiniteSet(view.rows) /\ IsFiniteSet(C)
  <2>1. IsFiniteSet(S)
    BY <1>1, NodesType, FS_Subset
  <2> QED BY <1>1, <1>2, <1>3, <2>1, FS_Subset
<1> DEFINE RC == view.rows \cup C
<1>8. RC \subseteq T /\ d \in T /\ d \notin RC
  BY <1>2, <1>3, <1>4
<1>9. Loaded = view.rows \cup {A} /\ A \notin view.rows
  BY <1>4, <1>6
<1>10. RC = view.rows \cup C
  OBVIOUS
<1> HIDE DEF T, C, RC
<1>11. Cardinality(RC) = Cardinality(view.rows) + Cardinality(C) - Cardinality(view.rows \cap C)
  BY <1>7, <1>10, FS_Union
<1>12. Cardinality(view.rows \cap C) = 0
  BY <1>5, FS_EmptySet
<1>13. Cardinality(Loaded) = Cardinality(view.rows) + 1
  BY <1>7, <1>9, FS_AddElement
<1>14. Cardinality(RC) <= Cardinality(T) /\ Cardinality(RC) # Cardinality(T)
  BY <1>7, <1>8, FS_Subset
<1>15. Cardinality(Loaded) + Cardinality(C) # Cardinality(T) + 1
  <2> DEFINE l == Cardinality(Loaded)
             r == Cardinality(view.rows)
             c == Cardinality(C)
             t == Cardinality(T)
             b == Cardinality(RC)
  <2>1. r \in Nat /\ c \in Nat /\ t \in Nat
    BY <1>7, FS_CardinalityType
  <2>2. b = r + c - 0 /\ l = r + 1 /\ b # t
    BY <1>11, <1>12, <1>13, <1>14
  <2> HIDE DEF l, r, c, t, b
  <2>3. l + c # t + 1
    BY <2>1, <2>2
  <2> QED BY <2>3 DEF l, c, t
<1> QED BY <1>15 DEF T, C

\* The tokens of a context go on after what was loaded.
LEMMA AnswerKeepsView ==
  ASSUME TreeOK, ReadingOK, NEW total, NEW represented, UNCHANGED <<clock, tree>>,
         view' = Answer(total, represented),
         view.kind = "admin" => represented = total,
         view.kind = "member" /\ (\E d \in Rest : sponsor[d] = view.anchor) => represented # total
  PROVE  ViewOK'
<1> USE NodesType
<1>1. UNCHANGED <<clock, joined, stamp, path, sponsor>>
  BY DEF tree
<1> DEFINE A == view.anchor
           S == AsOf(Snapshot)
           R == view.rows
           Issued == {[parent |-> p, after |-> Latest(Kids(p, R))] : p \in {sponsor[m] : m \in Rest}}
<1>2. view' = [step |-> "open", kind |-> view.kind, at |-> view.at, anchor |-> A,
               total |-> total, represented |-> represented, tokens |-> Issued,
               seen |-> [m \in Members |-> IF m \in Loaded THEN 1 ELSE 0],
               promised |-> S, match |-> Members]
  BY DEF Answer, AsOf, Snapshot
<1>3. /\ S \subseteq joined /\ S \subseteq Members /\ A \in Here /\ R \subseteq S
      /\ Loaded \subseteq S /\ Loaded \subseteq Parents /\ Parents \subseteq Here /\ Rest \subseteq S
      /\ TenantRoot \notin Members
  BY SnapshotFacts
<1>4. /\ view.kind \in {"admin", "member"} /\ view.at \in Nat /\ view.at <= clock
      /\ \A m \in S : stamp[m] <= view.at
      /\ RowsOK(R, A, S)
  BY DEF ReadingOK, ReadingTypes, ReadingCounts, AsOf, Snapshot
<1>5. ~Flat'
  BY <1>2, <1>4 DEF Flat
<1>6. \A p : Kids(p, R) \subseteq R /\ Kids(p, R) \subseteq Members
  BY <1>3 DEF Kids
<1>7. ASSUME NEW t \in Issued
      PROVE  /\ t.parent \in Parents /\ t.parent \in Here
             /\ \E m \in Rest : sponsor[m] = t.parent
             /\ t = [parent |-> t.parent, after |-> Latest(Kids(t.parent, R))]
  BY <1>3 DEF Rest
<1>8. \A p : Latest(Kids(p, R)) \in joined \cup {Start}
  BY <1>3, <1>6, LatestIsLast
<1>9. OpenTypes'
  <2>1. Issued \subseteq [parent : Here, after : joined \cup {Start}]
    BY <1>7, <1>8
  <2>2. [m \in Members |-> IF m \in Loaded THEN 1 ELSE 0] \in [Members -> Nat]
    OBVIOUS
  <2>3. S \subseteq {m \in joined : stamp[m] <= view.at}
    BY <1>3, <1>4
  <2> HIDE DEF Issued, S
  <2> QED BY <1>1, <1>2, <1>3, <1>4, <1>5, <2>1, <2>2, <2>3 DEF OpenTypes, Here
<1>10. /\ \A m \in Members : view'.seen[m] = IF m \in Loaded THEN 1 ELSE 0
       /\ \A m \in Members \ Loaded : ~(view'.seen[m] > 0)
       /\ \A m \in Members : view'.seen[m] <= 1
  <2>1. \A m \in Members : view'.seen[m] = IF m \in Loaded THEN 1 ELSE 0
    <3> HIDE DEF Issued, S
    <3> QED BY <1>2
  <2>2. ~(0 > 0) /\ 0 <= 1 /\ 1 <= 1
    OBVIOUS
  <2>3. \A m \in Members \ Loaded : view'.seen[m] = 0
    BY <2>1
  <2>4. \A m \in Members : view'.seen[m] \in {0, 1}
    BY <2>1
  <2> QED BY <2>1, <2>2, <2>3, <2>4
<1> HIDE DEF Issued, S
<1>11. Shown'
  <2> SUFFICES ASSUME NEW m \in Loaded
               PROVE  /\ m \in joined /\ stamp[m] <= view.at
                      /\ A \in path[m] /\ m \in Members
                      /\ view.kind = "member" => m = A \/ Tier(m, A) \in 1 .. MaxTier
                      /\ m = A \/ sponsor[m] = A \/ sponsor[m] \in Loaded
    <3>1. \A m \in Members : Tier(m, view.anchor)' = Tier(m, A)
      BY <1>1, <1>2 DEF Tier
    <3>2. \A m \in Loaded : InScope(m)'
      BY <1>1, <1>2, <1>3, <1>4, <3>1 DEF InScope
    <3>3. \A m \in Loaded : sponsor[m] \in Loaded => view'.seen[sponsor[m]] > 0 /\ sponsor[m] \in Members
      <4>1. \A m \in Loaded : m \in Members /\ view'.seen[m] = 1
        BY <1>3, <1>10
      <4>2. 1 > 0
        OBVIOUS
      <4> QED BY <4>1, <4>2
    <3> QED BY <1>1, <1>2, <1>3, <1>10, <3>2, <3>3 DEF Shown
  <2>1. m \in joined /\ stamp[m] <= view.at /\ m \in Members /\ m \in Here
    BY <1>3, <1>4 DEF Here
  <2>2. A \in path[m]
    BY <1>3, SnapshotFacts
  <2>3. CASE m # A
    <3>1. m \in R
      BY <2>3 DEF Loaded
    <3>2. Tier(m, A) \in Nat /\ sponsor[m] \in Here /\ sponsor[m] \in path[m]
          /\ A \in path[sponsor[m]] /\ Tier(m, A) = Tier(sponsor[m], A) + 1
      BY <2>1, <2>2, <2>3, TierSteps, Above
    <3>3. Tier(sponsor[m], A) \in Nat
      BY <3>2, TierSteps
    <3>4. view.kind = "member" => Tier(m, A) <= MaxTier
      BY <3>1 DEF ReadingOK, ReadingCounts
    <3>5. view.kind = "member" => Tier(m, A) \in 1 .. MaxTier
      BY <3>2, <3>3, <3>4, SizeAssumption
    <3>6. sponsor[m] \in R \cup {A}
      BY <1>4, <3>1, <3>2 DEF RowsOK
    <3> QED BY <2>1, <2>2, <3>5, <3>6 DEF Loaded
  <2> QED BY <2>1, <2>2, <2>3
<1>12. Tokens'
  <2>1. ASSUME NEW t \in Issued
        PROVE  t.parent = A \/ (t.parent \in Members /\ view'.seen[t.parent] > 0)
    <3>1. t.parent \in R \cup {A} /\ \A r \in R : r \in Members /\ r \in Loaded
      BY <1>3, <1>7 DEF Parents, Loaded
    <3>2. \A r \in Loaded : r \in Members => view'.seen[r] > 0
      BY <1>10
    <3>3. CASE t.parent \in R
      BY <3>1, <3>2, <3>3
    <3> QED BY <3>1, <3>3
  <2>2. ASSUME NEW t \in Issued, NEW u \in Issued, t.parent = u.parent PROVE t = u
    BY <1>7, <2>2
  <2>3. ASSUME NEW t \in Issued, NEW m \in Loaded, sponsor[m] = t.parent
        PROVE  t.after # Start /\ ~Before(t.after, m)
    <3>1. m # A
      <4> SUFFICES ASSUME m = A PROVE FALSE
        OBVIOUS
      <4>1. A \in joined /\ sponsor[A] \in Parents /\ A \in path[sponsor[A]]
        BY <1>3, <1>7, <2>3, SnapshotFacts
      <4> QED BY <4>1, Above
    <3>2. m \in Kids(t.parent, R)
      BY <2>3, <3>1 DEF Loaded, Kids
    <3> DEFINE K == Kids(t.parent, R)
    <3>3. K \in SUBSET Members /\ m \in K /\ t.after = Latest(K)
      BY <1>6, <1>7, <3>2
    <3> HIDE DEF K
    <3>4. t.after \in K /\ (m = t.after \/ Before(m, t.after))
      BY <3>3, LatestIsLast
    <3>5. t.after # Start
      BY <3>3, <3>4
    <3>6. ~Before(t.after, m)
      <4>1. t.after \in Members /\ m \in Members
        BY <3>3, <3>4
      <4> QED BY <3>4, <4>1, BeforeOrders
    <3> QED BY <3>5, <3>6
  <2>4. \A m \in Members : view'.seen[m] > 0 => m \in Loaded
    BY <1>10
  <2>5. view'.tokens = Issued /\ view'.anchor = A
    BY <1>2
  <2>6. \A t, m : Among(t, m)' => sponsor[m] = t.parent
    BY <1>1, <1>2, <1>4 DEF Among
  <2>7. \A a, b : Before(a, b)' <=> Before(a, b)
    BY <1>1 DEF Before
  <2> QED BY <1>1, <1>5, <2>1, <2>2, <2>3, <2>4, <2>5, <2>6, <2>7 DEF Tokens
<1>13. Missed'
  <2>1. ASSUME NEW m \in S, A \in path[m], m \notin Loaded
        PROVE  \E t \in Issued : \E a \in path[m] \ {TenantRoot} :
                 (t.after = Start \/ Before(t.after, a)) /\ sponsor[a] = t.parent
    <3>1. m \notin Parents
      BY <1>3, <2>1, SnapshotFacts
    <3>2. PICK a \in path[m] \ {TenantRoot} : a \in Rest
      BY <2>1, <3>1, WayIn DEF S
    <3> DEFINE K == Kids(sponsor[a], R)
               t == [parent |-> sponsor[a], after |-> Latest(K)]
    <3>3. t \in Issued
      BY <3>2 DEF Issued
    <3>4. K \in SUBSET Members /\ \A k \in K : k \in R /\ sponsor[k] = sponsor[a]
      BY <1>3 DEF Kids
    <3>5. a \in S \ R
      BY <1>3, <3>2 DEF Rest, Parents
    <3>6. Latest(K) = Start \/ Before(Latest(K), a)
      <4> HIDE DEF K
      <4>1. K # {} => Latest(K) \in K
        BY <3>4, LatestIsLast
      <4>2. K = {} => Latest(K) = Start
        BY LatestIsLast
      <4> QED BY <1>4, <3>4, <3>5, <4>1, <4>2 DEF RowsOK
    <3> HIDE DEF K
    <3> QED BY <3>2, <3>3, <3>6
  <2>2. \A m \in S : m \in Loaded => view'.seen[m] > 0
    BY <1>3, <1>10
  <2>3. \A m : InScope(m)' => A \in path[m]
    BY <1>1, <1>2 DEF InScope
  <2>4. \A a, b : Before(a, b)' <=> Before(a, b)
    BY <1>1 DEF Before
  <2>5. view'.promised = S /\ view'.tokens = Issued /\ view'.kind \notin {"list", "search"}
    BY <1>2, <1>4
  <2> QED BY <1>1, <2>1, <2>2, <2>3, <2>4, <2>5 DEF Missed
<1>14. ContextIsComplete'
  <2>1. ASSUME NEW t \in Issued, t.parent = A PROVE \E d \in Rest : sponsor[d] = A
    BY <1>7, <2>1
  <2> QED BY <1>2, <2>1 DEF ContextIsComplete
<1>15. (\A m \in Members : view.seen[m] <= 1)'
  BY <1>10
<1>16. OpenOK' /\ view'.step = "open"
  BY <1>2, <1>9, <1>11, <1>12, <1>13, <1>14, <1>15 DEF OpenOK
<1> QED BY <1>16 DEF ViewOK

\* The counts of an administrator's context add up.
LEMMA FinishAdminContextKeepsView ==
  ASSUME TreeOK, ReadingOK, FinishAdminContext
  PROVE  ViewOK'
<1>1. UNCHANGED <<clock, tree>> /\ view.kind = "admin"
  BY DEF FinishAdminContext
<1> DEFINE total == IF view.anchor = TenantRoot THEN Cardinality(AsOf(Snapshot)) ELSE view.total
           represented == Cardinality(Loaded) + Cardinality(Under(Rest, AsOf(Snapshot)))
<1>2. view' = Answer(total, represented)
  BY DEF FinishAdminContext
<1>3. represented = Cardinality(Under({view.anchor}, AsOf(Snapshot)))
  BY BranchIsCounted
<1>4. view.total = Cardinality(Under({view.anchor}, AsOf(Snapshot)))
  BY <1>1 DEF ReadingOK, ReadingCounts, Snapshot
<1>5. view.anchor = TenantRoot => Under({view.anchor}, AsOf(Snapshot)) = AsOf(Snapshot)
  <2>1. \A m \in AsOf(Snapshot) : TenantRoot \in path[m]
    BY SnapshotFacts, PathType DEF Here
  <2> QED BY <2>1 DEF Under
<1>6. represented = total
  BY <1>3, <1>4, <1>5
<1> HIDE DEF represented, total
<1> QED BY <1>1, <1>2, <1>6, AnswerKeepsView

\* Those of a member's tell it when recruits of its own are left.
LEMMA FinishMemberContextKeepsView ==
  ASSUME TreeOK, ReadingOK, FinishMemberContext
  PROVE  ViewOK'
<1>1. UNCHANGED <<clock, tree>> /\ view.kind = "member"
  BY DEF FinishMemberContext
<1> DEFINE represented == Cardinality(Loaded)
             + Cardinality({m \in MemberTiers(view.anchor, Rest) : sponsor[m] \in view.rows})
<1>2. view' = Answer(view.total, represented)
  BY DEF FinishMemberContext
<1>3. view.total = Cardinality(MemberTiers(view.anchor, AsOf(Snapshot))) + 1
  BY <1>1 DEF ReadingOK, ReadingCounts, Snapshot
<1>4. (\E d \in Rest : sponsor[d] = view.anchor) => represented # view.total
  BY <1>1, <1>3, RecruitsAreNotCounted
<1> HIDE DEF represented
<1> QED BY <1>1, <1>2, <1>4, AnswerKeepsView

(***************************************************************************)
(* A page.                                                                 *)
(***************************************************************************)
\* A page of somebody is not empty.
LEMMA SomebodyIsFirst ==
  ASSUME TreeOK, NEW S \in SUBSET Members, S # {}
  PROVE  Earliest(PageSize, S) # {}
<1> DEFINE Places == {Rank(k, S) : k \in S}
<1>1. IsFiniteSet(S)
  BY NodesType, FS_Subset
<1>2. \A k \in S : IsFiniteSet({j \in S : Before(j, k)}) /\ Rank(k, S) \in Nat
  <2> SUFFICES ASSUME NEW k \in S PROVE IsFiniteSet({j \in S : Before(j, k)}) /\ Rank(k, S) \in Nat
    OBVIOUS
  <2>1. IsFiniteSet({j \in S : Before(j, k)})
    BY <1>1, FS_Subset
  <2> QED BY <2>1, FS_CardinalityType DEF Rank
<1>3. Places \in SUBSET Nat /\ Places # {}
  BY <1>2
<1>4. PICK r \in Places : \A q \in Places : r <= q
  <2> HIDE DEF Places
  <2> QED BY <1>3, LeastNatural
<1>5. PICK k \in S : r = Rank(k, S)
  BY <1>4
<1>6. \A j \in S : ~Before(j, k)
  <2> SUFFICES ASSUME NEW j \in S, Before(j, k) PROVE FALSE
    OBVIOUS
  <2>1. Rank(j, S) < Rank(k, S) /\ Rank(j, S) \in Nat
    BY RankGrows
  <2>2. r <= Rank(j, S)
    BY <1>4
  <2>3. r \in Nat /\ r = Rank(k, S)
    BY <1>2, <1>5
  <2> HIDE DEF Places
  <2> QED BY <2>1, <2>2, <2>3
<1>7. Cardinality({j \in S : Before(j, k)}) = 0
  <2>1. {j \in S : Before(j, k)} = {}
    BY <1>6
  <2> QED BY <2>1, FS_EmptySet
<1>8. PageSize \in Nat /\ 0 < PageSize
  BY SizeAssumption
<1>9. k \in Earliest(PageSize, S)
  BY <1>7, <1>8 DEF Earliest
<1> QED BY <1>9

\* A page of the siblings that the token leads to: in scope, behind no cursor, and every
\* one of them that leads to a promised member is among them.
LEMMA PageKeepsView ==
  ASSUME TreeOK, view.step = "open", OpenOK, NEW t, NEW p, NEW siblings, NEW expandable,
         Page(t, p, siblings, expandable),
         siblings \subseteq AsOf(joined),
         \A m \in siblings : InScope(m) /\ Among(t, m),
         Flat => expandable = {},
         ~Flat => expandable = Expandable /\ \A m \in siblings : sponsor[m] = p,
         \A m \in view.promised : InScope(m) =>
           \A a \in path[m] \ {TenantRoot} :
             (IF view.kind \in {"list", "search"} THEN a = m ELSE sponsor[a] = p)
               => a \in siblings /\ (Flat => a = m)
  PROVE  ViewOK'
<1> USE NodesType
<1> DEFINE A == view.anchor
           left == {m \in siblings : PastCursor(m, t.after)}
           page == Earliest(PageSize, left)
           more == IF page = left THEN {} ELSE {[parent |-> p, after |-> Latest(page)]}
           branches == {[parent |-> m, after |-> Start] : m \in page \cap expandable}
           held == (view.tokens \ {t}) \cup more \cup branches
           count == [m \in Members |-> view.seen[m] + IF m \in page THEN 1 ELSE 0]
<1>1. /\ t \in view.tokens /\ t.parent = p
      /\ view' = [view EXCEPT !.tokens = held, !.seen = count]
      /\ UNCHANGED <<clock, joined, stamp, path, sponsor>>
  BY DEF Page, Verified, tree
<1>2. /\ page \subseteq left /\ left \subseteq siblings /\ siblings \subseteq joined
      /\ joined \subseteq Members /\ left \in SUBSET Members
      /\ page \in SUBSET Members /\ PageSize \in Int
      /\ \A m \in page : PastCursor(m, t.after) /\ stamp[m] <= view.at
      /\ \A m \in page : InScope(m) /\ Among(t, m)
  <2>1. page \subseteq left
    BY DEF Earliest
  <2>2. left \subseteq siblings /\ \A m \in left : PastCursor(m, t.after)
    OBVIOUS
  <2>3. siblings \subseteq joined /\ joined \subseteq Members /\ \A m \in siblings : stamp[m] <= view.at
    BY DEF AsOf, TreeOK, TreeTypes
  <2>4. PageSize \in Int
    BY SizeAssumption
  <2> HIDE DEF left, page
  <2> QED BY <2>1, <2>2, <2>3, <2>4
<1>3. Shown /\ Tokens /\ Missed /\ OpenTypes /\ ContextIsComplete /\ \A m \in Members : view.seen[m] <= 1
  BY DEF OpenOK
<1>4. view.seen \in [Members -> Nat]
  BY <1>3 DEF OpenTypes
<1>5. \A m \in page : ~(view.seen[m] > 0)
  BY <1>1, <1>2, <1>3 DEF Tokens, PastCursor
<1>6. /\ \A a \in left \ page : \A k \in page : Before(k, a)
      /\ page = {} => Latest(page) = Start
      /\ page # left => page # {}
      /\ page # {} => Latest(page) \in page /\ \A k \in page \ {Latest(page)} : Before(k, Latest(page))
  <2> HIDE DEF left
  <2>1. \A a \in left \ page : \A k \in page : Before(k, a)
    BY <1>2, PagesAreFirst
  <2>2. page # left => page # {}
    BY <1>2, SomebodyIsFirst
  <2> HIDE DEF page
  <2> QED BY <1>2, <2>1, <2>2, LatestIsLast
<1>7. /\ \A u \in more : u.parent = p /\ u.after = Latest(page) /\ page # left
      /\ \A u \in branches : u.parent \in page /\ u.parent \in expandable /\ u.after = Start
      /\ page # left => [parent |-> p, after |-> Latest(page)] \in more
      /\ \A m \in page \cap expandable : [parent |-> m, after |-> Start] \in branches
  <2> HIDE DEF left, page
  <2> QED OBVIOUS
<1>8. \A m \in page : m \in expandable =>
        ~Flat /\ sponsor[m] = p /\ m \in Members /\ m \in joined
  BY <1>2
<1>8a. ~Flat => expandable = Expandable
  OBVIOUS
<1> HIDE DEF left, page, more, branches
<1>9. /\ view' = [step |-> "open", kind |-> view.kind, at |-> view.at, anchor |-> A,
                  total |-> view.total, represented |-> view.represented,
                  tokens |-> held, seen |-> count, promised |-> view.promised,
                  match |-> view.match]
      /\ Flat' = Flat
  <2> HIDE DEF held, count
  <2>1. view = [step |-> view.step, kind |-> view.kind, at |-> view.at, anchor |-> A,
                total |-> view.total, represented |-> view.represented,
                tokens |-> view.tokens, seen |-> view.seen, promised |-> view.promised,
                match |-> view.match]
    BY <1>3 DEF OpenTypes
  <2>2. view' = [step |-> "open", kind |-> view.kind, at |-> view.at, anchor |-> A,
                  total |-> view.total, represented |-> view.represented,
                  tokens |-> held, seen |-> count, promised |-> view.promised,
                  match |-> view.match]
    BY <1>1, <2>1
  <2> QED BY <2>2 DEF Flat
<1>10. \A m \in Members : /\ view'.seen[m] = IF m \in page THEN 1 ELSE view.seen[m]
                          /\ view.seen[m] \in Nat
  <2>1. \A m \in Members : view'.seen[m] = view.seen[m] + IF m \in page THEN 1 ELSE 0
    <3> HIDE DEF held
    <3> QED BY <1>9
  <2>2. ASSUME NEW m \in page PROVE view.seen[m] = 0
    <3>1. m \in Members /\ view.seen[m] \in Nat /\ ~(view.seen[m] > 0)
      BY <1>2, <1>4, <1>5
    <3> QED BY <3>1
  <2>3. ASSUME NEW m \in Members
        PROVE  /\ view'.seen[m] = IF m \in page THEN 1 ELSE view.seen[m]
               /\ view.seen[m] \in Nat
    <3>1. view.seen[m] \in Nat
      BY <1>4
    <3>2. CASE m \in page
      <4>1. view'.seen[m] = view.seen[m] + 1 /\ view.seen[m] = 0
        BY <2>1, <2>2, <3>2
      <4> QED BY <3>1, <3>2, <4>1
    <3>3. CASE m \notin page
      <4>1. view'.seen[m] = view.seen[m] + 0
        BY <2>1, <3>3
      <4> QED BY <3>1, <3>3, <4>1
    <3> QED BY <3>2, <3>3
  <2> QED BY <2>3
<1>11. count \in [Members -> Nat]
  BY <1>4
<1> HIDE DEF held, count
<1>12. /\ \A m : InScope(m)' <=> InScope(m)
       /\ \A a, b : Before(a, b)' <=> Before(a, b)
       /\ \A u, m : Among(u, m)' <=> Among(u, m)
  <2>1. \A m : Tier(m, view.anchor)' = Tier(m, A)
    BY <1>1, <1>9 DEF Tier
  <2> QED BY <1>1, <1>9, <2>1 DEF InScope, Before, Among
<1>13. p \in Here /\ A \in Here /\ \A u \in view.tokens : u.parent \in Here /\ u.after \in joined \cup {Start}
  BY <1>1, <1>3 DEF OpenTypes
<1>14. ~Flat => /\ A \in path[p]
                /\ p = A \/ (p \in Members /\ view.seen[p] > 0)
  <2>1. p = A \/ (~Flat /\ p \in Members /\ view.seen[p] > 0)
    BY <1>1, <1>3 DEF Tokens
  <2>2. A \in path[A]
    BY <1>13, PathType
  <2>3. p \in Members /\ view.seen[p] > 0 => A \in path[p]
    BY <1>3 DEF Shown, InScope
  <2> QED BY <2>1, <2>2, <2>3
<1>15. \A m \in page : ~Flat => sponsor[m] = p /\ m # A
  <2> SUFFICES ASSUME NEW m \in page, ~Flat PROVE sponsor[m] = p /\ m # A
    OBVIOUS
  <2>1. sponsor[m] = p /\ m \in joined
    BY <1>2
  <2>2. m \notin path[p]
    BY <2>1, Above
  <2>3. A \in path[p]
    BY <1>14
  <2> QED BY <2>1, <2>2, <2>3
<1>16. OpenTypes'
  <2>1. more \subseteq [parent : Here, after : joined \cup {Start}]
    <3>1. Latest(page) \in joined \cup {Start}
      BY <1>2, <1>6
    <3> QED BY <1>13, <3>1 DEF more
  <2>2. branches \subseteq [parent : Here, after : joined \cup {Start}]
    <3>1. page \subseteq Here
      BY <1>2 DEF Here
    <3> QED BY <3>1 DEF branches
  <2>3. held \subseteq [parent : Here, after : joined \cup {Start}]
    BY <1>3, <2>1, <2>2 DEF held, OpenTypes
  <2>4. Here' = Here
    BY <1>1 DEF Here
  <2> QED BY <1>1, <1>3, <1>9, <1>11, <2>3, <2>4 DEF OpenTypes
<1>17. Shown'
  <2> SUFFICES ASSUME NEW m \in Members, view'.seen[m] > 0
               PROVE  /\ m \in joined /\ stamp[m] <= view.at /\ InScope(m)
                      /\ ~Flat => \/ m = A \/ sponsor[m] = A
                                  \/ sponsor[m] \in Members /\ view'.seen[sponsor[m]] > 0
    BY <1>1, <1>9, <1>12 DEF Shown
  <2>1. \A k \in Members : view.seen[k] > 0 => view'.seen[k] > 0
    BY <1>10
  <2>2. CASE m \in page
    <3>1. ~Flat => \/ sponsor[m] = A
                   \/ sponsor[m] \in Members /\ view'.seen[sponsor[m]] > 0
      BY <1>14, <1>15, <2>1, <2>2
    <3> QED BY <1>2, <2>2, <3>1
  <2>3. CASE m \notin page
    <3>1. view.seen[m] > 0
      BY <1>10, <2>3
    <3> QED BY <1>3, <2>1, <3>1 DEF Shown
  <2> QED BY <2>2, <2>3
<1>18. ASSUME NEW u \in held
       PROVE  \/ u \in view.tokens \ {t} /\ u \notin more \cup branches
              \/ u \in more
              \/ u \in branches /\ u \notin more
  BY DEF held
<1>19. \A u \in view.tokens : \/ u.parent = A
                              \/ ~Flat /\ u.parent \in Members /\ view.seen[u.parent] > 0
  BY <1>3 DEF Tokens
\* Nobody has opened a branch that was not shown.
<1>20. ASSUME NEW u \in view.tokens, NEW m \in page, m \in expandable PROVE u.parent # m
  <2>1. ~Flat /\ m # A /\ m \in Members /\ ~(view.seen[m] > 0)
    BY <1>2, <1>5, <1>8, <1>15, <1>20
  <2>2. u.parent = A \/ view.seen[u.parent] > 0
    BY <1>19
  <2> QED BY <2>1, <2>2
<1>21. \A u, v \in view.tokens : u.parent = v.parent => u = v
  BY <1>3 DEF Tokens
<1>22. Flat => \A u \in view.tokens : u = t
  BY <1>1, <1>19, <1>21
<1>23. Tokens'
  <2>1. ASSUME NEW u \in held
        PROVE  \/ u.parent = A
               \/ ~Flat /\ u.parent \in Members /\ view'.seen[u.parent] > 0
    <3>1. \A k \in Members : view.seen[k] > 0 => view'.seen[k] > 0
      BY <1>10
    <3>2. CASE u \in view.tokens
      BY <1>19, <3>1, <3>2
    <3>3. CASE u \in more
      BY <1>1, <1>7, <1>19, <3>1, <3>3
    <3>4. CASE u \in branches
      <4>1. u.parent \in page /\ u.parent \in expandable
        BY <1>7, <3>4
      <4>2. u.parent \in Members /\ ~Flat
        BY <1>2, <1>8, <4>1
      <4>3. view'.seen[u.parent] = 1
        BY <1>10, <4>1, <4>2
      <4>4. view'.seen[u.parent] > 0
        BY <4>3
      <4> QED BY <4>2, <4>4
    <3> QED BY <1>18, <3>2, <3>3, <3>4
  <2>2. ASSUME NEW u \in held, NEW v \in held, u.parent = v.parent PROVE u = v
    <3>1. ASSUME NEW x \in view.tokens \ {t}, NEW y \in more PROVE x.parent # y.parent
      BY <1>1, <1>7, <1>21
    <3>2. ASSUME NEW x \in view.tokens, NEW y \in branches PROVE x.parent # y.parent
      BY <1>7, <1>20
    <3>3. ASSUME NEW x \in more, NEW y \in branches PROVE x.parent # y.parent
      <4>1. x.parent = t.parent
        BY <1>1, <1>7
      <4> QED BY <1>1, <3>2, <4>1
    <3>4. ASSUME NEW x \in more, NEW y \in more PROVE x = y
      BY DEF more
    <3>5. ASSUME NEW x \in branches, NEW y \in branches, x.parent = y.parent PROVE x = y
      BY <3>5 DEF branches
    <3> QED BY <1>18, <1>21, <2>2, <3>1, <3>2, <3>3, <3>4, <3>5
  <2>3. ASSUME NEW u \in held, NEW m \in Members, view'.seen[m] > 0, Among(u, m)
        PROVE  u.after # Start /\ ~Before(u.after, m)
    <3>1. \A x \in view.tokens : view.seen[m] > 0 /\ Among(x, m) => x.after # Start /\ ~Before(x.after, m)
      BY <1>3 DEF Tokens
    <3>2. m \notin page => view.seen[m] > 0
      BY <1>10, <2>3
    <3>3. CASE u \in view.tokens /\ u # t
      <4>1. ~Flat
        BY <1>22, <3>3
      <4>2. sponsor[m] = u.parent
        BY <2>3, <4>1 DEF Among, Flat
      <4>3. m \notin page
        BY <1>1, <1>15, <1>21, <3>3, <4>1, <4>2
      <4> QED BY <2>3, <3>1, <3>2, <3>3, <4>3
    <3>4. CASE u \in more
      <4>1. u.parent = t.parent /\ u.after = Latest(page) /\ page # left
        BY <1>1, <1>7, <3>4
      <4>2. Among(t, m)
        BY <2>3, <4>1 DEF Among
      <4>3. page # {}
        BY <1>6, <4>1
      <4>4. Latest(page) \in page /\ u.after # Start
        BY <1>2, <1>6, <4>1, <4>3
      <4>5. CASE m \in page
        BY <1>2, <1>6, <4>1, <4>4, <4>5, BeforeOrders
      <4>6. CASE m \notin page
        <5>1. t.after # Start /\ ~Before(t.after, m)
          BY <3>1, <3>2, <4>2, <4>6, <1>1
        <5>2. Before(t.after, Latest(page)) /\ t.after \in Members /\ Latest(page) \in Members
          BY <1>1, <1>2, <1>13, <4>4, <5>1 DEF PastCursor
        <5> QED BY <4>1, <4>4, <5>1, <5>2, BeforeOrders
      <4> QED BY <4>5, <4>6
    <3>5. CASE u \in branches
      <4>1. u.parent \in page /\ u.parent \in expandable
        BY <1>7, <3>5
      <4>2. ~Flat /\ sponsor[u.parent] = p /\ u.parent \in Members /\ u.parent \in joined /\ u.parent # A
        BY <1>8, <1>15, <4>1
      <4>3. sponsor[m] = u.parent
        BY <2>3, <4>2 DEF Among, Flat
      <4>4. m \notin page
        <5>1. m \in page => u.parent = p
          BY <1>15, <4>2, <4>3
        <5> QED BY <4>2, <5>1, Above
      <4>5. view.seen[m] > 0 /\ m \in joined /\ A \in path[m]
        BY <1>3, <3>2, <4>4 DEF Shown, InScope
      <4>6. m # A
        <5>1. m \notin path[u.parent] /\ A \in path[p] /\ path[u.parent] = {u.parent} \cup path[p]
          BY <1>14, <4>2, <4>3, <4>5, Above
        <5> QED BY <5>1
      <4>7. view.seen[u.parent] > 0
        BY <1>3, <4>2, <4>3, <4>5, <4>6 DEF Shown
      <4> QED BY <1>5, <4>1, <4>7
    <3> QED BY <1>18, <3>3, <3>4, <3>5
  <2> QED BY <1>9, <1>12, <2>1, <2>2, <2>3 DEF Tokens
<1>24. Missed'
  <2> SUFFICES ASSUME NEW m \in view.promised, InScope(m), ~(view'.seen[m] > 0)
               PROVE  \E u \in held : \E a \in path[m] \ {TenantRoot} :
                        /\ u.after = Start \/ Before(u.after, a)
                        /\ IF view.kind \in {"list", "search"} THEN a = m ELSE sponsor[a] = u.parent
    BY <1>1, <1>9, <1>12 DEF Missed
  <2>1. m \in joined /\ m \in Members /\ stamp[m] <= view.at
    BY <1>2, <1>3 DEF OpenTypes
  <2>2. ~(view.seen[m] > 0) /\ m \notin page
    <3>1. m \in page => view'.seen[m] = 1
      BY <1>10, <2>1
    <3>2. m \notin page => view'.seen[m] = view.seen[m]
      BY <1>10, <2>1
    <3> QED BY <3>1, <3>2
  <2>3. PICK u \in view.tokens : \E a \in path[m] \ {TenantRoot} :
          /\ u.after = Start \/ Before(u.after, a)
          /\ IF view.kind \in {"list", "search"} THEN a = m ELSE sponsor[a] = u.parent
    BY <1>3, <2>2 DEF Missed
  <2>4. PICK a \in path[m] \ {TenantRoot} :
          /\ u.after = Start \/ Before(u.after, a)
          /\ IF view.kind \in {"list", "search"} THEN a = m ELSE sponsor[a] = u.parent
    BY <2>3
  <2>5. CASE u # t
    <3>1. u \in held
      BY <2>5 DEF held
    <3> QED BY <2>4, <3>1
  <2>6. CASE u = t
    <3>1. a \in siblings /\ (Flat => a = m)
      BY <1>1, <2>4, <2>6
    <3>2. a \in left
      BY <2>4, <2>6, <3>1 DEF left, PastCursor
    <3>3. CASE a \in page
      <4>1. ~Flat /\ a # m
        BY <2>2, <3>1, <3>3
      <4>2. m \in Here /\ a \in path[m]
        BY <2>1 DEF Here
      <4>3. PICK c \in path[m] \ {TenantRoot} : sponsor[c] = a /\ c \in joined
        BY <4>1, <4>2, OneWayDown
      <4>4. a \in expandable
        <5>1. stamp[c] <= view.at
          <6>1. stamp[c] <= stamp[m]
            BY <2>1, <4>3 DEF TreeOK, Ordered
          <6>2. stamp[c] \in Nat /\ stamp[m] \in Nat /\ view.at \in Nat
            BY <1>2, <1>3, <2>1, <4>3 DEF TreeOK, TreeTypes, OpenTypes
          <6> QED BY <2>1, <6>1, <6>2
        <5>2. c \in Kids(a, AsOf(joined)) /\ a \in Members
          BY <1>2, <3>3, <4>3, <5>1 DEF Kids, AsOf
        <5> QED BY <1>8a, <4>1, <5>2 DEF Expandable
      <4>5. [parent |-> a, after |-> Start] \in held
        BY <1>7, <3>3, <4>4 DEF held
      <4>6. view.kind \notin {"list", "search"}
        BY <4>1 DEF Flat
      <4> QED BY <4>3, <4>5, <4>6
    <3>4. CASE a \notin page
      <4>1. page # left /\ \A k \in page : Before(k, a)
        BY <1>6, <3>2, <3>4
      <4>2. Before(Latest(page), a)
        BY <1>6, <4>1
      <4> DEFINE w == [parent |-> p, after |-> Latest(page)]
      <4>3. w \in held /\ w.parent = u.parent /\ w.after = Latest(page)
        BY <1>1, <1>7, <2>6, <4>1 DEF held
      <4> HIDE DEF w
      <4> QED BY <2>4, <4>2, <4>3
    <3> QED BY <3>3, <3>4
  <2> QED BY <2>5, <2>6
<1>25. ContextIsComplete'
  <2>1. ASSUME NEW u \in held, u.parent = A, ~Flat
        PROVE  \E v \in view.tokens : v.parent = A
    <3>1. CASE u \in more
      BY <1>1, <1>7, <2>1, <3>1
    <3>2. CASE u \in branches
      BY <1>7, <1>15, <2>1, <3>2
    <3> QED BY <1>18, <2>1, <3>1, <3>2
  <2>2. view.kind = "member" => ~Flat
    BY DEF Flat
  <2> QED BY <1>3, <1>9, <2>1, <2>2 DEF ContextIsComplete
<1>26. (\A m \in Members : view.seen[m] <= 1)'
  BY <1>3, <1>10
<1>27. OpenOK' /\ view'.step = "open"
  BY <1>9, <1>16, <1>17, <1>23, <1>24, <1>25, <1>26 DEF OpenOK
<1> QED BY <1>27 DEF ViewOK

\* Whose pages a token is for, and which members lead to a promised one.
LEMMA TokenFacts ==
  ASSUME TreeOK, OpenOK, NEW t \in view.tokens
  PROVE  /\ view.anchor \in Here /\ t.parent \in Here /\ view.anchor \in path[t.parent]
         /\ Flat => t.parent = view.anchor
         /\ AsOf(joined) \subseteq joined /\ joined \subseteq Members
         /\ \A m \in view.promised :
              m \in AsOf(joined) /\ \A a \in path[m] \ {TenantRoot} : a \in AsOf(joined)
<1>1. Shown /\ Tokens /\ OpenTypes
  BY DEF OpenOK
<1>2. view.anchor \in Here /\ t.parent \in Here /\ view.at \in Nat
  BY <1>1 DEF OpenTypes
<1>3. \/ t.parent = view.anchor
      \/ ~Flat /\ t.parent \in Members /\ view.seen[t.parent] > 0
  BY <1>1 DEF Tokens
<1>4. view.anchor \in path[t.parent]
  <2>1. view.anchor \in path[view.anchor]
    BY <1>2, PathType
  <2> QED BY <1>1, <1>3, <2>1 DEF Shown, InScope
<1>5. AsOf(joined) \subseteq joined /\ joined \subseteq Members /\ \A m \in joined : stamp[m] \in Nat
  BY DEF AsOf, TreeOK, TreeTypes
<1>6. ASSUME NEW m \in view.promised, NEW a \in path[m] \ {TenantRoot}
      PROVE  a \in AsOf(joined)
  <2>1. m \in joined /\ stamp[m] <= view.at
    BY <1>1 DEF OpenTypes
  <2>2. a \in joined
    BY <2>1, PathType DEF Here
  <2>3. stamp[a] <= stamp[m] /\ stamp[a] \in Nat /\ stamp[m] \in Nat
    BY <1>5, <2>1, <2>2 DEF TreeOK, Ordered
  <2> QED BY <1>2, <2>1, <2>2, <2>3 DEF AsOf
<1>7. \A m \in view.promised : m \in AsOf(joined)
  BY <1>1 DEF OpenTypes, AsOf
<1> QED BY <1>2, <1>3, <1>4, <1>5, <1>6, <1>7

\* Below a node of the view, its recruits are in scope as far as the levels go.
LEMMA NextBranchPageKeepsView ==
  ASSUME TreeOK, view.step = "open", OpenOK, NEW t, NEW p, NextBranchPage(t, p)
  PROVE  ViewOK'
<1> DEFINE siblings == Kids(p, AsOf(joined))
<1>1. /\ view.kind = "admin" /\ ~Flat /\ t \in view.tokens /\ t.parent = p
      /\ Page(t, p, siblings, Expandable)
  BY DEF NextBranchPage, Page, Verified, Flat
<1>2. siblings \subseteq AsOf(joined) /\ \A m \in siblings : sponsor[m] = p
  BY DEF Kids
<1>3. \A m \in siblings : InScope(m) /\ Among(t, m)
  <2> SUFFICES ASSUME NEW m \in siblings PROVE view.anchor \in path[m]
    BY <1>1, <1>2 DEF InScope, Among
  <2>1. m \in joined /\ sponsor[m] = p /\ view.anchor \in path[p]
    BY <1>1, <1>2, TokenFacts
  <2> QED BY <2>1, Above
<1>4. \A m \in view.promised : \A a \in path[m] \ {TenantRoot} : sponsor[a] = p => a \in siblings
  BY <1>1, TokenFacts DEF Kids
<1> HIDE DEF siblings
<1> QED BY <1>1, <1>2, <1>3, <1>4, PageKeepsView

\* A member opens no branch at its last tier.
LEMMA NextMemberPageKeepsView ==
  ASSUME TreeOK, view.step = "open", OpenOK, NEW t, NEW p, NextMemberPage(t, p)
  PROVE  ViewOK'
<1> DEFINE siblings == Kids(p, AsOf(joined))
<1>1. /\ view.kind = "member" /\ ~Flat /\ t \in view.tokens /\ t.parent = p /\ MayExpand(p)
      /\ Page(t, p, siblings, Expandable)
  BY DEF NextMemberPage, Page, Verified, Flat
<1>2. siblings \subseteq AsOf(joined) /\ \A m \in siblings : sponsor[m] = p
  BY DEF Kids
<1>3. \A m \in siblings : InScope(m) /\ Among(t, m)
  <2> SUFFICES ASSUME NEW m \in siblings
               PROVE  view.anchor \in path[m] /\ Tier(m, view.anchor) \in 1 .. MaxTier
    BY <1>1, <1>2 DEF InScope, Among
  <2>1. /\ m \in joined /\ m \in Here /\ sponsor[m] = p /\ p \in Here
        /\ view.anchor \in path[p] /\ view.anchor \in Here
    BY <1>1, <1>2, TokenFacts DEF Here
  <2>2. view.anchor \in path[m] /\ m # view.anchor
    BY <2>1, Above
  <2>3. Tier(m, view.anchor) = Tier(p, view.anchor) + 1 /\ Tier(p, view.anchor) \in Nat
    BY <2>1, <2>2, TierSteps
  <2>4. Tier(p, view.anchor) < MaxTier /\ MaxTier \in Nat
    BY <1>1, SizeAssumption DEF MayExpand
  <2> QED BY <2>2, <2>3, <2>4
<1>4. \A m \in view.promised : \A a \in path[m] \ {TenantRoot} : sponsor[a] = p => a \in siblings
  BY <1>1, TokenFacts DEF Kids
<1> HIDE DEF siblings
<1> QED BY <1>1, <1>2, <1>3, <1>4, PageKeepsView

\* A list is the branch itself, a search what fits of it.
LEMMA NextListPageKeepsView ==
  ASSUME TreeOK, view.step = "open", OpenOK, NEW t, NEW p, NextListPage(t, p)
  PROVE  ViewOK'
<1> DEFINE siblings == Under({p}, AsOf(joined))
           none == {}
<1>1. /\ view.kind = "list" /\ Flat /\ t \in view.tokens /\ p = view.anchor
      /\ Page(t, p, siblings, none)
  BY TokenFacts DEF NextListPage, Page, Verified, Flat
<1>2. siblings \subseteq AsOf(joined) /\ view.match = Members
  BY <1>1 DEF Under, OpenOK, OpenTypes
<1>3. \A m \in siblings : InScope(m) /\ Among(t, m)
  <2> SUFFICES ASSUME NEW m \in siblings PROVE view.anchor \in path[m] /\ m \in Members
    BY <1>1, <1>2 DEF InScope, Among
  <2>1. view.anchor \in path[m]
    BY <1>1 DEF Under
  <2> QED BY <1>1, <1>2, <2>1, TokenFacts
<1>4. \A m \in view.promised : InScope(m) => m \in siblings
  BY <1>1, TokenFacts DEF Under, InScope
<1> HIDE DEF siblings
<1>5. none = {}
  OBVIOUS
<1> HIDE DEF none
<1> QED BY <1>1, <1>2, <1>3, <1>4, <1>5, PageKeepsView

\* A search of the tenant has every member in its branch.
LEMMA NextSearchPageKeepsView ==
  ASSUME TreeOK, view.step = "open", OpenOK, NEW t, NEW p, NextSearchPage(t, p)
  PROVE  ViewOK'
<1> DEFINE siblings == AsOf(joined) \cap view.match
           none == {}
<1>1. /\ view.kind = "search" /\ Flat /\ t \in view.tokens
      /\ Page(t, p, siblings, none)
  BY DEF NextSearchPage, Page, Flat
<1>2. siblings \subseteq AsOf(joined) /\ view.anchor = TenantRoot
  BY <1>1 DEF OpenOK, OpenTypes
<1>3. \A m \in siblings : InScope(m) /\ Among(t, m)
  <2> SUFFICES ASSUME NEW m \in siblings PROVE view.anchor \in path[m] /\ m \in view.match
    BY <1>1 DEF InScope, Among
  <2>1. m \in Here
    BY <1>1, <1>2, TokenFacts DEF Here
  <2> QED BY <1>2, <2>1, PathType
<1>4. \A m \in view.promised : InScope(m) => m \in siblings
  BY <1>1, TokenFacts DEF InScope
<1> HIDE DEF siblings
<1>5. none = {}
  OBVIOUS
<1> HIDE DEF none
<1> QED BY <1>1, <1>2, <1>3, <1>4, <1>5, PageKeepsView

\* A member's search is among its own recruits.
LEMMA NextDirectSearchPageKeepsView ==
  ASSUME TreeOK, view.step = "open", OpenOK, NEW t, NEW p, NextDirectSearchPage(t, p)
  PROVE  ViewOK'
<1> DEFINE siblings == Kids(p, AsOf(joined)) \cap view.match
           none == {}
<1>1. /\ view.kind = "direct" /\ Flat /\ t \in view.tokens /\ p = view.anchor /\ t.parent = p
      /\ Page(t, p, siblings, none)
  BY TokenFacts DEF NextDirectSearchPage, Page, Verified, Flat
<1>2. siblings \subseteq AsOf(joined) /\ \A m \in siblings : sponsor[m] = p
  BY DEF Kids
<1>3. \A m \in siblings : InScope(m) /\ Among(t, m)
  <2> SUFFICES ASSUME NEW m \in siblings
               PROVE  view.anchor \in path[m] /\ m \in view.match /\ sponsor[m] = view.anchor
    BY <1>1, <1>2 DEF InScope, Among
  <2>1. m \in joined /\ sponsor[m] = view.anchor /\ m \in view.match
    BY <1>1, <1>2, TokenFacts
  <2> QED BY <2>1, Above
<1>4. ASSUME NEW m \in view.promised, InScope(m), NEW a \in path[m] \ {TenantRoot}, sponsor[a] = p
      PROVE  a \in siblings /\ a = m
  <2>1. /\ m \in joined /\ m \in Here /\ m \in view.match /\ m \in AsOf(joined) /\ m # TenantRoot
        /\ sponsor[m] = p
    BY <1>1, <1>4, TokenFacts, NodesType DEF InScope, Here
  <2>2. m \in path[m] \ {TenantRoot} /\ p \in path[m] /\ p # m
    BY <2>1, Above, PathType
  <2>3. a = m
    BY <1>4, <2>1, <2>2, OneWayDown
  <2> QED BY <2>1, <2>3 DEF Kids
<1> HIDE DEF siblings
<1>5. none = {}
  OBVIOUS
<1> HIDE DEF none
<1> QED BY <1>1, <1>2, <1>3, <1>4, <1>5, PageKeepsView

(***************************************************************************)
(* The invariant and what follows of it.                                   *)
(***************************************************************************)
\* The tree and the views of it: MembersService and NetworkHierarchyService together.
NetworkInv == TreeOK /\ ViewOK

\* Nobody has joined, and nothing is viewed.
LEMMA NetworkInitially == Init => NetworkInv
BY TreeInitially DEF Init, NetworkInv, ViewOK

\* A registration, whenever its joined_at was taken.
LEMMA InsertKeepsInv ==
  ASSUME NetworkInv, NEW m \in Members, NEW p \in joined \cup {TenantRoot},
         NEW earliest \in Nat, p \in joined => stamp[p] <= earliest, Insert(m, p, earliest)
  PROVE  NetworkInv'
<1>1. TreeOK /\ ViewOK
  BY DEF NetworkInv
<1>2. /\ TreeOK' /\ joined' = joined \cup {m}
      /\ \A k \in joined : stamp'[k] = stamp[k] /\ path'[k] = path[k] /\ sponsor'[k] = sponsor[k]
  BY <1>1, InsertKeepsTree
<1>3. path[TenantRoot] = {TenantRoot} /\ path'[TenantRoot] = {TenantRoot}
  BY <1>1, <1>2 DEF TreeOK, Placed
<1>4. UNCHANGED view /\ clock \in Nat /\ clock' = clock
  BY <1>1 DEF Insert, TreeOK, TreeTypes
<1>5. TreeKept
  BY <1>2, <1>3 DEF TreeKept
<1> QED BY <1>1, <1>2, <1>4, <1>5, ViewKept DEF NetworkInv

\* A step of the views alone.
LEMMA ViewStep ==
  ASSUME NetworkInv, UNCHANGED <<clock, tree>>, ViewOK'
  PROVE  NetworkInv'
BY TreeRests DEF NetworkInv, TreeOK, TreeTypes

\* Every step keeps the tree and the view in order.
LEMMA NetworkStep ==
  ASSUME NetworkInv, [Next]_vars
  PROVE  NetworkInv'
<1>1. TreeOK /\ ViewOK /\ clock \in Nat
  BY DEF NetworkInv, TreeOK, TreeTypes
<1>2. ASSUME UNCHANGED <<tree, view>>, clock' \in Nat, clock <= clock' PROVE NetworkInv'
  <2>1. TreeOK'
    BY <1>1, <1>2, TreeRests
  <2>2. TreeKept
    BY <1>2 DEF TreeKept, tree
  <2> QED BY <1>1, <1>2, <2>1, <2>2, ViewKept DEF NetworkInv
<1>3. CASE UNCHANGED vars
  BY <1>1, <1>2, <1>3 DEF vars
<1>4. CASE Tick
  <2>1. clock' = clock + 1 /\ UNCHANGED <<tree, view>>
    BY <1>4 DEF Tick
  <2> QED BY <1>1, <1>2, <2>1
<1>5. ASSUME NEW m \in Members, CreateRoot(m) PROVE NetworkInv'
  <2>1. TenantRoot \notin joined
    BY <1>1, NodesType DEF TreeOK, TreeTypes
  <2> QED BY <1>5, <2>1, InsertKeepsInv DEF CreateRoot
<1>6. ASSUME NEW m \in Members, NEW p \in Members, CreateUnder(m, p) PROVE NetworkInv'
  <2>1. p \in joined /\ stamp[p] \in Nat /\ stamp[p] <= stamp[p] /\ Insert(m, p, stamp[p])
    BY <1>1, <1>6 DEF CreateUnder, TreeOK, TreeTypes
  <2> QED BY <2>1, InsertKeepsInv
<1>7. ASSUME NEW a \in Nodes,
             \/ \E d \in 1 .. MaxDepth : OpenAdminContext(a, d)
             \/ OpenMemberContext(a)
             \/ OpenAdminList(a)
             \/ \E S \in Searches : OpenDirectSearch(a, S)
      PROVE  NetworkInv'
  <2>1. ASSUME NEW d \in 1 .. MaxDepth, OpenAdminContext(a, d) PROVE NetworkInv'
    <3>1. UNCHANGED <<clock, tree>>
      BY <2>1 DEF OpenAdminContext
    <3>2. ViewOK'
      BY <1>1, <2>1, OpenAdminContextKeepsView
    <3> QED BY <3>1, <3>2, ViewStep
  <2>2. CASE OpenMemberContext(a)
    <3>1. UNCHANGED <<clock, tree>>
      BY <2>2 DEF OpenMemberContext
    <3>2. ViewOK'
      BY <1>1, <2>2, OpenMemberContextKeepsView
    <3> QED BY <3>1, <3>2, ViewStep
  <2>3. CASE OpenAdminList(a)
    <3>1. UNCHANGED <<clock, tree>> /\ a \in Here /\ OpenFlat("list", a, Members)
      BY <2>3 DEF OpenAdminList, OpenFlat, Here
    <3>2. ViewOK'
      BY <1>1, <3>1, OpenFlatKeepsView
    <3> QED BY <3>1, <3>2, ViewStep
  <2>4. ASSUME NEW S \in Searches, OpenDirectSearch(a, S) PROVE NetworkInv'
    <3>1. UNCHANGED <<clock, tree>> /\ a \in Here /\ OpenFlat("direct", a, S)
      BY <2>4 DEF OpenDirectSearch, OpenFlat, Here
    <3>2. ViewOK'
      BY <1>1, <3>1, OpenFlatKeepsView
    <3> QED BY <3>1, <3>2, ViewStep
  <2> QED BY <1>7, <2>1, <2>2, <2>3, <2>4
<1>8. ASSUME NEW S \in Searches, OpenAdminSearch(S) PROVE NetworkInv'
  <2>1. UNCHANGED <<clock, tree>> /\ TenantRoot \in Here /\ OpenFlat("search", TenantRoot, S)
    BY <1>8 DEF OpenAdminSearch, OpenFlat, Here
  <2>2. ViewOK'
    BY <1>1, <2>1, OpenFlatKeepsView
  <2> QED BY <2>1, <2>2, ViewStep
<1>9. CASE FinishAdminContext \/ FinishMemberContext
  <2>1. UNCHANGED <<clock, tree>> /\ view.step = "reading"
    BY <1>9 DEF FinishAdminContext, FinishMemberContext
  <2>2. ReadingOK
    BY <1>1, <2>1 DEF ViewOK, Closed
  <2>3. ViewOK'
    BY <1>1, <1>9, <2>2, FinishAdminContextKeepsView, FinishMemberContextKeepsView
  <2> QED BY <2>1, <2>3, ViewStep
<1>10. ASSUME view.step = "open", NEW t \in view.tokens, NEW p \in Nodes,
              \/ NextBranchPage(t, p) \/ NextMemberPage(t, p)
              \/ NextListPage(t, p) \/ NextSearchPage(t, p) \/ NextDirectSearchPage(t, p)
       PROVE  NetworkInv'
  <2>1. UNCHANGED <<clock, tree>>
    BY <1>10 DEF NextBranchPage, NextMemberPage, NextListPage, NextSearchPage,
                 NextDirectSearchPage, Page
  <2>2. OpenOK
    BY <1>1, <1>10 DEF ViewOK, Closed
  <2>3. ViewOK'
    BY <1>1, <1>10, <2>2, NextBranchPageKeepsView, NextMemberPageKeepsView,
       NextListPageKeepsView, NextSearchPageKeepsView, NextDirectSearchPageKeepsView
  <2> QED BY <2>1, <2>3, ViewStep
<1>11. CASE Close
  <2>1. UNCHANGED <<clock, tree>> /\ ViewOK'
    BY <1>11 DEF Close, ViewOK
  <2> QED BY <2>1, ViewStep
<1> QED BY <1>3, <1>4, <1>5, <1>6, <1>7, <1>8, <1>9, <1>10, <1>11 DEF Next, Nodes

\* The invariant holds throughout, for any number of members, pages and requests.
THEOREM NetworkInvariant == Spec => []NetworkInv
<1>1. Init => NetworkInv
  BY NetworkInitially
<1>2. NetworkInv /\ [Next]_vars => NetworkInv'
  BY NetworkStep
<1> QED BY <1>1, <1>2, PTL DEF Spec

\* The properties are parts of it.
LEMMA InvGivesProperties ==
  ASSUME NetworkInv
  PROVE  ContextIsComplete /\ NobodyShownTwice /\ NobodyMissing /\ ShownInScope
<1>1. CASE view.step # "open"
  BY <1>1 DEF ContextIsComplete, NobodyShownTwice, NobodyMissing, ShownInScope
<1>2. CASE view.step = "open"
  <2>1. OpenOK
    BY <1>2 DEF NetworkInv, ViewOK, Closed
  <2>2. ContextIsComplete
    BY <2>1 DEF OpenOK
  <2>3. NobodyShownTwice
    BY <2>1 DEF OpenOK, NobodyShownTwice
  <2>4. NobodyMissing
    BY <2>1 DEF OpenOK, Missed, NobodyMissing
  <2>5. ShownInScope
    BY <2>1 DEF OpenOK, Shown, ShownInScope
  <2> QED BY <2>2, <2>3, <2>4, <2>5
<1> QED BY <1>1, <1>2

(***************************************************************************)
(* Arithmetic.                                                             *)
(***************************************************************************)
\* The base of all rates.
LEMMA WholeType == Whole \in Nat /\ Whole > 0
BY CommissionAssumption

\* A nonempty set of rates has a greatest element.
LEMMA GreatestRate ==
  ASSUME NEW T \in SUBSET (0 .. Whole), T # {}
  PROVE  \E x \in T : \A y \in T : y <= x
<1> DEFINE Gaps == {Whole - x : x \in T}
<1>1. \A x \in T : x \in Nat /\ x <= Whole /\ Whole - x \in Nat
  BY WholeType
<1>2. Gaps \in SUBSET Nat /\ Gaps # {}
  BY <1>1
<1>3. PICK g \in Gaps : \A h \in Gaps : g <= h
  BY <1>2, LeastNatural
<1>4. PICK x \in T : g = Whole - x
  BY <1>3
<1>5. ASSUME NEW y \in T PROVE y <= x
  <2>1. Whole - y \in Gaps
    OBVIOUS
  <2>2. g <= Whole - y
    BY <2>1, <1>3
  <2> QED BY <2>2, <1>4, <1>1, WholeType
<1> QED BY <1>5

\* A rounded share of an amount never exceeds the exact one (bpsAmount) ...
LEMMA BpsBelow ==
  ASSUME NEW a \in Nat, NEW r \in Nat
  PROVE  Bps(a, r) \in Nat /\ Bps(a, r) * Whole <= a * r
<1>1. Whole \in Nat \ {0} /\ a * r \in Nat
  BY CommissionAssumption
<1>2. \A x \in Nat, d \in Nat \ {0} : x \div d \in Nat /\ (x \div d) * d <= x
  OBVIOUS
<1> HIDE CommissionAssumption
<1> QED BY <1>1, <1>2 DEF Bps

\* ... and is the greatest number of cents that does not.
LEMMA BpsGreatest ==
  ASSUME NEW a \in Nat, NEW r \in Nat, NEW q \in Nat, q * Whole <= a * r
  PROVE  q <= Bps(a, r)
<1>1. Whole \in Nat \ {0} /\ a * r \in Nat
  BY CommissionAssumption
<1>2. \A x \in Nat, d \in Nat \ {0} : q * d <= x => q <= x \div d
  OBVIOUS
<1> QED BY <1>1, <1>2 DEF Bps

\* Shares of one amount add up to at most the share of the added rates.
LEMMA SharesAdd ==
  ASSUME NEW a \in Nat, NEW g \in Nat, NEW c \in Nat, NEW u \in Nat, NEW r \in Nat,
         g * Whole <= a * u, c * Whole <= a * r
  PROVE  (g + c) * Whole <= a * (u + r)
<1>1. Whole \in Nat
  BY CommissionAssumption
<1>2. (g + c) * Whole = g * Whole + c * Whole
  BY <1>1
<1>3. a * (u + r) = a * u + a * r
  OBVIOUS
<1>4. /\ g * Whole \in Nat /\ c * Whole \in Nat
      /\ a * u \in Nat /\ a * r \in Nat
  BY <1>1
<1> QED BY <1>2, <1>3, <1>4

\* A share at a larger rate is larger.
LEMMA SharesGrow ==
  ASSUME NEW a \in Nat, NEW u \in Nat, NEW v \in Nat, u <= v
  PROVE  a * u <= a * v
<1>1. a * v = a * u + a * (v - u)
  OBVIOUS
<1>2. a * (v - u) \in Nat /\ a * u \in Nat
  OBVIOUS
<1> QED BY <1>1, <1>2

\* The same for a larger amount.
LEMMA SharesSwap ==
  ASSUME NEW r \in Nat, NEW a \in Nat, NEW b \in Nat, a <= b
  PROVE  a * r <= b * r
<1>1. r * a <= r * b
  BY SharesGrow
<1>2. r * a = a * r /\ r * b = b * r
  OBVIOUS
<1> QED BY <1>1, <1>2

\* Products of naturals are naturals.
LEMMA ProductType ==
  ASSUME NEW a \in Nat, NEW b \in Nat
  PROVE  a * b \in Nat
OBVIOUS

\* What is at most a share at a rate of Whole or less is at most the amount.
LEMMA ShareBelowAmount ==
  ASSUME NEW a \in Nat, NEW g \in Nat, NEW u \in 0 .. Whole, g * Whole <= a * u
  PROVE  g <= a
<1> USE CommissionAssumption
<1>1. a * u <= a * Whole
  BY SharesGrow
<1>2. g * Whole <= a * Whole
  BY <1>1
<1>3. SUFFICES ASSUME g > a PROVE FALSE
  OBVIOUS
<1>4. (g - a) * Whole > 0
  BY <1>3
<1>5. (g - a) * Whole = g * Whole - a * Whole
  OBVIOUS
<1> QED BY <1>2, <1>4, <1>5

(***************************************************************************)
(* Rank tiers.                                                             *)
(***************************************************************************)
Ladders == [Ranks -> Tiers \cup {None}]

\* maxOverrideBps is a rate, and none of the tiers overrides more.
LEMMA MaxOverride ==
  ASSUME NEW ts \in Ladders
  PROVE  /\ MaxOverrideBps(ts) \in 0 .. Whole
         /\ \A r \in Ranks : ts[r] # None => ts[r].bps <= MaxOverrideBps(ts)
<1> DEFINE rates == {0} \cup {ts[r].bps : r \in {q \in Ranks : ts[q] # None}}
<1>1. \A r \in Ranks : ts[r] # None => ts[r].bps \in 0 .. Whole
  BY CommissionAssumption DEF Ladders
<1>2. rates \in SUBSET (0 .. Whole) /\ rates # {}
  BY <1>1, CommissionAssumption
<1>3. \E x \in rates : \A y \in rates : y <= x
  BY <1>2, GreatestRate
<1>4. MaxOverrideBps(ts) \in rates /\ \A y \in rates : y <= MaxOverrideBps(ts)
  BY <1>3 DEF MaxOverrideBps
<1> QED BY <1>4, <1>2

\* The override of a seller is one of a tier's (overrideBpsFor).
LEMMA OverrideBelowMax ==
  ASSUME tiers \in Ladders, NEW m, NEW earned
  PROVE  OverrideBps(m, earned) \in Nat /\ OverrideBps(m, earned) <= MaxOverrideBps(tiers)
<1> DEFINE reached == {r \in Ranks : /\ tiers[r] # None
                                     /\ TeamSize(m) >= tiers[r].team /\ earned >= tiers[r].earned}
           highest == {r \in reached : \A q \in reached : q <= r}
<1>1. CASE highest = {}
  <2>1. OverrideBps(m, earned) = 0
    BY <1>1 DEF OverrideBps
  <2> QED BY <2>1, MaxOverride
<1>2. CASE highest # {}
  <2>1. PICK r \in highest : OverrideBps(m, earned) = tiers[r].bps
    BY <1>2 DEF OverrideBps
  <2>2. r \in Ranks /\ tiers[r] # None
    BY <2>1
  <2>3. tiers[r].bps \in Nat
    BY <2>2, CommissionAssumption DEF Ladders
  <2> QED BY <2>1, <2>2, <2>3, MaxOverride
<1> QED BY <1>1, <1>2

(***************************************************************************)
(* The invariant: plans fit into their pools, and at every point of an     *)
(* application what has been given is at most the exact share of the rates *)
(* that have been used so far.                                             *)
(***************************************************************************)
PlanOffers == [pool: 0 .. Whole, depth: Nat \ {0},
               upto: UNION {[0 .. d -> Nat] : d \in Nat \ {0}}, bonus: Bonuses]

Lines == [to: Members \cup {Company}, cents: Nat]

PlansOK ==
  /\ plans \in Seq([offer: PlanOffers, from: Int])
  /\ \A v \in Versions : Offer(plans[v].offer) /\ Acceptable(plans[v].offer)

SalesOK == sale = None \/ sale \in [seller: Members, amount: Nat, date: Int, plan: Nat]

Steps == {"levels", "override", "ceiling", "committed", "refused"}

\* The fields of an application; what it has read of the members is not looked at.
Application(r) ==
  /\ r \in [step: Steps, plan: Nat, offer: PlanOffers, active: {r.active}, policy: {r.policy},
            chain: {r.chain}, sponsor: {r.sponsor}, lines: Seq(Lines), given: Nat,
            tiers: Ladders]
  /\ Offer(r.offer) /\ Acceptable(r.offer)

BonusRates(o) == o.pool + o.bonus.fast + o.bonus.match

\* What an application may have given where it is.
GivenOK(r, amount) ==
  /\ r.step = "levels" =>
       /\ r.lines \in Seq(Lines) /\ Len(r.lines) <= r.offer.depth
       /\ \A k \in 1 .. Len(r.lines) : r.lines[k].cents <= r.given
       /\ r.given * Whole <= amount * r.offer.upto[Len(r.lines)]
  /\ r.step = "override" => r.given * Whole <= amount * BonusRates(r.offer)
  /\ r.step = "ceiling" =>
       r.given * Whole <= amount * (BonusRates(r.offer) + MaxOverrideBps(r.tiers))

\* An application runs under the plan that its sale is frozen to.
FrozenOK == sale.plan # 0 => run.plan = sale.plan

RunOK ==
  \/ run = Idle /\ (sale # None => sale.plan = 0)
  \/ sale # None /\ Application(run) /\ GivenOK(run, sale.amount) /\ FrozenOK

Inv == PlansOK /\ tiers \in Ladders /\ SalesOK /\ RunOK

\* Nothing is sold yet.
LEMMA InitHolds == CommissionInit => Inv
<1> SUFFICES ASSUME CommissionInit PROVE Inv
  OBVIOUS
<1> QED BY DEF CommissionInit, Inv, PlansOK, Versions, Ladders, SalesOK, RunOK

\* A plan that may be submitted is a plan.
LEMMA OfferType ==
  ASSUME NEW o \in PlanOffers, Offer(o), NEW b \in Bonuses
  PROVE  /\ [o EXCEPT !.bonus = b] \in PlanOffers
         /\ Offer([o EXCEPT !.bonus = b])
         /\ Acceptable(o) => Acceptable([o EXCEPT !.bonus = b])
BY DEF PlanOffers, Offer, Acceptable

\* Every version is a plan whose levels fit into its pool.
LEMMA PlansType ==
  ASSUME Inv, NEW v \in Versions
  PROVE  plans[v].offer \in PlanOffers /\ Offer(plans[v].offer) /\ Acceptable(plans[v].offer)
<1> DEFINE PlanRows == [offer: PlanOffers, from: Int]
<1>1. plans \in Seq(PlanRows)
  BY DEF Inv, PlansOK
<1>2. \A row \in PlanRows : row.offer \in PlanOffers
  OBVIOUS
<1> HIDE DEF PlanRows
<1>3. plans[v] \in PlanRows
  BY <1>1 DEF Versions
<1> QED BY <1>2, <1>3 DEF Inv, PlansOK

\* A new version keeps the plans in order.
LEMMA VersionAdded ==
  ASSUME Inv, NEW o \in PlanOffers, Offer(o), Acceptable(o), NEW from \in Int,
         AddVersion(o, from)
  PROVE  Inv'
<1> USE DEF Inv, PlansOK, AddVersion
<1>1. [offer |-> o, from |-> from] \in [offer: PlanOffers, from: Int]
  OBVIOUS
<1>2. plans' \in Seq([offer: PlanOffers, from: Int])
  BY <1>1
<1>3. \A v \in Versions' : Offer(plans'[v].offer) /\ Acceptable(plans'[v].offer)
  BY <1>1 DEF Versions
<1>4. UNCHANGED <<tiers, sale, run>>
  OBVIOUS
<1> QED BY <1>2, <1>3, <1>4 DEF SalesOK, RunOK, FrozenOK

\* A submitted plan is a plan.
LEMMA OffersType ==
  ASSUME NEW o \in Offers
  PROVE  o \in PlanOffers /\ Offer(o)
<1>1. Offer(o)
  BY CommissionAssumption
<1>2. o \in PlanOffers
  BY <1>1 DEF Offer, PlanOffers
<1> QED BY <1>1, <1>2

\* createVersion
LEMMA CreateVersionKeeps ==
  ASSUME Inv, NEW o \in Offers, NEW from \in Dates, CreateVersion(o, from)
  PROVE  Inv'
<1>1. from \in Int
  BY CommissionAssumption
<1> QED BY <1>1, OffersType, VersionAdded DEF CreateVersion

\* createBonusVersion
LEMMA CreateBonusVersionKeeps ==
  ASSUME Inv, NEW b \in Bonuses, NEW from \in Int, CreateBonusVersion(b, from)
  PROVE  Inv'
<1> DEFINE v == Effective(clock)
<1>1. v \in Versions /\ AddVersion([plans[v].offer EXCEPT !.bonus = b], from)
  BY DEF CreateBonusVersion
<1> HIDE DEF v
<1> QED BY <1>1, PlansType, OfferType, VersionAdded

\* create, update and remove of a rank tier
LEMMA SetTierKeeps ==
  ASSUME Inv, NEW r \in Ranks, NEW t \in Tiers \cup {None}, SetTier(r, t)
  PROVE  Inv'
<1>1. tiers' \in Ladders
  BY DEF Inv, SetTier, Ladders
<1>2. UNCHANGED <<plans, sale, run>>
  BY DEF SetTier
<1> QED BY <1>1, <1>2 DEF Inv, PlansOK, Versions, SalesOK, RunOK, FrozenOK

\* A sale is entered.
LEMMA EnterSaleKeeps ==
  ASSUME Inv, NEW m \in Members, NEW a \in Amounts, NEW d \in Dates, EnterSale(m, a, d)
  PROVE  Inv'
<1>1. run = Idle /\ run' = Idle /\ sale'.plan = 0
  BY DEF Inv, RunOK, EnterSale
<1>2. sale' \in [seller: Members, amount: Nat, date: Int, plan: Nat]
  BY CommissionAssumption DEF EnterSale
<1>3. UNCHANGED <<plans, tiers>>
  BY DEF EnterSale
<1> QED BY <1>1, <1>2, <1>3 DEF Inv, PlansOK, Versions, SalesOK, RunOK

\* An application starts with nothing given.
LEMMA ResolveKeeps ==
  ASSUME Inv, NEW active, NEW policy, Resolve(active, policy)
  PROVE  Inv'
<1>1. /\ sale # None /\ sale.amount \in Nat /\ sale.plan \in Nat
      /\ UNCHANGED <<plans, tiers, sale>>
  BY DEF Inv, SalesOK, Resolve
<1>2. PlanFor \in Versions /\ PlanFor \in Nat
  BY DEF Resolve, Versions
<1>3. Offer(plans[PlanFor].offer) /\ Acceptable(plans[PlanFor].offer)
  BY <1>2 DEF Inv, PlansOK
<1>4. /\ run'.step = "levels" /\ run'.plan = PlanFor /\ run'.offer = plans[PlanFor].offer
      /\ run'.lines = <<>> /\ run'.given = 0 /\ run'.tiers = tiers
      /\ run' \in [step: {run'.step}, plan: {run'.plan}, offer: {run'.offer},
                  active: {run'.active}, policy: {run'.policy}, chain: {run'.chain},
                  sponsor: {run'.sponsor}, lines: {run'.lines}, given: {run'.given},
                  tiers: {run'.tiers}]
  BY DEF Resolve
<1>5. Application(run')
  <2>1. plans[PlanFor].offer \in PlanOffers
    BY <1>2, PlansType
  <2>2. /\ run'.step \in Steps /\ run'.plan \in Nat /\ run'.offer \in PlanOffers
        /\ run'.lines \in Seq(Lines) /\ run'.given \in Nat /\ run'.tiers \in Ladders
    BY <1>2, <1>4, <2>1 DEF Steps, Inv
  <2> QED BY <1>3, <1>4, <2>2 DEF Application
<1>6. GivenOK(run', sale.amount)
  <2>1. run'.offer.upto[0] = 0 /\ run'.offer.depth \in Nat
    BY <1>3, <1>4 DEF Offer
  <2>2. 0 * Whole <= sale.amount * 0
    BY <1>1, WholeType
  <2> QED BY <1>4, <2>1, <2>2 DEF GivenOK
<1>7. FrozenOK'
  BY <1>1, <1>4 DEF FrozenOK, PlanFor
<1> QED BY <1>1, <1>5, <1>6, <1>7 DEF Inv, PlansOK, Versions, SalesOK, RunOK

\* What the fields of an application are worth to the provers.
LEMMA ApplicationFields ==
  ASSUME Inv, run # Idle
  PROVE  /\ sale # None /\ sale.amount \in Nat /\ sale.plan \in Nat
         /\ Application(run) /\ GivenOK(run, sale.amount) /\ FrozenOK
         /\ run.given \in Nat
         /\ run.offer.pool \in 0 .. Whole /\ run.offer.depth \in Nat \ {0}
         /\ run.offer.bonus.fast \in 0 .. Whole /\ run.offer.bonus.match \in 0 .. Whole
         /\ \A k \in 0 .. run.offer.depth : run.offer.upto[k] \in Nat
         /\ \A k \in 0 .. run.offer.depth - 1 : run.offer.upto[k] <= run.offer.upto[k + 1]
         /\ run.offer.upto[run.offer.depth] <= run.offer.pool
<1>1. /\ sale # None /\ sale.amount \in Nat /\ sale.plan \in Nat
      /\ Application(run) /\ GivenOK(run, sale.amount) /\ FrozenOK
  BY DEF Inv, SalesOK, RunOK
<1>2. /\ run.given \in Nat /\ Offer(run.offer) /\ Acceptable(run.offer)
  BY <1>1 DEF Application
<1>3. run.offer.bonus \in [fast: 0 .. Whole, days: Nat, match: 0 .. Whole]
  BY <1>2, CommissionAssumption DEF Offer
<1> QED BY <1>1, <1>2, <1>3 DEF Offer, Acceptable

\* The levels of a plan stay within its pool one by one.
LEMMA UptoBelowWhole ==
  ASSUME Inv, run # Idle, NEW k \in 0 .. run.offer.depth
  PROVE  run.offer.upto[k] \in 0 .. Whole
<1> DEFINE o == run.offer
           Bad == {j \in 0 .. o.depth : o.upto[o.depth - j] > o.pool}
<1>1. /\ o.depth \in Nat /\ o.pool \in 0 .. Whole
      /\ \A j \in 0 .. o.depth : o.upto[j] \in Nat
      /\ \A j \in 0 .. o.depth - 1 : o.upto[j] <= o.upto[j + 1]
      /\ o.upto[o.depth] <= o.pool
  BY ApplicationFields
<1> HIDE DEF o
<1>2. Bad = {}
  <2>1. SUFFICES ASSUME Bad # {} PROVE FALSE
    OBVIOUS
  <2>2. PICK j \in Bad : \A i \in Bad : j <= i
    <3>1. Bad \in SUBSET Nat
      BY <1>1
    <3> HIDE DEF Bad
    <3> QED BY <2>1, <3>1, LeastNatural
  <2>3. j \in 1 .. o.depth
    BY <1>1, <2>2
  <2>4. j - 1 \notin Bad /\ j - 1 \in 0 .. o.depth
    BY <1>1, <2>2, <2>3
  <2>5. o.upto[o.depth - j + 1] <= o.pool
    <3>1. o.depth - (j - 1) = o.depth - j + 1
      BY <1>1, <2>3
    <3>2. ~(o.upto[o.depth - (j - 1)] > o.pool)
      BY <2>4
    <3>3. o.depth - j + 1 \in 0 .. o.depth
      BY <1>1, <2>3
    <3> QED BY <1>1, <3>1, <3>2, <3>3
  <2>6. o.depth - j \in 0 .. o.depth - 1 /\ o.depth - j + 1 \in 0 .. o.depth
    BY <1>1, <2>3
  <2>7. o.upto[o.depth - j] <= o.upto[o.depth - j + 1]
    BY <1>1, <2>6
  <2> QED BY <1>1, <2>2, <2>5, <2>6, <2>7
<1>3. k \in 0 .. o.depth
  BY DEF o
<1>4. o.depth - k \in 0 .. o.depth /\ o.depth - (o.depth - k) = k
  BY <1>1, <1>3
<1>5. ~(o.upto[k] > o.pool)
  <2>1. o.depth - k \notin Bad
    BY <1>2
  <2> QED BY <1>4, <2>1
<1>6. o.upto[k] \in 0 .. Whole
  BY <1>1, <1>3, <1>5, WholeType
<1> QED BY <1>6 DEF o

\* An application that only moves on keeps its plan.
LEMMA MovesOn ==
  ASSUME Inv, run # Idle, UNCHANGED <<plans, tiers, sale>>,
         Application(run'), run'.plan = run.plan, GivenOK(run', sale.amount)
  PROVE  Inv'
<1>1. FrozenOK'
  BY ApplicationFields DEF FrozenOK
<1> QED BY <1>1, ApplicationFields DEF Inv, PlansOK, Versions, SalesOK, RunOK

\* A level adds at most the share of its rate (computeCommissionLines).
LEMMA PayLevelKeeps ==
  ASSUME Inv, PayLevel
  PROVE  Inv'
<1> DEFINE k == Len(run.lines)
           to == IF k < Len(run.chain) /\ run.chain[k + 1] \in Members
                 THEN run.chain[k + 1] ELSE Company
           cents == IF to = Company THEN 0 ELSE Bps(sale.amount, RateAt(run.offer, k))
           line == IF cents = 0 THEN NoLine ELSE [to |-> to, cents |-> cents]
<1>1. run # Idle /\ run.step = "levels" /\ k < run.offer.depth
  BY DEF PayLevel, Idle
<1>2. /\ run.lines \in Seq(Lines)
      /\ \A j \in 1 .. Len(run.lines) : run.lines[j].cents <= run.given
      /\ run.given * Whole <= sale.amount * run.offer.upto[Len(run.lines)]
  BY <1>1, ApplicationFields DEF GivenOK
<1>3. k \in 0 .. run.offer.depth - 1
  BY <1>1, <1>2, ApplicationFields
<1>4. /\ run.offer.upto[k] \in Nat /\ RateAt(run.offer, k) \in Nat
      /\ run.offer.upto[k + 1] = run.offer.upto[k] + RateAt(run.offer, k)
  <2>1. k \in 0 .. run.offer.depth /\ k + 1 \in 0 .. run.offer.depth
    BY <1>1, <1>3, ApplicationFields
  <2>2. /\ run.offer.upto[k] \in Nat /\ run.offer.upto[k + 1] \in Nat
        /\ run.offer.upto[k] <= run.offer.upto[k + 1]
    BY <1>1, <1>3, <2>1, ApplicationFields
  <2> HIDE DEF k
  <2> QED BY <2>2 DEF RateAt
<1>5. cents \in Nat /\ cents * Whole <= sale.amount * RateAt(run.offer, k)
  <2>1. sale.amount * RateAt(run.offer, k) \in Nat /\ 0 * Whole = 0
    BY <1>1, <1>4, ApplicationFields, WholeType
  <2>2. /\ Bps(sale.amount, RateAt(run.offer, k)) \in Nat
        /\ Bps(sale.amount, RateAt(run.offer, k)) * Whole <= sale.amount * RateAt(run.offer, k)
    BY <1>1, <1>4, ApplicationFields, BpsBelow
  <2> QED BY <2>1, <2>2
<1>6. to \in Members \cup {Company}
  OBVIOUS
<1>7. /\ run' = [run EXCEPT !.lines = Append(@, line), !.given = @ + cents]
      /\ UNCHANGED <<plans, tiers, sale>>
  BY DEF PayLevel
<1> HIDE DEF k, to, cents
<1>8. line \in Lines /\ line.cents = cents
  BY <1>5, <1>6 DEF Lines, NoLine
<1> HIDE DEF line
<1>9. run.given + cents \in Nat /\ Append(run.lines, line) \in Seq(Lines)
  BY <1>1, <1>2, <1>5, <1>8, ApplicationFields
<1>10. /\ run'.step = "levels" /\ run'.plan = run.plan /\ run'.offer = run.offer
       /\ run'.lines = Append(run.lines, line) /\ run'.given = run.given + cents
       /\ Application(run')
  <2> DEFINE ls == Append(run.lines, line)
             g == run.given + cents
  <2>1. run' = [run EXCEPT !.lines = ls, !.given = g] /\ Application(run)
    BY <1>1, <1>7, ApplicationFields
  <2>2. ls \in Seq(Lines) /\ g \in Nat
    BY <1>9
  <2> HIDE DEF ls, g
  <2>3. /\ Application(run') /\ run'.step = run.step /\ run'.plan = run.plan
        /\ run'.offer = run.offer /\ run'.lines = ls /\ run'.given = g
    BY <2>1, <2>2 DEF Application
  <2> QED BY <1>1, <2>3 DEF ls, g
<1>11. /\ run'.lines \in Seq(Lines) /\ Len(run'.lines) = k + 1
       /\ \A j \in 1 .. k : run'.lines[j] = run.lines[j]
       /\ run'.lines[k + 1] = line
  BY <1>2, <1>8, <1>10 DEF k
<1>12. \A j \in 1 .. Len(run'.lines) : run'.lines[j].cents <= run'.given
  <2>1. \A j \in 1 .. k : run.lines[j] \in Lines
    BY <1>2 DEF k
  <2>2. \A j \in 1 .. k : run.lines[j].cents \in Nat
    BY <2>1 DEF Lines
  <2>3. ASSUME NEW j \in 1 .. k + 1 PROVE run'.lines[j].cents <= run.given + cents
    <3>1. CASE j = k + 1
      BY <3>1, <1>1, <1>5, <1>8, <1>11, ApplicationFields
    <3>2. CASE j # k + 1
      <4>1. j \in 1 .. k
        BY <3>2, <1>3
      <4>2. run'.lines[j].cents = run.lines[j].cents /\ run.lines[j].cents <= run.given
        BY <4>1, <1>2, <1>11 DEF k
      <4> QED BY <4>1, <4>2, <2>2, <1>1, <1>5, ApplicationFields
    <3> QED BY <3>1, <3>2
  <2> QED BY <2>3, <1>10, <1>11
<1>13. run'.given * Whole <= sale.amount * run'.offer.upto[Len(run'.lines)]
  <2>1. (run.given + cents) * Whole
          <= sale.amount * (run.offer.upto[k] + RateAt(run.offer, k))
    BY <1>1, <1>2, <1>4, <1>5, ApplicationFields, SharesAdd DEF k
  <2> QED BY <2>1, <1>4, <1>10, <1>11
<1>14. Len(run'.lines) <= run'.offer.depth
  BY <1>1, <1>3, <1>10, <1>11, ApplicationFields
<1>15. GivenOK(run', sale.amount)
  BY <1>10, <1>11, <1>12, <1>13, <1>14 DEF GivenOK
<1> QED BY <1>1, <1>7, <1>10, <1>15, MovesOn

\* The fast start bonus is a share of the amount at its rate.
LEMMA FastStartBelow ==
  ASSUME Inv, run # Idle
  PROVE  FastStart \in Nat /\ FastStart * Whole <= sale.amount * run.offer.bonus.fast
<1>1. sale.amount \in Nat /\ run.offer.bonus.fast \in Nat
  BY ApplicationFields
<1>2. /\ Bps(sale.amount, run.offer.bonus.fast) \in Nat
      /\ Bps(sale.amount, run.offer.bonus.fast) * Whole <= sale.amount * run.offer.bonus.fast
  BY <1>1, BpsBelow
<1>3. 0 * Whole <= sale.amount * run.offer.bonus.fast
  <2>1. 0 * Whole = 0 /\ sale.amount * run.offer.bonus.fast \in Nat
    BY <1>1, WholeType
  <2> QED BY <2>1
<1>4. FastStart \in {0, Bps(sale.amount, run.offer.bonus.fast)}
  BY DEF FastStart
<1> QED BY <1>2, <1>3, <1>4

\* The matching bonus is a share of one line, which is at most the amount.
LEMMA MatchingBelow ==
  ASSUME Inv, run # Idle, run.step = "levels"
  PROVE  Matching \in Nat /\ Matching * Whole <= sale.amount * run.offer.bonus.match
<1> DEFINE paid == {k \in 1 .. Len(run.lines) : run.lines[k] # NoLine}
           match == run.offer.bonus.match
<1>1. sale.amount \in Nat /\ match \in Nat /\ run.given \in Nat
  BY ApplicationFields
<1>2. /\ run.lines \in Seq(Lines) /\ Len(run.lines) <= run.offer.depth
      /\ \A k \in 1 .. Len(run.lines) : run.lines[k].cents <= run.given
      /\ run.given * Whole <= sale.amount * run.offer.upto[Len(run.lines)]
  BY ApplicationFields DEF GivenOK
<1>3. CASE paid = {}
  <2>1. Matching = 0
    BY <1>3 DEF Matching
  <2>2. 0 * Whole = 0 /\ sale.amount * match \in Nat
    BY <1>1, WholeType
  <2> QED BY <2>1, <2>2
<1>4. CASE paid # {}
  <2>1. \E k \in paid : \A j \in paid : k <= j
    <3>1. paid \in SUBSET Nat
      BY <1>2
    <3> HIDE DEF paid
    <3> QED BY <1>4, <3>1, LeastNatural
  <2>2. PICK k \in paid : Matching = Bps(run.lines[k].cents, match)
    BY <1>4, <2>1 DEF Matching
  <2>3. k \in 1 .. Len(run.lines)
    BY <2>2
  <2>4. run.lines[k].cents \in Nat
    <3>1. run.lines[k] \in Lines
      BY <1>2, <2>3
    <3> QED BY <3>1 DEF Lines
  <2>5. run.given <= sale.amount
    <3>1. Len(run.lines) \in 0 .. run.offer.depth
      BY <1>2, ApplicationFields
    <3>2. run.offer.upto[Len(run.lines)] \in 0 .. Whole
      BY <3>1, UptoBelowWhole
    <3> QED BY <1>1, <1>2, <3>2, ShareBelowAmount
  <2>6. run.lines[k].cents <= sale.amount
    BY <1>1, <1>2, <2>3, <2>4, <2>5
  <2>7. Bps(run.lines[k].cents, match) \in Nat /\ Bps(run.lines[k].cents, match) * Whole
          <= run.lines[k].cents * match
    BY <1>1, <2>4, BpsBelow
  <2>8. run.lines[k].cents * match <= sale.amount * match
    BY <1>1, <2>4, <2>6, SharesSwap
  <2>9. /\ sale.amount * match \in Nat /\ run.lines[k].cents * match \in Nat
        /\ Bps(run.lines[k].cents, match) * Whole \in Nat
    BY <1>1, <2>4, <2>7, WholeType, ProductType
  <2> DEFINE share == Bps(run.lines[k].cents, match)
             part == run.lines[k].cents * match
             whole == sale.amount * match
  <2>10. share \in Nat /\ share * Whole <= whole
    <3>1. /\ share \in Nat /\ share * Whole \in Nat /\ part \in Nat /\ whole \in Nat
          /\ share * Whole <= part /\ part <= whole
      BY <2>7, <2>8, <2>9
    <3> HIDE DEF share, part, whole
    <3> QED BY <3>1
  <2> QED BY <2>2, <2>10
<1> QED BY <1>3, <1>4

\* The bonuses of the direct sponsor add at most their shares.
LEMMA PayBonusesKeeps ==
  ASSUME Inv, PayBonuses
  PROVE  Inv'
<1> DEFINE g == IF run.sponsor = Company THEN run.given
                ELSE run.given + FastStart + Matching
           o == run.offer
<1>1. /\ run # Idle /\ run.step = "levels" /\ Len(run.lines) = o.depth
      /\ run' = [run EXCEPT !.step = "override", !.given = g]
      /\ UNCHANGED <<plans, tiers, sale>>
  BY DEF PayBonuses, Idle
<1>2. /\ Application(run) /\ run.given \in Nat /\ sale.amount \in Nat
      /\ o.pool \in Nat /\ o.bonus.fast \in Nat /\ o.bonus.match \in Nat
      /\ o.upto[o.depth] \in Nat /\ o.upto[o.depth] <= o.pool
  BY <1>1, ApplicationFields
<1>3. run.given * Whole <= sale.amount * o.pool
  <2>1. run.given * Whole <= sale.amount * o.upto[o.depth]
    BY <1>1, ApplicationFields DEF GivenOK
  <2>2. sale.amount * o.upto[o.depth] <= sale.amount * o.pool
    BY <1>2, SharesGrow
  <2>3. /\ run.given * Whole \in Nat /\ sale.amount * o.upto[o.depth] \in Nat
        /\ sale.amount * o.pool \in Nat
    BY <1>2, WholeType
  <2> QED BY <2>1, <2>2, <2>3
<1>4. g \in Nat /\ g * Whole <= sale.amount * BonusRates(o)
  <2>1. CASE run.sponsor = Company
    <3>1. sale.amount * o.pool <= sale.amount * (o.pool + (o.bonus.fast + o.bonus.match))
      BY <1>2, SharesGrow
    <3>2. /\ run.given * Whole \in Nat /\ sale.amount * o.pool \in Nat
          /\ BonusRates(o) = o.pool + (o.bonus.fast + o.bonus.match)
          /\ sale.amount * BonusRates(o) \in Nat
      BY <1>2, WholeType DEF BonusRates
    <3> QED BY <1>2, <1>3, <2>1, <3>1, <3>2
  <2>2. CASE run.sponsor # Company
    <3>1. /\ FastStart \in Nat /\ FastStart * Whole <= sale.amount * o.bonus.fast
          /\ Matching \in Nat /\ Matching * Whole <= sale.amount * o.bonus.match
      BY <1>1, FastStartBelow, MatchingBelow
    <3>2. (run.given + FastStart) * Whole <= sale.amount * (o.pool + o.bonus.fast)
      BY <1>2, <1>3, <3>1, SharesAdd
    <3>3. (run.given + FastStart + Matching) * Whole
            <= sale.amount * (o.pool + o.bonus.fast + o.bonus.match)
      <4>1. run.given + FastStart \in Nat /\ o.pool + o.bonus.fast \in Nat
        BY <1>2, <3>1
      <4> QED BY <1>2, <3>1, <3>2, <4>1, SharesAdd
    <3> QED BY <1>2, <2>2, <3>1, <3>3 DEF BonusRates
  <2> QED BY <2>1, <2>2
<1> HIDE DEF g
<1>5. /\ Application(run') /\ run'.step = "override" /\ run'.plan = run.plan
      /\ run'.offer = o /\ run'.given = g
  BY <1>1, <1>2, <1>4 DEF Application, Steps
<1>6. GivenOK(run', sale.amount)
  BY <1>4, <1>5 DEF GivenOK
<1> QED BY <1>1, <1>5, <1>6, MovesOn

\* The override adds at most the share of the highest rate of the tiers it is read from.
LEMMA PayOverrideKeeps ==
  ASSUME Inv, NEW earned, PayOverride(earned)
  PROVE  Inv'
<1> DEFINE b == OverrideBps(sale.seller, earned)
           top == MaxOverrideBps(tiers)
           cents == Bps(sale.amount, b)
           g == run.given + cents
           base == BonusRates(run.offer)
<1>1. /\ run # Idle /\ run.step = "override"
      /\ run' = [run EXCEPT !.step = "ceiling", !.tiers = tiers, !.given = g]
      /\ UNCHANGED <<plans, tiers, sale>>
  BY DEF PayOverride, Idle
<1>2. /\ Application(run) /\ run.given \in Nat /\ sale.amount \in Nat
      /\ run.given * Whole <= sale.amount * base
  BY <1>1, ApplicationFields DEF GivenOK
<1>3. base \in Nat
  BY <1>1, ApplicationFields, WholeType DEF BonusRates
<1>4. tiers \in Ladders
  BY DEF Inv
<1>5. b \in Nat /\ top \in Nat /\ b <= top
  BY <1>4, OverrideBelowMax, MaxOverride
<1> HIDE DEF b, top, base
<1>6. cents \in Nat /\ cents * Whole <= sale.amount * b
  BY <1>2, <1>5, BpsBelow
<1> HIDE DEF cents
<1>7. cents * Whole <= sale.amount * top
  <2>1. sale.amount * b <= sale.amount * top
    BY <1>2, <1>5, SharesGrow
  <2>2. sale.amount * b \in Nat /\ sale.amount * top \in Nat /\ cents * Whole \in Nat
    BY <1>2, <1>5, <1>6, WholeType, ProductType
  <2> QED BY <1>6, <2>1, <2>2
<1>8. g \in Nat /\ g * Whole <= sale.amount * (base + top)
  BY <1>2, <1>3, <1>5, <1>6, <1>7, SharesAdd
<1> HIDE DEF g
<1>9. /\ Application(run') /\ run'.step = "ceiling" /\ run'.plan = run.plan
      /\ run'.offer = run.offer /\ run'.given = g /\ run'.tiers = tiers
  BY <1>1, <1>2, <1>4, <1>8 DEF Application, Steps
<1>10. GivenOK(run', sale.amount)
  BY <1>8, <1>9 DEF GivenOK, base, top
<1> QED BY <1>1, <1>9, <1>10, MovesOn

\* A commit freezes the plan of the application.
LEMMA CommitKeeps ==
  ASSUME Inv, Commit
  PROVE  Inv'
<1>1. /\ run # Idle /\ run' = [run EXCEPT !.step = "committed"]
      /\ sale' = [sale EXCEPT !.plan = run.plan] /\ UNCHANGED <<plans, tiers>>
  BY DEF Commit, Idle
<1>2. Application(run)
  BY <1>1, ApplicationFields
<1>3. Application(run') /\ run'.step = "committed" /\ run'.plan = run.plan /\ run.plan \in Nat
  BY <1>1, <1>2 DEF Application, Steps
<1>4. sale \in [seller: Members, amount: Nat, date: Int, plan: Nat]
  BY <1>1, ApplicationFields DEF Inv, SalesOK
<1>5. sale' \in [seller: Members, amount: Nat, date: Int, plan: Nat] /\ sale'.plan = run.plan
  BY <1>1, <1>3, <1>4
<1>6. GivenOK(run', sale'.amount)
  BY <1>3 DEF GivenOK
<1>7. sale' # None
  <2>1. None \notin [seller: Members, amount: Nat, date: Int, plan: Nat]
    BY CommissionAssumption
  <2> QED BY <1>5, <2>1
<1> QED BY <1>1, <1>3, <1>5, <1>6, <1>7 DEF Inv, PlansOK, Versions, SalesOK, RunOK, FrozenOK

\* A refused application has written nothing.
LEMMA RefuseKeeps ==
  ASSUME Inv, Refuse
  PROVE  Inv'
<1>1. /\ run # Idle /\ run' = [run EXCEPT !.step = "refused"]
      /\ UNCHANGED <<plans, tiers, sale>>
  BY DEF Refuse, Idle
<1>2. Application(run)
  BY <1>1, ApplicationFields
<1>3. Application(run') /\ run'.step = "refused" /\ run'.plan = run.plan
  BY <1>1, <1>2 DEF Application, Steps
<1>4. GivenOK(run', sale.amount)
  BY <1>3 DEF GivenOK
<1> QED BY <1>1, <1>3, <1>4, MovesOn

(***************************************************************************)
(* Every step keeps the invariant.                                         *)
(***************************************************************************)
LEMMA StepHolds ==
  ASSUME Inv, [CommissionNext]_allVars
  PROVE  Inv'
<1>1. CASE UNCHANGED money
  BY <1>1 DEF money, Inv, PlansOK, Versions, SalesOK, RunOK, FrozenOK
<1>2. CASE Grown /\ Selling
  <2>1. ASSUME NEW o \in Offers, NEW from \in Dates, CreateVersion(o, from) PROVE Inv'
    BY <2>1, CreateVersionKeeps
  <2>2. ASSUME NEW b \in Bonuses, NEW from \in clock .. clock + MaxVersions,
               CreateBonusVersion(b, from)
        PROVE  Inv'
    <3>1. from \in Int
      BY <1>2, CommissionAssumption DEF Grown
    <3> QED BY <2>2, <3>1, CreateBonusVersionKeeps
  <2>3. ASSUME NEW r \in Ranks, NEW t \in Tiers \cup {None}, SetTier(r, t) PROVE Inv'
    BY <2>3, SetTierKeeps
  <2>4. ASSUME NEW m \in Members, NEW a \in Amounts, NEW d \in Dates, EnterSale(m, a, d)
        PROVE  Inv'
    BY <2>4, EnterSaleKeeps
  <2>5. ASSUME NEW active \in SUBSET Members, NEW policy \in Policies, Resolve(active, policy)
        PROVE  Inv'
    BY <2>5, ResolveKeeps
  <2>6. CASE PayLevel
    BY <2>6, PayLevelKeeps
  <2>7. CASE PayBonuses
    BY <2>7, PayBonusesKeeps
  <2>8. ASSUME NEW earned \in Earnings, PayOverride(earned) PROVE Inv'
    BY <2>8, PayOverrideKeeps
  <2>9. CASE Commit
    BY <2>9, CommitKeeps
  <2>10. CASE Refuse
    BY <2>10, RefuseKeeps
  <2> QED BY <1>2, <2>1, <2>2, <2>3, <2>4, <2>5, <2>6, <2>7, <2>8, <2>9, <2>10 DEF Selling
<1> QED BY <1>1, <1>2 DEF CommissionNext, allVars

\* The invariant holds throughout: what an application has given is at every point at
\* most the exact share of the rates it has used (applyCommissionsInTx).
THEOREM ExactShares == CommissionSpec => []Inv
<1> QED BY InitHolds, StepHolds, PTL DEF CommissionSpec

\* An application is refused only over tiers that are not those of its override.
LEMMA RefuseStep ==
  ASSUME Inv, Refuse
  PROVE  tiers # run.tiers
<1> SUFFICES ASSUME tiers = run.tiers PROVE FALSE
  OBVIOUS
<1> DEFINE rate == run.offer.pool + run.offer.bonus.fast + run.offer.bonus.match
                     + MaxOverrideBps(tiers)
<1>1. run # Idle /\ run.step = "ceiling" /\ run.given > Bps(sale.amount, rate)
  BY DEF Refuse, Idle, Ceiling
<1>2. /\ run.given \in Nat /\ sale.amount \in Nat
      /\ run.given * Whole <= sale.amount * rate
  BY <1>1, ApplicationFields DEF GivenOK, BonusRates
<1>3. rate \in Nat
  <2>1. tiers \in Ladders
    BY DEF Inv
  <2>2. MaxOverrideBps(tiers) \in Nat
    BY <2>1, MaxOverride
  <2> QED BY <1>1, <2>2, ApplicationFields, WholeType
<1> HIDE DEF rate
<1>4. Bps(sale.amount, rate) \in Nat /\ run.given <= Bps(sale.amount, rate)
  BY <1>2, <1>3, BpsBelow, BpsGreatest
<1> QED BY <1>1, <1>2, <1>4

\* However the roundings of levels, bonuses and override fall, for all plans, tiers and
\* amounts: only an edit of the tiers in the middle of it gets a sale refused.
THEOREM OnlyTierEditsRefuseHolds == CommissionSpec => OnlyTierEditsRefuse
<1>1. Inv /\ [CommissionNext]_allVars => [Refuse => tiers # run.tiers]_allVars
  BY RefuseStep
<1> QED BY <1>1, ExactShares, PTL DEF CommissionSpec, OnlyTierEditsRefuse

\* The plan of a sale with commissions changes neither in the sale nor in an application.
LEMMA FrozenStep ==
  ASSUME Inv, [CommissionNext]_allVars, sale # None, sale.plan # 0
  PROVE  sale'.plan = sale.plan /\ (run' # run => run'.plan = sale.plan)
<1>1. run # Idle /\ run.plan = sale.plan
  <2>1. Application(run) /\ run.plan = sale.plan
    BY DEF Inv, RunOK, FrozenOK
  <2>2. run.step # "idle"
    BY <2>1 DEF Application, Steps
  <2> QED BY <2>1, <2>2 DEF Idle
<1>2. Application(run) /\ sale \in [seller: Members, amount: Nat, date: Int, plan: Nat]
  BY <1>1, ApplicationFields DEF Inv, SalesOK
<1>3. CASE UNCHANGED money
  BY <1>3 DEF money
<1>4. CASE Grown /\ Selling
  <2>1. ASSUME NEW active, NEW policy, Resolve(active, policy)
        PROVE  sale' = sale /\ run'.plan = sale.plan
    BY <2>1 DEF Resolve, PlanFor
  <2>2. CASE PayLevel
    <3>1. run'.plan = run.plan /\ sale' = sale
      BY <1>2, <2>2 DEF PayLevel, Application
    <3> QED BY <1>1, <3>1
  <2>3. CASE PayBonuses
    <3>1. run'.plan = run.plan /\ sale' = sale
      BY <1>2, <2>3 DEF PayBonuses, Application
    <3> QED BY <1>1, <3>1
  <2>4. ASSUME NEW earned, PayOverride(earned)
        PROVE  sale' = sale /\ run'.plan = sale.plan
    <3>1. run'.plan = run.plan /\ sale' = sale
      BY <1>2, <2>4 DEF PayOverride, Application
    <3> QED BY <1>1, <3>1
  <2>5. CASE Commit
    <3>1. run'.plan = run.plan /\ sale'.plan = run.plan
      BY <1>2, <2>5 DEF Commit, Application
    <3> QED BY <1>1, <3>1
  <2>6. CASE Refuse
    <3>1. run'.plan = run.plan /\ sale' = sale
      BY <1>2, <2>6 DEF Refuse, Application
    <3> QED BY <1>1, <3>1
  <2>7. ASSUME NEW o, NEW from, CreateVersion(o, from) PROVE UNCHANGED <<sale, run>>
    BY <2>7 DEF CreateVersion, AddVersion
  <2>8. ASSUME NEW b, NEW from, CreateBonusVersion(b, from) PROVE UNCHANGED <<sale, run>>
    BY <2>8 DEF CreateBonusVersion, AddVersion
  <2>9. ASSUME NEW r, NEW t, SetTier(r, t) PROVE UNCHANGED <<sale, run>>
    BY <2>9 DEF SetTier
  <2>10. ASSUME NEW m, NEW a, NEW d PROVE ~EnterSale(m, a, d)
    BY DEF EnterSale
  <2> QED BY <1>1, <1>4, <2>1, <2>2, <2>3, <2>4, <2>5, <2>6, <2>7, <2>8, <2>9, <2>10 DEF Selling
<1> QED BY <1>3, <1>4 DEF CommissionNext, allVars

\* A plan added for the past never changes what a sale is paid by once commissions have
\* been applied to it, for all histories of plans.
THEOREM PlanStaysFrozenHolds == CommissionSpec => PlanStaysFrozen
<1>1. Inv /\ [CommissionNext]_allVars =>
        [sale # None /\ sale.plan # 0 =>
           sale'.plan = sale.plan /\ (run' # run => run'.plan = sale.plan)]_allVars
  BY FrozenStep
<1> QED BY <1>1, ExactShares, PTL DEF CommissionSpec, PlanStaysFrozen

(***************************************************************************)
(* The upline of a seller.                                                 *)
(***************************************************************************)
\* The further up, the more levels.
LEMMA TierGrows ==
  ASSUME TreeOK, NEW s \in Here, NEW a \in path[s], NEW b \in path[s], a \in path[b], a # b
  PROVE  Tier(s, b) < Tier(s, a)
<1> DEFINE A == {k \in path[s] : k = a \/ a \in path[k]}
           B == {k \in path[s] : k = b \/ b \in path[k]}
<1>1. IsFiniteSet(path[s]) /\ path[s] \subseteq Here /\ a \in Here /\ b \in Here
  BY PathType
<1>2. B \subseteq A
  <2>1. ASSUME NEW k \in path[s], b \in path[k] PROVE a \in path[k]
    <3>1. k \in Here
      BY <1>1
    <3> QED BY <2>1, <3>1, PathType
  <2> QED BY <2>1
<1>3. a \in A /\ a \notin B
  <2>1. b \notin path[a]
    BY <1>1, NoCycles
  <2> QED BY <2>1
<1>4. IsFiniteSet(A) /\ IsFiniteSet(B)
  BY <1>1, FS_Subset
<1>5. Tier(s, a) = Cardinality(A) - 1 /\ Tier(s, b) = Cardinality(B) - 1
  BY DEF Tier
<1> HIDE DEF A, B
<1>6. Cardinality(B) <= Cardinality(A) /\ (Cardinality(B) = Cardinality(A) => A = B)
  BY <1>2, <1>4, FS_Subset
<1>7. Cardinality(A) \in Nat /\ Cardinality(B) \in Nat
  BY <1>4, FS_CardinalityType
<1>8. Cardinality(A) # Cardinality(B)
  BY <1>3, <1>6
<1> QED BY <1>5, <1>6, <1>7, <1>8

\* Every level above a member has one member at most.
LEMMA OnePerTier ==
  ASSUME TreeOK, NEW s \in Here, NEW a \in path[s], NEW b \in path[s], Tier(s, a) = Tier(s, b)
  PROVE  a = b
<1>1. a \in path[b] \/ b \in path[a]
  <2>1. CASE s \in joined
    BY <2>1 DEF TreeOK, Ordered
  <2>2. CASE s = TenantRoot
    BY <2>2 DEF TreeOK, Placed
  <2> QED BY <2>1, <2>2 DEF Here
<1>2. Tier(s, a) \in Nat
  BY TierSteps
<1>3. \A x \in Nat : ~(x < x)
  OBVIOUS
<1> QED BY <1>1, <1>2, <1>3, TierGrows

\* A sponsor is one level above.
LEMMA TierOfSponsor ==
  ASSUME TreeOK, NEW s \in Here, NEW x \in joined, x \in path[s]
  PROVE  sponsor[x] \in path[s] /\ Tier(s, sponsor[x]) = Tier(s, x) + 1
<1> DEFINE b == sponsor[x]
           X == {k \in path[s] : k = x \/ x \in path[k]}
           B == {k \in path[s] : k = b \/ b \in path[k]}
<1>1. /\ IsFiniteSet(path[s]) /\ path[s] \subseteq Here /\ x \in Here
      /\ b \in path[x] /\ b # x /\ x \notin path[b] /\ b \in Here /\ path[x] = {x} \cup path[b]
  BY PathType, Above DEF Here
<1>2. b \in path[s]
  BY <1>1, PathType
<1>3. B = X \cup {b}
  <2>1. ASSUME NEW k \in X PROVE k \in B
    <3>1. x \in path[k] /\ k \in Here
      BY <1>1, PathType
    <3>2. b \in path[k]
      BY <1>1, <3>1, PathType
    <3> QED BY <3>2
  <2>2. ASSUME NEW k \in B, k # b PROVE k \in X
    <3>1. k \in path[s] /\ b \in path[k] /\ k \in Here
      BY <1>1, <2>2
    <3>2. x \in path[k] \/ k \in path[x]
      <4>1. CASE s \in joined
        BY <3>1, <4>1 DEF TreeOK, Ordered
      <4>2. CASE s = TenantRoot
        BY <3>1, <4>2, NodesType DEF TreeOK, Placed, TreeTypes
      <4> QED BY <4>1, <4>2 DEF Here
    <3>3. k \in path[b] => k = b
      BY <1>1, <3>1, NoCycles
    <3> QED BY <1>1, <2>2, <3>1, <3>2, <3>3
  <2> QED BY <1>2, <2>1, <2>2
<1>4. b \notin X
  BY <1>1
<1>5. IsFiniteSet(X)
  BY <1>1, FS_Subset
<1>6. Tier(s, b) = Cardinality(B) - 1 /\ Tier(s, x) = Cardinality(X) - 1
  BY DEF Tier
<1> HIDE DEF B, X
<1>7. Cardinality(B) = Cardinality(X) + 1
  BY <1>3, <1>4, <1>5, FS_AddElement
<1>8. Cardinality(X) \in Nat
  BY <1>5, FS_CardinalityType
<1> QED BY <1>2, <1>6, <1>7, <1>8

\* One step of the walk.
Climb(below) ==
  LET next == sponsor[below[Len(below)]]
  IN IF next = TenantRoot THEN below ELSE Append(below, next)

\* A walk from a seller: at most so many members, and fewer only below the root.
WalkOK(c, s, n) ==
  /\ c \in Seq(joined) /\ Len(c) \in 1 .. n
  /\ \A k \in 1 .. Len(c) : c[k] \in path[s] /\ Tier(s, c[k]) = k - 1
  /\ Len(c) = n \/ sponsor[c[Len(c)]] = TenantRoot

\* The walk goes on.
LEMMA ClimbOK ==
  ASSUME TreeOK, NEW s \in joined, NEW n \in Nat, NEW c, WalkOK(c, s, n)
  PROVE  WalkOK(Climb(c), s, n + 1)
<1> DEFINE top == c[Len(c)]
           next == sponsor[top]
<1>1. c \in Seq(joined) /\ Len(c) \in 1 .. n /\ Len(c) \in Nat
  BY DEF WalkOK
<1>2. top \in joined /\ top \in path[s] /\ Tier(s, top) = Len(c) - 1 /\ s \in Here
  BY <1>1 DEF WalkOK, Here
<1>3. next \in Here /\ next \in path[s] /\ Tier(s, next) = Len(c)
  <2>1. next \in Here
    BY <1>2, Above
  <2>2. next \in path[s] /\ Tier(s, next) = (Len(c) - 1) + 1
    BY <1>2, TierOfSponsor
  <2> QED BY <1>1, <2>1, <2>2
<1> HIDE DEF top
<1>4. CASE next = TenantRoot
  <2>1. Climb(c) = c
    BY <1>4 DEF Climb, top
  <2> QED BY <1>1, <1>4, <2>1 DEF WalkOK, top
<1>5. CASE next # TenantRoot
  <2> DEFINE d == Append(c, next)
  <2>1. Climb(c) = d
    BY <1>5 DEF Climb, top
  <2>2. next \in joined
    BY <1>3, <1>5 DEF Here
  <2> HIDE DEF next
  <2>3. d \in Seq(joined) /\ Len(d) = Len(c) + 1 /\ d[Len(d)] = next
        /\ \A k \in 1 .. Len(c) : d[k] = c[k]
    BY <1>1, <2>2
  <2> HIDE DEF d
  <2>4. ASSUME NEW k \in 1 .. Len(d) PROVE d[k] \in path[s] /\ Tier(s, d[k]) = k - 1
    <3>1. CASE k \in 1 .. Len(c)
      BY <2>3, <3>1 DEF WalkOK
    <3>2. CASE k = Len(d)
      BY <1>1, <1>3, <2>3, <3>2
    <3> QED BY <1>1, <2>3, <3>1, <3>2
  <2>5. Len(d) \in 1 .. n + 1
    BY <1>1, <2>3
  <2>6. Len(d) = n + 1 \/ sponsor[d[Len(d)]] = TenantRoot
    <3>1. Len(c) = n
      BY <1>5 DEF WalkOK, next, top
    <3> QED BY <2>3, <3>1
  <2> QED BY <2>1, <2>3, <2>4, <2>5, <2>6 DEF WalkOK
<1> QED BY <1>4, <1>5

\* The upline of a seller is every member above it up to the depth of the plan, each at
\* the place of its level: uplineChain.
LEMMA UplineFacts ==
  ASSUME TreeOK, NEW s \in joined, NEW depth \in Nat \ {0}
  PROVE  LET raw == UplineChain(s, depth)
         IN  /\ raw \in Seq(joined) /\ Len(raw) \in 1 .. depth /\ raw[1] = s
             /\ \A k \in 1 .. Len(raw) : raw[k] \in path[s] /\ Tier(s, raw[k]) = k - 1
             /\ \A m \in path[s] \ {TenantRoot} : Tier(s, m) < depth =>
                  Tier(s, m) + 1 \in 1 .. Len(raw) /\ raw[Tier(s, m) + 1] = m
<1> DEFINE Ups(f, n) == f = [k \in 1 .. n |-> IF k = 1 THEN <<s>> ELSE Climb(f[k - 1])]
           up == CHOOSE f : Ups(f, depth)
           raw == UplineChain(s, depth)
<1>1. raw = up[depth]
  BY DEF UplineChain, Climb
<1>2. ASSUME NEW n \in Nat PROVE \E f : Ups(f, n)
  <2> DEFINE Bad == {k \in Nat : ~\E f : Ups(f, k)}
  <2>1. SUFFICES ASSUME Bad # {} PROVE FALSE
    OBVIOUS
  <2>2. PICK k \in Bad : \A j \in Bad : k <= j
    <3>1. Bad \in SUBSET Nat
      OBVIOUS
    <3> HIDE DEF Bad
    <3> QED BY <2>1, <3>1, LeastNatural
  <2>3. k # 0
    <3>1. Ups([j \in 1 .. 0 |-> <<s>>], 0)
      OBVIOUS
    <3> HIDE DEF Ups
    <3> QED BY <2>2, <3>1
  <2>4. k - 1 \in Nat /\ k - 1 \notin Bad
    <3>1. k \in Nat
      BY <2>2
    <3> HIDE DEF Bad
    <3> QED BY <2>2, <2>3, <3>1
  <2>5. PICK f : Ups(f, k - 1)
    BY <2>4
  <2> DEFINE g == [j \in 1 .. k |-> IF j # k THEN f[j] ELSE IF k = 1 THEN <<s>> ELSE Climb(f[k - 1])]
  <2>6. \A j \in 1 .. k : g[j] = IF j = 1 THEN <<s>> ELSE Climb(g[j - 1])
    <3>1. \A j \in 1 .. k - 1 : f[j] = IF j = 1 THEN <<s>> ELSE Climb(f[j - 1])
      BY <2>5
    <3> QED BY <2>3, <2>4, <3>1
  <2>7. g = [j \in 1 .. k |-> g[j]]
    OBVIOUS
  <2>8. Ups(g, k)
    <3> HIDE DEF g
    <3> QED BY <2>6, <2>7
  <2> HIDE DEF Ups
  <2> QED BY <2>2, <2>8
<1>3. \A k \in 1 .. depth : up[k] = IF k = 1 THEN <<s>> ELSE Climb(up[k - 1])
  <2>1. Ups(up, depth)
    BY <1>2
  <2> HIDE DEF up
  <2> QED BY <2>1
<1> HIDE DEF up, Ups
<1>4. s \in Here /\ s \in path[s] /\ Tier(s, s) = 0
  BY PathType, TierSteps DEF Here
<1>5. WalkOK(<<s>>, s, 1)
  <2>1. <<s>> \in Seq(joined) /\ Len(<<s>>) = 1 /\ <<s>>[1] = s
    OBVIOUS
  <2> QED BY <1>4, <2>1 DEF WalkOK
<1>6. \A k \in 1 .. depth : WalkOK(up[k], s, k)
  <2> DEFINE Bad == {k \in 1 .. depth : ~WalkOK(up[k], s, k)}
  <2>1. SUFFICES ASSUME Bad # {} PROVE FALSE
    OBVIOUS
  <2>2. PICK k \in Bad : \A j \in Bad : k <= j
    <3>1. Bad \in SUBSET Nat
      OBVIOUS
    <3> HIDE DEF Bad
    <3> QED BY <2>1, <3>1, LeastNatural
  <2>3. k # 1
    BY <1>3, <1>5, <2>2
  <2>4. k - 1 \in Nat /\ k - 1 \in 1 .. depth /\ WalkOK(up[k - 1], s, k - 1)
    BY <2>2, <2>3
  <2>5. WalkOK(Climb(up[k - 1]), s, (k - 1) + 1)
    BY <2>4, ClimbOK
  <2>6. up[k] = Climb(up[k - 1]) /\ (k - 1) + 1 = k
    BY <1>3, <2>2, <2>3
  <2> QED BY <2>2, <2>5, <2>6
<1>7. WalkOK(raw, s, depth)
  BY <1>1, <1>6
<1> HIDE DEF raw
<1>8. /\ raw \in Seq(joined) /\ Len(raw) \in 1 .. depth /\ Len(raw) \in Nat
      /\ \A k \in 1 .. Len(raw) : raw[k] \in path[s] /\ raw[k] \in joined /\ Tier(s, raw[k]) = k - 1
  BY <1>7 DEF WalkOK
<1>9. raw[1] = s
  <2>1. raw[1] \in path[s] /\ Tier(s, raw[1]) = 1 - 1
    BY <1>8
  <2> QED BY <1>4, <2>1, OnePerTier
<1>10. ASSUME NEW m \in path[s] \ {TenantRoot}, Tier(s, m) < depth
       PROVE  Tier(s, m) + 1 \in 1 .. Len(raw) /\ raw[Tier(s, m) + 1] = m
  <2>1. Tier(s, m) \in Nat /\ m \in Here
    BY <1>4, TierSteps, PathType
  <2>2. CASE Tier(s, m) + 1 <= Len(raw)
    <3>1. Tier(s, m) + 1 \in 1 .. Len(raw)
      BY <1>8, <2>1, <2>2
    <3>2. raw[Tier(s, m) + 1] \in path[s] /\ Tier(s, raw[Tier(s, m) + 1]) = Tier(s, m)
      BY <1>8, <2>1, <3>1
    <3>3. raw[Tier(s, m) + 1] = m
      BY <1>4, <3>2, OnePerTier
    <3> QED BY <3>1, <3>3
  <2>3. CASE Tier(s, m) + 1 > Len(raw)
    <3> DEFINE top == raw[Len(raw)]
    <3>1. top \in path[s] /\ top \in joined /\ Tier(s, top) = Len(raw) - 1
      BY <1>8
    <3>2. sponsor[top] = TenantRoot
      BY <1>7, <1>8, <2>1, <2>3, <1>10 DEF WalkOK
    <3>3. path[top] = {top, TenantRoot}
      <4>1. path[top] = {top} \cup path[TenantRoot]
        BY <3>1, <3>2, Above
      <4>2. path[TenantRoot] = {TenantRoot}
        BY DEF TreeOK, Placed
      <4> QED BY <4>1, <4>2
    <3> HIDE DEF top
    <3>4. m # top
      BY <1>8, <2>1, <2>3, <3>1
    <3>5. top \in path[m]
      <4>1. top \in path[m] \/ m \in path[top]
        BY <3>1 DEF TreeOK, Ordered
      <4> QED BY <3>3, <3>4, <4>1
    <3>6. Tier(s, m) < Tier(s, top)
      BY <1>4, <3>1, <3>4, <3>5, TierGrows
    <3> QED BY <1>8, <2>1, <2>3, <3>1, <3>6
  <2> QED BY <1>8, <2>1, <2>2, <2>3
<1> QED BY <1>8, <1>9, <1>10 DEF raw

\* The active uplines that a chain has passed at one of its places.
Passed(raw, active, k) == {a \in active : \E i \in 2 .. k : a = raw[i]}

\* A chain of members that are all different, the seller first.
Line(raw) ==
  /\ raw \in Seq(Members) /\ Len(raw) \in Nat \ {0}
  /\ \A i, j \in 1 .. Len(raw) : raw[i] = raw[j] => i = j

\* An active upline is passed once.
LEMMA PassedGrows ==
  ASSUME NEW raw, Line(raw), NEW active, NEW k \in 1 .. Len(raw)
  PROVE  /\ IsFiniteSet(Passed(raw, active, k)) /\ Cardinality(Passed(raw, active, k)) \in Nat
         /\ Cardinality(Passed(raw, active, 1)) = 0
         /\ k # 1 => Cardinality(Passed(raw, active, k)) = Cardinality(Passed(raw, active, k - 1))
                       + IF raw[k] \in active THEN 1 ELSE 0
<1> DEFINE P(n) == Passed(raw, active, n)
<1>1. ASSUME NEW n \in 1 .. Len(raw) PROVE IsFiniteSet(P(n)) /\ Cardinality(P(n)) \in Nat
  <2>1. \A i \in 2 .. n : raw[i] \in Members
    BY DEF Line
  <2>2. P(n) \subseteq Members
    BY <2>1 DEF Passed
  <2>3. IsFiniteSet(P(n))
    BY <2>2, NodesType, FS_Subset
  <2> QED BY <2>3, FS_CardinalityType
<1>2. Cardinality(P(1)) = 0
  <2>1. P(1) = {}
    BY DEF Passed
  <2> QED BY <2>1, FS_EmptySet
<1>3. ASSUME k # 1
      PROVE  Cardinality(P(k)) = Cardinality(P(k - 1)) + IF raw[k] \in active THEN 1 ELSE 0
  <2>1. k - 1 \in 1 .. Len(raw) /\ k \in Nat /\ k \in 2 .. k
    BY <1>3 DEF Line
  <2>2. \A i \in 2 .. k : i = k \/ i \in 2 .. k - 1
    BY <2>1
  <2>3. \A i \in 2 .. k - 1 : i \in 2 .. k /\ raw[i] # raw[k]
    BY <2>1 DEF Line
  <2>4. CASE raw[k] \in active
    <3>1. P(k) = P(k - 1) \cup {raw[k]} /\ raw[k] \notin P(k - 1)
      BY <2>1, <2>2, <2>3, <2>4 DEF Passed
    <3>2. IsFiniteSet(P(k - 1))
      BY <1>1, <2>1
    <3> HIDE DEF P
    <3>3. Cardinality(P(k)) = Cardinality(P(k - 1)) + 1
      BY <3>1, <3>2, FS_AddElement
    <3> QED BY <2>4, <3>3
  <2>5. CASE raw[k] \notin active
    <3>1. P(k) = P(k - 1)
      BY <2>2, <2>3, <2>5 DEF Passed
    <3>2. Cardinality(P(k - 1)) \in Nat
      BY <1>1, <2>1
    <3> HIDE DEF P
    <3> QED BY <2>5, <3>1, <3>2
  <2> QED BY <2>4, <2>5
<1> QED BY <1>1, <1>2, <1>3

\* One place more of the compression.
Keep(kept, m, active) == IF m \in active THEN Append(kept, m) ELSE kept

\* The seller, and every active upline at the place after those that were passed.
KeptOK(c, raw, active, k) ==
  /\ c \in Seq(Members) /\ Len(c) = 1 + Cardinality(Passed(raw, active, k)) /\ c[1] = raw[1]
  /\ \A j \in 2 .. k : raw[j] \in active =>
       /\ 1 + Cardinality(Passed(raw, active, j)) \in 2 .. Len(c)
       /\ c[1 + Cardinality(Passed(raw, active, j))] = raw[j]
  /\ \A n \in 2 .. Len(c) : \E j \in 2 .. k :
       raw[j] \in active /\ c[n] = raw[j] /\ n = 1 + Cardinality(Passed(raw, active, j))

\* That is kept by one place more.
LEMMA KeepOK ==
  ASSUME NEW raw, Line(raw), NEW active, NEW k \in 2 .. Len(raw), NEW c,
         KeptOK(c, raw, active, k - 1)
  PROVE  KeptOK(Keep(c, raw[k], active), raw, active, k)
<1> DEFINE n(j) == Cardinality(Passed(raw, active, j))
           m == raw[k]
<1>1. k \in Nat /\ k - 1 \in Nat /\ k \in 1 .. Len(raw) /\ k - 1 \in 1 .. Len(raw) /\ k # 1
      /\ 2 .. k - 1 \subseteq 2 .. k /\ k \in 2 .. k
      /\ \A j \in 2 .. k : j = k \/ j \in 2 .. k - 1
  BY DEF Line
<1>2. n(k - 1) \in Nat /\ n(k) = n(k - 1) + IF m \in active THEN 1 ELSE 0
  BY <1>1, PassedGrows
<1>3. m \in Members
  BY <1>1 DEF Line
<1>4. /\ c \in Seq(Members) /\ Len(c) = 1 + n(k - 1) /\ c[1] = raw[1] /\ Len(c) \in Nat
      /\ \A j \in 2 .. k - 1 : raw[j] \in active =>
           1 + n(j) \in 2 .. Len(c) /\ c[1 + n(j)] = raw[j]
      /\ \A i \in 2 .. Len(c) : \E j \in 2 .. k - 1 :
           raw[j] \in active /\ c[i] = raw[j] /\ i = 1 + n(j)
  BY <1>1 DEF KeptOK
<1>5. SUFFICES ASSUME NEW d, d = Keep(c, m, active)
               PROVE  /\ d \in Seq(Members) /\ Len(d) = 1 + n(k) /\ d[1] = raw[1]
                      /\ \A j \in 2 .. k : raw[j] \in active =>
                           1 + n(j) \in 2 .. Len(d) /\ d[1 + n(j)] = raw[j]
                      /\ \A i \in 2 .. Len(d) : \E j \in 2 .. k :
                           raw[j] \in active /\ d[i] = raw[j] /\ i = 1 + n(j)
  BY DEF KeptOK
<1> HIDE DEF n
<1>6. CASE m \notin active
  <2>1. d = c /\ n(k) = n(k - 1)
    BY <1>2, <1>5, <1>6 DEF Keep
  <2>2. \A j \in 2 .. k : raw[j] \in active => j \in 2 .. k - 1
    BY <1>1, <1>6
  <2>3. \A j \in 2 .. k - 1 : j \in 2 .. k
    BY <1>1
  <2> HIDE DEF m
  <2> QED BY <1>4, <2>1, <2>2, <2>3
<1>7. CASE m \in active
  <2>1. /\ d \in Seq(Members) /\ Len(d) = Len(c) + 1 /\ d[Len(d)] = m
        /\ \A i \in 1 .. Len(c) : d[i] = c[i]
    BY <1>3, <1>4, <1>5, <1>7 DEF Keep
  <2>2. n(k) = n(k - 1) + 1
    BY <1>2, <1>7
  <2>3. /\ Len(d) = 1 + n(k) /\ d[1] = raw[1] /\ Len(d) \in Nat /\ Len(d) \in 2 .. Len(d)
        /\ 1 \in 1 .. Len(c)
        /\ \A i \in 2 .. Len(d) : i = Len(d) \/ i \in 2 .. Len(c)
        /\ \A i \in 2 .. Len(c) : i \in 2 .. Len(d) /\ d[i] = c[i]
    BY <1>2, <1>4, <2>1, <2>2
  <2>4. ASSUME NEW j \in 2 .. k, raw[j] \in active
        PROVE  1 + n(j) \in 2 .. Len(d) /\ d[1 + n(j)] = raw[j]
    <3>1. CASE j = k
      BY <2>1, <2>3, <3>1
    <3>2. CASE j \in 2 .. k - 1
      <4>1. 1 + n(j) \in 2 .. Len(c) /\ c[1 + n(j)] = raw[j]
        BY <1>4, <2>4, <3>2
      <4> QED BY <2>3, <4>1
    <3> QED BY <1>1, <3>1, <3>2
  <2>5. ASSUME NEW i \in 2 .. Len(d)
        PROVE  \E j \in 2 .. k : raw[j] \in active /\ d[i] = raw[j] /\ i = 1 + n(j)
    <3>1. CASE i = Len(d)
      BY <1>1, <1>7, <2>1, <2>3, <3>1
    <3>2. CASE i \in 2 .. Len(c)
      <4>1. PICK j \in 2 .. k - 1 : raw[j] \in active /\ c[i] = raw[j] /\ i = 1 + n(j)
        BY <1>4, <3>2
      <4>2. j \in 2 .. k /\ d[i] = raw[j]
        BY <1>1, <2>3, <3>2, <4>1
      <4> QED BY <4>1, <4>2
    <3> QED BY <2>3, <3>1, <3>2
  <2> QED BY <2>1, <2>3, <2>4, <2>5
<1> QED BY <1>6, <1>7

\* Compression keeps the order: effectiveBaseChain with compressionEnabled.
LEMMA RollUpOK ==
  ASSUME NEW raw, Line(raw), NEW active
  PROVE  KeptOK(RollUp(raw, active), raw, active, Len(raw))
<1> DEFINE L == Len(raw)
           Keeps(f, n) == f = [k \in 1 .. n |-> IF k = 1 THEN <<raw[1]>>
                                                ELSE Keep(f[k - 1], raw[k], active)]
           kept == CHOOSE f : f = [k \in 1 .. Len(raw) |-> IF k = 1 THEN <<raw[1]>>
                                     ELSE IF raw[k] \in active THEN Append(f[k - 1], raw[k])
                                          ELSE f[k - 1]]
<1>1. RollUp(raw, active) = kept[L]
  BY DEF RollUp
<1>2. ASSUME NEW n \in Nat PROVE \E f : Keeps(f, n)
  <2> DEFINE Bad == {k \in Nat : ~\E f : Keeps(f, k)}
  <2>1. SUFFICES ASSUME Bad # {} PROVE FALSE
    OBVIOUS
  <2>2. PICK k \in Bad : \A j \in Bad : k <= j
    <3>1. Bad \in SUBSET Nat
      OBVIOUS
    <3> HIDE DEF Bad
    <3> QED BY <2>1, <3>1, LeastNatural
  <2>3. k # 0
    <3>1. Keeps([j \in 1 .. 0 |-> <<raw[1]>>], 0)
      OBVIOUS
    <3> HIDE DEF Keeps
    <3> QED BY <2>2, <3>1
  <2>4. k - 1 \in Nat /\ k - 1 \notin Bad
    <3>1. k \in Nat
      BY <2>2
    <3> HIDE DEF Bad
    <3> QED BY <2>2, <2>3, <3>1
  <2>5. PICK f : Keeps(f, k - 1)
    BY <2>4
  <2> DEFINE g == [j \in 1 .. k |-> IF j # k THEN f[j] ELSE IF k = 1 THEN <<raw[1]>>
                                    ELSE Keep(f[k - 1], raw[k], active)]
  <2>6. \A j \in 1 .. k : g[j] = IF j = 1 THEN <<raw[1]>> ELSE Keep(g[j - 1], raw[j], active)
    <3>1. \A j \in 1 .. k - 1 : f[j] = IF j = 1 THEN <<raw[1]>> ELSE Keep(f[j - 1], raw[j], active)
      BY <2>5
    <3> QED BY <2>3, <2>4, <3>1
  <2>7. g = [j \in 1 .. k |-> g[j]]
    OBVIOUS
  <2>8. Keeps(g, k)
    <3> HIDE DEF g
    <3> QED BY <2>6, <2>7
  <2> HIDE DEF Keeps
  <2> QED BY <2>2, <2>8
<1>3. \A k \in 1 .. L : kept[k] = IF k = 1 THEN <<raw[1]>> ELSE Keep(kept[k - 1], raw[k], active)
  <2>1. L \in Nat
    BY DEF Line
  <2>2. \E f : Keeps(f, L)
    BY <1>2, <2>1
  <2>3. Keeps(kept, L)
    BY <2>2 DEF Keep
  <2> HIDE DEF kept
  <2> QED BY <2>3
<1> HIDE DEF kept, Keeps
<1>4. L \in Nat \ {0} /\ raw[1] \in Members
  BY DEF Line
<1>5. KeptOK(<<raw[1]>>, raw, active, 1)
  <2>1. <<raw[1]>> \in Seq(Members) /\ Len(<<raw[1]>>) = 1 /\ <<raw[1]>>[1] = raw[1]
    BY <1>4
  <2>2. Cardinality(Passed(raw, active, 1)) = 0
    BY <1>4, PassedGrows
  <2> QED BY <2>1, <2>2 DEF KeptOK
<1>6. \A k \in 1 .. L : KeptOK(kept[k], raw, active, k)
  <2> DEFINE Bad == {k \in 1 .. L : ~KeptOK(kept[k], raw, active, k)}
  <2>1. SUFFICES ASSUME Bad # {} PROVE FALSE
    OBVIOUS
  <2>2. PICK k \in Bad : \A j \in Bad : k <= j
    <3>1. Bad \in SUBSET Nat
      BY <1>4
    <3> HIDE DEF Bad
    <3> QED BY <2>1, <3>1, LeastNatural
  <2>3. k # 1
    BY <1>3, <1>5, <2>2
  <2>4. k \in 2 .. L /\ k - 1 \in 1 .. L /\ KeptOK(kept[k - 1], raw, active, k - 1)
    BY <1>4, <2>2, <2>3
  <2>5. KeptOK(Keep(kept[k - 1], raw[k], active), raw, active, k)
    BY <2>4, KeepOK
  <2>6. kept[k] = Keep(kept[k - 1], raw[k], active)
    BY <1>3, <2>2, <2>3
  <2> QED BY <2>2, <2>5, <2>6
<1> QED BY <1>1, <1>4, <1>6

\* The members of an upline are all different.
LEMMA UplineIsLine ==
  ASSUME TreeOK, NEW s \in joined, NEW depth \in Nat \ {0}
  PROVE  Line(UplineChain(s, depth))
<1> DEFINE raw == UplineChain(s, depth)
<1>1. /\ raw \in Seq(joined) /\ Len(raw) \in 1 .. depth
      /\ \A k \in 1 .. Len(raw) : Tier(s, raw[k]) = k - 1
  BY UplineFacts
<1> HIDE DEF raw
<1>2. joined \subseteq Members
  BY DEF TreeOK, TreeTypes
<1>3. raw \in Seq(Members)
  BY <1>1, <1>2
<1>4. \A i, j \in 1 .. Len(raw) : raw[i] = raw[j] => i = j
  <2> SUFFICES ASSUME NEW i \in 1 .. Len(raw), NEW j \in 1 .. Len(raw), raw[i] = raw[j] PROVE i = j
    OBVIOUS
  <2>1. i - 1 = j - 1
    BY <1>1
  <2> QED BY <2>1
<1>5. Line(raw)
  BY <1>1, <1>3, <1>4 DEF Line
<1> QED BY <1>5 DEF raw

\* Who stands at a level of the chain of an application.
Beneficiary(k) ==
  IF k < Len(run.chain) /\ run.chain[k + 1] \in Members THEN run.chain[k + 1] ELSE Company

\* Without compression, the place of a member of the upline is its level.
LEMMA PlainChainGivesHeirs ==
  ASSUME TreeOK, sale.seller \in joined, run.offer.depth \in Nat \ {0},
         NEW raw, raw = UplineChain(sale.seller, run.offer.depth),
         run.chain = EffectiveBaseChain(raw, run.active, run.policy), ~run.policy.compression,
         NEW k \in 1 .. run.offer.depth - 1
  PROVE  Heirs(k) = IF Beneficiary(k) = Company THEN {} ELSE {Beneficiary(k)}
<1> DEFINE s == sale.seller
           depth == run.offer.depth
           L == Len(raw)
           ok(m) == run.policy.inactiveEarn \/ m \in run.active
<1>1. /\ raw \in Seq(joined) /\ L \in 1 .. depth /\ L \in Nat
      /\ \A i \in 1 .. L : raw[i] \in path[s] /\ raw[i] \in joined /\ Tier(s, raw[i]) = i - 1
      /\ \A m \in path[s] \ {TenantRoot} : Tier(s, m) < depth =>
           Tier(s, m) + 1 \in 1 .. L /\ raw[Tier(s, m) + 1] = m
  BY UplineFacts
<1>2. joined \subseteq Members /\ TenantRoot \notin joined /\ Company = TenantRoot
  BY NodesType DEF TreeOK, TreeTypes, Company
<1>3. /\ run.chain = [i \in 1 .. L |-> IF i = 1 \/ run.policy.inactiveEarn \/ raw[i] \in run.active
                                       THEN raw[i] ELSE Company]
      /\ Len(run.chain) = L
  BY <1>1 DEF EffectiveBaseChain
<1>4. k \in Nat /\ k + 1 \in Nat /\ k \in 1 .. depth - 1 /\ k + 1 # 1 /\ k # 0
  OBVIOUS
<1>5. \A m : m \in Heirs(k) <=> m \in path[s] \ {TenantRoot} /\ Tier(s, m) = k /\ ok(m)
  BY <1>4 DEF Heirs
<1>6. CASE k < L
  <2>1. k + 1 \in 1 .. L /\ raw[k + 1] \in path[s] \ {TenantRoot} /\ Tier(s, raw[k + 1]) = k
        /\ raw[k + 1] \in Members
    BY <1>1, <1>2, <1>4, <1>6
  <2>2. \A m \in path[s] \ {TenantRoot} : Tier(s, m) = k => m = raw[k + 1]
    BY <1>1, <1>4
  <2>3. run.chain[k + 1] = IF ok(raw[k + 1]) THEN raw[k + 1] ELSE Company
    BY <1>3, <1>4, <2>1
  <2>4. Beneficiary(k) = IF ok(raw[k + 1]) THEN raw[k + 1] ELSE Company
    BY <1>2, <1>3, <1>6, <2>1, <2>3, NodesType DEF Beneficiary
  <2>5. raw[k + 1] # Company
    BY <1>2, <2>1
  <2> HIDE DEF ok
  <2> QED BY <1>5, <2>1, <2>2, <2>4, <2>5
<1>7. CASE ~(k < L)
  <2>1. Beneficiary(k) = Company
    BY <1>3, <1>7 DEF Beneficiary
  <2>2. \A m : m \notin Heirs(k)
    BY <1>1, <1>4, <1>5, <1>7
  <2> QED BY <2>1, <2>2
<1> QED BY <1>6, <1>7

\* With it, the place is the number of active members that are nearer to the seller.
LEMMA RolledUpChainGivesHeirs ==
  ASSUME TreeOK, sale.seller \in joined, run.offer.depth \in Nat \ {0},
         NEW raw, raw = UplineChain(sale.seller, run.offer.depth),
         run.active \subseteq {raw[j] : j \in 2 .. Len(raw)},
         run.chain = EffectiveBaseChain(raw, run.active, run.policy), run.policy.compression,
         NEW k \in 1 .. run.offer.depth - 1
  PROVE  Heirs(k) = IF Beneficiary(k) = Company THEN {} ELSE {Beneficiary(k)}
<1> DEFINE s == sale.seller
           depth == run.offer.depth
           L == Len(raw)
           n(j) == Cardinality(Passed(raw, run.active, j))
<1>1. /\ raw \in Seq(joined) /\ L \in 1 .. depth /\ L \in Nat /\ raw[1] = s
      /\ \A i \in 1 .. L : raw[i] \in path[s] /\ raw[i] \in joined /\ Tier(s, raw[i]) = i - 1
      /\ \A m \in path[s] \ {TenantRoot} : Tier(s, m) < depth =>
           Tier(s, m) + 1 \in 1 .. L /\ raw[Tier(s, m) + 1] = m
  <2>1. PICK a \in joined, d \in Nat \ {0} : a = s /\ d = depth
    OBVIOUS
  <2> HIDE DEF s, depth
  <2>2. raw = UplineChain(a, d)
    BY <2>1 DEF s, depth
  <2>3. /\ UplineChain(a, d) \in Seq(joined) /\ Len(UplineChain(a, d)) \in 1 .. d
        /\ UplineChain(a, d)[1] = a
        /\ \A i \in 1 .. Len(UplineChain(a, d)) :
             UplineChain(a, d)[i] \in path[a] /\ Tier(a, UplineChain(a, d)[i]) = i - 1
        /\ \A m \in path[a] \ {TenantRoot} : Tier(a, m) < d =>
             /\ Tier(a, m) + 1 \in 1 .. Len(UplineChain(a, d))
             /\ UplineChain(a, d)[Tier(a, m) + 1] = m
    BY UplineFacts
  <2>4. /\ raw \in Seq(joined) /\ L \in 1 .. d /\ raw[1] = a
        /\ \A i \in 1 .. L : raw[i] \in path[a] /\ Tier(a, raw[i]) = i - 1
        /\ \A m \in path[a] \ {TenantRoot} : Tier(a, m) < d =>
             Tier(a, m) + 1 \in 1 .. L /\ raw[Tier(a, m) + 1] = m
    BY <2>2, <2>3
  <2> QED BY <2>1, <2>4
<1>2. joined \subseteq Members /\ TenantRoot \notin joined /\ Company = TenantRoot
      /\ Company \notin Members /\ s \in Here /\ k \in Nat /\ k + 1 \in Nat /\ k # 0
  BY NodesType DEF TreeOK, TreeTypes, Company, Here
<1>3. Line(raw)
  BY UplineIsLine
<1>4. KeptOK(run.chain, raw, run.active, L)
  BY <1>3, RollUpOK DEF EffectiveBaseChain
\* Whom the walk has passed before a member are the active ones below it.
<1>5. ASSUME NEW j \in 2 .. L, raw[j] \in run.active
      PROVE  ActiveBetween(raw[j], s) = n(j) - 1 /\ n(j) \in Nat
  <2>1. j \in 1 .. L /\ j - 1 \in 1 .. L /\ j # 1 /\ j \in Nat
    BY <1>1
  <2>2. n(j) = n(j - 1) + 1 /\ n(j) \in Nat /\ n(j - 1) \in Nat
    BY <1>3, <1>5, <2>1, PassedGrows
  <2>3. ASSUME NEW i \in 2 .. L
        PROVE  (raw[j] \in path[raw[i]] /\ raw[i] # raw[j]) <=> i < j
    <3>1. i \in 1 .. L /\ i \in Nat /\ raw[i] \in path[s] /\ raw[j] \in path[s]
          /\ Tier(s, raw[i]) = i - 1 /\ Tier(s, raw[j]) = j - 1
      BY <1>1, <2>1
    <3>2. raw[j] \in path[raw[i]] /\ raw[i] # raw[j] => i - 1 < j - 1
      BY <1>2, <3>1, TierGrows
    <3>3. raw[j] \in path[raw[i]] \/ raw[i] \in path[raw[j]]
      BY <3>1 DEF TreeOK, Ordered
    <3>4. raw[i] \in path[raw[j]] /\ raw[i] # raw[j] => j - 1 < i - 1
      BY <1>2, <3>1, TierGrows
    <3>5. raw[i] = raw[j] => i = j
      BY <1>3, <2>1, <3>1 DEF Line
    <3> QED BY <2>1, <3>1, <3>2, <3>3, <3>4, <3>5
  <2>4. \A i \in 2 .. L : raw[i] \in path[s] \ {s}
    <3>1. \A i \in 2 .. L : i \in 1 .. L /\ i # 1
      OBVIOUS
    <3> QED BY <1>1, <1>3, <3>1 DEF Line
  <2>5. {a \in run.active : raw[j] \in path[a] /\ a # raw[j] /\ a \in path[s] \ {s}}
          = Passed(raw, run.active, j - 1)
    <3>1. \A i \in 2 .. L : i < j <=> i \in 2 .. j - 1
      BY <2>1
    <3>2. \A i \in 2 .. j - 1 : i \in 2 .. L
      BY <1>1, <2>1
    <3>3. ASSUME NEW a \in run.active
          PROVE  (raw[j] \in path[a] /\ a # raw[j] /\ a \in path[s] \ {s})
                   <=> \E i \in 2 .. j - 1 : a = raw[i]
      <4>1. PICK i \in 2 .. L : a = raw[i]
        OBVIOUS
      <4>2. (raw[j] \in path[a] /\ a # raw[j]) <=> i \in 2 .. j - 1
        BY <2>3, <3>1, <4>1
      <4>3. \A h \in 2 .. j - 1 : a = raw[h] => h = i
        <5>1. \A h \in 2 .. L : h \in 1 .. L
          OBVIOUS
        <5> QED BY <1>3, <3>2, <4>1, <5>1 DEF Line
      <4> QED BY <2>4, <4>1, <4>2, <4>3
    <3> QED BY <3>3 DEF Passed
  <2>6. ActiveBetween(raw[j], s) = n(j - 1)
    BY <2>5 DEF ActiveBetween
  <2> QED BY <2>2, <2>6
<1>6. ASSUME NEW m, m \in Heirs(k)
      PROVE  k < Len(run.chain) /\ run.chain[k + 1] = m /\ m \in Members
  <2>1. m \in path[s] \ {TenantRoot} /\ Tier(s, m) \in 1 .. depth - 1
        /\ m \in run.active /\ ActiveBetween(m, s) = k - 1
    BY <1>2, <1>6 DEF Heirs
  <2> DEFINE j == Tier(s, m) + 1
  <2>2. Tier(s, m) < depth
    BY <2>1
  <2>3. j \in 2 .. L /\ raw[j] = m
    BY <1>1, <2>1, <2>2
  <2> HIDE DEF j
  <2>4. k - 1 = n(j) - 1 /\ n(j) \in Nat
    BY <1>5, <2>1, <2>3
  <2>5. 1 + n(j) \in 2 .. Len(run.chain) /\ run.chain[1 + n(j)] = m
    BY <1>4, <2>1, <2>3 DEF KeptOK
  <2>6. 1 + n(j) = k + 1 /\ Len(run.chain) \in Nat
    BY <1>2, <1>4, <2>4 DEF KeptOK
  <2>7. m \in Members
    BY <1>1, <1>2, <2>3
  <2> QED BY <1>2, <2>5, <2>6, <2>7
<1>7. ASSUME k < Len(run.chain)
      PROVE  run.chain[k + 1] \in Heirs(k) /\ run.chain[k + 1] \in Members
  <2>1. k + 1 \in 2 .. Len(run.chain)
    <3>1. Len(run.chain) \in Nat
      BY <1>4 DEF KeptOK
    <3> QED BY <1>2, <1>7, <3>1
  <2>2. PICK j \in 2 .. L : /\ raw[j] \in run.active /\ run.chain[k + 1] = raw[j]
                            /\ k + 1 = 1 + n(j)
    BY <1>4, <2>1 DEF KeptOK
  <2>3. ActiveBetween(raw[j], s) = k - 1
    BY <1>2, <1>5, <2>2
  <2>4. Tier(s, raw[j]) \in 1 .. depth - 1 /\ raw[j] \in path[s] \ {TenantRoot} /\ raw[j] \in Members
    BY <1>1, <1>2
  <2> QED BY <1>2, <2>2, <2>3, <2>4 DEF Heirs
<1>8. CASE k < Len(run.chain)
  <2>1. Beneficiary(k) = run.chain[k + 1] /\ Beneficiary(k) # Company
    BY <1>2, <1>7, <1>8 DEF Beneficiary
  <2> QED BY <1>6, <1>7, <1>8, <2>1
<1>9. CASE ~(k < Len(run.chain))
  <2>1. Beneficiary(k) = Company
    BY <1>9 DEF Beneficiary
  <2> QED BY <1>6, <1>9, <2>1
<1> QED BY <1>8, <1>9

\* Either way the seller is its own first heir, and every level has the heir that the
\* paths give: computeCommissionLines over effectiveBaseChain.
LEMMA ChainGivesHeirs ==
  ASSUME TreeOK, sale.seller \in joined, run.offer.depth \in Nat \ {0},
         NEW raw, raw = UplineChain(sale.seller, run.offer.depth),
         run.active \subseteq {raw[j] : j \in 2 .. Len(raw)},
         run.chain = EffectiveBaseChain(raw, run.active, run.policy),
         NEW k \in 0 .. run.offer.depth - 1
  PROVE  Heirs(k) = IF Beneficiary(k) = Company THEN {} ELSE {Beneficiary(k)}
<1>1. CASE k # 0
  <2>1. k \in 1 .. run.offer.depth - 1
    BY <1>1
  <2> QED BY <2>1, PlainChainGivesHeirs, RolledUpChainGivesHeirs
<1>2. CASE k = 0
  <2> DEFINE s == sale.seller
  <2>1. raw \in Seq(joined) /\ Len(raw) \in Nat \ {0} /\ raw[1] = s /\ Line(raw)
    BY UplineFacts, UplineIsLine
  <2>2. run.chain[1] = s /\ Len(run.chain) >= 1 /\ Len(run.chain) \in Nat
    <3>1. CASE run.policy.compression
      <4>1. KeptOK(run.chain, raw, run.active, Len(raw))
        BY <2>1, <3>1, RollUpOK DEF EffectiveBaseChain
      <4>2. Cardinality(Passed(raw, run.active, Len(raw))) \in Nat
        BY <2>1, PassedGrows
      <4> QED BY <2>1, <4>1, <4>2 DEF KeptOK
    <3>2. CASE ~run.policy.compression
      BY <2>1, <3>2 DEF EffectiveBaseChain
    <3> QED BY <3>1, <3>2
  <2>3. s \in Members /\ s # TenantRoot /\ s \in Here /\ Company = TenantRoot
    BY NodesType DEF TreeOK, TreeTypes, Here, Company
  <2>4. Beneficiary(k) = s
    BY <1>2, <2>2, <2>3 DEF Beneficiary
  <2>5. s \in path[s] /\ Tier(s, s) = 0
    BY <2>3, PathType, TierSteps
  <2>6. \A m \in path[s] : Tier(s, m) = 0 => m = s
    BY <2>3, <2>5, OnePerTier
  <2>7. Heirs(k) = {m \in path[s] \ {TenantRoot} : Tier(s, m) = 0}
    BY <1>2 DEF Heirs
  <2> QED BY <2>3, <2>4, <2>5, <2>6, <2>7
<1> QED BY <1>1, <1>2

(***************************************************************************)
(* The invariant of the levels.                                            *)
(***************************************************************************)
\* The row that a level of an application gets.
LevelLine(k) ==
  LET cents == IF Beneficiary(k) = Company THEN 0 ELSE Bps(sale.amount, RateAt(run.offer, k))
  IN IF cents = 0 THEN NoLine ELSE [to |-> Beneficiary(k), cents |-> cents]

\* An application holds the chain of its seller under the plan it has read, and has one
\* row for every level it is through with.
ChainOK ==
  LET raw == UplineChain(sale.seller, run.offer.depth)
  IN /\ run.active \subseteq {raw[k] : k \in 2 .. Len(raw)}
     /\ run.chain = EffectiveBaseChain(raw, run.active, run.policy)

LevelsOK ==
  /\ Len(run.lines) <= run.offer.depth
  /\ run.step # "levels" => Len(run.lines) = run.offer.depth
  /\ \A k \in 0 .. Len(run.lines) - 1 : run.lines[k + 1] = LevelLine(k)

PlanOK ==
  /\ run.plan \in Versions /\ run.offer = plans[run.plan].offer
  /\ run.step = "committed" => sale.plan = run.plan

\* Selling has started once there is a plan, and by then everybody has joined.
HeirInv ==
  /\ plans # <<>> => joined = Members
  /\ run # Idle => ChainOK /\ LevelsOK /\ PlanOK

\* Nothing is sold yet.
LEMMA HeirsInitially == CommissionInit => HeirInv
BY DEF CommissionInit, HeirInv

\* The walk reads nothing but the sponsors.
LEMMA UplineRests ==
  ASSUME UNCHANGED sponsor, NEW s, NEW depth
  PROVE  UplineChain(s, depth)' = UplineChain(s, depth)
<1>1. sponsor' = sponsor
  OBVIOUS
<1> QED BY <1>1 DEF UplineChain

\* What an application has read of tree, plan and settings stays what it has read.
LEMMA ReadingsRest ==
  ASSUME Inv, HeirInv, run # Idle, UNCHANGED <<sponsor, joined>>,
         NEW PlanRows, plans \in Seq(PlanRows),
         plans' = plans \/ \E row \in PlanRows : plans' = Append(plans, row),
         sale'.seller = sale.seller, sale'.amount = sale.amount,
         run'.plan = run.plan, run'.offer = run.offer, run'.active = run.active,
         run'.policy = run.policy, run'.chain = run.chain
  PROVE  /\ (plans # <<>> => joined = Members)'
         /\ ChainOK' /\ \A k \in Nat : LevelLine(k)' = LevelLine(k)
         /\ run'.plan \in Versions' /\ run'.offer = plans'[run'.plan].offer
<1>1. ChainOK /\ PlanOK /\ joined = Members
  BY DEF HeirInv, PlanOK, Versions
<1>2. ChainOK'
  <2>1. UplineChain(sale.seller, run.offer.depth)' = UplineChain(sale.seller, run.offer.depth)
    BY UplineRests
  <2> QED BY <1>1, <2>1 DEF ChainOK, EffectiveBaseChain
<1>3. \A k \in Nat : LevelLine(k)' = LevelLine(k)
  BY DEF LevelLine, Beneficiary
<1>4. run'.plan \in Versions' /\ run'.offer = plans'[run'.plan].offer
  BY <1>1 DEF PlanOK, Versions
<1> QED BY <1>1, <1>2, <1>3, <1>4

\* An application that goes on without a new row.
LEMMA LinesRest ==
  ASSUME Inv, HeirInv, run # Idle, UNCHANGED <<sponsor, joined, plans>>,
         sale'.seller = sale.seller, sale'.amount = sale.amount,
         run'.plan = run.plan, run'.offer = run.offer, run'.active = run.active,
         run'.policy = run.policy, run'.chain = run.chain, run'.lines = run.lines,
         Len(run.lines) = run.offer.depth,
         run'.step = "committed" => sale'.plan = run.plan
  PROVE  HeirInv'
<1>1. plans \in Seq([offer: PlanOffers, from: Int])
  BY DEF Inv, PlansOK
<1>2. /\ (plans # <<>> => joined = Members)'
      /\ ChainOK' /\ \A k \in Nat : LevelLine(k)' = LevelLine(k)
      /\ run'.plan \in Versions' /\ run'.offer = plans'[run'.plan].offer
  BY <1>1, ReadingsRest
<1>3. run.lines \in Seq(Lines) /\ run.offer.depth \in Nat
  BY ApplicationFields DEF Application
<1>4. LevelsOK'
  <2>1. \A k \in 0 .. Len(run.lines) - 1 : run.lines[k + 1] = LevelLine(k) /\ k \in Nat
    BY <1>3 DEF HeirInv, LevelsOK
  <2>2. \A k \in 0 .. Len(run.lines) - 1 : run'.lines[k + 1] = LevelLine(k)'
    BY <1>2, <2>1
  <2> QED BY <1>3, <2>2 DEF LevelsOK
<1>5. PlanOK'
  BY <1>2 DEF PlanOK
<1> QED BY <1>2, <1>4, <1>5 DEF HeirInv

\* Before an application, nothing has to hold but that everybody has joined.
LEMMA IdleHeirs ==
  ASSUME joined' = Members, run' = Idle
  PROVE  HeirInv'
BY DEF HeirInv

\* A new version leaves those that there are.
LEMMA AddVersionKeepsHeirs ==
  ASSUME Inv, HeirInv, joined = Members, UNCHANGED <<sponsor, joined>>,
         NEW o \in PlanOffers, NEW from \in Int, AddVersion(o, from)
  PROVE  HeirInv'
<1> DEFINE PlanRows == [offer: PlanOffers, from: Int]
           row == [offer |-> o, from |-> from]
<1>1. plans \in Seq(PlanRows) /\ row \in PlanRows /\ plans' = Append(plans, row)
      /\ UNCHANGED <<tiers, sale, run>>
  BY DEF Inv, PlansOK, AddVersion
<1>2. CASE run = Idle
  BY <1>1, <1>2, IdleHeirs
<1>3. CASE run # Idle
  <2> HIDE DEF PlanRows, row
  <2>1. /\ (plans # <<>> => joined = Members)'
        /\ ChainOK' /\ \A k \in Nat : LevelLine(k)' = LevelLine(k)
        /\ run'.plan \in Versions' /\ run'.offer = plans'[run'.plan].offer
    BY <1>1, <1>3, ReadingsRest
  <2>2. run.lines \in Seq(Lines) /\ run.offer.depth \in Nat
    BY <1>3, ApplicationFields DEF Application
  <2>3. \A k \in 0 .. Len(run.lines) - 1 : run.lines[k + 1] = LevelLine(k) /\ k \in Nat
    BY <1>3, <2>2 DEF HeirInv, LevelsOK
  <2>4. LevelsOK'
    BY <1>1, <1>3, <2>1, <2>3 DEF LevelsOK, HeirInv
  <2>5. PlanOK'
    BY <1>1, <1>3, <2>1 DEF PlanOK, HeirInv
  <2> QED BY <2>1, <2>4, <2>5 DEF HeirInv
<1> QED BY <1>2, <1>3

\* A tier is edited.
LEMMA SetTierKeepsHeirs ==
  ASSUME Inv, HeirInv, joined = Members, UNCHANGED <<sponsor, joined, plans, sale, run>>
  PROVE  HeirInv'
<1>1. CASE run = Idle
  BY <1>1, IdleHeirs
<1>2. CASE run # Idle
  <2>1. plans \in Seq([offer: PlanOffers, from: Int])
    BY DEF Inv, PlansOK
  <2>2. /\ (plans # <<>> => joined = Members)'
        /\ ChainOK' /\ \A k \in Nat : LevelLine(k)' = LevelLine(k)
        /\ run'.plan \in Versions' /\ run'.offer = plans'[run'.plan].offer
    BY <1>2, <2>1, ReadingsRest
  <2>3. run.lines \in Seq(Lines) /\ run.offer.depth \in Nat
    BY <1>2, ApplicationFields DEF Application
  <2>4. \A k \in 0 .. Len(run.lines) - 1 : run.lines[k + 1] = LevelLine(k) /\ k \in Nat
    BY <1>2, <2>3 DEF HeirInv, LevelsOK
  <2>5. LevelsOK'
    BY <1>2, <2>2, <2>4 DEF LevelsOK, HeirInv
  <2>6. PlanOK'
    BY <1>2, <2>2 DEF PlanOK, HeirInv
  <2> QED BY <2>2, <2>5, <2>6 DEF HeirInv
<1> QED BY <1>1, <1>2

\* An application reads its plan and the chain of its seller.
LEMMA ResolveKeepsHeirs ==
  ASSUME Inv, HeirInv, joined = Members, UNCHANGED <<sponsor, joined>>,
         NEW active, NEW policy, Resolve(active, policy)
  PROVE  HeirInv'
<1> DEFINE raw == UplineChain(sale.seller, plans[PlanFor].offer.depth)
<1>1. /\ PlanFor \in Versions /\ active \subseteq {raw[k] : k \in 2 .. Len(raw)}
      /\ UNCHANGED <<plans, tiers, sale>>
      /\ run'.step = "levels" /\ run'.plan = PlanFor /\ run'.offer = plans[PlanFor].offer
      /\ run'.active = active /\ run'.policy = policy /\ run'.lines = <<>>
      /\ run'.chain = EffectiveBaseChain(raw, active, policy)
  BY DEF Resolve
<1>2. ChainOK'
  <2>1. UplineChain(sale.seller, run.offer.depth)' = raw
    <3>1. run'.offer.depth = plans[PlanFor].offer.depth /\ sale' = sale /\ sponsor' = sponsor
      BY <1>1
    <3> HIDE DEF raw
    <3>2. PICK d : d = plans[PlanFor].offer.depth
      OBVIOUS
    <3>3. raw = UplineChain(sale.seller, d)
      BY <3>2 DEF raw
    <3>4. UplineChain(sale.seller, run.offer.depth)' = UplineChain(sale.seller, d)
      BY <3>1, <3>2 DEF UplineChain
    <3> QED BY <3>3, <3>4
  <2> HIDE DEF raw
  <2> QED BY <1>1, <2>1 DEF ChainOK, EffectiveBaseChain
<1>3. LevelsOK'
  <2>1. plans[PlanFor].offer.depth \in Nat
    BY <1>1, PlansType DEF Offer
  <2> QED BY <1>1, <2>1 DEF LevelsOK
<1>4. PlanOK'
  BY <1>1 DEF PlanOK, Versions
<1> QED BY <1>2, <1>3, <1>4 DEF HeirInv

\* A level gets its row.
LEMMA PayLevelKeepsHeirs ==
  ASSUME Inv, HeirInv, joined = Members, UNCHANGED <<sponsor, joined>>, PayLevel
  PROVE  HeirInv'
<1> DEFINE n == Len(run.lines)
           to == IF n < Len(run.chain) /\ run.chain[n + 1] \in Members
                 THEN run.chain[n + 1] ELSE Company
           cents == IF to = Company THEN 0 ELSE Bps(sale.amount, RateAt(run.offer, n))
           line == IF cents = 0 THEN NoLine ELSE [to |-> to, cents |-> cents]
           more == run.given + cents
<1>1. /\ run # Idle /\ run.step = "levels" /\ n < run.offer.depth
      /\ run' = [run EXCEPT !.lines = Append(run.lines, line), !.given = more]
      /\ UNCHANGED <<plans, tiers, sale>>
  BY DEF PayLevel, Idle
<1>2. line = LevelLine(n)
  BY DEF LevelLine, Beneficiary
<1> HIDE DEF line, more
<1>3. Application(run) /\ run.lines \in Seq(Lines) /\ run.offer.depth \in Nat /\ n \in Nat
  BY <1>1, ApplicationFields DEF Application
<1>4. /\ run'.step = run.step /\ run'.plan = run.plan /\ run'.offer = run.offer
      /\ run'.active = run.active /\ run'.policy = run.policy /\ run'.chain = run.chain
      /\ run'.lines = Append(run.lines, line)
  BY <1>1, <1>3 DEF Application
<1>5. /\ (plans # <<>> => joined = Members)'
      /\ ChainOK' /\ \A k \in Nat : LevelLine(k)' = LevelLine(k)
      /\ run'.plan \in Versions' /\ run'.offer = plans'[run'.plan].offer
  <2>1. plans \in Seq([offer: PlanOffers, from: Int])
    BY DEF Inv, PlansOK
  <2> QED BY <1>1, <1>4, <2>1, ReadingsRest
<1>6. LevelsOK'
  <2>1. Len(run'.lines) = n + 1 /\ run'.lines[n + 1] = line
        /\ \A k \in 1 .. n : run'.lines[k] = run.lines[k]
    <3>1. Append(run.lines, line) = [k \in 1 .. n + 1 |-> IF k = n + 1 THEN line ELSE run.lines[k]]
      BY <1>3
    <3> QED BY <1>3, <1>4, <3>1
  <2>2. ASSUME NEW k \in 0 .. n PROVE run'.lines[k + 1] = LevelLine(k)
    <3>1. CASE k = n
      BY <1>2, <2>1, <3>1
    <3>2. CASE k # n
      <4>1. k \in 0 .. n - 1 /\ k + 1 \in 1 .. n
        BY <1>3, <3>2
      <4>2. run.lines[k + 1] = LevelLine(k)
        BY <1>1, <4>1 DEF HeirInv, LevelsOK
      <4> QED BY <2>1, <4>1, <4>2
    <3> QED BY <3>1, <3>2
  <2>3. \A k \in 0 .. n : k \in Nat
    BY <1>3
  <2>4. \A k \in 0 .. Len(run'.lines) - 1 : run'.lines[k + 1] = LevelLine(k)'
    <3>1. Len(run'.lines) - 1 = n
      BY <1>3, <2>1
    <3> QED BY <1>5, <2>2, <2>3, <3>1
  <2>5. Len(run'.lines) <= run'.offer.depth
    BY <1>1, <1>3, <1>4, <2>1
  <2> QED BY <1>1, <1>4, <2>4, <2>5 DEF LevelsOK
<1>7. PlanOK'
  BY <1>1, <1>4, <1>5 DEF PlanOK
<1> QED BY <1>5, <1>6, <1>7 DEF HeirInv

\* The bonuses, the override and the end of an application have no rows of levels.
LEMMA RestKeepsHeirs ==
  ASSUME Inv, HeirInv, joined = Members, UNCHANGED <<sponsor, joined>>,
         PayBonuses \/ (\E earned \in Earnings : PayOverride(earned)) \/ Commit \/ Refuse
  PROVE  HeirInv'
<1>1. run # Idle /\ UNCHANGED plans
  <2>1. run.step \in {"levels", "override", "ceiling"} /\ UNCHANGED plans
    BY DEF PayBonuses, PayOverride, Commit, Refuse
  <2>2. Idle.step = "idle"
    BY DEF Idle
  <2> QED BY <2>1, <2>2
<1>2. Application(run) /\ sale # None /\ Len(run.lines) <= run.offer.depth
  BY <1>1, ApplicationFields DEF HeirInv, LevelsOK
<1>3. sale \in [seller: Members, amount: Nat, date: Int, plan: Nat]
  BY <1>2 DEF Inv, SalesOK
<1>4. Len(run.lines) = run.offer.depth
  BY <1>1 DEF PayBonuses, PayOverride, Commit, Refuse, HeirInv, LevelsOK
<1>5. /\ run'.plan = run.plan /\ run'.offer = run.offer /\ run'.active = run.active
      /\ run'.policy = run.policy /\ run'.chain = run.chain /\ run'.lines = run.lines
  <2>1. PICK st, g, ts : run' = [run EXCEPT !.step = st, !.given = g, !.tiers = ts]
    <3>1. CASE PayBonuses
      <4>1. run' = [run EXCEPT !.step = "override",
                               !.given = IF run.sponsor = Company THEN run.given
                                         ELSE run.given + FastStart + Matching,
                               !.tiers = run.tiers]
        BY <1>2, <3>1 DEF PayBonuses, Application
      <4> QED BY <4>1
    <3>2. ASSUME NEW earned \in Earnings, PayOverride(earned)
          PROVE  \E st, g, ts : run' = [run EXCEPT !.step = st, !.given = g, !.tiers = ts]
      <4>1. run' = [run EXCEPT !.step = "ceiling", !.tiers = tiers,
                     !.given = run.given + Bps(sale.amount, OverrideBps(sale.seller, earned))]
        BY <3>2 DEF PayOverride
      <4>2. run' = [run EXCEPT !.step = "ceiling",
                     !.given = run.given + Bps(sale.amount, OverrideBps(sale.seller, earned)),
                     !.tiers = tiers]
        BY <1>2, <4>1 DEF Application
      <4> QED BY <4>2
    <3>3. ASSUME NEW st \in {"committed", "refused"}, run' = [run EXCEPT !.step = st]
          PROVE  \E g, ts : run' = [run EXCEPT !.step = st, !.given = g, !.tiers = ts]
      <4>1. run' = [run EXCEPT !.step = st, !.given = run.given, !.tiers = run.tiers]
        BY <1>2, <3>3 DEF Application
      <4> QED BY <4>1
    <3> QED BY <3>1, <3>2, <3>3 DEF Commit, Refuse
  <2> QED BY <1>2, <2>1 DEF Application
<1>6. sale'.seller = sale.seller /\ sale'.amount = sale.amount
  BY <1>3 DEF PayBonuses, PayOverride, Commit, Refuse
<1>7. run'.step = "committed" => sale'.plan = run.plan
  <2>1. CASE Commit
    BY <1>3, <2>1 DEF Commit
  <2>2. CASE ~Commit
    <3>1. run'.step \in {"override", "ceiling", "refused"}
      BY <1>2, <2>2 DEF PayBonuses, PayOverride, Refuse, Application
    <3> QED BY <3>1
  <2> QED BY <2>1, <2>2
<1> QED BY <1>1, <1>4, <1>5, <1>6, <1>7, LinesRest

\* Every step keeps the invariant.
LEMMA HeirStep ==
  ASSUME Inv, HeirInv, [CommissionNext]_allVars
  PROVE  HeirInv'
<1>1. CASE UNCHANGED allVars
  <2>1. UNCHANGED <<plans, tiers, sale, run, joined, sponsor>>
    BY <1>1 DEF allVars, money, vars, tree
  <2>2. CASE run # Idle
    <3>1. joined = Members
      BY <2>2 DEF HeirInv, PlanOK, Versions
    <3> QED BY <2>1, <3>1, SetTierKeepsHeirs
  <2>3. CASE run = Idle
    BY <2>1, <2>3 DEF HeirInv
  <2> QED BY <2>2, <2>3
<1>2. CASE plans = <<>> /\ Next /\ UNCHANGED money
  <2>1. run = Idle
    BY <1>2 DEF HeirInv, PlanOK, Versions
  <2>2. plans' = <<>> /\ run' = Idle
    BY <1>2, <2>1 DEF money
  <2> QED BY <2>2 DEF HeirInv
<1>3. CASE Grown /\ Selling /\ UNCHANGED vars
  <2>1. joined = Members /\ UNCHANGED <<sponsor, joined>>
    BY <1>3 DEF Grown, vars, tree
  <2>2. ASSUME NEW o \in Offers, NEW from \in Dates, CreateVersion(o, from) PROVE HeirInv'
    <3>1. o \in PlanOffers /\ from \in Int /\ AddVersion(o, from)
      BY <2>2, OffersType, CommissionAssumption DEF CreateVersion
    <3> QED BY <2>1, <3>1, AddVersionKeepsHeirs
  <2>3. ASSUME NEW b \in Bonuses, NEW from \in clock .. clock + MaxVersions,
               CreateBonusVersion(b, from)
        PROVE  HeirInv'
    <3> DEFINE v == Effective(clock)
    <3>1. v \in Versions /\ AddVersion([plans[v].offer EXCEPT !.bonus = b], from)
      BY <2>3 DEF CreateBonusVersion
    <3> HIDE DEF v
    <3>2. from \in Int
      BY <1>3, CommissionAssumption DEF Grown
    <3>3. [plans[v].offer EXCEPT !.bonus = b] \in PlanOffers
      BY <3>1, PlansType, OfferType
    <3> QED BY <2>1, <3>1, <3>2, <3>3, AddVersionKeepsHeirs
  <2>4. ASSUME NEW r \in Ranks, NEW t \in Tiers \cup {None}, SetTier(r, t) PROVE HeirInv'
    BY <2>1, <2>4, SetTierKeepsHeirs DEF SetTier
  <2>5. ASSUME NEW m \in Members, NEW a \in Amounts, NEW d \in Dates, EnterSale(m, a, d)
        PROVE  HeirInv'
    <3>1. run = Idle /\ run' = Idle
      BY <2>5 DEF Inv, RunOK, EnterSale
    <3> QED BY <2>1, <3>1, IdleHeirs
  <2>6. ASSUME NEW active \in SUBSET Members, NEW policy \in Policies, Resolve(active, policy)
        PROVE  HeirInv'
    BY <2>1, <2>6, ResolveKeepsHeirs
  <2>7. CASE PayLevel
    BY <2>1, <2>7, PayLevelKeepsHeirs
  <2>8. CASE PayBonuses \/ (\E earned \in Earnings : PayOverride(earned)) \/ Commit \/ Refuse
    BY <2>1, <2>8, RestKeepsHeirs
  <2> QED BY <1>3, <2>2, <2>3, <2>4, <2>5, <2>6, <2>7, <2>8 DEF Selling
<1> QED BY <1>1, <1>2, <1>3 DEF CommissionNext

(***************************************************************************)
(* What a review covers.                                                   *)
(***************************************************************************)
\* With a plan due, the one in force is one of the versions.
LEMMA EffectiveVersion ==
  ASSUME Inv, NEW date \in Int, Effective(date) # 0
  PROVE  Effective(date) \in Versions
<1> DEFINE due == {v \in Versions : plans[v].from <= date}
           Gaps == {date - plans[v].from : v \in due}
<1>1. \A v \in Versions : plans[v].from \in Int
  <2> DEFINE PlanRows == [offer: PlanOffers, from: Int]
  <2>1. plans \in Seq(PlanRows) /\ \A row \in PlanRows : row.from \in Int
    BY DEF Inv, PlansOK
  <2> HIDE DEF PlanRows
  <2> QED BY <2>1 DEF Versions
<1>2. due # {}
  BY DEF Effective
<1>3. \E v \in due : \A w \in due : plans[w].from <= plans[v].from
  <2>1. Gaps \in SUBSET Nat /\ Gaps # {}
    BY <1>1, <1>2
  <2>2. PICK g \in Gaps : \A h \in Gaps : g <= h
    <3> HIDE DEF Gaps
    <3> QED BY <2>1, LeastNatural
  <2>3. PICK v \in due : g = date - plans[v].from
    BY <2>2
  <2>4. \A w \in due : plans[w].from <= plans[v].from
    <3> SUFFICES ASSUME NEW w \in due PROVE plans[w].from <= plans[v].from
      OBVIOUS
    <3>1. g <= date - plans[w].from
      BY <2>2
    <3> QED BY <1>1, <2>3, <3>1
  <2> QED BY <2>4
<1>4. Effective(date) = CHOOSE v \in due : \A w \in due : plans[w].from <= plans[v].from
  BY <1>2 DEF Effective
<1> HIDE DEF due
<1>5. Effective(date) \in due
  BY <1>3, <1>4
<1> QED BY <1>5 DEF due

\* The direct sponsor is the second of the chain exactly when it is active: sliding brings
\* nobody else to a place whose own member is there.
LEMMA SecondOfChain ==
  ASSUME NEW raw, Line(raw), Len(raw) > 1, NEW active, NEW policy, ~policy.inactiveEarn
  PROVE  LET chain == EffectiveBaseChain(raw, active, policy)
         IN raw[2] \in active <=> Len(chain) > 1 /\ chain[2] = raw[2]
<1> DEFINE chain == EffectiveBaseChain(raw, active, policy)
           L == Len(raw)
<1>1. L \in Nat /\ 2 \in 1 .. L /\ 1 \in 1 .. L /\ raw[2] \in Members
  BY DEF Line
<1>2. Company \notin Members
  BY NodesType DEF Company
<1>3. CASE ~policy.compression
  <2>1. chain = [k \in 1 .. L |-> IF k = 1 \/ policy.inactiveEarn \/ raw[k] \in active
                                  THEN raw[k] ELSE Company]
    BY <1>3 DEF EffectiveBaseChain
  <2>2. Len(chain) = L
    BY <1>1, <2>1
  <2>3. chain[2] = IF raw[2] \in active THEN raw[2] ELSE Company
    BY <1>1, <2>1
  <2> HIDE DEF chain
  <2>4. raw[2] # Company
    BY <1>1, <1>2
  <2>5. raw[2] \in active <=> Len(chain) > 1 /\ chain[2] = raw[2]
    BY <2>2, <2>3, <2>4
  <2> QED BY <2>5 DEF chain
<1>4. CASE policy.compression
  <2>1. KeptOK(chain, raw, active, L)
    BY <1>4, RollUpOK DEF EffectiveBaseChain
  <2> HIDE DEF chain
  <2>2. Len(chain) \in Nat
    BY <2>1 DEF KeptOK
  <2>3. ASSUME raw[2] \in active PROVE Len(chain) > 1 /\ chain[2] = raw[2]
    <3>1. Cardinality(Passed(raw, active, 1)) = 0
      BY <1>1, PassedGrows
    <3>2. Cardinality(Passed(raw, active, 2)) = Cardinality(Passed(raw, active, 2 - 1)) + 1
      BY <1>1, <2>3, PassedGrows
    <3>3. 2 - 1 = 1
      OBVIOUS
    <3>4. 1 + Cardinality(Passed(raw, active, 2)) = 2
      BY <3>1, <3>2, <3>3
    <3>5. 2 \in 2 .. L
      BY <1>1
    <3>6. 2 \in 2 .. Len(chain) /\ chain[2] = raw[2]
      BY <2>1, <2>3, <3>4, <3>5 DEF KeptOK
    <3> QED BY <2>2, <3>6
  <2>4. ASSUME Len(chain) > 1, chain[2] = raw[2] PROVE raw[2] \in active
    <3>1. 2 \in 2 .. Len(chain)
      BY <2>2, <2>4
    <3>2. PICK j \in 2 .. L : raw[j] \in active /\ chain[2] = raw[j]
      BY <2>1, <3>1 DEF KeptOK
    <3> QED BY <2>4, <3>2
  <2>5. raw[2] \in active <=> Len(chain) > 1 /\ chain[2] = raw[2]
    BY <2>3, <2>4
  <2> QED BY <2>5 DEF chain
<1> QED BY <1>3, <1>4

\* A signature covers the sponsor's bonuses.
LEMMA InvGivesReview ==
  ASSUME Inv, TreeOK, HeirInv
  PROVE  ReviewCoversBonuses
<1> SUFFICES ASSUME run = Idle, sale # None, Effective(sale.date) # 0
             PROVE  LET raw == UplineChain(sale.seller, plans[Effective(sale.date)].offer.depth)
                        States == SUBSET {raw[k] : k \in 2 .. Len(raw)}
                    IN \A s, t \in States, p, q \in Policies :
                         ReviewMaterial(raw, s, p) = ReviewMaterial(raw, t, q)
                           => BonusSponsor(raw, s, p) = BonusSponsor(raw, t, q)
  BY DEF ReviewCoversBonuses
<1> DEFINE v == Effective(sale.date)
           depth == plans[v].offer.depth
           raw == UplineChain(sale.seller, depth)
<1>1. sale.seller \in Members /\ sale.date \in Int
  BY DEF Inv, SalesOK
<1>2. v \in Versions
  BY <1>1, EffectiveVersion
<1>3. sale.seller \in joined
  BY <1>1, <1>2 DEF HeirInv, Versions
<1> HIDE DEF v
<1>4. depth \in Nat \ {0}
  BY <1>2, PlansType DEF Offer
<1> HIDE DEF depth
<1>5. Line(raw)
  BY <1>3, <1>4, UplineIsLine
<1> HIDE DEF raw
<1>6. SUFFICES ASSUME NEW s, NEW t, NEW p \in Policies, NEW q \in Policies,
                      ReviewMaterial(raw, s, p) = ReviewMaterial(raw, t, q)
               PROVE  BonusSponsor(raw, s, p) = BonusSponsor(raw, t, q)
  BY DEF raw, depth, v
<1>7. p = q /\ EffectiveBaseChain(raw, s, p) = EffectiveBaseChain(raw, t, q)
  <2> DEFINE c == EffectiveBaseChain(raw, s, p)
             d == EffectiveBaseChain(raw, t, q)
  <2>1. [tenant |-> p, chain |-> c] = [tenant |-> q, chain |-> d]
    BY <1>6 DEF ReviewMaterial
  <2> HIDE DEF c, d
  <2>2. p = q /\ c = d
    BY <2>1
  <2> QED BY <2>2 DEF c, d
<1>8. CASE Len(raw) > 1 /\ ~p.inactiveEarn
  <2>1. raw[2] \in s <=> raw[2] \in t
    BY <1>5, <1>7, <1>8, SecondOfChain
  <2> QED BY <1>7, <2>1 DEF BonusSponsor
<1>9. CASE ~(Len(raw) > 1 /\ ~p.inactiveEarn)
  BY <1>7, <1>9 DEF BonusSponsor
<1> QED BY <1>8, <1>9

(***************************************************************************)
(* What is paid is what the paths give.                                    *)
(***************************************************************************)
\* A row of a level went to its heir, or there is none.
LEMMA InvGivesHeirs ==
  ASSUME Inv, TreeOK, HeirInv
  PROVE  EveryLevelToItsHeir
<1> SUFFICES ASSUME run.step = "committed", NEW k \in 0 .. run.offer.depth - 1
             PROVE  LET cents == Bps(sale.amount, RateAt(plans[sale.plan].offer, k))
                    IN \/ cents > 0 /\ \E m \in Heirs(k) :
                            /\ Heirs(k) = {m}
                            /\ run.lines[k + 1] = [to |-> m, cents |-> cents]
                       \/ (cents = 0 \/ Heirs(k) = {}) /\ run.lines[k + 1] = NoLine
  BY DEF EveryLevelToItsHeir
<1> DEFINE cents == Bps(sale.amount, RateAt(run.offer, k))
           h == Beneficiary(k)
<1>1. run # Idle
  BY DEF Idle
<1>2. /\ run.plan \in Versions /\ run.offer = plans[run.plan].offer /\ sale.plan = run.plan
      /\ ChainOK /\ LevelsOK
  BY <1>1 DEF HeirInv, PlanOK
<1>3. sale # None /\ sale.amount \in Nat /\ run.offer.depth \in Nat \ {0}
  BY <1>1, ApplicationFields
<1>4. sale.seller \in joined
  BY <1>2, <1>3 DEF HeirInv, Versions, Inv, SalesOK
<1>5. cents \in Nat
  <2>1. RateAt(run.offer, k) \in Nat
    <3>1. k \in 0 .. run.offer.depth /\ k + 1 \in 0 .. run.offer.depth
      BY <1>3
    <3> QED BY <1>1, <3>1, ApplicationFields DEF RateAt
  <2> QED BY <1>3, <2>1, BpsBelow
<1>6. Heirs(k) = IF h = Company THEN {} ELSE {h}
  BY <1>2, <1>3, <1>4, ChainGivesHeirs DEF ChainOK
<1>7. run.lines[k + 1] = LevelLine(k)
  BY <1>2, <1>3 DEF LevelsOK
<1>8. cents = Bps(sale.amount, RateAt(plans[sale.plan].offer, k))
  BY <1>2
<1>9. run.lines[k + 1] = IF h = Company \/ cents = 0 THEN NoLine ELSE [to |-> h, cents |-> cents]
  BY <1>7 DEF LevelLine
<1> HIDE DEF cents, h
<1>10. CASE h = Company \/ cents = 0
  BY <1>6, <1>8, <1>9, <1>10
<1>11. CASE h # Company /\ cents # 0
  <2>1. cents > 0 /\ h \in Heirs(k) /\ Heirs(k) = {h}
        /\ run.lines[k + 1] = [to |-> h, cents |-> cents]
    BY <1>5, <1>6, <1>9, <1>11
  <2> QED BY <1>8, <2>1
<1> QED BY <1>10, <1>11

(***************************************************************************)
(* The theorems about views and heirs.                                     *)
(***************************************************************************)
\* Selling does not touch the tree: with sales, a tenant's tree and its views (members,
\* network-hierarchy.service.ts) still behave as without them.
LEMMA SellingLeavesTheTree == CommissionSpec => Spec
<1>1. CommissionInit => Init
  BY DEF CommissionInit
<1>2. [CommissionNext]_allVars => [Next]_vars
  BY DEF CommissionNext, allVars, vars, tree
<1> QED BY <1>1, <1>2, PTL DEF CommissionSpec, Spec

\* The counts of an administrator's context add up to the size of the branch or tenant,
\* and those of a member's leave no recruit uncounted (adminContext, memberContext).
THEOREM ContextCountsAddUp == Spec => []ContextIsComplete
BY NetworkInvariant, InvGivesProperties, PTL

\* Pages that follow each other's tokens never repeat a member (keyset pagination).
THEOREM PagesDoNotRepeat == Spec => []NobodyShownTwice
BY NetworkInvariant, InvGivesProperties, PTL

\* And they leave nobody out who had joined when the view was opened.
THEOREM PagesLeaveNobodyOut == Spec => []NobodyMissing
BY NetworkInvariant, InvGivesProperties, PTL

\* A view shows the members of its moment and its branch, down to the last visible tier.
THEOREM ViewsStayInScope == Spec => []ShownInScope
BY NetworkInvariant, InvGivesProperties, PTL

\* Every application holds the chain that the tree and its settings give, and the rows of
\* the levels that it has computed from it (effectiveBaseChain, computeCommissionLines).
THEOREM HeirInvariant == CommissionSpec => [](Inv /\ TreeOK /\ HeirInv)
<1>1. CommissionInit => HeirInv
  BY HeirsInitially
<1>2. Inv /\ HeirInv /\ [CommissionNext]_allVars => HeirInv'
  BY HeirStep
<1>3. NetworkInv => TreeOK
  BY DEF NetworkInv
<1> QED BY <1>1, <1>2, <1>3, ExactShares, SellingLeavesTheTree, NetworkInvariant, PTL
        DEF CommissionSpec

\* Each level of a committed sale went to the one upline that the paths of the tree give
\* for it, with or without compression (computeCommissionLines over effectiveBaseChain).
THEOREM LevelsGoToTheirHeirs == CommissionSpec => []EveryLevelToItsHeir
<1>1. Inv /\ TreeOK /\ HeirInv => EveryLevelToItsHeir
  BY InvGivesHeirs
<1> QED BY <1>1, HeirInvariant, PTL

\* The settings and the base chain that a bulk review signs determine whether the direct
\* sponsor gets its bonuses, which the review does not show.
THEOREM SignatureCoversBonuses == CommissionSpec => []ReviewCoversBonuses
<1>1. Inv /\ TreeOK /\ HeirInv => ReviewCoversBonuses
  BY InvGivesReview
<1> QED BY <1>1, HeirInvariant, PTL
=============================================================================
