-------------------------- MODULE ModelStoreProofs --------------------------
(***************************************************************************)
(* What the deduplication of the model store keeps, for any number of      *)
(* places, directories, contents and changes to the store, and every shape *)
(* of symbolic links in it, cycles included.                               *)
(***************************************************************************)
EXTENDS ModelStore, FiniteSetTheorems, WellFoundedInduction, TLAPS

-----------------------------------------------------------------------------
(* Type correctness.                                                       *)

LEMMA TypeInit == Init => TypeOK
BY StoreConstants DEF Init, TypeOK

LEMMA TypeNext == TypeOK /\ [Next]_vars => TypeOK'
<1> SUFFICES ASSUME TypeOK, [Next]_vars PROVE TypeOK'
  OBVIOUS
<1> USE DEF TypeOK
<1>1. ASSUME NEW p \in Paths, Download(p) PROVE TypeOK'
  <2>1. PICK i \in Unused, k \in Contents :
          /\ disk' = [disk EXCEPT ![p] = [kind |-> "file", inode |-> i]]
          /\ data' = [data EXCEPT ![i] = k]
    BY <1>1 DEF Download
  <2>2. [kind |-> "file", inode |-> i] \in Entry /\ i \in Inodes
    BY DEF Entry, File, Unused
  <2>3. disk' \in [Paths -> Entry \cup {None}] /\ data' \in [Inodes -> Contents]
    BY <2>1, <2>2
  <2> QED BY <1>1, <2>3, StoreConstants DEF Download, gcVars
<1>2. ASSUME NEW p \in Paths, DeleteOrphan(p) PROVE TypeOK'
  BY <1>2, StoreConstants DEF DeleteOrphan, gcVars
<1>3. CASE Audit
  BY <1>3 DEF Audit, gcVars
<1>4. CASE Start
  BY <1>4 DEF Start
<1>5. CASE NextSet
  BY <1>5 DEF NextSet
<1>6. CASE NextMember \/ SetDone
  BY <1>6 DEF NextMember, SetDone
<1>7. CASE MakeTemp \/ CannotLink
  BY <1>7 DEF MakeTemp, CannotLink
<1>8. CASE Replace \/ ReplaceRaises
  BY <1>8 DEF Replace, ReplaceRaises
<1>9. CASE Finish \/ Crash
  BY <1>9 DEF Finish, Crash
<1>10. CASE UNCHANGED vars
  BY <1>10 DEF vars, gcVars
<1> QED BY <1>1, <1>2, <1>3, <1>4, <1>5, <1>6, <1>7, <1>8, <1>9, <1>10 DEF Next, Gc

\* The store, the manifest and the gc's local variables keep their types.
THEOREM TypeCorrect == Spec => []TypeOK
BY TypeInit, TypeNext, PTL DEF Spec

-----------------------------------------------------------------------------
(* Where a path leads.                                                     *)

\* Sets of paths that no link leaves, and the least of them around S.
Closed(S) == \A r \in S : Follow(r) \subseteq S
Reach(S) == {q \in Paths : \A T \in SUBSET Paths : S \subseteq T /\ Closed(T) => q \in T}

Further(S) == S \cup UNION {Follow(q) : q \in S}

LEMMA FurtherFacts ==
  ASSUME NEW S \in SUBSET Paths
  PROVE  /\ Further(S) \in SUBSET Paths /\ S \subseteq Further(S)
         /\ Further(S) = S <=> Closed(S)
         /\ Closed(S) => Reach(S) = S
         /\ Reach(Further(S)) = Reach(S)
<1>1. Further(S) \in SUBSET Paths /\ S \subseteq Further(S)
  BY DEF Further, Follow, Link
<1>2. Further(S) = S <=> Closed(S)
  BY DEF Further, Closed
<1>3. Closed(S) => Reach(S) = S
  BY DEF Reach
<1>4. \A T \in SUBSET Paths : Closed(T) => (S \subseteq T <=> Further(S) \subseteq T)
  BY DEF Further, Closed
<1>5. Reach(Further(S)) = Reach(S)
  BY <1>4 DEF Reach
<1> QED BY <1>1, <1>2, <1>3, <1>5

LEMMA ReachIsClosed ==
  ASSUME NEW S \in SUBSET Paths
  PROVE  S \subseteq Reach(S) /\ Reach(S) \subseteq Paths /\ Closed(Reach(S))
<1>1. ASSUME NEW r \in Reach(S), NEW q \in Follow(r) PROVE q \in Reach(S)
  <2>1. q \in Paths
    BY DEF Follow, Link
  <2> QED BY <1>1, <2>1 DEF Reach, Closed
<1> QED BY <1>1 DEF Reach, Closed

\* The recursion of Route has one solution, Reach, whatever cycles there are.
LEMMA RouteIsReach == \A p \in Paths : Route(p) = Reach({p})
<1> DEFINE Rec(g) == [S \in SUBSET Paths |->
                        LET next == S \cup UNION {Follow(q) : q \in S}
                        IN  IF next = S THEN S ELSE g[next]]
           G == CHOOSE g : g = Rec(g)
           h == [S \in SUBSET Paths |-> Reach(S)]
<1>1. h = Rec(h)
  <2>1. ASSUME NEW S \in SUBSET Paths
        PROVE  Reach(S) = IF Further(S) = S THEN S ELSE h[Further(S)]
    BY FurtherFacts
  <2> QED BY <2>1 DEF Further
<1>2. G = Rec(G)
  <2> HIDE DEF h, Rec
  <2> QED BY <1>1
<1>3. \A S \in SUBSET Paths : G[S] = IF Further(S) = S THEN S ELSE G[Further(S)]
  <2> HIDE DEF G
  <2> QED BY <1>2 DEF Further
<1>4. \A p \in Paths : Route(p) = G[{p}]
  BY DEF Route
<1> HIDE DEF G
<1>5. \A S \in SUBSET Paths : G[S] = Reach(S)
  <2> DEFINE left(S) == Cardinality(Paths \ S)
             B == {S \in SUBSET Paths : G[S] # Reach(S)}
             N == {left(S) : S \in B}
             R == OpToRel(<, Nat)
  <2>1. \A S \in SUBSET Paths : IsFiniteSet(Paths \ S) /\ left(S) \in Nat
    BY StoreConstants, FS_Subset, FS_CardinalityType
  <2> SUFFICES ASSUME B # {} PROVE FALSE
    OBVIOUS
  <2>2. PICK n \in N : \A m \in N : <<m, n>> \notin R
    <3>1. N \in SUBSET Nat /\ N # {}
      BY <2>1
    <3>2. IsWellFoundedOn(R, Nat)
      BY NatLessThanWellFounded
    <3> HIDE DEF R, N
    <3> QED BY <3>1, <3>2, WFMin
  <2>3. PICK S \in B : n = left(S)
    OBVIOUS
  <2>4. CASE Further(S) = S
    BY <1>3, <2>3, <2>4, FurtherFacts
  <2>5. CASE Further(S) # S
    <3>1. /\ Further(S) \in SUBSET Paths /\ S \subseteq Further(S)
          /\ Reach(Further(S)) = Reach(S)
      BY FurtherFacts
    <3>2. Further(S) \in B
      BY <1>3, <2>3, <2>5, <3>1
    <3>3. left(Further(S)) < left(S)
      <4>1. Paths \ Further(S) \in SUBSET (Paths \ S) /\ Paths \ Further(S) # Paths \ S
        BY <2>5, <3>1
      <4>2. /\ IsFiniteSet(Paths \ S)
            /\ left(S) \in Nat /\ left(Further(S)) \in Nat
        BY <2>1, <3>1
      <4>3. left(Further(S)) <= left(S) /\ left(S) # left(Further(S))
        BY <4>1, <4>2, FS_Subset
      <4> QED BY <4>2, <4>3
    <3>4. <<left(Further(S)), n>> \notin R
      BY <2>2, <3>2
    <3> QED BY <2>1, <2>3, <3>1, <3>3, <3>4 DEF OpToRel
  <2> QED BY <2>4, <2>5
<1> QED BY <1>4, <1>5

\* What Route and Stat are: the way from p, and the one file on it.
RouteLaws ==
  /\ \A p \in Paths :
       /\ p \in Route(p) /\ Route(p) \subseteq Paths /\ Closed(Route(p))
       /\ \A T \in SUBSET Paths : p \in T /\ Closed(T) => Route(p) \subseteq T
       /\ Route(p) = {p} \cup UNION {Route(q) : q \in Follow(p)}
  /\ \A p \in Paths : \A q \in Route(p) : Stat(q) = Stat(p)
  /\ \A p \in Paths : \A x \in Route(p) : IsFile(disk[x]) => Stat(p) = disk[x].inode
  /\ \A p \in Paths : (\A x \in Route(p) : ~IsFile(disk[x])) => Stat(p) = None

LEMMA RouteLawsHold == RouteLaws
<1>1. ASSUME NEW p \in Paths
      PROVE  /\ p \in Route(p) /\ Route(p) \subseteq Paths /\ Closed(Route(p))
             /\ \A T \in SUBSET Paths : p \in T /\ Closed(T) => Route(p) \subseteq T
  <2>1. Route(p) = Reach({p})
    BY RouteIsReach
  <2>2. {p} \in SUBSET Paths
    OBVIOUS
  <2>3. {p} \subseteq Reach({p}) /\ Reach({p}) \subseteq Paths /\ Closed(Reach({p}))
    BY <2>2, ReachIsClosed
  <2> QED BY <2>1, <2>3 DEF Reach
<1>2. ASSUME NEW p \in Paths
      PROVE  Route(p) = {p} \cup UNION {Route(q) : q \in Follow(p)}
  <2> DEFINE T == {p} \cup UNION {Route(q) : q \in Follow(p)}
  <2>1. Follow(p) \subseteq Paths
    BY DEF Follow, Link
  <2>2. T \in SUBSET Paths /\ p \in T
    BY <1>1, <2>1
  <2>3. ASSUME NEW r \in T PROVE Follow(r) \subseteq T
    <3>1. CASE r = p
      BY <1>1, <2>1, <3>1
    <3>2. ASSUME NEW q \in Follow(p), r \in Route(q) PROVE Follow(r) \subseteq T
      <4>1. Follow(r) \subseteq Route(q)
        BY <1>1, <2>1, <3>2 DEF Closed
      <4> QED BY <4>1
    <3> QED BY <2>3, <3>1, <3>2
  <2>4. Route(p) \subseteq T
    <3> HIDE DEF T
    <3> QED BY <1>1, <2>2, <2>3 DEF Closed
  <2>5. ASSUME NEW q \in Follow(p) PROVE Route(q) \subseteq Route(p)
    <3>1. q \in Route(p)
      BY <1>1 DEF Closed
    <3> QED BY <1>1, <2>1, <3>1
  <2> QED BY <1>1, <2>4, <2>5
\* A file on the way is ahead of every path on the way.
<1>3. ASSUME NEW p \in Paths, NEW x \in Route(p), IsFile(disk[x]), NEW q \in Route(p)
      PROVE  x \in Route(q)
  <2> DEFINE T == {r \in Paths : x \in Route(r)}
  <2>1. x \in Paths /\ q \in Paths /\ p \in T
    BY <1>1
  <2>2. Follow(x) = {}
    BY <1>3 DEF Follow, Link, IsFile
  <2>3. ASSUME NEW r \in T, NEW n \in Follow(r) PROVE n \in T
    <3>1. n \in Paths /\ Follow(r) = {n}
      BY <2>3 DEF Follow, Link
    <3>2. x \in {r} \cup Route(n)
      BY <1>2, <3>1
    <3>3. r # x
      BY <2>2, <2>3
    <3> QED BY <3>1, <3>2, <3>3
  <2>4. Route(p) \subseteq T
    BY <1>1, <2>1, <2>3 DEF Closed
  <2> QED BY <2>4
<1>4. ASSUME NEW p \in Paths, NEW x \in Route(p), IsFile(disk[x]),
             NEW y \in Route(p), IsFile(disk[y])
      PROVE  x = y
  <2>1. x \in Route(y) /\ y \in Paths
    BY <1>1, <1>3, <1>4
  <2>2. Follow(y) = {}
    BY <1>4 DEF Follow, Link, IsFile
  <2>3. Route(y) = {y}
    BY <1>2, <2>1, <2>2
  <2> QED BY <2>1, <2>3
<1>5. ASSUME NEW p \in Paths, NEW x \in Route(p), IsFile(disk[x])
      PROVE  Stat(p) = disk[x].inode
  <2>1. (CHOOSE q \in Route(p) : IsFile(disk[q])) = x
    BY <1>4, <1>5
  <2> QED BY <1>5, <2>1 DEF Stat
<1>6. ASSUME NEW p \in Paths, \A x \in Route(p) : ~IsFile(disk[x]) PROVE Stat(p) = None
  BY <1>6 DEF Stat
<1>7. ASSUME NEW p \in Paths, NEW q \in Route(p) PROVE Stat(q) = Stat(p)
  <2>1. q \in Paths /\ Route(q) \subseteq Route(p)
    BY <1>1
  <2>2. ASSUME NEW x \in Route(p), IsFile(disk[x]) PROVE Stat(q) = Stat(p)
    <3>1. x \in Route(q)
      BY <1>3, <2>2
    <3> QED BY <1>5, <2>1, <2>2, <3>1
  <2>3. CASE \A x \in Route(p) : ~IsFile(disk[x])
    BY <1>6, <2>1, <2>3
  <2> QED BY <2>2, <2>3
<1> QED BY <1>1, <1>2, <1>5, <1>6, <1>7 DEF RouteLaws

LEMMA RouteLawsLater == RouteLaws'
BY RouteLawsHold, PTL

LEMMA StatTypes ==
  ASSUME TypeOK, NEW p \in Paths
  PROVE  Stat(p) \in Inodes \cup {None}
<1>1. CASE \E x \in Route(p) : IsFile(disk[x])
  <2>1. PICK x \in Route(p) : IsFile(disk[x])
    BY <1>1
  <2>2. x \in Paths /\ Stat(p) = disk[x].inode
    BY <2>1, RouteLawsHold DEF RouteLaws
  <2>3. disk[x] \in File
    BY <2>1, <2>2 DEF TypeOK, IsFile, Entry, Link
  <2> QED BY <2>2, <2>3 DEF File
<1>2. CASE \A x \in Route(p) : ~IsFile(disk[x])
  BY <1>2, RouteLawsHold DEF RouteLaws
<1> QED BY <1>1, <1>2

-----------------------------------------------------------------------------
(* The replacement of a duplicate.                                         *)

\* d and c are different files of the same content.
Duplicates(d, c) ==
  /\ d \in Paths /\ c \in Paths
  /\ Stat(d) # None /\ Stat(d) # Stat(c) /\ Read(d) = Read(c)

LEMMA BothThere ==
  ASSUME TypeOK, NEW d, NEW c, Duplicates(d, c)
  PROVE  /\ Stat(c) # None /\ Read(c) \in Contents
         /\ d \notin Route(c) /\ c \notin Route(d)
<1>1. Stat(d) \in Inodes /\ Read(d) \in Contents /\ Read(c) # None
  BY StatTypes, StoreConstants DEF Duplicates, Read, TypeOK
<1>2. Stat(c) # None
  BY <1>1 DEF Read
<1>3. d \notin Route(c) /\ c \notin Route(d)
  BY RouteLawsHold DEF RouteLaws, Duplicates
<1> QED BY <1>1, <1>2, <1>3 DEF Duplicates

\* What does not lead to the replaced path is not affected.
LEMMA ElsewhereSame ==
  ASSUME NEW d \in Paths, \A q \in Paths \ {d} : disk'[q] = disk[q],
         NEW p \in Paths, d \notin Route(p)
  PROVE  Route(p)' = Route(p) /\ Stat(p)' = Stat(p)
<1>1. \A q \in Paths \ {d} : Follow(q)' = Follow(q)
  BY DEF Follow
<1>2. Route(p)' \subseteq Route(p)
  <2>1. /\ p \in Route(p) /\ Route(p) \in SUBSET Paths
        /\ \A r \in Route(p) : Follow(r) \subseteq Route(p)
    BY RouteLawsHold DEF RouteLaws, Closed
  <2>2. \A r \in Route(p) : Follow(r)' \subseteq Route(p)
    BY <1>1, <2>1
  <2>3. \A T \in SUBSET Paths : p \in T /\ (\A r \in T : Follow(r)' \subseteq T)
                                => Route(p)' \subseteq T
    BY RouteLawsLater DEF RouteLaws, Closed
  <2> QED BY <2>1, <2>2, <2>3
<1>3. Route(p) \subseteq Route(p)'
  <2>1. /\ p \in Route(p)' /\ Route(p)' \in SUBSET Paths
        /\ \A r \in Route(p)' : Follow(r)' \subseteq Route(p)'
    BY RouteLawsLater DEF RouteLaws, Closed
  <2>2. \A r \in Route(p)' : Follow(r) \subseteq Route(p)'
    BY <1>1, <1>2, <2>1
  <2> QED BY <2>1, <2>2, RouteLawsHold DEF RouteLaws, Closed
<1>4. Stat(p)' = Stat(p)
  <2>1. \A x \in Route(p) : disk'[x] = disk[x]
    BY RouteLawsHold DEF RouteLaws
  <2>2. CASE \E x \in Route(p) : IsFile(disk[x])
    <3>1. PICK x \in Route(p) : IsFile(disk[x])
      BY <2>2
    <3>2. Stat(p) = disk[x].inode
      BY <3>1, RouteLawsHold DEF RouteLaws
    <3>3. x \in Route(p)' /\ IsFile(disk[x])'
      BY <1>3, <2>1, <3>1 DEF IsFile
    <3>4. Stat(p)' = disk'[x].inode
      BY <3>3, RouteLawsLater DEF RouteLaws
    <3> QED BY <2>1, <3>2, <3>4
  <2>3. CASE \A x \in Route(p) : ~IsFile(disk[x])
    <3>1. Stat(p) = None
      BY <2>3, RouteLawsHold DEF RouteLaws
    <3>2. \A x \in Route(p)' : ~IsFile(disk[x])'
      BY <1>2, <2>1, <2>3 DEF IsFile
    <3>3. Stat(p)' = None
      BY <3>2, RouteLawsLater DEF RouteLaws
    <3> QED BY <3>1, <3>3
  <2> QED BY <2>2, <2>3
<1> QED BY <1>2, <1>3, <1>4

\* What led to the replaced path still does.
LEMMA StillLeadsThere ==
  ASSUME NEW d \in Paths, \A q \in Paths \ {d} : disk'[q] = disk[q],
         NEW p \in Paths, d \in Route(p)
  PROVE  d \in Route(p)' /\ Stat(p)' = Stat(d)'
<1>1. ASSUME d \notin Route(p)' PROVE FALSE
  <2>1. /\ p \in Route(p)' /\ Route(p)' \in SUBSET Paths
        /\ \A r \in Route(p)' : Follow(r)' \subseteq Route(p)'
    BY RouteLawsLater DEF RouteLaws, Closed
  <2>2. \A r \in Route(p)' : Follow(r) \subseteq Route(p)'
    BY <1>1, <2>1 DEF Follow
  <2>3. Route(p) \subseteq Route(p)'
    BY <2>1, <2>2, RouteLawsHold DEF RouteLaws, Closed
  <2> QED BY <1>1, <2>3
<1>2. Stat(p)' = Stat(d)'
  BY <1>1, RouteLawsLater DEF RouteLaws
<1> QED BY <1>1, <1>2

\* The replaced path leads to the canonical file, or dangles.
LEMMA ReplacedLeads ==
  ASSUME TypeOK, NEW d, NEW c, Duplicates(d, c), disk' = [disk EXCEPT ![d] = disk[c]]
  PROVE  \/ Stat(d)' = Stat(c)
         \/ Stat(d)' = None /\ Dangles(d)
<1>0. /\ d \in Paths /\ c \in Paths /\ Stat(c) # None /\ d \notin Route(c)
      /\ disk'[d] = disk[c] /\ \A q \in Paths \ {d} : disk'[q] = disk[q]
  BY BothThere DEF Duplicates, TypeOK
<1>1. CASE IsFile(disk[c])
  <2>1. Stat(c) = disk[c].inode
    BY <1>0, <1>1, RouteLawsHold DEF RouteLaws
  <2>2. Stat(d)' = disk'[d].inode
    BY <1>0, <1>1, RouteLawsLater DEF RouteLaws, IsFile
  <2> QED BY <1>0, <2>1, <2>2
<1>2. CASE ~IsFile(disk[c])
  <2>1. PICK n \in Follow(c) : TRUE
    <3>1. ASSUME Follow(c) = {} PROVE FALSE
      <4>1. Route(c) = {c}
        BY <1>0, <3>1, RouteLawsHold DEF RouteLaws
      <4>2. Stat(c) = None
        BY <1>0, <1>2, <4>1, RouteLawsHold DEF RouteLaws
      <4> QED BY <1>0, <4>2
    <3> QED BY <3>1
  <2>2. /\ disk[c] \in Link /\ disk[c].dir = DirOf[c] /\ n = disk[c].to
        /\ Follow(c) = {n} /\ n \in Paths
    BY <2>1 DEF Follow, Link
  <2>3. CASE disk[c].dir = DirOf[d]
    <3>1. Follow(d)' = {n}
      BY <1>0, <2>2, <2>3 DEF Follow
    <3>2. n \in Route(d)'
      BY <1>0, <3>1, RouteLawsLater DEF RouteLaws, Closed
    <3>3. Stat(d)' = Stat(n)'
      BY <1>0, <3>2, RouteLawsLater DEF RouteLaws
    <3>4. n \in Route(c) /\ Route(n) \subseteq Route(c)
      BY <1>0, <2>2, RouteLawsHold DEF RouteLaws, Closed
    <3>5. Stat(n)' = Stat(n)
      BY <1>0, <2>2, <3>4, ElsewhereSame
    <3>6. Stat(n) = Stat(c)
      BY <1>0, <3>4, RouteLawsHold DEF RouteLaws
    <3> QED BY <3>3, <3>5, <3>6
  <2>4. CASE disk[c].dir # DirOf[d]
    <3>1. Follow(d)' = {} /\ Dangles(d) /\ ~IsFile(disk[d])'
      BY <1>0, <1>2, <2>2, <2>4 DEF Follow, Dangles, IsFile
    <3>2. Route(d)' = {d}
      BY <1>0, <3>1, RouteLawsLater DEF RouteLaws
    <3>3. Stat(d)' = None
      BY <1>0, <3>1, <3>2, RouteLawsLater DEF RouteLaws
    <3> QED BY <3>1, <3>3
  <2> QED BY <2>3, <2>4
<1> QED BY <1>1, <1>2

LEMMA ReplaceKeeps ==
  ASSUME TypeOK, NEW d, NEW c, Duplicates(d, c), disk' = [disk EXCEPT ![d] = disk[c]],
         data' = data
  PROVE  /\ \A p \in Paths :
              \/ Read(p)' = Read(p)
              \/ Read(p)' = None /\ Read(p) = Read(c) /\ d \in Route(p) /\ Dangles(d)
         /\ Read(c)' = Read(c) /\ c \in Paths
<1>0. /\ d \in Paths /\ c \in Paths /\ d \notin Route(c)
      /\ \A q \in Paths \ {d} : disk'[q] = disk[q]
  BY BothThere DEF Duplicates, TypeOK
<1>1. ASSUME NEW p \in Paths, d \notin Route(p) PROVE Read(p)' = Read(p)
  BY <1>0, <1>1, ElsewhereSame DEF Read
<1>2. ASSUME NEW p \in Paths, d \in Route(p)
      PROVE  \/ Read(p)' = Read(p)
             \/ Read(p)' = None /\ Read(p) = Read(c) /\ Dangles(d)
  <2>1. Stat(p)' = Stat(d)' /\ Stat(p) = Stat(d)
    BY <1>0, <1>2, StillLeadsThere, RouteLawsHold DEF RouteLaws
  <2>2. Read(p) = Read(c)
    BY <2>1 DEF Read, Duplicates
  <2>3. CASE Stat(d)' = Stat(c)
    BY <2>1, <2>2, <2>3 DEF Read
  <2>4. CASE Stat(d)' = None /\ Dangles(d)
    BY <2>1, <2>2, <2>4 DEF Read
  <2> QED BY <2>3, <2>4, ReplacedLeads
<1> QED BY <1>0, <1>1, <1>2

-----------------------------------------------------------------------------
(* What the gc keeps.                                                      *)

\* Between the comparison and the replacement nothing changes.
GcInv ==
  \A d, c \in Paths :
    gc \in {"verified", "linked"} /\ dup = d /\ canonical = c =>
      /\ Duplicates(d, c)
      /\ gc = "linked" => temp[d] = disk[c]

DiskInv == TypeOK /\ GcInv

\* Nothing that is read changes while the disk does not.
LEMMA SameDiskSame ==
  ASSUME UNCHANGED <<disk, data>>
  PROVE  /\ \A p : Stat(p)' = Stat(p) /\ Read(p)' = Read(p)
         /\ \A d, c : Duplicates(d, c)' <=> Duplicates(d, c)
BY DEF Stat, Route, Follow, Read, Duplicates

LEMMA DiskInit == Init => DiskInv
<1>1. Init => GcInv
  BY DEF Init, GcInv
<1> QED BY <1>1, TypeInit DEF DiskInv

LEMMA DiskNext == DiskInv /\ [Next]_vars => DiskInv'
<1> SUFFICES ASSUME DiskInv, [Next]_vars PROVE GcInv'
  BY TypeNext DEF DiskInv
<1>1. CASE \E p \in Paths : Download(p) \/ DeleteOrphan(p)
  BY <1>1 DEF Download, DeleteOrphan, gcVars, GcInv
<1>2. CASE Audit \/ Start \/ NextSet \/ SetDone \/ CannotLink \/ Finish \/ Crash
  BY <1>2 DEF Audit, Start, NextSet, SetDone, CannotLink, Finish, Crash, gcVars, GcInv
<1>3. CASE Replace \/ ReplaceRaises
  BY <1>3 DEF Replace, ReplaceRaises, GcInv
<1>4. CASE NextMember
  <2>1. UNCHANGED <<disk, data, canonical>> /\ gc = "members" /\ gc' # "linked"
    BY <1>4 DEF NextMember
  <2>2. ASSUME NEW d \in Paths, NEW c \in Paths,
               gc' \in {"verified", "linked"}, dup' = d, canonical' = c
        PROVE  Duplicates(d, c)'
    <3>1. Replaceable(d)
      BY <1>4, <2>1, <2>2 DEF NextMember
    <3>2. Duplicates(d, c)
      BY <2>1, <2>2, <3>1 DEF Replaceable, Duplicates
    <3> QED BY <2>1, <3>2, SameDiskSame
  <2> QED BY <2>1, <2>2 DEF GcInv
<1>5. CASE MakeTemp
  <2>1. UNCHANGED <<disk, data, canonical, dup>> /\ gc = "verified" /\ gc' = "linked"
    BY <1>5 DEF MakeTemp
  <2>2. ASSUME NEW d \in Paths, NEW c \in Paths, dup' = d, canonical' = c
        PROVE  Duplicates(d, c)' /\ temp'[d] = disk'[c]
    <3>1. Duplicates(d, c)
      BY <2>1, <2>2 DEF DiskInv, GcInv
    <3>2. temp'[d] = disk[c]
      BY <1>5, <2>1, <2>2 DEF MakeTemp, DiskInv, TypeOK
    <3> QED BY <2>1, <3>1, <3>2, SameDiskSame
  <2> QED BY <2>1, <2>2 DEF GcInv
<1>6. CASE UNCHANGED vars
  <2>1. UNCHANGED <<disk, data, canonical, dup, gc, temp>>
    BY <1>6 DEF vars, gcVars
  <2>2. ASSUME NEW d \in Paths, NEW c \in Paths PROVE Duplicates(d, c)' <=> Duplicates(d, c)
    BY <2>1, SameDiskSame
  <2> QED BY <2>1, <2>2 DEF DiskInv, GcInv
<1> QED BY <1>1, <1>2, <1>3, <1>4, <1>5, <1>6 DEF Next, Gc

LEMMA DiskInvHolds == Spec => []DiskInv
BY DiskInit, DiskNext, PTL DEF Spec

\* While the gc runs, the disk changes only where a duplicate is replaced.
LEMMA GcSteps ==
  ASSUME DiskInv, [Next]_vars, gc # "off"
  PROVE  \/ UNCHANGED <<disk, data>>
         \/ /\ Duplicates(dup, canonical) /\ data' = data
            /\ disk' = [disk EXCEPT ![dup] = disk[canonical]]
<1>1. CASE Replace
  <2>1. PICK d, c \in Paths : dup = d /\ canonical = c
    BY <1>1 DEF Replace, DiskInv, TypeOK
  <2> QED BY <1>1, <2>1 DEF Replace, DiskInv, GcInv
<1>2. CASE UNCHANGED vars
  BY <1>2 DEF vars
<1>3. CASE ~Replace /\ ~UNCHANGED vars
  BY <1>3 DEF Next, Download, DeleteOrphan, Audit, Start, Gc, NextSet, NextMember, SetDone,
              MakeTemp, CannotLink, ReplaceRaises, Finish, Crash
<1> QED BY <1>1, <1>2, <1>3

\* A content that could be read somewhere in the store still can, whatever the gc does.
THEOREM ContentKeptHolds == Spec => ContentKept
<1>1. ASSUME DiskInv, [Next]_vars, gc # "off" PROVE Readable' = Readable
  <2>1. CASE UNCHANGED <<disk, data>>
    BY <2>1, SameDiskSame DEF Readable
  <2>2. CASE ~UNCHANGED <<disk, data>>
    <3>1. PICK d, c : /\ Duplicates(d, c) /\ data' = data
                      /\ disk' = [disk EXCEPT ![d] = disk[c]]
      BY <1>1, <2>2, GcSteps
    <3>2. /\ \A p \in Paths : \/ Read(p)' = Read(p)
                              \/ Read(p)' = None /\ Read(p) = Read(c)
          /\ Read(c)' = Read(c) /\ c \in Paths
      BY <1>1, <3>1, ReplaceKeeps DEF DiskInv
    <3> QED BY <3>2 DEF Readable
  <2> QED BY <2>1, <2>2
<1>2. DiskInv /\ [Next]_vars => [gc # "off" => Readable' = Readable]_vars
  BY <1>1
<1> QED BY <1>2, DiskInvHolds, PTL DEF Spec, ContentKept

\* Every path keeps its content, but for those that led to a duplicate whose replacement
\* dangles.
THEOREM PathKeepsContentHolds == Spec => PathKeepsContent
<1>1. ASSUME DiskInv, [Next]_vars, gc # "off", NEW p \in Paths
      PROVE  Read(p)' = Read(p) \/ (dup \in Route(p) /\ Dangles(dup))
  <2>1. CASE UNCHANGED <<disk, data>>
    BY <2>1, SameDiskSame
  <2>2. CASE ~UNCHANGED <<disk, data>>
    <3>1. PICK d, c : /\ Duplicates(d, c) /\ data' = data /\ d = dup
                      /\ disk' = [disk EXCEPT ![d] = disk[c]]
      BY <1>1, <2>2, GcSteps
    <3> QED BY <1>1, <3>1, ReplaceKeeps DEF DiskInv
  <2> QED BY <2>1, <2>2
<1>2. DiskInv /\ [Next]_vars =>
        [gc # "off" => \A p \in Paths :
           Read(p)' = Read(p) \/ (dup \in Route(p) /\ Dangles(dup))]_vars
  BY <1>1
<1> QED BY <1>2, DiskInvHolds, PTL DEF Spec, PathKeepsContent
=============================================================================
