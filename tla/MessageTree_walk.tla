--------------------------- MODULE MessageTree_walk ---------------------------
(***************************************************************************)
(* Proofs about the recursive functions of MessageTree and about what they *)
(* make of the pointers: the walk visits what is shown, a preview is what  *)
(* the author would see after switching, and the conversation implements   *)
(* ShownBranch.                                                            *)
(*                                                                         *)
(* Ids are numbers in the order of creation, so the walk down moves to     *)
(* larger ids and the walk up to smaller ones.  Hence each recursive       *)
(* definition has exactly one solution, and what holds along a branch is   *)
(* shown by induction on ids.                                              *)
(***************************************************************************)
EXTENDS MessageTree_proofs, FiniteSetTheorems, SequenceTheorems

-----------------------------------------------------------------------------
(* Induction and recursion along the ids                                   *)

(* A set of numbers up to n has a least element.  Proper subsets of a       *)
(* finite set are well founded, so some x has the fewest numbers below it.  *)
LEMMA LeastOf ==
    ASSUME NEW n \in Nat, NEW T \in SUBSET (1 .. n), T # {}
    PROVE  \E m \in T : \A y \in T : m <= y
  <1> DEFINE N == 1 .. n
             below(x) == {y \in N : y < x}
             B == {U \in SUBSET N : \E x \in T : U = below(x)}
  <1>1. IsFiniteSet(N)
    BY FS_Interval
  <1>2. IsWellFoundedOn(StrictSubsetOrdering(N), FiniteSubsetsOf(N))
    BY FS_StrictSubsetOrderingWellFounded
  <1>3. FiniteSubsetsOf(N) = SUBSET N
    BY <1>1, FS_FiniteSubsetsOfFinite
  <1>4. B \subseteq SUBSET N /\ B # {}
    <2>1. PICK x \in T : TRUE
      OBVIOUS
    <2>2. below(x) \in B
      BY <2>1
    <2> QED BY <2>2
  <1> HIDE DEF B
  <1>5. PICK U \in B : \A V \in B : ~(<<V, U>> \in StrictSubsetOrdering(N))
    BY <1>2, <1>3, <1>4, WFMin
  <1>6. PICK m \in T : U = below(m)
    BY DEF B
  <1>7. ASSUME NEW y \in T, ~(m <= y) PROVE FALSE
    <2>1. y \in Nat /\ m \in Nat /\ y < m /\ y \in N
      BY <1>7
    <2>2. below(y) \subseteq below(m) /\ y \in below(m) /\ y \notin below(y)
      BY <2>1
    <2>3. below(y) \in B
      BY DEF B
    <2>4. <<below(y), below(m)>> \in StrictSubsetOrdering(N)
      BY <2>2 DEF StrictSubsetOrdering
    <2> QED BY <1>5, <1>6, <2>3, <2>4
  <1> QED BY <1>7

(* Induction up to n: what holds of every x of which it holds below x,      *)
(* holds of all.                                                            *)
LEMMA InductionUp ==
    ASSUME NEW n \in Nat, NEW S,
           \A x \in 1 .. n : (\A y \in 1 .. n : y < x => y \in S) => x \in S
    PROVE  1 .. n \subseteq S
  <1> SUFFICES ASSUME (1 .. n) \ S # {} PROVE FALSE
    OBVIOUS
  <1>1. PICK m \in (1 .. n) \ S : \A y \in (1 .. n) \ S : m <= y
    BY LeastOf
  <1> QED BY <1>1

(* Induction down from n. *)
LEMMA InductionDown ==
    ASSUME NEW n \in Nat, NEW S,
           \A x \in 1 .. n : (\A y \in 1 .. n : y > x => y \in S) => x \in S
    PROVE  1 .. n \subseteq S
  <1> DEFINE R == {x \in 1 .. n : (n + 1) - x \in S}
  <1>1. ASSUME NEW x \in 1 .. n, \A y \in 1 .. n : y < x => y \in R
        PROVE  x \in R
    <2>1. (n + 1) - x \in 1 .. n
      OBVIOUS
    <2>2. ASSUME NEW y \in 1 .. n, y > (n + 1) - x PROVE y \in S
      <3>1. (n + 1) - y \in 1 .. n /\ (n + 1) - y < x /\ (n + 1) - ((n + 1) - y) = y
        BY <2>2
      <3> QED BY <1>1, <3>1
    <2> QED BY <2>1, <2>2
  <1> HIDE DEF R
  <1>2. 1 .. n \subseteq R
    BY <1>1, InductionUp
  <1>3. ASSUME NEW x \in 1 .. n PROVE x \in S
    <2>1. (n + 1) - x \in 1 .. n /\ (n + 1) - ((n + 1) - x) = x
      OBVIOUS
    <2> QED BY <1>2, <2>1 DEF R
  <1> QED BY <1>3

(* Induction on a number of steps. *)
LEMMA InductionOnSteps ==
    ASSUME NEW n \in Nat, NEW S, 0 \in S, \A k \in 0 .. n : k < n /\ k \in S => k + 1 \in S
    PROVE  n \in S
  <1>1. ASSUME NEW x \in 1 .. n, \A y \in 1 .. n : y < x => y \in S PROVE x \in S
    <2>1. x - 1 \in 0 .. n /\ x - 1 < n /\ (x - 1) + 1 = x /\ (x - 1 = 0 \/ x - 1 \in 1 .. n) /\ x - 1 < x
      OBVIOUS
    <2> QED BY <1>1, <2>1
  <1>2. 1 .. n \subseteq S
    BY <1>1, InductionUp
  <1> QED BY <1>2

(* A recursion that follows pointers to larger numbers has a solution: the  *)
(* one for the k largest numbers extends to the next smaller one.           *)
LEMMA RecursionDown ==
    ASSUME NEW n \in Nat, NEW next \in [1 .. n -> 0 .. n],
           \A x \in 1 .. n : next[x] = 0 \/ next[x] > x
    PROVE  \E g \in [1 .. n -> Seq(1 .. n)] :
              \A x \in 1 .. n : g[x] = IF next[x] = 0 THEN <<x>> ELSE <<x>> \o g[next[x]]
  <1> DEFINE From(k) == {x \in 1 .. n : x > n - k}
             Solves(g, k) ==
                \A x \in From(k) : g[x] = IF next[x] = 0 THEN <<x>> ELSE <<x>> \o g[next[x]]
             S == {k \in 0 .. n : \E g \in [1 .. n -> Seq(1 .. n)] : Solves(g, k)}
  <1>1. 0 \in S
    <2>1. From(0) = {}
      OBVIOUS
    <2>2. PICK g \in [1 .. n -> Seq(1 .. n)] : TRUE
      <3>1. [x \in 1 .. n |-> <<>>] \in [1 .. n -> Seq(1 .. n)]
        OBVIOUS
      <3> QED BY <3>1
    <2>3. Solves(g, 0)
      BY <2>1
    <2> HIDE DEF Solves
    <2> QED BY <2>3
  <1>2. ASSUME NEW k \in 0 .. n, k < n, k \in S PROVE k + 1 \in S
    <2>1. PICK g \in [1 .. n -> Seq(1 .. n)] : Solves(g, k)
      BY <1>2
    <2> DEFINE top == n - k
               h == [g EXCEPT ![top] = IF next[top] = 0 THEN <<top>> ELSE <<top>> \o g[next[top]]]
    <2>2. top \in 1 .. n /\ From(k + 1) = From(k) \cup {top} /\ top \notin From(k)
      BY <1>2
    <2>3. \A x \in From(k + 1) : next[x] # 0 => next[x] \in From(k)
      <3> SUFFICES ASSUME NEW x \in From(k + 1), next[x] # 0 PROVE next[x] \in From(k)
        OBVIOUS
      <3>1. next[x] \in 1 .. n /\ next[x] > x /\ x > n - (k + 1)
        OBVIOUS
      <3> QED BY <3>1
    <2>4. (IF next[top] = 0 THEN <<top>> ELSE <<top>> \o g[next[top]]) \in Seq(1 .. n)
      <3>1. <<top>> \in Seq(1 .. n)
        BY <2>2
      <3>2. next[top] # 0 => g[next[top]] \in Seq(1 .. n)
        BY <2>2, <2>3
      <3> QED BY <3>1, <3>2, ConcatProperties
    <2>5. h \in [1 .. n -> Seq(1 .. n)]
      BY <2>4
    <2> HIDE DEF From, top
    <2>6. h[top] = IF next[top] = 0 THEN <<top>> ELSE <<top>> \o g[next[top]]
      BY <2>2
    <2>7. \A x \in From(k) : h[x] = g[x]
      BY <2>2 DEF From
    <2> HIDE DEF h
    <2>8. Solves(h, k + 1)
      BY <2>1, <2>2, <2>3, <2>6, <2>7
    <2> HIDE DEF Solves
    <2>9. k + 1 \in 0 .. n
      BY <1>2
    <2> QED BY <2>5, <2>8, <2>9
  <1> HIDE DEF S
  <1>3. n \in S
    BY <1>1, <1>2, InductionOnSteps
  <1>4. PICK g \in [1 .. n -> Seq(1 .. n)] : Solves(g, n)
    BY <1>3 DEF S
  <1>5. From(n) = 1 .. n
    OBVIOUS
  <1> QED BY <1>4, <1>5

(* So has one that follows pointers to smaller numbers. *)
LEMMA RecursionUp ==
    ASSUME NEW n \in Nat, NEW up \in [1 .. n -> 0 .. n],
           \A x \in 1 .. n : up[x] < x
    PROVE  \E g \in [1 .. n -> Seq(1 .. n)] :
              \A x \in 1 .. n : g[x] = IF up[x] = 0 THEN <<x>> ELSE g[up[x]] \o <<x>>
  <1> DEFINE Solves(g, k) ==
                \A x \in 1 .. k : g[x] = IF up[x] = 0 THEN <<x>> ELSE g[up[x]] \o <<x>>
             S == {k \in 0 .. n : \E g \in [1 .. n -> Seq(1 .. n)] : Solves(g, k)}
  <1>1. 0 \in S
    <2>1. 1 .. 0 = {}
      OBVIOUS
    <2>2. PICK g \in [1 .. n -> Seq(1 .. n)] : TRUE
      <3>1. [x \in 1 .. n |-> <<>>] \in [1 .. n -> Seq(1 .. n)]
        OBVIOUS
      <3> QED BY <3>1
    <2>3. Solves(g, 0)
      BY <2>1
    <2> HIDE DEF Solves
    <2> QED BY <2>3
  <1>2. ASSUME NEW k \in 0 .. n, k < n, k \in S PROVE k + 1 \in S
    <2>1. PICK g \in [1 .. n -> Seq(1 .. n)] : Solves(g, k)
      BY <1>2
    <2> DEFINE top == k + 1
               h == [g EXCEPT ![top] = IF up[top] = 0 THEN <<top>> ELSE g[up[top]] \o <<top>>]
    <2>2. /\ top \in 1 .. n /\ top \notin 1 .. k
          /\ 1 .. k \subseteq 1 .. n
          /\ \A x \in 1 .. (k + 1) : x \in 1 .. k \/ x = top
      BY <1>2
    <2>3. \A x \in 1 .. (k + 1) : up[x] # 0 => up[x] \in 1 .. k
      <3> SUFFICES ASSUME NEW x \in 1 .. (k + 1), up[x] # 0 PROVE up[x] \in 1 .. k
        OBVIOUS
      <3>1. up[x] \in 1 .. n /\ up[x] < x /\ x <= k + 1
        BY <1>2
      <3> QED BY <3>1
    <2>4. (IF up[top] = 0 THEN <<top>> ELSE g[up[top]] \o <<top>>) \in Seq(1 .. n)
      <3>1. <<top>> \in Seq(1 .. n)
        BY <2>2
      <3>2. up[top] # 0 => g[up[top]] \in Seq(1 .. n)
        BY <2>2, <2>3
      <3> QED BY <3>1, <3>2, ConcatProperties
    <2>5. h \in [1 .. n -> Seq(1 .. n)]
      BY <2>4
    <2>6. h[top] = IF up[top] = 0 THEN <<top>> ELSE g[up[top]] \o <<top>>
      BY <2>2
    <2>7. \A x \in 1 .. k : h[x] = g[x]
      BY <2>2
    <2> HIDE DEF h
    <2>8. Solves(h, k + 1)
      BY <2>1, <2>2, <2>3, <2>6, <2>7
    <2> HIDE DEF Solves
    <2>9. k + 1 \in 0 .. n
      BY <1>2
    <2> QED BY <2>5, <2>8, <2>9
  <1> HIDE DEF S
  <1>3. n \in S
    BY <1>1, <1>2, InductionOnSteps
  <1> QED BY <1>3 DEF S

-----------------------------------------------------------------------------
(* The walk down the pointers                                              *)

(* Children are stored, and newer than their parent. *)
LEMMA ChildrenAreNewer ==
    ASSUME TypeOK, ParentsAreOlder, NEW m \in Ids, NEW c \in Children(m)
    PROVE  c \in stored /\ c \in Ids /\ c > m
  <1>1. c \in stored /\ parent[c] = m /\ m # None
    BY NewIds DEF Children
  <1>2. c \in Ids /\ m < c
    BY <1>1, StoredAreIds DEF ParentsAreOlder
  <1>3. c \in Nat /\ m \in Nat
    BY <1>2, MaxMessagesAssumption DEF Ids
  <1> QED BY <1>1, <1>2, <1>3

(* The child that is followed is a child. *)
LEMMA FollowedIsOneOf ==
    ASSUME NEW C \in SUBSET Ids, C # {}, NEW preferred
    PROVE  Followed(C, preferred) \in C
  <1>1. \E m \in C : \A y \in C : m <= y
    BY LeastOf, MaxMessagesAssumption DEF Ids
  <1> QED BY <1>1 DEF Followed

(* The recursive definition of BranchFrom has one solution, for children are*)
(* newer: the branch below m is m and the branch below the child followed.  *)
LEMMA BranchIsARecursion ==
    ASSUME TypeOK, ParentsAreOlder, NEW pointer
    PROVE  \A m \in Ids :
              /\ BranchFrom(m, pointer) \in Seq(Ids)
              /\ BranchFrom(m, pointer) =
                    IF Children(m) = {}
                    THEN <<m>>
                    ELSE <<m>> \o BranchFrom(Followed(Children(m), pointer[m]), pointer)
  <1> DEFINE Body(f) == [x \in Ids |->
                            IF Children(x) = {}
                            THEN <<x>>
                            ELSE <<x>> \o f[Followed(Children(x), pointer[x])]]
             F == CHOOSE f : f = Body(f)
             next == [x \in Ids |-> IF Children(x) = {} THEN 0 ELSE Followed(Children(x), pointer[x])]
  <1>1. \A m : BranchFrom(m, pointer) = F[m]
    BY DEF BranchFrom
  <1>2. \A x \in Ids : Children(x) # {} => Followed(Children(x), pointer[x]) \in Children(x)
    <2>1. \A x \in Ids : Children(x) \in SUBSET Ids
      BY StoredAreIds DEF Children
    <2> QED BY <2>1, FollowedIsOneOf
  <1>3. \A x \in Ids : IF Children(x) = {} THEN next[x] = 0
                       ELSE /\ next[x] = Followed(Children(x), pointer[x])
                            /\ next[x] \in Ids /\ next[x] > x /\ next[x] # 0
    BY <1>2, ChildrenAreNewer, NewIds DEF None
  <1>4. next \in [1 .. MaxMessages -> 0 .. MaxMessages]
        /\ \A x \in 1 .. MaxMessages : next[x] = 0 \/ next[x] > x
    <2>1. \A x \in Ids : next[x] \in 0 .. MaxMessages
      BY <1>3, MaxMessagesAssumption DEF Ids
    <2>2. next = [x \in Ids |-> next[x]]
      OBVIOUS
    <2> HIDE DEF next
    <2> QED BY <1>3, <2>1, <2>2 DEF Ids
  <1> HIDE DEF next
  <1>5. PICK g \in [Ids -> Seq(Ids)] :
            \A x \in Ids : g[x] = IF next[x] = 0 THEN <<x>> ELSE <<x>> \o g[next[x]]
    BY <1>4, RecursionDown, MaxMessagesAssumption DEF Ids
  <1>6. g = Body(g)
    <2>1. \A x \in Ids : g[x] = IF Children(x) = {} THEN <<x>>
                                ELSE <<x>> \o g[Followed(Children(x), pointer[x])]
      BY <1>3, <1>5
    <2> QED BY <2>1
  <1> HIDE DEF Body
  <1>7. F = Body(F)
    BY <1>6
  <1> HIDE DEF F
  <1>8. \A m \in Ids : F[m] = IF Children(m) = {} THEN <<m>>
                              ELSE <<m>> \o F[Followed(Children(m), pointer[m])]
    BY <1>7 DEF Body
  <1>9. \A m \in Ids : F[m] = g[m]
    <2> DEFINE S == {x \in Ids : F[x] = g[x]}
    <2>1. ASSUME NEW x \in 1 .. MaxMessages,
                 \A y \in 1 .. MaxMessages : y > x => y \in S
          PROVE  x \in S
      <3>1. x \in Ids
        BY DEF Ids
      <3>2. CASE Children(x) = {}
        BY <1>3, <1>5, <1>8, <3>1, <3>2
      <3>3. CASE Children(x) # {}
        <4>1. next[x] = Followed(Children(x), pointer[x]) /\ next[x] # 0 /\ next[x] \in S
          BY <1>3, <2>1, <3>1, <3>3 DEF Ids
        <4>2. F[x] = <<x>> \o F[next[x]] /\ g[x] = <<x>> \o g[next[x]]
          BY <1>5, <1>8, <3>1, <3>3, <4>1
        <4> QED BY <3>1, <4>1, <4>2
      <3> QED BY <3>2, <3>3
    <2> HIDE DEF S
    <2>2. 1 .. MaxMessages \subseteq S
      BY <2>1, InductionDown, MaxMessagesAssumption
    <2> QED BY <2>2 DEF S, Ids
  <1>10. \A m \in Ids : F[m] \in Seq(Ids)
    BY <1>5, <1>9
  <1> QED BY <1>1, <1>8, <1>10

(* The messages a path visits. *)
Visited(path) == {path[i] : i \in DOMAIN path}

(* A path that starts at x visits x and what the rest visits. *)
LEMMA VisitedByConcatenation ==
    ASSUME NEW x \in Ids, NEW path \in Seq(Ids)
    PROVE  Visited(<<x>>) = {x} /\ Visited(<<x>> \o path) = {x} \cup Visited(path)
  <1>1. Visited(<<x>>) = {x}
    BY DEF Visited
  <1>2. /\ Len(<<x>> \o path) = Len(path) + 1
        /\ (<<x>> \o path)[1] = x
        /\ \A i \in 1 .. Len(path) : (<<x>> \o path)[i + 1] = path[i]
        /\ Len(path) \in Nat
        /\ DOMAIN path = 1 .. Len(path)
        /\ DOMAIN (<<x>> \o path) = 1 .. (Len(path) + 1)
    OBVIOUS
  <1>3. \A i \in 1 .. (Len(path) + 1) : i = 1 \/ (i - 1 \in 1 .. Len(path) /\ (i - 1) + 1 = i)
    BY <1>2
  <1> DEFINE both == <<x>> \o path
  <1> HIDE DEF both
  <1>4. \A i \in DOMAIN both : both[i] \in {x} \cup Visited(path)
    BY <1>2, <1>3 DEF Visited, both
  <1>5. x \in Visited(both)
    <2>1. 1 \in DOMAIN both
      BY <1>2 DEF both
    <2> QED BY <1>2, <2>1 DEF Visited, both
  <1>6. \A i \in DOMAIN path : path[i] \in Visited(both)
    <2> SUFFICES ASSUME NEW i \in DOMAIN path PROVE path[i] \in Visited(both)
      OBVIOUS
    <2>1. i + 1 \in DOMAIN both
      BY <1>2 DEF both
    <2> QED BY <1>2, <2>1 DEF Visited, both
  <1>7. Visited(both) = {x} \cup Visited(path)
    BY <1>4, <1>5, <1>6 DEF Visited
  <1> QED BY <1>1, <1>7 DEF both

(* By the active pointers the branch goes on with the active child. *)
LEMMA BranchVisits ==
    ASSUME TypeOK, ParentsAreOlder, PointersFollowEdges, NEW m \in Ids
    PROVE  Visited(BranchFrom(m, active)) =
              IF Children(m) = {} THEN {m} ELSE {m} \cup Visited(BranchFrom(active[m], active))
  <1>1. CASE Children(m) = {}
    BY <1>1, BranchIsARecursion, VisitedByConcatenation
  <1>2. CASE Children(m) # {}
    <2>1. active[m] \in Children(m) /\ active[m] \in Ids
      BY <1>2, StoredAreIds DEF PointersFollowEdges, Children
    <2>2. Followed(Children(m), active[m]) = active[m]
      BY <2>1 DEF Followed
    <2>3. BranchFrom(m, active) = <<m>> \o BranchFrom(active[m], active)
      BY <1>2, <2>2, BranchIsARecursion
    <2>4. BranchFrom(active[m], active) \in Seq(Ids)
      BY <2>1, BranchIsARecursion
    <2> QED BY <1>2, <2>3, <2>4, VisitedByConcatenation
  <1> QED BY <1>1, <1>2

(* A message is shown if its parent is and points to it. *)
LEMMA ShownFromAbove ==
    ASSUME ParentsAreOlder, NEW m \in stored
    PROVE  /\ parent[m] = None => (IsShown(m) <=> activeRoot = m)
           /\ parent[m] # None => (IsShown(m) <=> IsShown(parent[m]) /\ active[parent[m]] = m)
  <1>1. ClosedUpward(stored, parent)
    BY StoredIsClosed
  <1>2. CASE parent[m] = None
    <2>1. Lineage(m) = {m}
      BY <1>1, <1>2, WayUpAbove DEF Lineage
    <2> QED BY <1>2, <2>1 DEF IsShown
  <1>3. CASE parent[m] # None
    <2>1. Lineage(m) = {m} \cup Lineage(parent[m])
      BY <1>1, <1>3, WayUpAbove DEF Lineage
    <2> QED BY <1>3, <2>1 DEF IsShown
  <1> QED BY <1>2, <1>3

(* A walk that starts at a shown message meets shown messages only. *)
LEMMA BranchStaysShown ==
    ASSUME TypeOK, ParentsAreOlder, PointersFollowEdges, NEW m \in Shown
    PROVE  Visited(BranchFrom(m, active)) \subseteq Shown
  <1> DEFINE R(x) == Visited(BranchFrom(x, active))
             S == {x \in Ids : x \in Shown => R(x) \subseteq Shown}
  <1> HIDE DEF R
  <1>1. ASSUME NEW x \in 1 .. MaxMessages, \A y \in 1 .. MaxMessages : y > x => y \in S
        PROVE  x \in S
    <2>0. x \in Ids
      BY DEF Ids
    <2> SUFFICES ASSUME x \in Shown PROVE R(x) \subseteq Shown
      BY <2>0
    <2>1. R(x) = IF Children(x) = {} THEN {x} ELSE {x} \cup R(active[x])
      BY <2>0, BranchVisits DEF R
    <2>2. CASE Children(x) # {}
      <3>1. active[x] \in Children(x)
        BY <2>0, <2>2 DEF PointersFollowEdges
      <3>2. active[x] \in stored /\ active[x] \in Ids /\ active[x] > x /\ parent[active[x]] = x
        BY <2>0, <3>1, ChildrenAreNewer DEF Children
      <3>3. active[x] \in Shown
        BY <2>0, <3>2, ShownFromAbove, NewIds DEF Shown
      <3>4. R(active[x]) \subseteq Shown
        BY <1>1, <3>2, <3>3 DEF Ids
      <3> QED BY <2>1, <2>2, <3>4
    <2> QED BY <2>1, <2>2
  <1> HIDE DEF S
  <1>2. 1 .. MaxMessages \subseteq S
    BY <1>1, InductionDown, MaxMessagesAssumption
  <1>3. m \in Ids
    BY StoredAreIds DEF Shown
  <1> QED BY <1>2, <1>3 DEF S, R, Ids

(* The walk starts at m and does not stop above a leaf. *)
LEMMA BranchIsClosedDownward ==
    ASSUME TypeOK, ParentsAreOlder, PointersFollowEdges, NEW m \in Ids
    PROVE  /\ m \in Visited(BranchFrom(m, active))
           /\ \A p \in Visited(BranchFrom(m, active)) :
                Children(p) # {} => active[p] \in Visited(BranchFrom(m, active))
  <1> DEFINE R(x) == Visited(BranchFrom(x, active))
             S == {x \in Ids : x \in R(x) /\ \A p \in R(x) : Children(p) # {} => active[p] \in R(x)}
  <1> HIDE DEF R
  <1>1. ASSUME NEW x \in 1 .. MaxMessages, \A y \in 1 .. MaxMessages : y > x => y \in S
        PROVE  x \in S
    <2>0. x \in Ids
      BY DEF Ids
    <2>1. R(x) = IF Children(x) = {} THEN {x} ELSE {x} \cup R(active[x])
      BY <2>0, BranchVisits DEF R
    <2>2. CASE Children(x) # {}
      <3>1. active[x] \in Children(x)
        BY <2>0, <2>2 DEF PointersFollowEdges
      <3>2. active[x] \in Ids /\ active[x] > x
        BY <2>0, <3>1, ChildrenAreNewer
      <3>3. active[x] \in S
        BY <1>1, <3>2 DEF Ids
      <3> QED BY <2>0, <2>1, <2>2, <3>3
    <2>3. CASE Children(x) = {}
      BY <2>0, <2>1, <2>3
    <2> QED BY <2>2, <2>3
  <1> HIDE DEF S
  <1>2. 1 .. MaxMessages \subseteq S
    BY <1>1, InductionDown, MaxMessagesAssumption
  <1> QED BY <1>2 DEF S, R, Ids

(* Whatever is shown is met on the walk down from the active root. *)
LEMMA ShownIsVisited ==
    ASSUME TypeOK, ParentsAreOlder, PointersFollowEdges, activeRoot \in Ids
    PROVE  Shown \subseteq Visited(BranchFrom(activeRoot, active))
  <1> DEFINE R == Visited(BranchFrom(activeRoot, active))
             S == {x \in Ids : x \in Shown => x \in R}
  <1>0. activeRoot \in R /\ \A p \in R : Children(p) # {} => active[p] \in R
    BY BranchIsClosedDownward
  <1> HIDE DEF R
  <1>1. ASSUME NEW x \in 1 .. MaxMessages, \A y \in 1 .. MaxMessages : y < x => y \in S
        PROVE  x \in S
    <2>0. x \in Ids
      BY DEF Ids
    <2> SUFFICES ASSUME x \in Shown PROVE x \in R
      BY <2>0
    <2>1. x \in stored /\ IsShown(x)
      BY DEF Shown
    <2>2. CASE parent[x] = None
      BY <1>0, <2>1, <2>2, ShownFromAbove
    <2>3. CASE parent[x] # None
      <3>1. IsShown(parent[x]) /\ active[parent[x]] = x
        BY <2>1, <2>3, ShownFromAbove
      <3>2. parent[x] \in stored /\ parent[x] < x /\ x \in Children(parent[x])
        BY <2>1, <2>3 DEF ParentsAreOlder, Children
      <3>3. parent[x] \in 1 .. MaxMessages
        BY <3>2, StoredAreIds DEF Ids
      <3>4. parent[x] \in R
        BY <1>1, <3>1, <3>2, <3>3 DEF Shown
      <3> QED BY <1>0, <3>1, <3>2, <3>4
    <2> QED BY <2>2, <2>3
  <1> HIDE DEF S
  <1>2. 1 .. MaxMessages \subseteq S
    BY <1>1, InductionUp, MaxMessagesAssumption
  <1> QED BY <1>2, StoredAreIds DEF S, R, Ids, Shown

(* So the walk visits what is shown, an empty conversation included: without*)
(* a root nothing is stored.                                                *)
LEMMA WalkIsShown ==
    ASSUME TypeOK, ParentsAreOlder, PointersFollowEdges
    PROVE  WalkVisitsWhatIsShown
  <1> DEFINE path == CurrentPath(active, activeRoot)
  <1>1. CASE Children(None) = {}
    <2>1. stored = {}
      <3> SUFFICES ASSUME stored # {} PROVE FALSE
        OBVIOUS
      <3>1. PICK m \in stored : \A y \in stored : m <= y
        <4>1. stored \in SUBSET (1 .. MaxMessages)
          BY StoredAreIds DEF Ids
        <4> QED BY <4>1, LeastOf, MaxMessagesAssumption
      <3>2. parent[m] # None
        BY <1>1 DEF Children
      <3>3. parent[m] \in stored /\ parent[m] < m
        BY <3>2 DEF ParentsAreOlder
      <3>4. m <= parent[m] /\ m \in Nat /\ parent[m] \in Nat
        BY <3>1, <3>3, StoredAreIds, MaxMessagesAssumption DEF Ids
      <3> QED BY <3>3, <3>4
    <2>2. path = << >>
      BY <1>1 DEF CurrentPath
    <2>3. {path[i] : i \in DOMAIN path} = {}
      BY <2>2
    <2> QED BY <2>1, <2>3 DEF WalkVisitsWhatIsShown, Shown
  <1>2. CASE Children(None) # {}
    <2>1. activeRoot \in Children(None)
      BY <1>2 DEF PointersFollowEdges
    <2>2. activeRoot \in stored /\ activeRoot \in Ids /\ parent[activeRoot] = None
      BY <2>1, StoredAreIds DEF Children
    <2>3. path = BranchFrom(activeRoot, active)
      BY <1>2, <2>1 DEF CurrentPath, Followed
    <2>4. activeRoot \in Shown
      BY <2>2, ShownFromAbove DEF Shown
    <2>5. Visited(BranchFrom(activeRoot, active)) = Shown
      BY <2>2, <2>4, BranchStaysShown, ShownIsVisited
    <2> QED BY <2>3, <2>5 DEF Visited, WalkVisitsWhatIsShown
  <1> QED BY <1>1, <1>2

(* Walking down the pointers visits the messages that are shown, no others. *)
THEOREM WalkAlwaysVisitsWhatIsShown == Spec => []WalkVisitsWhatIsShown
  <1>1. TypeOK /\ Inv => WalkVisitsWhatIsShown
    BY WalkIsShown DEF Inv
  <1> QED BY <1>1, TypeCorrect, InvCorrect, PTL

-----------------------------------------------------------------------------
(* The preview of a branch                                                 *)

(* The recursive function in PathThrough. *)
PathTo == CHOOSE to : to = [x \in Ids |-> IF parent[x] = None THEN <<x>> ELSE to[parent[x]] \o <<x>>]

(* It has one solution, for parents are older. *)
LEMMA PathToIsARecursion ==
    ASSUME TypeOK, AllParentsOlder
    PROVE  \A m \in Ids :
              /\ PathTo[m] \in Seq(Ids)
              /\ PathTo[m] = IF parent[m] = None THEN <<m>> ELSE PathTo[parent[m]] \o <<m>>
  <1> DEFINE Body(f) == [x \in Ids |-> IF parent[x] = None THEN <<x>> ELSE f[parent[x]] \o <<x>>]
  <1>1. parent \in [1 .. MaxMessages -> 0 .. MaxMessages] /\ \A x \in 1 .. MaxMessages : parent[x] < x
    <2>1. Pointers = 0 .. MaxMessages
      BY MaxMessagesAssumption DEF Pointers, Ids, None
    <2> QED BY <2>1 DEF TypeOK, AllParentsOlder, Ids
  <1>2. PICK g \in [Ids -> Seq(Ids)] :
            \A x \in Ids : g[x] = IF parent[x] = 0 THEN <<x>> ELSE g[parent[x]] \o <<x>>
    BY <1>1, RecursionUp, MaxMessagesAssumption DEF Ids
  <1>3. g = Body(g)
    BY <1>2 DEF None
  <1>4. PathTo = CHOOSE f : f = Body(f)
    BY DEF PathTo
  <1> HIDE DEF Body
  <1>5. PathTo = Body(PathTo)
    BY <1>3, <1>4
  <1>6. \A m \in Ids : PathTo[m] = IF parent[m] = None THEN <<m>> ELSE PathTo[parent[m]] \o <<m>>
    BY <1>5 DEF Body
  <1>7. \A m \in Ids : PathTo[m] = g[m]
    <2> DEFINE S == {x \in Ids : PathTo[x] = g[x]}
    <2>1. ASSUME NEW x \in 1 .. MaxMessages,
                 \A y \in 1 .. MaxMessages : y < x => y \in S
          PROVE  x \in S
      <3>1. parent[x] # None => parent[x] \in 1 .. MaxMessages /\ parent[x] < x
        BY <1>1 DEF None
      <3> QED BY <1>2, <1>6, <2>1, <3>1 DEF Ids, None
    <2> HIDE DEF S
    <2>2. 1 .. MaxMessages \subseteq S
      BY <2>1, InductionUp, MaxMessagesAssumption
    <2> QED BY <2>2 DEF S, Ids
  <1> QED BY <1>2, <1>6, <1>7

(* The preview, said with that function. *)
LEMMA PathThroughIs == \A m : PathThrough(m) = PathTo[m] \o Tail(BranchFrom(m, active))
  BY DEF PathThrough, PathTo

(* Taking off the message a path starts with. *)
LEMMA TailOfCons ==
    ASSUME NEW x \in Ids, NEW path \in Seq(Ids)
    PROVE  Tail(<<x>> \o path) = path
  <1>1. /\ (<<x>> \o path) \in Seq(Ids)
        /\ Len(<<x>> \o path) = Len(path) + 1
        /\ \A i \in 1 .. Len(path) : (<<x>> \o path)[i + 1] = path[i]
        /\ Len(path) \in Nat
    OBVIOUS
  <1> QED BY <1>1

(* The branch below m starts with m and goes on with the child followed. *)
LEMMA BranchStartsWith ==
    ASSUME TypeOK, ParentsAreOlder, NEW pointer, NEW m \in Ids
    PROVE  /\ Tail(BranchFrom(m, pointer)) \in Seq(Ids)
           /\ BranchFrom(m, pointer) = <<m>> \o Tail(BranchFrom(m, pointer))
           /\ Children(m) # {} =>
                Tail(BranchFrom(m, pointer)) = BranchFrom(Followed(Children(m), pointer[m]), pointer)
  <1>1. CASE Children(m) = {}
    <2>1. BranchFrom(m, pointer) = <<m>>
      BY <1>1, BranchIsARecursion
    <2>2. Tail(<<m>>) = << >> /\ <<m>> = <<m>> \o << >> /\ << >> \in Seq(Ids)
      OBVIOUS
    <2> QED BY <1>1, <2>1, <2>2
  <1>2. CASE Children(m) # {}
    <2> DEFINE c == Followed(Children(m), pointer[m])
    <2>1. c \in Ids
      <3>1. Children(m) \in SUBSET Ids
        BY StoredAreIds DEF Children
      <3> QED BY <1>2, <3>1, FollowedIsOneOf
    <2>2. BranchFrom(m, pointer) = <<m>> \o BranchFrom(c, pointer)
      BY <1>2, BranchIsARecursion
    <2>3. BranchFrom(c, pointer) \in Seq(Ids)
      BY <2>1, BranchIsARecursion
    <2>4. Tail(<<m>> \o BranchFrom(c, pointer)) = BranchFrom(c, pointer)
      BY <2>3, TailOfCons
    <2> QED BY <2>2, <2>3, <2>4
  <1> QED BY <1>1, <1>2

(* Every lineage reaches a root: its oldest message. *)
LEMMA LineagesAreRooted ==
    ASSUME TypeOK, ParentsAreOlder, NEW m \in stored
    PROVE  IsRooted(Lineage(m))
  <1>1. m \in Lineage(m) /\ ClosedUpward(Lineage(m), parent) /\ Lineage(m) \subseteq stored
    BY StoredIsClosed, WayUpIsClosed, WayUpIsStored DEF Lineage
  <1>2. Lineage(m) \in SUBSET (1 .. MaxMessages) /\ Lineage(m) # {}
    BY <1>1, StoredAreIds DEF Ids
  <1>3. PICK top \in Lineage(m) : \A y \in Lineage(m) : top <= y
    BY <1>2, LeastOf, MaxMessagesAssumption
  <1>4. ASSUME parent[top] # None PROVE FALSE
    <2>1. parent[top] \in Lineage(m) /\ parent[top] < top
      BY <1>1, <1>4 DEF ParentsAreOlder, ClosedUpward
    <2>2. top <= parent[top] /\ top \in Nat /\ parent[top] \in Nat
      BY <1>2, <1>3, <2>1, MaxMessagesAssumption
    <2> QED BY <2>1, <2>2
  <1> QED BY <1>4 DEF IsRooted

(* Below its target a switch moves no pointer, so the branch stays. *)
LEMMA SwitchKeepsBelow ==
    ASSUME TypeOK, ParentsAreOlder, AllParentsOlder, NEW m \in stored,
           NEW request, request.path = Lineage(m)
    PROVE  \A y \in Ids : y >= m =>
                BranchFrom(y, SwitchedActive(request)) = BranchFrom(y, active)
  <1> DEFINE sw == SwitchedActive(request)
             S == {y \in Ids : y >= m => BranchFrom(y, sw) = BranchFrom(y, active)}
  <1>1. ASSUME NEW y \in Ids, y >= m PROVE sw[y] = active[y]
    <2>1. ASSUME NEW c \in Lineage(m) PROVE parent[c] # y
      <3>1. c \in stored /\ c <= m
        BY WayUpIsOlder, WayUpIsStored DEF Lineage
      <3>2. c \in Ids /\ m \in Ids /\ parent[c] < c /\ parent[c] \in Pointers
        BY <3>1, StoredAreIds DEF AllParentsOlder, TypeOK
      <3>3. c \in Nat /\ m \in Nat /\ y \in Nat /\ parent[c] \in Nat
        BY <3>2, MaxMessagesAssumption DEF Ids, Pointers, None
      <3> QED BY <1>1, <3>1, <3>2, <3>3
    <2> QED BY <2>1 DEF SwitchedActive
  <1> HIDE DEF sw
  <1>2. ASSUME NEW x \in 1 .. MaxMessages, \A y \in 1 .. MaxMessages : y > x => y \in S
        PROVE  x \in S
    <2>0. x \in Ids
      BY DEF Ids
    <2> SUFFICES ASSUME x >= m PROVE BranchFrom(x, sw) = BranchFrom(x, active)
      BY <2>0
    <2>1. CASE Children(x) = {}
      BY <2>0, <2>1, BranchIsARecursion
    <2>2. CASE Children(x) # {}
      <3> DEFINE c == Followed(Children(x), active[x])
      <3>1. c \in Children(x)
        <4>1. Children(x) \in SUBSET Ids
          BY StoredAreIds DEF Children
        <4> QED BY <2>2, <4>1, FollowedIsOneOf
      <3>2. c \in Ids /\ c > x
        BY <2>0, <3>1, ChildrenAreNewer
      <3>3. /\ BranchFrom(x, active) = <<x>> \o BranchFrom(c, active)
            /\ BranchFrom(x, sw) = <<x>> \o BranchFrom(c, sw)
        BY <1>1, <2>0, <2>2, BranchIsARecursion
      <3>4. c >= m
        <4>1. m \in Nat /\ x \in Nat /\ c \in Nat
          BY <2>0, <3>2, StoredAreIds, MaxMessagesAssumption DEF Ids
        <4> QED BY <3>2, <4>1
      <3>5. c \in S
        BY <1>2, <3>2 DEF Ids
      <3> QED BY <3>3, <3>4, <3>5
    <2> QED BY <2>1, <2>2
  <1> HIDE DEF S
  <1>3. 1 .. MaxMessages \subseteq S
    BY <1>2, InductionDown, MaxMessagesAssumption
  <1> QED BY <1>3 DEF S, sw, Ids

(* Going down the lineage of m, what leads to x and what is walked below x  *)
(* after the switch always join to the same path: at m it is the preview, at*)
(* the root what the switch shows.                                          *)
LEMMA PreviewOfMessage ==
    ASSUME TypeOK, ParentsAreOlder, AllParentsOlder, NEW m \in stored,
           NEW request, request = Switch(m, Lineage(m))
    PROVE  PathThrough(m) = CurrentPath(SwitchedActive(request), SwitchedRoot(request))
  <1> DEFINE sw == SwitchedActive(request)
             Joined(x) == PathTo[x] \o Tail(BranchFrom(x, sw))
             S == {x \in Ids : x \in Lineage(m) => Joined(x) = PathThrough(m)}
  <1>0. request.path = Lineage(m) /\ request.seenActive = active /\ request.seenRoot = activeRoot
    BY DEF Switch
  <1>1. m \in Lineage(m) /\ Lineage(m) \subseteq stored /\ stored \subseteq Ids
    BY StoredIsClosed, WayUpIsClosed, WayUpIsStored, StoredAreIds DEF Lineage
  <1>2. IsRooted(Lineage(m))
    BY LineagesAreRooted
  <1>3. ASSUME NEW x \in Lineage(m)
        PROVE  /\ parent[x] = None => SwitchedRoot(request) = x
               /\ parent[x] # None => sw[parent[x]] = x
    BY <1>0, <1>2, SwitchPoints
  <1>4. BranchFrom(m, sw) = BranchFrom(m, active)
    <2>1. m \in Ids /\ m >= m
      BY <1>1, MaxMessagesAssumption DEF Ids
    <2> QED BY <1>0, <2>1, SwitchKeepsBelow
  <1> HIDE DEF sw
  <1>5. ASSUME NEW x \in 1 .. MaxMessages, \A y \in 1 .. MaxMessages : y > x => y \in S
        PROVE  x \in S
    <2>0. x \in Ids
      BY DEF Ids
    <2> SUFFICES ASSUME x \in Lineage(m) PROVE Joined(x) = PathThrough(m)
      BY <2>0
    <2>1. CASE x = m
      BY <1>4, <2>1, PathThroughIs
    <2>2. CASE x # m
      <3>1. PICK c \in Lineage(m) : parent[c] = x
        BY <2>2, LineageDescends
      <3>2. c \in Children(x) /\ x # None
        BY <1>1, <2>0, <3>1, NewIds DEF Children
      <3>3. c \in Ids /\ c > x
        BY <2>0, <3>2, ChildrenAreNewer
      <3>4. sw[x] = c
        BY <1>3, <3>1, <3>2
      <3>5. Followed(Children(x), sw[x]) = c
        BY <3>2, <3>4 DEF Followed
      <3>6. Tail(BranchFrom(x, sw)) = BranchFrom(c, sw)
        BY <2>0, <3>2, <3>5, BranchStartsWith
      <3>7. PICK rest \in Seq(Ids) :
                rest = Tail(BranchFrom(c, sw)) /\ BranchFrom(c, sw) = <<c>> \o rest
        BY <3>3, BranchStartsWith
      <3>8. PathTo[c] = PathTo[x] \o <<c>> /\ PathTo[x] \in Seq(Ids)
        BY <2>0, <3>1, <3>2, <3>3, PathToIsARecursion
      <3>9. <<c>> \in Seq(Ids)
        BY <3>3
      <3>10. (PathTo[x] \o <<c>>) \o rest = PathTo[x] \o (<<c>> \o rest)
        <4>1. PICK path \in Seq(Ids) : path = PathTo[x]
          BY <3>8
        <4>2. (path \o <<c>>) \o rest = path \o (<<c>> \o rest)
          BY <3>9, ConcatAssociative
        <4> QED BY <4>1, <4>2
      <3>11. Joined(c) = Joined(x)
        BY <3>6, <3>7, <3>8, <3>10
      <3>12. c \in S
        BY <1>5, <3>3 DEF Ids
      <3> QED BY <3>1, <3>11, <3>12
    <2> QED BY <2>1, <2>2
  <1> HIDE DEF S
  <1>6. 1 .. MaxMessages \subseteq S
    BY <1>5, InductionDown, MaxMessagesAssumption
  <1>7. PICK top \in Lineage(m) : parent[top] = None
    BY <1>2 DEF IsRooted
  <1>8. top \in Ids /\ top \in Children(None)
    BY <1>1, <1>7 DEF Children
  <1>9. PathTo[top] \o Tail(BranchFrom(top, sw)) = PathThrough(m)
    BY <1>6, <1>8 DEF S, Ids
  <1>10. PathTo[top] = <<top>>
    BY <1>7, <1>8, PathToIsARecursion
  <1>11. BranchFrom(top, sw) = PathThrough(m)
    BY <1>8, <1>9, <1>10, BranchStartsWith
  <1>12. CurrentPath(sw, SwitchedRoot(request)) = BranchFrom(top, sw)
    BY <1>3, <1>7, <1>8 DEF CurrentPath, Followed
  <1> QED BY <1>11, <1>12 DEF sw

(* The preview is what the author would see after switching. *)
THEOREM PreviewsAreWhatSwitchesShow == Spec => []PreviewIsWhatASwitchShows
  <1>1. TypeOK /\ Inv /\ WalkInv => PreviewIsWhatASwitchShows
    BY PreviewOfMessage DEF Inv, WalkInv, PreviewIsWhatASwitchShows
  <1> QED BY <1>1, TypeCorrect, InvCorrect, WalkInvCorrect, PTL

-----------------------------------------------------------------------------
(* What the conversation shows its readers                                 *)

(* The branch that is shown. *)
ShownPath == CurrentPath(active, activeRoot)

(* Each message of a path is followed by a child of it, the last by none. *)
Descends(path) ==
    /\ \A i \in 1 .. Len(path) - 1 : parent[path[i + 1]] = path[i]
    /\ Children(path[Len(path)]) = {}

(* So does the path that starts with the parent of its first message. *)
LEMMA DescendsFromParent ==
    ASSUME NEW x \in Ids, NEW path \in Seq(Ids), path # << >>, Descends(path), parent[path[1]] = x
    PROVE  Descends(<<x>> \o path)
  <1> DEFINE both == <<x>> \o path
  <1>1. /\ Len(both) = Len(path) + 1
        /\ both[1] = x
        /\ \A i \in 1 .. Len(path) : both[i + 1] = path[i]
        /\ Len(path) \in Nat /\ Len(path) >= 1
    OBVIOUS
  <1> HIDE DEF both
  <1>2. both[Len(both)] = path[Len(path)]
    BY <1>1
  <1>3. ASSUME NEW i \in 1 .. Len(both) - 1 PROVE parent[both[i + 1]] = both[i]
    <2>1. i \in 1 .. Len(path) /\ both[i + 1] = path[i]
      BY <1>1
    <2>2. CASE i = 1
      BY <1>1, <2>1, <2>2
    <2>3. CASE i # 1
      <3>1. i - 1 \in 1 .. Len(path) - 1 /\ (i - 1) + 1 = i /\ i - 1 \in 1 .. Len(path)
        BY <1>1, <2>1, <2>3
      <3>2. both[i] = path[i - 1] /\ parent[path[i]] = path[i - 1]
        BY <1>1, <3>1 DEF Descends
      <3> QED BY <2>1, <3>2
    <2> QED BY <2>2, <2>3
  <1> QED BY <1>2, <1>3 DEF Descends, both

(* The branch below m starts with m and descends to a leaf. *)
LEMMA BranchesDescend ==
    ASSUME TypeOK, ParentsAreOlder, PointersFollowEdges, NEW m \in Ids
    PROVE  /\ BranchFrom(m, active) # << >> /\ BranchFrom(m, active)[1] = m
           /\ Descends(BranchFrom(m, active))
  <1> DEFINE S == {x \in Ids : Descends(BranchFrom(x, active))}
  <1>1. ASSUME NEW x \in Ids
        PROVE  BranchFrom(x, active) # << >> /\ BranchFrom(x, active)[1] = x
    <2>1. PICK rest \in Seq(Ids) : BranchFrom(x, active) = <<x>> \o rest
      BY BranchStartsWith
    <2>2. <<x>> \o rest # << >> /\ (<<x>> \o rest)[1] = x
      OBVIOUS
    <2> QED BY <2>1, <2>2
  <1>2. ASSUME NEW x \in 1 .. MaxMessages, \A y \in 1 .. MaxMessages : y > x => y \in S
        PROVE  x \in S
    <2>0. x \in Ids
      BY DEF Ids
    <2>1. CASE Children(x) = {}
      <3>1. BranchFrom(x, active) = <<x>>
        BY <2>0, <2>1, BranchIsARecursion
      <3>2. Len(<<x>>) = 1 /\ <<x>>[1] = x
        OBVIOUS
      <3>3. Descends(<<x>>)
        BY <2>1, <3>2 DEF Descends
      <3> QED BY <2>0, <3>1, <3>3
    <2>2. CASE Children(x) # {}
      <3>1. active[x] \in Children(x) /\ Followed(Children(x), active[x]) = active[x]
        BY <2>0, <2>2 DEF PointersFollowEdges, Followed
      <3>2. active[x] \in Ids /\ active[x] > x /\ parent[active[x]] = x
        BY <2>0, <3>1, ChildrenAreNewer DEF Children
      <3>3. BranchFrom(x, active) = <<x>> \o BranchFrom(active[x], active)
        BY <2>0, <2>2, <3>1, BranchIsARecursion
      <3>4. Descends(BranchFrom(active[x], active)) /\ BranchFrom(active[x], active) \in Seq(Ids)
        BY <1>2, <3>2, BranchIsARecursion DEF Ids
      <3>5. Descends(<<x>> \o BranchFrom(active[x], active))
        BY <1>1, <2>0, <3>2, <3>4, DescendsFromParent
      <3> QED BY <2>0, <3>3, <3>5
    <2> QED BY <2>1, <2>2
  <1> HIDE DEF S
  <1>3. 1 .. MaxMessages \subseteq S
    BY <1>2, InductionDown, MaxMessagesAssumption
  <1> QED BY <1>1, <1>3 DEF S, Ids

(* What is shown is the branch below the active root, or nothing if nothing *)
(* is stored.                                                               *)
LEMMA ShownPathIsFromTheRoot ==
    ASSUME TypeOK, ParentsAreOlder, PointersFollowEdges
    PROVE  /\ ShownPath \in Seq(Ids)
           /\ stored = {} => ShownPath = << >>
           /\ stored # {} => /\ activeRoot \in stored /\ parent[activeRoot] = None
                             /\ ShownPath = BranchFrom(activeRoot, active)
  <1>1. CASE stored = {}
    BY <1>1 DEF ShownPath, CurrentPath, Children
  <1>2. CASE stored # {}
    <2>1. PICK m \in stored : TRUE
      BY <1>2
    <2>2. PICK top \in Lineage(m) : parent[top] = None
      BY LineagesAreRooted DEF IsRooted
    <2>3. top \in Children(None)
      BY <2>2, WayUpIsStored DEF Lineage, Children
    <2>4. activeRoot \in Children(None)
      BY <2>3 DEF PointersFollowEdges
    <2>5. activeRoot \in stored /\ parent[activeRoot] = None /\ activeRoot \in Ids
      BY <2>4, StoredAreIds DEF Children
    <2>6. ShownPath = BranchFrom(activeRoot, active)
      BY <2>3, <2>4 DEF ShownPath, CurrentPath, Followed
    <2> QED BY <1>2, <2>5, <2>6, BranchIsARecursion
  <1> QED BY <1>1, <1>2

(* It visits the messages that are shown, and these are stored. *)
LEMMA PathsVisitStored ==
    ASSUME TypeOK, ParentsAreOlder, PointersFollowEdges
    PROVE  Visited(ShownPath) = Shown /\ Shown \subseteq stored
  BY WalkIsShown DEF WalkVisitsWhatIsShown, ShownPath, Visited, Shown

(* It is a branch in the sense of ShownBranch. *)
LEMMA ShownPathIsABranch ==
    ASSUME TypeOK, ParentsAreOlder, PointersFollowEdges, stored # {}
    PROVE  View!IsBranch(ShownPath)
  <1>1. /\ activeRoot \in Ids /\ parent[activeRoot] = None
        /\ ShownPath = BranchFrom(activeRoot, active)
    BY ShownPathIsFromTheRoot, StoredAreIds
  <1>2. ShownPath # << >> /\ ShownPath[1] = activeRoot /\ Descends(ShownPath)
    BY <1>1, BranchesDescend
  <1>3. \A i \in DOMAIN ShownPath : ShownPath[i] \in stored
    BY PathsVisitStored DEF Visited
  <1> QED BY <1>1, <1>2, <1>3 DEF View!IsBranch, View!None, None, Descends, Children

(* Through a message that is shown it is the path to it and what follows: a *)
(* switch to that message would move no pointer, so its preview is the      *)
(* branch that is shown.                                                    *)
LEMMA ShownPathPassesThrough ==
    ASSUME TypeOK, ParentsAreOlder, AllParentsOlder, NEW m \in Shown
    PROVE  ShownPath = PathTo[m] \o Tail(BranchFrom(m, active))
  <1> DEFINE request == Switch(m, Lineage(m))
  <1>1. /\ request.path = Lineage(m) /\ request.seenActive = active /\ request.seenRoot = activeRoot
        /\ m \in stored /\ IsShown(m)
    BY DEF Switch, Shown
  <1>2. PathThrough(m) = CurrentPath(SwitchedActive(request), SwitchedRoot(request))
    BY <1>1, PreviewOfMessage
  <1> HIDE DEF request
  <1>3. SwitchedActive(request) = active
    <2>1. \A y \in Ids : ~\E c \in request.path : parent[c] = y /\ request.seenActive[y] # c
      BY <1>1, NewIds DEF IsShown
    <2>2. SwitchedActive(request) = [y \in Ids |-> active[y]]
      BY <2>1 DEF SwitchedActive
    <2> QED BY <2>2 DEF TypeOK
  <1>4. SwitchedRoot(request) = activeRoot
    <2>1. \E c \in request.path : parent[c] = None
      BY <1>1, LineagesAreRooted DEF IsRooted
    <2>2. \A c \in request.path : parent[c] = None => c = activeRoot
      BY <1>1 DEF IsShown
    <2> QED BY <2>1, <2>2 DEF SwitchedRoot
  <1> QED BY <1>2, <1>3, <1>4, PathThroughIs DEF ShownPath

(* What the proof needs of the paths in the next state: the recursion of    *)
(* PathTo, a shown leaf ends the branch, and the branch is one.             *)
LeavesEndTheBranch ==
    /\ \A m \in Ids : PathTo[m] = IF parent[m] = None THEN <<m>> ELSE PathTo[parent[m]] \o <<m>>
    /\ \A m \in Shown : Children(m) = {} => ShownPath = PathTo[m]
    /\ stored # {} => View!IsBranch(ShownPath)
    /\ stored = {} => ShownPath = << >>

(* These hold in every state of the invariants. *)
LEMMA LeavesAlwaysEndTheBranch == TypeOK /\ Inv /\ WalkInv => LeavesEndTheBranch
  <1> SUFFICES ASSUME TypeOK, Inv, WalkInv PROVE LeavesEndTheBranch
    OBVIOUS
  <1>1. ParentsAreOlder /\ AllParentsOlder /\ PointersFollowEdges
    BY DEF Inv, WalkInv
  <1>2. ASSUME NEW m \in Shown, Children(m) = {} PROVE ShownPath = PathTo[m]
    <2>1. m \in Ids
      BY StoredAreIds DEF Shown
    <2>2. BranchFrom(m, active) = <<m>>
      BY <1>1, <1>2, <2>1, BranchIsARecursion
    <2>3. Tail(<<m>>) = << >>
      OBVIOUS
    <2>4. ShownPath = PathTo[m] \o << >>
      BY <1>1, <2>2, <2>3, ShownPathPassesThrough
    <2>5. PathTo[m] \in Seq(Ids)
      BY <1>1, <2>1, PathToIsARecursion
    <2> QED BY <2>4, <2>5, ConcatEmptySeq
  <1>3. \A m \in Ids : PathTo[m] = IF parent[m] = None THEN <<m>> ELSE PathTo[parent[m]] \o <<m>>
    BY <1>1, PathToIsARecursion
  <1>4. /\ stored # {} => View!IsBranch(ShownPath)
        /\ stored = {} => ShownPath = << >>
    BY <1>1, ShownPathIsABranch, ShownPathIsFromTheRoot
  <1> QED BY <1>2, <1>3, <1>4 DEF LeavesEndTheBranch

(* The path to m ends with m. *)
LEMMA PathToEnds ==
    ASSUME TypeOK, AllParentsOlder, NEW m \in Ids
    PROVE  /\ PathTo[m] \in Seq(Ids) /\ Len(PathTo[m]) \in Nat /\ Len(PathTo[m]) > 0
           /\ PathTo[m][Len(PathTo[m])] = m
  <1>1. PathTo[m] = <<m>> \/ \E path \in Seq(Ids) : PathTo[m] = path \o <<m>>
    <2>1. parent[m] # None => parent[m] \in Ids
      BY DEF TypeOK, Pointers
    <2> QED BY <2>1, PathToIsARecursion
  <1>2. CASE PathTo[m] = <<m>>
    BY <1>2, PathToIsARecursion
  <1>3. CASE \E path \in Seq(Ids) : PathTo[m] = path \o <<m>>
    <2>1. PICK path \in Seq(Ids) : PathTo[m] = path \o <<m>>
      BY <1>3
    <2>2. /\ Len(path \o <<m>>) = Len(path) + 1 /\ Len(path) \in Nat
          /\ (path \o <<m>>)[Len(path) + 1] = m
      OBVIOUS
    <2> QED BY <2>1, <2>2, PathToIsARecursion
  <1> QED BY <1>1, <1>2, <1>3

(* Up to a message that is shown, the branch is the path to it. *)
LEMMA ShownUpTo ==
    ASSUME TypeOK, ParentsAreOlder, AllParentsOlder, NEW m \in Shown
    PROVE  \E i \in 0 .. Len(ShownPath) :
              /\ i # 0 /\ ShownPath[i] = m
              /\ SubSeq(ShownPath, 1, i) = PathTo[m]
  <1> DEFINE rest == Tail(BranchFrom(m, active))
  <1>1. m \in Ids
    BY StoredAreIds DEF Shown
  <1>2. PICK path \in Seq(Ids) : path = PathTo[m] /\ Len(path) > 0 /\ path[Len(path)] = m
    BY <1>1, PathToEnds
  <1>3. rest \in Seq(Ids)
    BY <1>1, BranchStartsWith
  <1>4. ShownPath = path \o rest
    BY <1>2, ShownPathPassesThrough
  <1> HIDE DEF rest
  <1>5. /\ Len(path \o rest) = Len(path) + Len(rest) /\ Len(path) \in Nat /\ Len(rest) \in Nat
        /\ (path \o rest)[Len(path)] = path[Len(path)]
        /\ SubSeq(path \o rest, 1, Len(path)) = path
    <2>1. /\ Len(path \o rest) = Len(path) + Len(rest) /\ Len(path) \in Nat /\ Len(rest) \in Nat
          /\ \A i \in 1 .. Len(path) : (path \o rest)[i] = path[i]
      BY <1>3
    <2>2. SubSeq(path \o rest, 1, Len(path)) = path
      BY <1>3, <2>1
    <2> QED BY <1>2, <2>1, <2>2
  <1>6. Len(path) \in 0 .. Len(ShownPath) /\ Len(path) # 0
    BY <1>2, <1>4, <1>5
  <1> QED BY <1>2, <1>4, <1>5, <1>6

(* Rows that are added leave the paths to the others as they are. *)
LEMMA PathToKept ==
    ASSUME TypeOK, ParentsAreOlder, AllParentsOlder, LeavesEndTheBranch',
           \A m \in stored : parent'[m] = parent[m]
    PROVE  \A m \in stored : PathTo'[m] = PathTo[m]
  <1> DEFINE S == {x \in Ids : x \in stored => PathTo'[x] = PathTo[x]}
  <1>1. \A m \in Ids : PathTo'[m] = IF parent'[m] = None THEN <<m>> ELSE PathTo'[parent'[m]] \o <<m>>
    BY DEF LeavesEndTheBranch
  <1>2. ASSUME NEW x \in 1 .. MaxMessages, \A y \in 1 .. MaxMessages : y < x => y \in S
        PROVE  x \in S
    <2>0. x \in Ids
      BY DEF Ids
    <2> SUFFICES ASSUME x \in stored PROVE PathTo'[x] = PathTo[x]
      BY <2>0
    <2>1. PathTo[x] = IF parent[x] = None THEN <<x>> ELSE PathTo[parent[x]] \o <<x>>
      BY <2>0, PathToIsARecursion
    <2>2. parent'[x] = parent[x]
      OBVIOUS
    <2>3. parent[x] # None => parent[x] \in stored /\ parent[x] < x /\ parent[x] \in 1 .. MaxMessages
      BY StoredAreIds DEF ParentsAreOlder, Ids
    <2>4. parent[x] # None => PathTo'[parent[x]] = PathTo[parent[x]]
      BY <1>2, <2>3
    <2> QED BY <1>1, <2>0, <2>1, <2>2, <2>4
  <1> HIDE DEF S
  <1>3. 1 .. MaxMessages \subseteq S
    BY <1>2, InductionUp, MaxMessagesAssumption
  <1> QED BY <1>3, StoredAreIds DEF S, Ids

(* Rows added below a message that is not shown leave the branch as it is:  *)
(* its leaf stays a leaf.                                                   *)
LEMMA BranchKept ==
    ASSUME TypeOK, Inv, WalkInv, LeavesEndTheBranch', NEW p \in stored, p \notin Shown,
           Shown' = Shown, \A m \in stored : parent'[m] = parent[m],
           \A c \in stored' \ stored : parent'[c] \notin stored \ {p}
    PROVE  ShownPath' = ShownPath
  <1>1. ParentsAreOlder /\ AllParentsOlder /\ PointersFollowEdges /\ LeavesEndTheBranch
    BY LeavesAlwaysEndTheBranch DEF Inv, WalkInv
  <1>2. PICK last \in Shown : Children(last) = {}
    <2>1. View!IsBranch(ShownPath) /\ ShownPath \in Seq(Ids)
      BY <1>1, ShownPathIsFromTheRoot DEF LeavesEndTheBranch
    <2>2. Len(ShownPath) \in DOMAIN ShownPath
      BY <2>1 DEF View!IsBranch
    <2>3. ShownPath[Len(ShownPath)] \in Shown
      BY <1>1, <2>2, PathsVisitStored DEF Visited
    <2> QED BY <2>1, <2>3 DEF View!IsBranch, Children
  <1>3. ShownPath = PathTo[last] /\ PathTo'[last] = PathTo[last]
    BY <1>1, <1>2, PathToKept DEF LeavesEndTheBranch, Shown
  <1>4. last \in Shown' /\ Children(last)' = {}
    <2>1. last \in stored /\ last # p
      BY <1>2 DEF Shown
    <2> QED BY <1>2, <2>1 DEF Children
  <1>5. ShownPath' = PathTo'[last]
    BY <1>4 DEF LeavesEndTheBranch
  <1> QED BY <1>3, <1>5

(* Both modules number messages alike. *)
LEMMA ViewDefs == View!None = None /\ View!Ids = Ids
  BY DEF View!None, View!Ids, None, Ids

(* Nothing comes before the first message. *)
LEMMA EmptyUpTo ==
    ASSUME NEW path \in Seq(Ids), NEW more \in Seq(Ids)
    PROVE  SubSeq(path, 1, 0) \o more = more
  OBVIOUS

(* A question and its answer, appended one by one or together. *)
LEMMA TwoMessages ==
    ASSUME NEW question \in Ids, NEW answer \in Ids, NEW path \in Seq(Ids)
    PROVE  /\ <<question, answer>> \in Seq(Ids)
           /\ <<question>> \o <<answer>> = <<question, answer>>
           /\ (path \o <<question>>) \o <<answer>> = path \o <<question, answer>>
  <1>1. <<question>> \in Seq(Ids) /\ <<answer>> \in Seq(Ids)
    OBVIOUS
  <1>2. <<question, answer>> \in Seq(Ids)
    OBVIOUS
  <1>3. <<question>> \o <<answer>> = <<question, answer>>
    <2>1. PICK both \in Seq(Ids) : both = <<question>> \o <<answer>>
      BY <1>1, ConcatProperties
    <2>2. Len(both) = 2 /\ both[1] = question /\ both[2] = answer
      BY <2>1
    <2>3. \A i \in 1 .. Len(both) : both[i] = <<question, answer>>[i]
      <3>1. \A i \in 1 .. Len(both) : i = 1 \/ i = 2
        BY <2>2
      <3> QED BY <2>2, <3>1
    <2>4. Len(both) = Len(<<question, answer>>)
      BY <2>2
    <2> QED BY <1>2, <2>1, <2>3, <2>4, SeqEqual
  <1>4. (path \o <<question>>) \o <<answer>> = path \o (<<question>> \o <<answer>>)
    BY <1>1, ConcatAssociative
  <1> QED BY <1>2, <1>3, <1>4

(* A committed turn is a Turn of ShownBranch: it follows a shown message or *)
(* opens the conversation, and is seen, or it is stored in the background.  *)
LEMMA TurnIsShown ==
    ASSUME TypeOK, Inv, Inv', WalkInv, LeavesEndTheBranch', NEW r \in Requests, CommitTurn(r)
    PROVE  View!Next
  <1>0. PICK p, question, answer :
            p = requests[r].at /\ question = count + 1 /\ answer = count + 2
    OBVIOUS
  <1>1. /\ p \in stored \cup {None}
        /\ question \in Ids /\ answer \in Ids /\ question < answer
        /\ question \notin stored /\ answer \notin stored
        /\ stored' = stored \cup {question, answer}
        /\ parent'[question] = p /\ parent'[answer] = question
        /\ \A m \in stored : parent'[m] = parent[m]
        /\ exists /\ exists'
    BY <1>0, TurnWrites
  <1>2. /\ parent' = [parent EXCEPT ![question] = p, ![answer] = question]
        /\ count' = answer
    BY <1>0 DEF CommitTurn
  <1>3. /\ ParentsAreOlder /\ AllParentsOlder /\ PointersFollowEdges
        /\ stored \subseteq Ids /\ None \notin Ids /\ question # answer
        /\ ShownPath \in Seq(Ids)
    <2>1. ParentsAreOlder /\ AllParentsOlder /\ PointersFollowEdges
      BY DEF Inv, WalkInv
    <2>2. question # answer
      BY <1>1, MaxMessagesAssumption DEF Ids
    <2> QED BY <2>1, <2>2, StoredAreIds, NewIds, ShownPathIsFromTheRoot
  <1>4. View!Shows(p, <<question, answer>>)
    <2>1. CASE p \in Shown \cup {None}
      <3>1. answer \in Shown' /\ Children(answer)' = {}
        <4>1. NewestEndsTheBranch'
          BY <1>0, <2>1, ShownStep
        <4>2. Children(count)' = {c \in stored' : parent'[c] = count'}
          BY DEF Children
        <4>3. Children(answer)' = {c \in stored' : parent'[c] = answer}
          BY DEF Children
        <4> QED BY <1>2, <4>1, <4>2, <4>3 DEF NewestEndsTheBranch
      <3>2. ShownPath' = PathTo'[answer]
        BY <3>1 DEF LeavesEndTheBranch
      <3>3. /\ PathTo'[answer] = PathTo'[question] \o <<answer>>
            /\ PathTo'[question] = IF p = None THEN <<question>> ELSE PathTo'[p] \o <<question>>
        <4>1. \A m \in Ids : PathTo'[m] = IF parent'[m] = None THEN <<m>>
                                       ELSE PathTo'[parent'[m]] \o <<m>>
          BY DEF LeavesEndTheBranch
        <4>2. parent'[answer] # None
          BY <1>1, <1>3
        <4> QED BY <1>1, <4>1, <4>2
      <3>4. CASE p = None
        <4>1. ShownPath' = <<question, answer>>
          <5>1. PathTo'[question] = <<question>>
            BY <3>3, <3>4
          <5>2. <<question>> \o <<answer>> = <<question, answer>>
            BY <1>1, <1>3, TwoMessages
          <5> QED BY <3>2, <3>3, <5>1, <5>2
        <4>2. SubSeq(ShownPath, 1, 0) \o <<question, answer>> = <<question, answer>>
          <5>1. <<question, answer>> \in Seq(Ids)
            BY <1>1, <1>3, TwoMessages
          <5> QED BY <1>3, <5>1, EmptyUpTo
        <4>3. 0 \in 0 .. Len(ShownPath)
          BY <1>3
        <4>4. View!Follows(p, 0)
          BY <3>4, ViewDefs DEF View!Follows
        <4> QED BY <4>1, <4>2, <4>3, <4>4 DEF View!Shows, ShownPath
      <3>5. CASE p \in Shown
        <4>1. PICK i \in 0 .. Len(ShownPath) :
                  i # 0 /\ ShownPath[i] = p /\ SubSeq(ShownPath, 1, i) = PathTo[p]
          BY <1>3, <3>5, ShownUpTo
        <4>2. PathTo'[p] = PathTo[p] /\ p # None /\ p \in Ids
          BY <1>1, <1>3, <3>5, PathToKept DEF Shown
        <4>3. PICK path \in Seq(Ids) : path = PathTo[p]
          BY <1>3, <4>2, PathToEnds
        <4>4. (path \o <<question>>) \o <<answer>> = path \o <<question, answer>>
          BY <1>1, TwoMessages
        <4>5. ShownPath' = SubSeq(ShownPath, 1, i) \o <<question, answer>>
          BY <3>2, <3>3, <4>1, <4>2, <4>3, <4>4
        <4>6. View!Follows(p, i)
          BY <4>1 DEF View!Follows, ShownPath
        <4> QED BY <4>1, <4>5, <4>6 DEF View!Shows, ShownPath
      <3> QED BY <2>1, <3>4, <3>5
    <2>2. CASE p \notin Shown \cup {None}
      <3>1. Shown' = Shown
        BY <1>0, <2>2, BackgroundStep
      <3>2. \A c \in stored' \ stored : parent'[c] \notin stored \ {p}
        BY <1>1
      <3>3. p \in stored /\ p \notin Shown
        BY <1>1, <2>2
      <3>4. ShownPath' = ShownPath
        BY <1>1, <3>1, <3>2, <3>3, BranchKept
      <3>5. \A i \in 0 .. Len(ShownPath) : ~View!Follows(p, i)
        <4>1. ASSUME NEW i \in 0 .. Len(ShownPath), i # 0 PROVE ShownPath[i] \in Shown
          <5>1. i \in DOMAIN ShownPath
            BY <1>3, <4>1
          <5> QED BY <1>3, <5>1, PathsVisitStored DEF Visited
        <4> QED BY <2>2, <4>1, ViewDefs DEF View!Follows, ShownPath
      <3> QED BY <3>4, <3>5 DEF View!Shows, ShownPath
    <2> QED BY <2>1, <2>2
  <1>5. View!Turn(p, question, answer)
    BY <1>1, <1>2, <1>3, <1>4 DEF View!Turn
  <1> QED BY <1>1, <1>5, ViewDefs DEF View!Next

(* A committed regeneration is AnotherAnswer of ShownBranch. *)
LEMMA RegenerationIsShown ==
    ASSUME TypeOK, Inv, Inv', WalkInv, LeavesEndTheBranch',
           NEW r \in Requests, CommitRegeneration(r)
    PROVE  View!Next
  <1>0. PICK p, answer : p = requests[r].at /\ answer = count + 1
    OBVIOUS
  <1>1. /\ p \in stored /\ p # None
        /\ answer \in Ids /\ answer \notin stored
        /\ stored' = stored \cup {answer}
        /\ parent'[answer] = p
        /\ \A m \in stored : parent'[m] = parent[m]
        /\ exists /\ exists'
    BY <1>0, RegenerationWrites
  <1>2. parent' = [parent EXCEPT ![answer] = p] /\ count' = answer
    BY <1>0 DEF CommitRegeneration
  <1>3. /\ ParentsAreOlder /\ AllParentsOlder /\ PointersFollowEdges
        /\ stored \subseteq Ids /\ ShownPath \in Seq(Ids)
    <2>1. ParentsAreOlder /\ AllParentsOlder /\ PointersFollowEdges
      BY DEF Inv, WalkInv
    <2> QED BY <2>1, StoredAreIds, ShownPathIsFromTheRoot
  <1>4. View!Shows(p, <<answer>>)
    <2>1. CASE p \in Shown
      <3>1. answer \in Shown' /\ Children(answer)' = {}
        <4>1. NewestEndsTheBranch'
          BY <1>0, <2>1, ShownStep
        <4>2. Children(count)' = {c \in stored' : parent'[c] = count'}
          BY DEF Children
        <4>3. Children(answer)' = {c \in stored' : parent'[c] = answer}
          BY DEF Children
        <4> QED BY <1>2, <4>1, <4>2, <4>3 DEF NewestEndsTheBranch
      <3>2. ShownPath' = PathTo'[answer] /\ PathTo'[answer] = PathTo'[p] \o <<answer>>
        BY <1>1, <3>1 DEF LeavesEndTheBranch
      <3>3. PICK i \in 0 .. Len(ShownPath) :
                i # 0 /\ ShownPath[i] = p /\ SubSeq(ShownPath, 1, i) = PathTo[p]
        BY <1>3, <2>1, ShownUpTo
      <3>4. PathTo'[p] = PathTo[p]
        BY <1>1, <1>3, PathToKept
      <3>5. ShownPath' = SubSeq(ShownPath, 1, i) \o <<answer>>
        BY <3>2, <3>3, <3>4
      <3>6. View!Follows(p, i)
        BY <3>3 DEF View!Follows, ShownPath
      <3> QED BY <3>3, <3>5, <3>6 DEF View!Shows, ShownPath
    <2>2. CASE p \notin Shown
      <3>1. Shown' = Shown
        BY <1>0, <1>1, <2>2, BackgroundStep
      <3>2. \A c \in stored' \ stored : parent'[c] \notin stored \ {p}
        BY <1>1
      <3>3. ShownPath' = ShownPath
        BY <1>1, <2>2, <3>1, <3>2, BranchKept
      <3>4. \A i \in 0 .. Len(ShownPath) : ~View!Follows(p, i)
        <4>1. ASSUME NEW i \in 0 .. Len(ShownPath), i # 0 PROVE ShownPath[i] \in Shown
          <5>1. i \in DOMAIN ShownPath
            BY <1>3, <4>1
          <5> QED BY <1>3, <5>1, PathsVisitStored DEF Visited
        <4> QED BY <1>1, <2>2, <4>1, ViewDefs DEF View!Follows, ShownPath
      <3> QED BY <3>3, <3>4 DEF View!Shows, ShownPath
    <2> QED BY <2>1, <2>2
  <1>5. View!AnotherAnswer(p, answer)
    BY <1>1, <1>2, <1>4 DEF View!AnotherAnswer
  <1> QED BY <1>1, <1>5, ViewDefs DEF View!Next

(* A committed switch shows a branch, whatever became of the pointers it    *)
(* had read; of a deleted conversation it shows nothing.                    *)
LEMMA SwitchIsShown ==
    ASSUME TypeOK, Inv, LeavesEndTheBranch', NEW r \in Requests, CommitSwitch(r)
    PROVE  View!Next \/ UNCHANGED View!shownVars
  <1>1. UNCHANGED <<exists, stored, parent>>
    BY DEF CommitSwitch, rows
  <1>2. CASE exists
    <2>1. requests[r].path \subseteq stored /\ IsRooted(requests[r].path)
      BY <1>2 DEF CommitSwitch, Inv, SwitchesKnowTheWay
    <2>2. stored' # {}
      BY <1>1, <2>1 DEF IsRooted
    <2>3. View!IsBranch(ShownPath)'
      BY <2>2 DEF LeavesEndTheBranch
    <2>4. View!Switch
      BY <1>1, <2>3 DEF View!Switch, View!IsBranch, ShownPath
    <2> QED BY <2>4 DEF View!Next
  <1>3. CASE ~exists
    <2>1. UNCHANGED <<active, activeRoot>>
      BY <1>3 DEF CommitSwitch
    <2> QED BY <1>1, <2>1 DEF View!shownVars, CurrentPath, BranchFrom, Children, Followed
  <1> QED BY <1>2, <1>3

(* Every step is a step of ShownBranch or leaves what is shown alone. *)
LEMMA ShownStepwise ==
    ASSUME TypeOK, Inv, Inv', WalkInv, LeavesEndTheBranch', [Next]_vars
    PROVE  [View!Next]_(View!shownVars)
  <1>1. ASSUME UNCHANGED <<exists, stored, parent, active, activeRoot>>
        PROVE  UNCHANGED View!shownVars
    BY <1>1 DEF View!shownVars, CurrentPath, BranchFrom, Children, Followed
  <1>2. CASE UNCHANGED vars
    BY <1>1, <1>2 DEF vars
  <1>3. ASSUME NEW r \in Requests, BeginTurn(r) \/ BeginRegeneration(r) \/ BeginSwitch(r) \/ TurnFails(r)
        PROVE  UNCHANGED View!shownVars
    BY <1>1, <1>3 DEF BeginTurn, BeginRegeneration, BeginSwitch, TurnFails, Begin, rows
  <1>4. ASSUME Delete PROVE View!Next
    <2>1. ShownPath' = << >>
      BY <1>4 DEF Delete, LeavesEndTheBranch
    <2> QED BY <1>4, <2>1 DEF Delete, View!Next, View!Delete, ShownPath
  <1> QED BY <1>2, <1>3, <1>4, TurnIsShown, RegenerationIsShown, SwitchIsShown DEF Next

(* A new conversation shows nothing. *)
LEMMA ShownInit == Init => View!Init
  <1> SUFFICES ASSUME Init PROVE View!Init
    OBVIOUS
  <1>1. CurrentPath(active, activeRoot) = << >>
    BY DEF Init, CurrentPath, Children
  <1> QED BY <1>1, ViewDefs DEF Init, View!Init

(* The pointers implement the branch that is shown: with requests that      *)
(* overlap, readers still see turns, other answers and switches one at a    *)
(* time (engine.py, chat_service.py).                                       *)
THEOREM TreeImplementsShownBranch == Spec => ImplementsShownBranch
  <1>1. TypeOK /\ Inv /\ Inv' /\ WalkInv /\ LeavesEndTheBranch' /\ [Next]_vars
          => [View!Next]_(View!shownVars)
    BY ShownStepwise
  <1>2. TypeOK /\ Inv /\ WalkInv => LeavesEndTheBranch
    BY LeavesAlwaysEndTheBranch
  <1> QED BY <1>1, <1>2, ShownInit, TypeCorrect, InvCorrect, WalkInvCorrect, PTL
          DEF Spec, ImplementsShownBranch, View!Spec

=============================================================================
