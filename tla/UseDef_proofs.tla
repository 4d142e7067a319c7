---------------------------- MODULE UseDef_proofs ----------------------------
(***************************************************************************)
(* Proofs about UseDef, for any number of nodes and handles: the pointers  *)
(* of the tree always agree, never dangle and never form a cycle.          *)
(***************************************************************************)
EXTENDS UseDef, TLAPS

\* The parent function of a tree is well founded: Rooted, for a function.
WellFounded(f) ==
  \A S \in SUBSET Node : S # {} => \E n \in S : f[n] \notin S

Up == [n \in Node |-> getParent(n)]

\* Rooted says that getParent() of the nodes is well-founded.
LEMMA RootedIsWellFounded == Rooted <=> WellFounded(Up)
  BY DEF Rooted, WellFounded, Up

\* Attaching the nodes M below p keeps a forest a forest, when some set A that
\* is closed under f contains p and none of M; other nodes may be detached.
LEMMA AttachWellFounded ==
  ASSUME NEW f, NEW g, NEW p, NEW M \in SUBSET Node, NEW A \in SUBSET Node,
         WellFounded(f),
         p \in A, M \intersect A = {},
         \A n \in A : f[n] = None \/ f[n] \in A,
         \A n \in M : g[n] = p,
         \A n \in Node \ M : g[n] = f[n] \/ g[n] = None
  PROVE  WellFounded(g)
<1> SUFFICES ASSUME NEW S \in SUBSET Node, S # {}, \A n \in S : g[n] \in S
             PROVE  FALSE
  BY DEF WellFounded
<1>0. None \notin S
  BY AddressAssumption
<1>1. CASE S \intersect M = {}
  <2>1. \A n \in S : f[n] \in S
    BY <1>0, <1>1
  <2> QED
    BY <2>1 DEF WellFounded
<1>2. CASE S \intersect M # {}
  <2> DEFINE T == S \intersect A
  <2>1. p \in T /\ T \in SUBSET Node
    BY <1>2
  <2>2. \A n \in T : f[n] \in T
    BY <1>0
  <2> HIDE DEF T
  <2> QED
    BY <2>1, <2>2 DEF WellFounded
<1> QED
  BY <1>1, <1>2

\* Detaching nodes keeps a forest a forest.
LEMMA DetachWellFounded ==
  ASSUME NEW f, NEW g, WellFounded(f),
         \A n \in Node : g[n] = f[n] \/ g[n] = None
  PROVE  WellFounded(g)
<1> SUFFICES ASSUME NEW S \in SUBSET Node, S # {}, \A n \in S : g[n] \in S
             PROVE  FALSE
  BY DEF WellFounded
<1>1. \A n \in S : f[n] \in S
  BY AddressAssumption
<1> QED
  BY <1>1 DEF WellFounded

\* Trading places of a node L and its parent p keeps a forest a forest.
LEMMA SwapWellFounded ==
  ASSUME NEW f, NEW g, NEW p \in Node, NEW L \in Node, NEW M \in SUBSET Node,
         WellFounded(f), f[L] = p,
         g[p] = L, g[L] = f[p],
         \A n \in M : n # p /\ n # L => f[n] = L /\ g[n] = p,
         \A n \in Node \ (M \union {p, L}) : g[n] = f[n]
  PROVE  WellFounded(g)
<1> SUFFICES ASSUME NEW S \in SUBSET Node, S # {}, \A n \in S : g[n] \in S
             PROVE  FALSE
  BY DEF WellFounded
<1>1. CASE L \in S
  <2> DEFINE T == S \union {p}
  <2>1. L \in T /\ T \in SUBSET Node
    BY <1>1
  <2>2. \A n \in T : f[n] \in T
    BY <1>1
  <2> HIDE DEF T
  <2> QED
    BY <2>1, <2>2 DEF WellFounded
<1>2. CASE L \notin S
  <2>1. \A n \in S : f[n] \in S
    BY <1>2
  <2> QED
    BY <2>1 DEF WellFounded
<1> QED
  BY <1>1, <1>2

-----------------------------------------------------------------------------
(* Steps that set one handle: Construct, SetReference, Move.               *)

\* Ownership without the shape of the tree.
Pointers ==
  /\ TypeOK
  /\ DeadIsNull
  /\ HandleOwnsRef
  /\ OwnerNeverDangles
  /\ HolderAlive

\* Handle h of parent p is (re)set to n.
SetStep(h, p, n) ==
  /\ alive' = alive
  /\ slots' = slots \union {h}
  /\ parent' = [parent EXCEPT ![h] = p]
  /\ ref' = RefAfterSet(h, n)
  /\ owner' = OwnerAfterSet(h, n)

\* setReference, which writes ref_ and user_ in up to three objects, keeps the two
\* directions of every edge together.
LEMMA SetPointers ==
  ASSUME Pointers, NEW h \in Handle, NEW p \in alive \union {None},
         NEW n \in alive \union {None}, n # None => Fits(h, n),
         p \in Expr => h \in ExprHandle, SetStep(h, p, n)
  PROVE  Pointers'
<1> USE AddressAssumption DEF Pointers, SetStep
<1>1. TypeOK'
  BY DEF TypeOK, RefAfterSet, OwnerAfterSet, Fits
<1>2. DeadIsNull'
  BY DEF TypeOK, DeadIsNull, RefAfterSet, OwnerAfterSet, HandleOwnsRef
<1>3. HandleOwnsRef'
  BY DEF TypeOK, HandleOwnsRef, OwnerNeverDangles, DeadIsNull,
         RefAfterSet, OwnerAfterSet
<1>4. OwnerNeverDangles'
  BY DEF TypeOK, HandleOwnsRef, OwnerNeverDangles, DeadIsNull,
         RefAfterSet, OwnerAfterSet
<1>5. HolderAlive'
  BY DEF TypeOK, HolderAlive
<1> QED
  BY <1>1, <1>2, <1>3, <1>4, <1>5

\* What a set handle does to the parents.
LEMMA SetParents ==
  ASSUME Pointers, NEW h \in Handle, NEW p \in alive \union {None},
         NEW n \in alive \union {None}, SetStep(h, p, n)
  PROVE  /\ n # None => Up'[n] = p
         /\ \A m \in Node : m # n => Up'[m] = Up[m] \/ Up'[m] = None
  BY AddressAssumption
     DEF Pointers, SetStep, TypeOK, HandleOwnsRef, OwnerNeverDangles, DeadIsNull,
         RefAfterSet, OwnerAfterSet, Up, getParent

\* setReference keeps a forest a forest when the node is not above its new place.
LEMMA SetRooted ==
  ASSUME Pointers, Rooted, NEW h \in Handle, NEW p \in alive \union {None},
         NEW n \in alive \union {None}, SetStep(h, p, n),
         n # None => NotAbove(n, p) \/ getParent(n) = p
  PROVE  Rooted'
<1> USE AddressAssumption
<1>1. /\ n # None => Up'[n] = p
      /\ \A m \in Node : m # n => Up'[m] = Up[m] \/ Up'[m] = None
  BY SetParents
<1>2. WellFounded(Up)
  BY RootedIsWellFounded
<1>3. WellFounded(Up')
  <2>1. CASE n = None \/ p = None \/ getParent(n) = p
    <3>1. \A m \in Node : Up'[m] = Up[m] \/ Up'[m] = None
      BY <1>1, <2>1 DEF Up, Pointers, TypeOK
    <3> QED
      BY <3>1, <1>2, DetachWellFounded
  <2>2. CASE n # None /\ p # None /\ NotAbove(n, p)
    <3>1. PICK A \in SUBSET Node : p \in A /\ n \notin A /\ ParentClosed(A)
      BY <2>2 DEF NotAbove
    <3>2. \A m \in A : Up[m] = None \/ Up[m] \in A
      BY <3>1 DEF ParentClosed, Up
    <3>3. n \in Node
      BY <2>2 DEF Pointers, TypeOK
    <3>4. {n} \in SUBSET Node /\ {n} \intersect A = {} /\ \A m \in {n} : Up'[m] = p
      BY <3>1, <3>3, <1>1, <2>2
    <3>5. \A m \in Node \ {n} : Up'[m] = Up[m] \/ Up'[m] = None
      BY <1>1
    <3> QED
      BY <3>1, <3>2, <3>4, <3>5, <1>2, AttachWellFounded
  <2> QED
    BY <2>1, <2>2
<1> QED
  BY <1>3, RootedIsWellFounded DEF Rooted, WellFounded, Up

-----------------------------------------------------------------------------
(* Steps that destroy handles and nodes.                                   *)

\* Slots hold pairwise different nodes.
Injective(r) ==
  \A g, h \in slots : r[g] # None /\ r[g] = r[h] => g = h

\* The subtree of n contains n, contains what its handles hold, and all of it
\* but n hangs in a handle of the subtree.
LEMMA SubtreeShape ==
  ASSUME NEW r \in [Handle -> Node \union {None}], Injective(r),
         slots \in SUBSET Handle, NEW n \in Node
  PROVE  /\ n \in Subtree(r, n)
         /\ Subtree(r, n) \in SUBSET Node
         /\ ChildClosed(r, Subtree(r, n))
         /\ \A h \in slots : r[h] \in Subtree(r, n) /\ r[h] # n
                             => parent[h] \in Subtree(r, n)
<1> USE AddressAssumption
<1> DEFINE D == Subtree(r, n)
<1>1. n \in D /\ D \in SUBSET Node
  BY DEF Subtree
<1>2. ChildClosed(r, D)
  BY DEF Subtree, ChildClosed
<1>3. ASSUME NEW h \in slots, r[h] \in D, r[h] # n, parent[h] \notin D
      PROVE  FALSE
  <2> DEFINE S == D \ {r[h]}
  <2>1. n \in S /\ S \in SUBSET Node
    BY <1>1, <1>3
  <2>2. ChildClosed(r, S)
    BY <1>2, <1>3 DEF ChildClosed, Injective
  <2> HIDE DEF S
  <2>3. r[h] \in S
    BY <1>3, <2>1, <2>2 DEF Subtree
  <2> QED
    BY <2>3 DEF S
<1> QED
  BY <1>1, <1>2, <1>3

\* The pointers r, o that an operation leaves behind before handles die.
\* Nothing that survives holds, or is held by, something that dies.
LEMMA ReleasePointers ==
  ASSUME Pointers, NEW E \in SUBSET slots, NEW D \in SUBSET Node,
         NEW r \in [Handle -> Node \union {None}],
         NEW o \in [Node -> Handle \union {None}],
         Release(E, D, r, o),
         \A h \in slots : r[h] # None => Fits(h, r[h]),
         \A h \in Handle \ slots : r[h] = None,
         \A n \in Node \ alive : o[n] = None,
         \A h \in slots' : r[h] # None => r[h] \in alive' /\ o[r[h]] = h,
         \A n \in alive' : o[n] # None => o[n] \in slots' /\ r[o[n]] = n
  PROVE  Pointers'
<1> USE AddressAssumption DEF Pointers, Release
<1>1. TypeOK'
  BY DEF TypeOK, Fits
<1>2. DeadIsNull'
  BY DEF TypeOK, DeadIsNull
<1>3. HandleOwnsRef'
  BY DEF TypeOK, HandleOwnsRef
<1>4. OwnerNeverDangles'
  BY DEF TypeOK, OwnerNeverDangles
<1>5. HolderAlive'
  BY DEF TypeOK, HolderAlive
<1> QED
  BY <1>1, <1>2, <1>3, <1>4, <1>5

\* ~ASTHandle deletes the tree below the handle and leaves the rest in order.
LEMMA DestroyHandlePreserves ==
  ASSUME Ownership, NEW h \in Handle, DestroyHandle(h)
  PROVE  Ownership'
<1> USE AddressAssumption
<1> DEFINE D == IF ref[h] = None THEN {} ELSE Subtree(ref, ref[h])
           o == [m \in Node |-> IF m = ref[h] THEN None ELSE owner[m]]
<1>0. Pointers
  BY DEF Ownership, Pointers
<1>1. Release({h}, D, ref, o) /\ {h} \in SUBSET slots
  BY DEF DestroyHandle
<1>2. Injective(ref)
  BY <1>0 DEF Pointers, HandleOwnsRef, Injective
<1>3. /\ D \in SUBSET Node
      /\ ref[h] # None => ref[h] \in D
      /\ ChildClosed(ref, D)
      /\ \A g \in slots : ref[g] \in D /\ ref[g] # ref[h] => parent[g] \in D
  <2>1. CASE ref[h] = None
    BY <1>0, <2>1 DEF ChildClosed, Pointers, TypeOK
  <2>2. CASE ref[h] # None
    BY <1>0, <1>2, <2>2, SubtreeShape DEF Pointers, TypeOK
  <2> QED
    BY <2>1, <2>2
<1> HIDE DEF D
<1>4. Pointers'
  <2>1. \A g \in slots' : ref[g] # None => ref[g] \in alive' /\ o[ref[g]] = g
    BY <1>0, <1>1, <1>3 DEF Release, Pointers, HandleOwnsRef, TypeOK
  <2>2. \A n \in alive' : o[n] # None => o[n] \in slots' /\ ref[o[n]] = n
    BY <1>0, <1>1, <1>3
       DEF Release, Pointers, OwnerNeverDangles, TypeOK, ChildClosed
  <2>3. /\ ref \in [Handle -> Node \union {None}]
        /\ o \in [Node -> Handle \union {None}]
        /\ \A g \in slots : ref[g] # None => Fits(g, ref[g])
        /\ \A g \in Handle \ slots : ref[g] = None
        /\ \A n \in Node \ alive : o[n] = None
    BY <1>0 DEF Pointers, TypeOK, DeadIsNull
  <2> HIDE DEF o
  <2> QED
    BY <1>0, <1>1, <1>3, <2>1, <2>2, <2>3, ReleasePointers
<1>5. Rooted'
  <2>1. \A m \in Node : Up'[m] = Up[m] \/ Up'[m] = None
    BY <1>0, <1>1 DEF Release, Up, getParent, Pointers, TypeOK
  <2>2. WellFounded(Up')
    BY <2>1, RootedIsWellFounded, DetachWellFounded DEF Ownership
  <2> QED
    BY <2>2 DEF Rooted, WellFounded, Up
<1> QED
  BY <1>4, <1>5 DEF Ownership, Pointers

\* replaceUseWith attaches the new expression, then deletes the old one with what was
\* not moved out of it.
LEMMA ReplaceUseWithPreserves ==
  ASSUME Ownership, NEW e \in Node, NEW n \in Node, ReplaceUseWith(e, n)
  PROVE  Ownership'
<1> USE AddressAssumption
<1> DEFINE h == owner[e]
           r == RefAfterSet(h, n)
           o == OwnerAfterSet(h, n)
           D == Subtree(r, e)
<1>0. Pointers
  BY DEF Ownership, Pointers
<1>1. /\ e \in alive /\ n \in alive /\ e # n
      /\ h \in slots /\ ref[h] = e
      /\ e \in Stmt <=> n \in Stmt
      /\ NotAbove(n, getParent(e))
      /\ Release({}, D, r, o)
  BY <1>0 DEF ReplaceUseWith, Pointers, OwnerNeverDangles, TypeOK
<1>2. /\ r \in [Handle -> Node \union {None}]
      /\ o \in [Node -> Handle \union {None}]
      /\ \A g \in Handle \ slots : r[g] = None
      /\ \A m \in Node \ alive : o[m] = None
      /\ \A g \in slots : r[g] # None =>
            Fits(g, r[g]) /\ r[g] \in alive /\ o[r[g]] = g /\ r[g] # e
      /\ \A m \in alive : o[m] # None => o[m] \in slots /\ r[o[m]] = m
  BY <1>0, <1>1
     DEF Pointers, TypeOK, DeadIsNull, HandleOwnsRef, OwnerNeverDangles, Fits,
         RefAfterSet, OwnerAfterSet
<1>3. \A m \in Node : o[m] # None =>
         parent[o[m]] = IF m = n THEN getParent(e) ELSE getParent(m)
  BY <1>0, <1>1
     DEF Pointers, TypeOK, HandleOwnsRef, OwnerNeverDangles, DeadIsNull,
         OwnerAfterSet, getParent
<1> HIDE DEF r, o, h
<1>4. Injective(r)
  BY <1>2 DEF Injective
<1>5. /\ D \in SUBSET Node /\ e \in D
      /\ ChildClosed(r, D)
      /\ \A g \in slots : r[g] \in D /\ r[g] # e => parent[g] \in D
  BY <1>0, <1>1, <1>2, <1>4, SubtreeShape DEF Pointers, TypeOK
<1> HIDE DEF D
<1>6. Pointers'
  <2>1. \A g \in slots' : r[g] # None => r[g] \in alive' /\ o[r[g]] = g
    BY <1>0, <1>1, <1>2, <1>5 DEF Release
  <2>2. \A m \in alive' : o[m] # None => o[m] \in slots' /\ r[o[m]] = m
    BY <1>0, <1>1, <1>2, <1>5 DEF Release, ChildClosed, Pointers, TypeOK
  <2> QED
    BY <1>0, <1>1, <1>2, <1>5, <2>1, <2>2, ReleasePointers
<1>7. Rooted'
  <2> DEFINE p == getParent(e)
             f == [m \in Node |-> IF o[m] = None THEN None ELSE parent[o[m]]]
  <2>1. WellFounded(Up)
    BY RootedIsWellFounded DEF Ownership
  <2>2. \A m \in Node \ {n} : f[m] = Up[m] \/ f[m] = None
    BY <1>3 DEF Up
  <2>3. f[n] = None \/ f[n] = p
    BY <1>3
  <2>4. WellFounded(f)
    <3>1. CASE f[n] = None
      <4>1. \A m \in Node : f[m] = Up[m] \/ f[m] = None
        BY <2>2, <3>1
      <4> QED
        BY <4>1, <2>1, DetachWellFounded
    <3>2. CASE f[n] # None
      <4>1. PICK A \in SUBSET Node : p \in A /\ n \notin A /\ ParentClosed(A)
        BY <1>1, <2>3, <3>2 DEF NotAbove
      <4>2. \A m \in A : Up[m] = None \/ Up[m] \in A
        BY <4>1 DEF ParentClosed, Up
      <4>3. {n} \in SUBSET Node /\ {n} \intersect A = {} /\ \A m \in {n} : f[m] = p
        BY <4>1, <2>3, <3>2
      <4> HIDE DEF f, p
      <4> QED
        BY <2>1, <2>2, <4>1, <4>2, <4>3, AttachWellFounded
    <3> QED
      BY <3>1, <3>2
  <2>5. \A m \in Node : Up'[m] = f[m] \/ Up'[m] = None
    BY <1>0, <1>1, <1>2 DEF Release, Up, getParent, Pointers, TypeOK
  <2>6. WellFounded(Up')
    <3> HIDE DEF f
    <3> QED
      BY <2>4, <2>5, DetachWellFounded
  <2> QED
    BY <2>6 DEF Rooted, WellFounded, Up
<1> QED
  BY <1>6, <1>7 DEF Ownership, Pointers

\* RemoveStmt and Clear: the handles E of one body die, the nodes they held
\* are left without an owner.
LEMMA DetachPreserves ==
  ASSUME Ownership, NEW E \in SUBSET slots,
         NEW o \in [Node -> Handle \union {None}],
         \A n \in Node : o[n] = IF owner[n] \in E THEN None ELSE owner[n],
         Release(E, {}, ref, o)
  PROVE  Ownership'
<1> USE AddressAssumption
<1>0. Pointers
  BY DEF Ownership, Pointers
<1>1. Pointers'
  <2>1. \A g \in slots' : ref[g] # None => ref[g] \in alive' /\ o[ref[g]] = g
    BY <1>0 DEF Release, Pointers, HandleOwnsRef, HolderAlive, TypeOK
  <2>2. \A n \in alive' : o[n] # None => o[n] \in slots' /\ ref[o[n]] = n
    BY <1>0 DEF Release, Pointers, OwnerNeverDangles, TypeOK
  <2>3. /\ ref \in [Handle -> Node \union {None}]
        /\ \A g \in slots : ref[g] # None => Fits(g, ref[g])
        /\ \A g \in Handle \ slots : ref[g] = None
        /\ \A n \in Node \ alive : o[n] = None
    BY <1>0 DEF Pointers, TypeOK, DeadIsNull
  <2>4. {} \in SUBSET Node
    OBVIOUS
  <2> QED
    BY <1>0, <2>1, <2>2, <2>3, <2>4, ReleasePointers
<1>2. Rooted'
  <2>1. \A m \in Node : Up'[m] = Up[m] \/ Up'[m] = None
    BY <1>0 DEF Release, Up, getParent, Pointers, TypeOK
  <2>2. WellFounded(Up')
    BY <2>1, RootedIsWellFounded, DetachWellFounded DEF Ownership
  <2> QED
    BY <2>2 DEF Rooted, WellFounded, Up
<1> QED
  BY <1>1, <1>2 DEF Ownership, Pointers

-----------------------------------------------------------------------------
(* Steps that move the content of scopes.                                  *)

\* takeContent hands the statements of one scope to another.
LEMMA TakeContentPreserves ==
  ASSUME Ownership, NEW p \in Stmt, NEW q \in Stmt, TakeContent(p, q)
  PROVE  Ownership'
<1> USE AddressAssumption DEF TakeContent
<1>0. Pointers
  BY DEF Ownership, Pointers
<1>1. Pointers'
  BY <1>0 DEF Pointers, TypeOK, DeadIsNull, HandleOwnsRef, OwnerNeverDangles,
              HolderAlive, Body, Fits
<1>2. Rooted'
  <2> DEFINE M == {m \in Node : owner[m] \in Body(q)}
  <2>0. p \in Node /\ p # None
    BY DEF Node
  <2>1. PICK A \in SUBSET Node : p \in A /\ q \notin A /\ ParentClosed(A)
    BY <2>0 DEF NotAbove
  <2>2. \A m \in A : Up[m] = None \/ Up[m] \in A
    BY <2>1 DEF ParentClosed, Up
  <2>3. \A m \in M : Up[m] = q /\ Up'[m] = p
    BY <1>0 DEF Pointers, TypeOK, Up, getParent, Body
  <2>4. M \in SUBSET Node /\ M \intersect A = {}
    BY <2>1, <2>2, <2>3 DEF Node
  <2>5. \A m \in Node \ M : Up'[m] = Up[m] \/ Up'[m] = None
    BY <1>0 DEF Pointers, TypeOK, Up, getParent
  <2> HIDE DEF M
  <2>6. WellFounded(Up)
    BY RootedIsWellFounded DEF Ownership
  <2>7. \A m \in M : Up'[m] = p
    BY <2>3
  <2>8. p \in A
    BY <2>1
  <2>9. WellFounded(Up')
    BY <2>2, <2>4, <2>5, <2>6, <2>7, <2>8, AttachWellFounded
  <2> QED
    BY <2>9 DEF Rooted, WellFounded, Up
<1> QED
  BY <1>1, <1>2 DEF Ownership, Pointers

\* hoist, with its four steps on raw handles, exchanges a scope with its parent.
LEMMA HoistPreserves ==
  ASSUME Ownership, NEW L \in Stmt, Hoist(L)
  PROVE  Ownership'
<1> USE AddressAssumption
<1> DEFINE p == getParent(L)
           PH == owner[p]
           hL == owner[L]
<1>0. Pointers
  BY DEF Ownership, Pointers
<1>1. /\ L \in alive /\ L \in Node
      /\ hL \in slots /\ ref[hL] = L /\ parent[hL] = p /\ hL \in Handle
      /\ p \in alive /\ p \in Node /\ p # None
      /\ PH \in slots /\ ref[PH] = p /\ PH \in Handle
      /\ hL \in StmtHandle
  BY <1>0 DEF Hoist, Pointers, TypeOK, OwnerNeverDangles, HandleOwnsRef,
              HolderAlive, getParent, Body, Node
<1>2. p # L
  <2>1. {L} \in SUBSET Node /\ {L} # {}
    BY <1>1
  <2> QED
    BY <2>1 DEF Ownership, Rooted
<1>3. p \in Stmt /\ PH \in StmtHandle
  BY <1>0, <1>1 DEF Pointers, TypeOK, Fits, Node
<1>4. PH # hL
  BY <1>1, <1>2
<1>5. /\ parent' = [h \in Handle |-> IF h = hL THEN L
                                    ELSE IF h \in Body(L) THEN p ELSE parent[h]]
      /\ ref' = [ref EXCEPT ![hL] = p, ![PH] = L]
      /\ owner' = [owner EXCEPT ![p] = hL, ![L] = PH]
      /\ alive' = alive /\ slots' = slots
      /\ Body(p) = {hL}
  BY DEF Hoist
<1>6. hL \notin Body(L)
  BY <1>1, <1>2 DEF Body
<1>7. PH \notin Body(p) /\ (PH \in Body(L) => FALSE)
  <2>1. PH \notin Body(p)
    BY <1>4, <1>5
  <2>2. ASSUME PH \in Body(L) PROVE FALSE
    <3>1. getParent(p) = L
      BY <1>0, <1>1, <2>2 DEF getParent, Body, Pointers, TypeOK
    <3>2. {p, L} \in SUBSET Node /\ {p, L} # {}
      BY <1>1
    <3> QED
      BY <3>1, <3>2 DEF Ownership, Rooted
  <2> QED
    BY <2>1, <2>2
<1> HIDE DEF p, PH, hL
<1>8. Pointers'
  <2>1. TypeOK'
    BY <1>0, <1>1, <1>3, <1>4, <1>5, <1>6 DEF Pointers, TypeOK, Fits, Body, Node
  <2>2. DeadIsNull'
    BY <1>0, <1>1, <1>3, <1>4, <1>5, <1>6 DEF Pointers, TypeOK, DeadIsNull, Body
  <2>3. HandleOwnsRef'
    BY <1>0, <1>1, <1>2, <1>4, <1>5 DEF Pointers, TypeOK, HandleOwnsRef
  <2>4. OwnerNeverDangles'
    BY <1>0, <1>1, <1>2, <1>4, <1>5
       DEF Pointers, TypeOK, OwnerNeverDangles, PH, hL
  <2>5. HolderAlive'
    BY <1>0, <1>1, <1>5 DEF Pointers, TypeOK, HolderAlive
  <2> QED
    BY <2>1, <2>2, <2>3, <2>4, <2>5 DEF Pointers
<1>9. Rooted'
  <2> DEFINE M == {m \in Node : owner[m] \in Body(L)}
  <2>1. Up[L] = p /\ Up[p] = parent[PH]
    BY <1>0, <1>1 DEF Up, p, PH, getParent
  <2>2. Up'[p] = L /\ Up'[L] = Up[p]
    BY <1>0, <1>1, <1>2, <1>4, <1>5, <1>6, <1>7, <2>1
       DEF Up, getParent, Pointers, TypeOK
  <2>3. M \in SUBSET Node /\ \A m \in M : m # p /\ m # L => Up[m] = L /\ Up'[m] = p
    BY <1>0, <1>1, <1>2, <1>4, <1>5, <1>6
       DEF Up, getParent, Pointers, TypeOK, Body
  <2>4. \A m \in Node \ (M \union {p, L}) : Up'[m] = Up[m]
    <3> SUFFICES ASSUME NEW m \in Node, m \notin M, m # p, m # L
                 PROVE  Up'[m] = Up[m]
      OBVIOUS
    <3>1. owner'[m] = owner[m] /\ owner[m] \in Handle \union {None}
      BY <1>0, <1>5 DEF Pointers, TypeOK
    <3>2. owner[m] # hL
      BY <1>0, <1>1 DEF Pointers, OwnerNeverDangles, DeadIsNull
    <3> QED
      BY <3>1, <3>2, <1>5 DEF Up, getParent
  <2> HIDE DEF M
  <2>5. WellFounded(Up)
    BY RootedIsWellFounded DEF Ownership
  <2>6. WellFounded(Up')
    BY <1>1, <2>1, <2>2, <2>3, <2>4, <2>5, SwapWellFounded
  <2> QED
    BY <2>6 DEF Rooted, WellFounded, Up
<1> QED
  BY <1>8, <1>9 DEF Ownership, Pointers

-----------------------------------------------------------------------------
(* The theorems.                                                           *)

\* Constructors, setReference and moves, which are all one write of a handle.
LEMMA SetPreserves ==
  ASSUME Ownership, NEW h \in Handle, NEW p \in alive \union {None},
         NEW n \in alive \union {None}, n # None => Fits(h, n),
         p \in Expr => h \in ExprHandle, SetStep(h, p, n),
         n # None => NotAbove(n, p) \/ getParent(n) = p
  PROVE  Ownership'
<1>1. Pointers /\ Rooted
  BY DEF Ownership, Pointers
<1>2. Pointers'
  BY <1>1, SetPointers
<1>3. Rooted'
  BY <1>1, SetRooted
<1> QED
  BY <1>2, <1>3 DEF Ownership, Pointers

\* Every operation keeps the invariant.
LEMMA NextPreserves == Ownership /\ [Next]_vars => Ownership'
<1> SUFFICES ASSUME Ownership, [Next]_vars PROVE Ownership'
  OBVIOUS
<1> USE AddressAssumption
<1>0. TypeOK /\ HandleOwnsRef /\ OwnerNeverDangles /\ HolderAlive
  BY DEF Ownership
<1>1. ASSUME NEW n \in Node, New(n) PROVE Ownership'
  BY <1>1 DEF New, Ownership, TypeOK, DeadIsNull, HandleOwnsRef,
              OwnerNeverDangles, HolderAlive, Rooted, getParent
<1>2. ASSUME NEW h \in Handle, NEW p \in Node \union {None},
             NEW n \in Node \union {None}, Construct(h, p, n)
      PROVE  Ownership'
  <2>1. SetStep(h, p, n)
    BY <1>2 DEF Construct, SetStep
  <2>2. /\ p \in alive \union {None} /\ n \in alive \union {None}
        /\ n # None => Fits(h, n) /\ NotAbove(n, p)
        /\ p \in Expr => h \in ExprHandle
    BY <1>2 DEF Construct
  <2> QED
    BY <2>1, <2>2, SetPreserves
<1>3. ASSUME NEW h \in Handle, NEW n \in Node \union {None}, SetReference(h, n)
      PROVE  Ownership'
  <2>1. SetStep(h, parent[h], n)
    BY <1>0, <1>3 DEF SetReference, SetStep, TypeOK
  <2>2. /\ parent[h] \in alive \union {None} /\ n \in alive \union {None}
        /\ n # None => Fits(h, n) /\ NotAbove(n, parent[h])
        /\ parent[h] \in Expr => h \in ExprHandle
    BY <1>0, <1>3 DEF SetReference, TypeOK, HolderAlive, Handle
  <2> QED
    BY <2>1, <2>2, SetPreserves
<1>4. ASSUME NEW h \in Handle, NEW g \in Handle, Move(h, g) PROVE Ownership'
  <2>1. SetStep(h, parent[g], ref[g])
    BY <1>4 DEF Move, SetStep
  <2>2. /\ parent[g] \in alive \union {None} /\ ref[g] \in alive \union {None}
        /\ ref[g] # None => Fits(h, ref[g]) /\ getParent(ref[g]) = parent[g]
        /\ parent[g] \in Expr => h \in ExprHandle
    BY <1>0, <1>4 DEF Move, TypeOK, HolderAlive, HandleOwnsRef, Handle, Fits, getParent
  <2> QED
    BY <2>1, <2>2, SetPreserves
<1>5. ASSUME NEW h \in Handle, DestroyHandle(h) PROVE Ownership'
  BY <1>5, DestroyHandlePreserves
<1>6. ASSUME NEW e \in Node, NEW o \in Node, ReplaceUseWith(e, o)
      PROVE  Ownership'
  BY <1>6, ReplaceUseWithPreserves
<1>7. ASSUME NEW s \in Stmt, RemoveStmt(s) PROVE Ownership'
  <2> DEFINE E == {h \in Body(getParent(s)) : ref[h] \in {s, None}}
             o == [owner EXCEPT ![s] = None]
  <2>1. Release(E, {}, ref, o) /\ E \in SUBSET slots
    BY <1>7 DEF RemoveStmt, Body
  <2>2. s \in alive /\ owner[s] \in E
    BY <1>0, <1>7
       DEF RemoveStmt, Body, getParent, OwnerNeverDangles, TypeOK, Fits, Handle
  <2>3. /\ o \in [Node -> Handle \union {None}]
        /\ \A n \in Node : o[n] = IF owner[n] \in E THEN None ELSE owner[n]
    BY <1>0, <2>2 DEF TypeOK, OwnerNeverDangles, Ownership, DeadIsNull
  <2> HIDE DEF E, o
  <2> QED
    BY <2>1, <2>3, DetachPreserves
<1>8. ASSUME NEW p \in Stmt, Clear(p) PROVE Ownership'
  <2> DEFINE o == [n \in Node |-> IF owner[n] \in Body(p) THEN None ELSE owner[n]]
  <2>1. Release(Body(p), {}, ref, o) /\ Body(p) \in SUBSET slots
    BY <1>8 DEF Clear, Body
  <2>2. /\ o \in [Node -> Handle \union {None}]
        /\ \A n \in Node : o[n] = IF owner[n] \in Body(p) THEN None ELSE owner[n]
    BY <1>0 DEF TypeOK
  <2> HIDE DEF o
  <2> QED
    BY <2>1, <2>2, DetachPreserves
<1>9. ASSUME NEW p \in Stmt, NEW q \in Stmt, TakeContent(p, q) PROVE Ownership'
  BY <1>9, TakeContentPreserves
<1>10. ASSUME NEW L \in Stmt, Hoist(L) PROVE Ownership'
  BY <1>10, HoistPreserves
<1>11. CASE UNCHANGED vars
  BY <1>11 DEF vars, Ownership, TypeOK, DeadIsNull, HandleOwnsRef,
               OwnerNeverDangles, HolderAlive, Rooted, getParent
<1> QED
  BY <1>1, <1>2, <1>3, <1>4, <1>5, <1>6, <1>7, <1>8, <1>9, <1>10, <1>11 DEF Next

\* Without nodes and handles there is nothing to agree.
LEMMA InitOwnership == Init => Ownership
  BY AddressAssumption
     DEF Init, Ownership, TypeOK, DeadIsNull, HandleOwnsRef, OwnerNeverDangles,
         HolderAlive, Rooted, getParent, Fits

\* After every sequence of tree operations the two pointers of every edge
\* agree, nothing points to a deleted object, and the nodes form a forest.
THEOREM OwnershipHolds == Spec => []Ownership
<1>1. Init => Ownership
  BY InitOwnership
<1>2. Ownership /\ [Next]_vars => Ownership'
  BY NextPreserves
<1> QED
  BY <1>1, <1>2, PTL DEF Spec

\* The types of the pointers are kept: no handle holds a node of the other kind.
THEOREM TypeCorrect == Spec => []TypeOK
<1>1. Ownership => TypeOK
  BY DEF Ownership
<1> QED
  BY <1>1, OwnershipHolds, PTL

\* The assertion of ASTHandle::verify never fires.
THEOREM VerifyNeverFails == Spec => []HandleOwnsRef
<1>1. Ownership => HandleOwnsRef
  BY DEF Ownership
<1> QED
  BY <1>1, OwnershipHolds, PTL

\* The handle that a node remembers exists and holds the node: getParent,
\* replaceUseWith and hoist follow the pointer without a check.
THEOREM OwnersNeverDangle == Spec => []OwnerNeverDangles
<1>1. Ownership => OwnerNeverDangles
  BY DEF Ownership
<1> QED
  BY <1>1, OwnershipHolds, PTL

\* A handle inside a node is destroyed with the node: the getParent() chain
\* stays among nodes that were not deleted.
THEOREM HoldersAlive == Spec => []HolderAlive
<1>1. Ownership => HolderAlive
  BY DEF Ownership
<1> QED
  BY <1>1, OwnershipHolds, PTL

\* Walking up getParent() from any node ends at a root.
THEOREM NoCycles == Spec => []Rooted
<1>1. Ownership => Rooted
  BY DEF Ownership
<1> QED
  BY <1>1, OwnershipHolds, PTL
=============================================================================
