-------------------------- MODULE UseDef_refinement --------------------------
(***************************************************************************)
(* Proofs that the handles of UseDef implement the trees of Forest, for    *)
(* any number of nodes and handles: each operation on handles is one       *)
(* operation on whole trees or none, and deletes nothing that hangs below  *)
(* a node that survives.                                                   *)
(***************************************************************************)
EXTENDS UseDef_proofs

ForestStep == F!Next \/ UNCHANGED <<alive, Up>>

\* A step of the forest, or none, in the terms of the specification Forest.
LEMMA ForestStepIsStep == ForestStep => [F!Next]_(F!vars)
  BY DEF ForestStep, F!vars, Up

-----------------------------------------------------------------------------
(* Trees of nodes and trees of handles.                                    *)

\* What hangs below n along the slots is the tree of n by the parent function f,
\* when the slots r and the back pointers o agree.
LEMMA SubtreeIsTree ==
  ASSUME Pointers, NEW n \in Node,
         NEW r \in [Handle -> Node \union {None}],
         NEW o \in [Node -> Handle \union {None}], NEW f,
         \A h \in slots : r[h] # None => o[r[h]] = h,
         \A m \in Node : o[m] # None => o[m] \in slots /\ r[o[m]] = m,
         \A m \in Node : f[m] = IF o[m] = None THEN None ELSE parent[o[m]]
  PROVE  Subtree(r, n) = F!Tree(f, n)
<1> USE AddressAssumption
<1>1. ASSUME NEW S \in SUBSET Node PROVE ChildClosed(r, S) <=> F!DownClosed(f, S)
  <2>1. ASSUME ChildClosed(r, S), NEW m \in Node, f[m] \in S PROVE m \in S
    BY <2>1 DEF ChildClosed
  <2>2. ASSUME F!DownClosed(f, S), NEW h \in slots, parent[h] \in S, r[h] # None
        PROVE  r[h] \in S
    BY <2>2 DEF F!DownClosed, Pointers, TypeOK
  <2> QED
    BY <2>1, <2>2 DEF ChildClosed, F!DownClosed
<1> QED
  BY <1>1 DEF Subtree, F!Tree

\* What the callers of an operation provide is what Forest asks for.
LEMMA NotAboveIsOutside ==
  ASSUME NEW n \in Node, NEW p \in Node \union {None}, NotAbove(n, p)
  PROVE  p \notin F!Tree(Up, n)
<1> USE AddressAssumption
<1>1. CASE p = None
  BY <1>1 DEF F!Tree
<1>2. CASE p # None
  <2>1. PICK A \in SUBSET Node : p \in A /\ n \notin A /\ ParentClosed(A)
    BY <1>2 DEF NotAbove
  <2> DEFINE S == Node \ A
  <2>2. n \in S /\ S \in SUBSET Node /\ p \notin S
    BY <2>1
  <2>3. F!DownClosed(Up, S)
    BY <2>1 DEF F!DownClosed, ParentClosed, Up
  <2> HIDE DEF S
  <2> QED
    BY <2>2, <2>3 DEF F!Tree
<1> QED
  BY <1>1, <1>2

-----------------------------------------------------------------------------
(* Construct, SetReference and Move: n goes to p, and the node that the     *)
(* handle held becomes a root.                                             *)

\* What one write of a handle changes in getParent(): n is below p now, and the node
\* that the handle held is a root.
LEMMA SetParentsExactly ==
  ASSUME Pointers, NEW h \in Handle, NEW p \in alive \union {None},
         NEW n \in alive \union {None}, SetStep(h, p, n),
         h \in slots => parent[h] = p
  PROVE  /\ Up' = [m \in Node |-> IF m = n THEN p
                                  ELSE IF m = ref[h] THEN None ELSE Up[m]]
         /\ ref[h] # None => ref[h] \in alive /\ Up[ref[h]] = p
  BY AddressAssumption
     DEF Pointers, SetStep, TypeOK, HandleOwnsRef, OwnerNeverDangles, DeadIsNull,
         OwnerAfterSet, Up, getParent

\* So it plants, grafts or cuts off one tree.
LEMMA SetStepIsForestStep ==
  ASSUME Pointers, NEW h \in Handle, NEW p \in alive \union {None},
         NEW n \in alive \union {None}, SetStep(h, p, n),
         h \in slots => parent[h] = p,
         n # None => NotAbove(n, p) \/ getParent(n) = p
  PROVE  ForestStep
<1> USE AddressAssumption
<1> DEFINE m == ref[h]
<1>1. /\ Up' = [x \in Node |-> IF x = n THEN p ELSE IF x = m THEN None ELSE Up[x]]
      /\ m # None => m \in alive /\ Up[m] = p
  BY SetParentsExactly
<1>2. /\ alive' = alive /\ alive \subseteq Node
      /\ \A x \in Node : n = x => Up[x] = getParent(n)
  BY DEF SetStep, Pointers, TypeOK, Up
<1>3. Up = [x \in Node |-> Up[x]] /\ None \notin Node
  BY DEF Up
<1> HIDE DEF m
<1>4. CASE n = None \/ getParent(n) = p
  <2>1. CASE m = None \/ m = n \/ p = None
    <3>1. \A x \in Node : Up'[x] = Up[x]
      BY <1>1, <1>2, <1>3, <1>4, <2>1
    <3>2. Up' = Up
      BY <1>1, <1>3, <3>1
    <3> QED
      BY <1>2, <3>2 DEF ForestStep
  <2>2. CASE m # None /\ m # n /\ p # None
    <3>1. Up' = [x \in Node |-> IF x \in {m} THEN None ELSE Up[x]]
      BY <1>1, <1>2, <1>3, <1>4, <2>2
    <3>2. p \in Node /\ {m} \in SUBSET F!Children(p)
      BY <1>1, <1>2, <2>2 DEF F!Children, Up
    <3>3. F!CutOff(p, {m})
      BY <1>2, <2>2, <3>1, <3>2 DEF F!CutOff, F!Given, Up
    <3> QED
      BY <3>2, <3>3 DEF ForestStep, F!Next
  <2> QED
    BY <2>1, <2>2
<1>5. CASE n # None /\ NotAbove(n, p)
  <2>1. n \in Node /\ p \in Node \union {None} /\ p \notin F!Tree(Up, n)
    BY <1>2, <1>5, NotAboveIsOutside
  <2>2. CASE m = None \/ m = n
    <3>1. Up' = [x \in Node |-> IF x \in {n} THEN p ELSE Up[x]]
      BY <1>1, <1>3, <2>2
    <3>2. F!Graft(n, p)
      BY <1>2, <1>5, <2>1, <3>1 DEF F!Graft, F!Given, Up
    <3> QED
      BY <2>1, <3>2 DEF ForestStep, F!Next
  <2>3. CASE m # None /\ m # n
    <3>1. Up' = [[x \in Node |-> IF x \in {n} THEN p ELSE Up[x]] EXCEPT ![m] = None]
      BY <1>1, <1>2, <2>3
    <3>2. F!GraftInPlace(n, p, m) /\ m \in Node
      BY <1>1, <1>2, <1>5, <2>1, <2>3, <3>1 DEF F!GraftInPlace, F!Given, Up
    <3> QED
      BY <2>1, <3>2 DEF ForestStep, F!Next
  <2> QED
    BY <2>2, <2>3
<1> QED
  BY <1>4, <1>5

-----------------------------------------------------------------------------
(* DestroyHandle and ReplaceUseWith: a tree is deleted.                    *)

\* A handle outside of the tree is destroyed with the tree of its node.
LEMMA DestroyHandleIsForestStep ==
  ASSUME Ownership, NEW h \in Handle, DestroyHandle(h)
  PROVE  /\ ForestStep
         /\ \A m \in alive \ alive' : getParent(m) = None \/ getParent(m) \notin alive'
<1> USE AddressAssumption
<1> DEFINE n == ref[h]
           D == IF n = None THEN {} ELSE Subtree(ref, n)
           o == [m \in Node |-> IF m = n THEN None ELSE owner[m]]
<1>0. Pointers /\ Injective(ref)
  BY DEF Ownership, Pointers, HandleOwnsRef, Injective
<1>1. /\ Release({h}, D, ref, o)
      /\ h \in slots /\ parent[h] = None
  BY DEF DestroyHandle
<1>2. \A m \in Node : owner[m] # None =>
         m \in alive /\ owner[m] \in slots /\ ref[owner[m]] = m
  BY <1>0 DEF Pointers, OwnerNeverDangles, DeadIsNull
<1>3. CASE n = None
  <2>1. alive' = alive /\ \A m \in Node : Up'[m] = Up[m]
    BY <1>0, <1>1, <1>2, <1>3 DEF Release, Up, getParent, Pointers, TypeOK
  <2>2. Up' = Up
    BY <2>1 DEF Up
  <2> QED
    BY <2>1, <2>2 DEF ForestStep
<1>4. CASE n # None
  <2>1. n \in alive /\ n \in Node /\ owner[n] = h /\ Up[n] = None
    BY <1>0, <1>1, <1>4 DEF Pointers, HandleOwnsRef, TypeOK, Up, getParent
  <2>2. D = Subtree(ref, n)
    BY <1>4
  <2>3. /\ n \in D /\ D \in SUBSET Node
        /\ ChildClosed(ref, D)
        /\ \A g \in slots : ref[g] \in D /\ ref[g] # n => parent[g] \in D
    BY <1>0, <2>1, <2>2, SubtreeShape DEF Pointers, TypeOK
  <2>4. D = F!Tree(Up, n)
    <3>1. /\ \A g \in slots : ref[g] # None => owner[ref[g]] = g
          /\ \A m \in Node : Up[m] = IF owner[m] = None THEN None ELSE parent[owner[m]]
          /\ ref \in [Handle -> Node \union {None}]
          /\ owner \in [Node -> Handle \union {None}]
      BY <1>0 DEF Pointers, HandleOwnsRef, TypeOK, Up, getParent
    <3> QED
      BY <1>0, <1>2, <2>1, <2>2, <3>1, SubtreeIsTree
  <2> HIDE DEF D
  <2>5. alive' = alive \ D
    BY <1>1 DEF Release
  <2>6. \A m \in Node : Up'[m] = IF m \in alive' THEN Up[m] ELSE None
    <3> SUFFICES ASSUME NEW m \in Node
                 PROVE  Up'[m] = IF m \in alive' THEN Up[m] ELSE None
      OBVIOUS
    <3>1. CASE m \notin alive
      BY <1>0, <1>1, <1>2, <2>5, <3>1 DEF Release, Up, getParent, Pointers, TypeOK
    <3>2. CASE m \in D
      BY <1>1, <2>5, <3>2 DEF Release, Up, getParent
    <3>3. CASE m \in alive /\ m \notin D
      BY <1>0, <1>1, <1>2, <2>1, <2>3, <2>5, <3>3
         DEF Release, Up, getParent, Pointers, TypeOK, ChildClosed
    <3> QED
      BY <3>1, <3>2, <3>3
  <2>7. Up' = [m \in Node |-> IF m \in alive' THEN Up[m] ELSE None]
    BY <2>6 DEF Up
  <2>8. F!Fell(n)
    BY <2>1, <2>3, <2>4, <2>5, <2>7 DEF F!Fell, F!Delete, Up
  <2>9. ASSUME NEW m \in alive \ alive'
        PROVE  getParent(m) = None \/ getParent(m) \notin alive'
    BY <1>0, <1>2, <2>1, <2>3, <2>5, <2>9 DEF Up, getParent, Pointers, TypeOK
  <2> QED
    BY <2>1, <2>8, <2>9 DEF ForestStep, F!Next
<1> QED
  BY <1>3, <1>4

\* o takes the place of e, and e is deleted with its tree, to which o, also when
\* it came from there, does not belong any more.
LEMMA ReplaceUseWithIsForestStep ==
  ASSUME Ownership, NEW e \in Node, NEW n \in Node, ReplaceUseWith(e, n)
  PROVE  /\ ForestStep
         /\ n \in alive'
         /\ \A m \in alive \ alive' : m # e => getParent(m) \notin alive'
<1> USE AddressAssumption
<1> DEFINE h == owner[e]
           p == getParent(e)
           r == RefAfterSet(h, n)
           o == OwnerAfterSet(h, n)
           D == Subtree(r, e)
           f == [[m \in Node |-> IF m \in {n} THEN Up[e] ELSE Up[m]] EXCEPT ![e] = None]
<1>0. Pointers
  BY DEF Ownership, Pointers
<1>1. /\ e \in alive /\ n \in alive /\ e # n
      /\ h \in slots /\ h \in Handle /\ ref[h] = e
      /\ NotAbove(n, p) /\ p \in Node \union {None}
      /\ Release({}, D, r, o)
  BY <1>0 DEF ReplaceUseWith, Pointers, OwnerNeverDangles, TypeOK, getParent
<1>2. /\ r \in [Handle -> Node \union {None}]
      /\ o \in [Node -> Handle \union {None}]
      /\ \A g \in slots : r[g] # None => r[g] \in alive /\ o[r[g]] = g
      /\ \A m \in Node : o[m] # None => o[m] \in slots /\ r[o[m]] = m
  BY <1>0, <1>1
     DEF Pointers, TypeOK, DeadIsNull, HandleOwnsRef, OwnerNeverDangles,
         RefAfterSet, OwnerAfterSet
<1>3. /\ \A m \in Node : f[m] = IF o[m] = None THEN None ELSE parent[o[m]]
      /\ \A m \in Node : m # e /\ m # n => f[m] = Up[m] /\ o[m] = owner[m]
      /\ f[n] = p /\ Up[e] = p
  BY <1>0, <1>1
     DEF Pointers, TypeOK, HandleOwnsRef, OwnerNeverDangles, DeadIsNull,
         OwnerAfterSet, getParent, Up
<1> HIDE DEF r, o, h, f
<1>4. Injective(r)
  BY <1>2 DEF Injective
<1>5. /\ D \in SUBSET Node /\ e \in D
      /\ ChildClosed(r, D)
      /\ \A g \in slots : r[g] \in D /\ r[g] # e => parent[g] \in D
  BY <1>0, <1>2, <1>4, SubtreeShape DEF Pointers, TypeOK
<1>6. D = F!Tree(f, e)
  BY <1>0, <1>2, <1>3, SubtreeIsTree
<1> HIDE DEF D
<1>7. \A m \in D : m # e => o[m] # None
  <2> SUFFICES ASSUME NEW m \in D, m # e, o[m] = None PROVE FALSE
    OBVIOUS
  <2> DEFINE S == D \ {m}
  <2>1. e \in S /\ S \in SUBSET Node /\ m \notin S
    BY <1>5
  <2>2. ChildClosed(r, S)
    BY <1>0, <1>2, <1>5 DEF ChildClosed, Pointers, TypeOK
  <2> HIDE DEF S
  <2>3. m \in S
    BY <2>1, <2>2 DEF D, Subtree
  <2> QED
    BY <2>1, <2>3
<1>8. ASSUME NEW m \in D, m # e, m # n PROVE getParent(m) \in D
  <2>1. owner[m] = o[m] /\ o[m] # None
    BY <1>3, <1>5, <1>7, <1>8
  <2> QED
    BY <1>2, <1>5, <1>8, <2>1 DEF getParent
<1>9. p \notin D
  <2> SUFFICES ASSUME p \in D PROVE FALSE
    OBVIOUS
  <2>1. PICK A \in SUBSET Node : p \in A /\ n \notin A /\ ParentClosed(A)
    BY <1>1, <1>5 DEF NotAbove
  <2> DEFINE S == D \intersect A
  <2>2. p \in S /\ S \in SUBSET Node
    BY <1>5, <2>1
  <2>3. ASSUME NEW m \in S PROVE getParent(m) \in S
    <3>1. m \in D /\ m \in A /\ m # n
      BY <2>1
    <3>2. CASE m = e
      BY <2>2, <3>2
    <3>3. CASE m # e
      <4>1. getParent(m) \in D
        BY <1>8, <3>1, <3>3
      <4> QED
        BY <1>5, <2>1, <3>1, <4>1 DEF ParentClosed
    <3> QED
      BY <3>2, <3>3
  <2> HIDE DEF S
  <2> QED
    BY <2>2, <2>3 DEF Ownership, Rooted
<1>10. n \notin D
  <2>1. o[n] # None => o[n] = h
    BY <1>2 DEF o, OwnerAfterSet
  <2>2. parent[h] = p
    BY <1>1 DEF h, getParent
  <2> QED
    BY <1>1, <1>2, <1>5, <1>7, <1>9, <2>1, <2>2
<1>11. /\ alive' = alive \ D
       /\ \A m \in Node : Up'[m] = IF m \in alive' THEN f[m] ELSE None
  <2>1. alive' = alive \ D
    BY <1>1 DEF Release
  <2>2. ASSUME NEW m \in Node PROVE Up'[m] = IF m \in alive' THEN f[m] ELSE None
    <3>1. CASE m \notin alive
      BY <1>0, <1>1, <1>2, <2>1, <3>1 DEF Release, Up, getParent, Pointers, TypeOK
    <3>2. CASE m \in D
      BY <1>1, <2>1, <3>2 DEF Release, Up, getParent
    <3>3. CASE m \in alive /\ m \notin D
      BY <1>0, <1>1, <1>2, <1>3, <1>5, <2>1, <3>3
         DEF Release, Up, getParent, Pointers, TypeOK, ChildClosed
    <3> QED
      BY <3>1, <3>2, <3>3
  <2> QED
    BY <2>1, <2>2
<1>12. F!Replace(e, n)
  <2>1. Up' = [m \in Node |-> IF m \in alive' THEN f[m] ELSE None]
    BY <1>11 DEF Up
  <2>2. e \notin alive' /\ n \in alive'
    BY <1>1, <1>5, <1>10, <1>11
  <2>3. Up[e] \notin F!Tree(Up, n)
    BY <1>1, <1>3, NotAboveIsOutside
  <2> QED
    BY <1>1, <1>6, <1>11, <2>1, <2>2, <2>3 DEF F!Replace, F!Delete, F!Given, f, Up
<1>13. ASSUME NEW m \in alive \ alive', m # e PROVE getParent(m) \notin alive'
  <2>1. m \in D /\ m # n
    BY <1>10, <1>11, <1>13
  <2> QED
    BY <1>0, <1>8, <1>11, <1>13, <2>1 DEF Pointers, TypeOK
<1> QED
  BY <1>1, <1>10, <1>11, <1>12, <1>13 DEF ForestStep, F!Next

-----------------------------------------------------------------------------
(* RemoveStmt, Clear, TakeContent and Hoist.                               *)

\* The handles E of the body of p die: the nodes they held become roots.
LEMMA DetachIsForestStep ==
  ASSUME Ownership, NEW p \in alive, NEW E \in SUBSET Body(p),
         NEW o \in [Node -> Handle \union {None}],
         \A n \in Node : o[n] = IF owner[n] \in E THEN None ELSE owner[n],
         Release(E, {}, ref, o)
  PROVE  ForestStep /\ alive' = alive
<1> USE AddressAssumption
<1> DEFINE S == {n \in Node : owner[n] \in E}
<1>0. Pointers /\ p \in Node
  BY DEF Ownership, Pointers, TypeOK
<1>1. alive' = alive
  BY DEF Release
<1>2. E \in SUBSET slots /\ \A h \in E : parent[h] = p /\ h \in Handle
  BY <1>0 DEF Body, Pointers, TypeOK
<1>3. S \in SUBSET F!Children(p)
  BY <1>0, <1>2 DEF F!Children, Up, getParent
<1>4. \A n \in Node : Up'[n] = IF n \in S THEN None ELSE Up[n]
  BY <1>0, <1>2 DEF Release, Up, getParent, Pointers, TypeOK
<1> HIDE DEF S
<1>5. Up' = [n \in Node |-> IF n \in S THEN None ELSE Up[n]]
  BY <1>4 DEF Up
<1>6. F!CutOff(p, S)
  BY <1>1, <1>3, <1>5 DEF F!CutOff, F!Given, Up
<1> QED
  BY <1>0, <1>1, <1>3, <1>6 DEF ForestStep, F!Next

\* takeContent grafts the trees in a scope below another one.
LEMMA TakeContentIsForestStep ==
  ASSUME Ownership, NEW p \in Stmt, NEW q \in Stmt, TakeContent(p, q)
  PROVE  ForestStep
<1> USE AddressAssumption DEF TakeContent
<1> DEFINE S == {n \in Node : owner[n] \in Body(q)}
<1>0. /\ Pointers
      /\ p \in Node /\ q \in Node
      /\ p \in alive /\ q \in alive /\ alive' = alive
  BY DEF Ownership, Pointers, Node
<1>1. S \in SUBSET F!Children(q)
  BY <1>0 DEF F!Children, Up, getParent, Body, Pointers, TypeOK
<1>2. \A n \in Node : Up'[n] = IF n \in S THEN p ELSE Up[n]
  BY <1>0 DEF Up, getParent, Body, Pointers, TypeOK
<1>3. p \notin F!Tree(Up, q)
  BY <1>0, NotAboveIsOutside
<1> HIDE DEF S
<1>4. Up' = [n \in Node |-> IF n \in S THEN p ELSE Up[n]]
  BY <1>2 DEF Up
<1>5. F!Adopt(p, q, S)
  BY <1>0, <1>1, <1>3, <1>4 DEF F!Adopt, F!Given, Up
<1> QED
  BY <1>0, <1>1, <1>5 DEF ForestStep, F!Next

\* hoist exchanges a node with its parent and takes no other tree along.
LEMMA HoistIsForestStep ==
  ASSUME Ownership, NEW L \in Stmt, Hoist(L)
  PROVE  ForestStep
<1> USE AddressAssumption
<1> DEFINE p == getParent(L)
           PH == owner[p]
           hL == owner[L]
           S == {n \in Node : owner[n] \in Body(L)}
<1>0. Pointers
  BY DEF Ownership, Pointers
<1>1. /\ L \in alive /\ L \in Node
      /\ hL \in slots /\ ref[hL] = L /\ parent[hL] = p /\ hL \in Handle
      /\ p \in alive /\ p \in Node /\ p # None
      /\ PH \in slots /\ ref[PH] = p /\ PH \in Handle
  BY <1>0 DEF Hoist, Pointers, TypeOK, OwnerNeverDangles, HolderAlive, getParent, Node
<1>2. p # L
  <2>1. {L} \in SUBSET Node /\ {L} # {}
    BY <1>1
  <2> QED
    BY <2>1 DEF Ownership, Rooted
<1>3. /\ parent' = [h \in Handle |-> IF h = hL THEN L
                                    ELSE IF h \in Body(L) THEN p ELSE parent[h]]
      /\ owner' = [owner EXCEPT ![p] = hL, ![L] = PH]
      /\ alive' = alive
      /\ Body(p) = {hL}
  BY DEF Hoist
<1>4. PH # hL /\ PH \notin Body(L) /\ hL \notin Body(L)
  <2>1. PH # hL /\ hL \notin Body(L)
    BY <1>1, <1>2 DEF Body
  <2>2. ASSUME PH \in Body(L) PROVE FALSE
    <3>1. getParent(p) = L
      BY <1>0, <1>1, <2>2 DEF getParent, Body, Pointers, TypeOK
    <3>2. {p, L} \in SUBSET Node /\ {p, L} # {}
      BY <1>1
    <3> QED
      BY <3>1, <3>2 DEF Ownership, Rooted
  <2> QED
    BY <2>1, <2>2
<1> HIDE DEF p, PH, hL
<1>5. Up[L] = p /\ Up[p] = parent[PH]
  BY <1>0, <1>1 DEF Up, p, PH, getParent
<1>6. S \in SUBSET F!Children(L) /\ p \notin S /\ L \notin S
  <2>1. S \in SUBSET F!Children(L)
    BY <1>0, <1>1 DEF F!Children, Up, getParent, Body, Pointers, TypeOK
  <2> QED
    BY <1>4, <2>1 DEF PH, hL
<1>7. ASSUME NEW m \in Node
      PROVE  Up'[m] = IF m = L THEN Up[p] ELSE IF m = p THEN L
                      ELSE IF m \in S THEN p ELSE Up[m]
  <2>1. CASE m = L \/ m = p
    BY <1>0, <1>1, <1>2, <1>3, <1>4, <1>5, <2>1 DEF Up, getParent, Pointers, TypeOK
  <2>2. CASE m # L /\ m # p
    <3>1. owner'[m] = owner[m] /\ owner[m] \in Handle \union {None}
      BY <1>0, <1>3, <2>2 DEF Pointers, TypeOK
    <3>2. owner[m] # hL
      BY <1>0, <1>1, <2>2 DEF Pointers, OwnerNeverDangles, DeadIsNull
    <3> QED
      BY <1>0, <1>3, <2>2, <3>1, <3>2 DEF Up, getParent, Body, Pointers, TypeOK
  <2> QED
    BY <2>1, <2>2
<1> HIDE DEF S
<1>8. Up' = [m \in Node |-> IF m = L THEN Up[Up[L]] ELSE IF m = Up[L] THEN L
                            ELSE IF m \in S THEN Up[L] ELSE Up[m]]
  BY <1>5, <1>7 DEF Up
<1>9. F!Exchange(L, S)
  BY <1>1, <1>3, <1>5, <1>6, <1>8 DEF F!Exchange, Up
<1> QED
  BY <1>1, <1>6, <1>9 DEF ForestStep, F!Next

-----------------------------------------------------------------------------
(* The theorems.                                                           *)

\* What a step may delete.
SparesSurvivors ==
  \A n \in alive \ alive' :
     \/ getParent(n) = None \/ getParent(n) \notin alive'
     \/ \E o \in alive' : ReplaceUseWith(n, o)

\* Every operation on handles is an operation on whole trees.
LEMMA NextIsForestStep ==
  Ownership /\ [Next]_vars => ForestStep /\ SparesSurvivors
<1> SUFFICES ASSUME Ownership, [Next]_vars PROVE ForestStep /\ SparesSurvivors
  OBVIOUS
<1> USE AddressAssumption
<1>0. Pointers /\ TypeOK /\ HandleOwnsRef /\ OwnerNeverDangles /\ HolderAlive
  BY DEF Ownership, Pointers
<1>1. ASSUME alive \subseteq alive' PROVE SparesSurvivors
  BY <1>1 DEF SparesSurvivors
<1>2. ASSUME NEW n \in Node, New(n) PROVE ForestStep /\ SparesSurvivors
  <2>1. F!Plant(n)
    BY <1>2 DEF New, F!Plant, getParent
  <2> QED
    BY <1>1, <1>2, <2>1 DEF New, ForestStep, F!Next
<1>3. ASSUME NEW h \in Handle, NEW p \in Node \union {None},
             NEW n \in Node \union {None}, Construct(h, p, n)
      PROVE  ForestStep /\ SparesSurvivors
  <2>1. /\ SetStep(h, p, n) /\ h \notin slots
        /\ p \in alive \union {None} /\ n \in alive \union {None}
        /\ n # None => NotAbove(n, p)
    BY <1>3 DEF Construct, SetStep
  <2> QED
    BY <1>0, <1>1, <2>1, SetStepIsForestStep DEF SetStep
<1>4. ASSUME NEW h \in Handle, NEW n \in Node \union {None}, SetReference(h, n)
      PROVE  ForestStep /\ SparesSurvivors
  <2>1. SetStep(h, parent[h], n)
    BY <1>0, <1>4 DEF SetReference, SetStep, TypeOK
  <2>2. /\ parent[h] \in alive \union {None} /\ n \in alive \union {None}
        /\ n # None => NotAbove(n, parent[h])
    BY <1>0, <1>4 DEF SetReference, HolderAlive
  <2> QED
    BY <1>0, <1>1, <2>1, <2>2, SetStepIsForestStep DEF SetStep
<1>5. ASSUME NEW h \in Handle, NEW g \in Handle, Move(h, g)
      PROVE  ForestStep /\ SparesSurvivors
  <2>1. SetStep(h, parent[g], ref[g])
    BY <1>5 DEF Move, SetStep
  <2>2. /\ parent[g] \in alive \union {None} /\ ref[g] \in alive \union {None}
        /\ ref[g] # None => getParent(ref[g]) = parent[g]
        /\ h \in slots => parent[h] = parent[g]
    BY <1>0, <1>5 DEF Move, HolderAlive, HandleOwnsRef, getParent
  <2> QED
    BY <1>0, <1>1, <2>1, <2>2, SetStepIsForestStep DEF SetStep
<1>6. ASSUME NEW h \in Handle, DestroyHandle(h) PROVE ForestStep /\ SparesSurvivors
  BY <1>6, DestroyHandleIsForestStep DEF SparesSurvivors
<1>7. ASSUME NEW e \in Node, NEW o \in Node, ReplaceUseWith(e, o)
      PROVE  ForestStep /\ SparesSurvivors
  <2>1. /\ ForestStep /\ o \in alive'
        /\ \A m \in alive \ alive' : m # e => getParent(m) \notin alive'
    BY <1>7, ReplaceUseWithIsForestStep
  <2> QED
    BY <1>7, <2>1 DEF SparesSurvivors
<1>8. ASSUME NEW s \in Stmt, RemoveStmt(s) PROVE ForestStep /\ SparesSurvivors
  <2> DEFINE E == {h \in Body(getParent(s)) : ref[h] \in {s, None}}
             o == [owner EXCEPT ![s] = None]
  <2>1. Release(E, {}, ref, o) /\ E \in SUBSET Body(getParent(s))
    BY <1>8 DEF RemoveStmt
  <2>2. s \in alive /\ owner[s] \in E /\ getParent(s) \in alive
    BY <1>0, <1>8
       DEF RemoveStmt, Body, getParent, OwnerNeverDangles, HolderAlive, TypeOK, Fits,
           Handle
  <2>3. /\ o \in [Node -> Handle \union {None}]
        /\ \A n \in Node : o[n] = IF owner[n] \in E THEN None ELSE owner[n]
    BY <1>0, <2>2 DEF TypeOK, OwnerNeverDangles, Ownership, DeadIsNull
  <2> HIDE DEF E, o
  <2> QED
    BY <1>1, <2>1, <2>2, <2>3, DetachIsForestStep
<1>9. ASSUME NEW p \in Stmt, Clear(p) PROVE ForestStep /\ SparesSurvivors
  <2> DEFINE o == [n \in Node |-> IF owner[n] \in Body(p) THEN None ELSE owner[n]]
  <2>1. Release(Body(p), {}, ref, o) /\ p \in alive
    BY <1>9 DEF Clear
  <2>2. /\ o \in [Node -> Handle \union {None}]
        /\ \A n \in Node : o[n] = IF owner[n] \in Body(p) THEN None ELSE owner[n]
    BY <1>0 DEF TypeOK
  <2> HIDE DEF o
  <2> QED
    BY <1>1, <2>1, <2>2, DetachIsForestStep
<1>10. ASSUME NEW p \in Stmt, NEW q \in Stmt, TakeContent(p, q)
       PROVE  ForestStep /\ SparesSurvivors
  BY <1>1, <1>10, TakeContentIsForestStep DEF TakeContent
<1>11. ASSUME NEW L \in Stmt, Hoist(L) PROVE ForestStep /\ SparesSurvivors
  BY <1>1, <1>11, HoistIsForestStep DEF Hoist
<1>12. CASE UNCHANGED vars
  BY <1>1, <1>12 DEF vars, ForestStep, Up, getParent
<1> QED
  BY <1>2, <1>3, <1>4, <1>5, <1>6, <1>7, <1>8, <1>9, <1>10, <1>11, <1>12 DEF Next

\* Every operation on handles is one operation on whole trees, or none: what a
\* rewrite of the program relies on when it moves, replaces and deletes nodes.
THEOREM HandlesImplementForest == Spec => ImplementsForest
<1>1. Init => F!Init
  BY DEF Init, F!Init, getParent
<1>2. Ownership /\ [Next]_vars => [F!Next]_(F!vars)
  BY NextIsForestStep, ForestStepIsStep
<1> QED
  BY <1>1, <1>2, OwnershipHolds, PTL DEF Spec, ImplementsForest, F!Spec

\* No operation deletes a node below one that survives, but the node that another
\* takes the place of: ~ASTHandle reaches only what the tree still owns.
THEOREM DeletionIsWhole == Spec => NoLiveChildDeleted
<1>1. Ownership /\ [Next]_vars => [SparesSurvivors]_vars
  BY NextIsForestStep
<1>2. [SparesSurvivors]_vars =>
        [\A n \in alive \ alive' :
           \/ getParent(n) = None \/ getParent(n) \notin alive'
           \/ \E o \in alive' : ReplaceUseWith(n, o)]_vars
  BY DEF SparesSurvivors
<1> QED
  BY <1>1, <1>2, OwnershipHolds, PTL DEF Spec, NoLiveChildDeleted
=============================================================================
