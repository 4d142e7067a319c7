------------------------------- MODULE UseDef -------------------------------
(***************************************************************************)
(* The ownership protocol of Bistra's syntax tree                          *)
(* (include/bistra/Program/UseDef.h and the Scope and Expr operations of   *)
(* lib/Program/Program.cpp).                                               *)
(*                                                                         *)
(* Every edge of the tree is an ASTHandle: a slot that lives inside its    *)
(* parent node and points to the child (ref_), while the child points back *)
(* to the slot (user_).  The two pointers are plain pointers that every    *)
(* rewrite of the program has to keep in agreement, and a dying slot       *)
(* deletes its child.  The order of the slots of a scope is not modelled   *)
(* here (module Transforms keeps it); which slot holds which node is.      *)
(*                                                                         *)
(* Definitions marked "Fault:" are the definition below them with one      *)
(* assignment or check left out.  They are not used by the specification:  *)
(* they show which mistake each property would notice.                     *)
(***************************************************************************)

CONSTANTS
  Stmt, Expr,              \* addresses of statements and of expressions
  StmtHandle, ExprHandle,  \* addresses of ASTHandle objects, of each kind
  None                     \* the null pointer

Node == Stmt \union Expr
Handle == StmtHandle \union ExprHandle

ASSUME AddressAssumption ==
  /\ None \notin Node /\ None \notin Handle
  /\ Stmt \intersect Expr = {}
  /\ StmtHandle \intersect ExprHandle = {}

\* A StmtHandle holds statements, an ExprHandle expressions.
Fits(h, n) == h \in StmtHandle <=> n \in Stmt

VARIABLES
  alive,   \* the nodes that were allocated and not deleted yet
  slots,   \* the handles that were constructed and not destroyed yet
  parent,  \* ASTHandle::parent_
  ref,     \* ASTHandle::ref_
  owner    \* Expr::user_, Stmt::user_

vars == <<alive, slots, parent, ref, owner>>

TypeOK ==
  /\ alive \in SUBSET Node
  /\ slots \in SUBSET Handle
  /\ parent \in [Handle -> Node \union {None}]
  /\ ref \in [Handle -> Node \union {None}]
  /\ owner \in [Node -> Handle \union {None}]
  /\ \A h \in slots : ref[h] # None => Fits(h, ref[h])
  /\ \A h \in slots \intersect StmtHandle : parent[h] \notin Expr

-----------------------------------------------------------------------------
(* Reading the tree.                                                       *)

\* Expr::getParent, Stmt::getParent: the node that holds n's handle, or null.
getParent(n) == IF owner[n] = None THEN None ELSE parent[owner[n]]

\* The handles that the vector Scope::body_ of p contains.
Body(p) == {h \in slots \intersect StmtHandle : parent[h] = p}

\* S contains the parents of its members.
ParentClosed(S) == \A n \in S : getParent(n) = None \/ getParent(n) \in S

\* n is neither p nor an ancestor of p.  No operation checks this; it is what
\* all of the callers provide: they attach a new or detached node, a node from
\* below the slot, or a node of another branch.
NotAbove(n, p) ==
  p = None \/ \E S \in SUBSET Node : p \in S /\ n \notin S /\ ParentClosed(S)

\* S contains the children of its members when the slots point to r.
ChildClosed(r, S) ==
  \A h \in slots : parent[h] \in S /\ r[h] # None => r[h] \in S

\* Fault: deletes along the pointers from before the operation.
SubtreeBefore(r, n) ==
  {m \in Node : \A S \in SUBSET Node : n \in S /\ ChildClosed(ref, S) => m \in S}

\* n and what hangs below it when the slots point to r: all that "delete n"
\* deletes, one ~ASTHandle inside the other.
Subtree(r, n) ==
  {m \in Node : \A S \in SUBSET Node : n \in S /\ ChildClosed(r, S) => m \in S}

-----------------------------------------------------------------------------
(* ASTHandle::setReference: the old child forgets the handle, the handle   *)
(* that held n so far becomes empty, n remembers h.                        *)

\* Fault: the handle that held n keeps pointing to it.
RefAfterSetShared(h, n) == [ref EXCEPT ![h] = n]

RefAfterSet(h, n) ==
  [g \in Handle |-> IF g = h THEN n
                    ELSE IF n # None /\ g = owner[n] THEN None
                    ELSE ref[g]]

\* Fault: the previous child keeps pointing to the handle.
OwnerAfterSetStale(h, n) == [m \in Node |-> IF m = n THEN h ELSE owner[m]]

OwnerAfterSet(h, n) ==
  [m \in Node |-> IF m = n THEN h
                  ELSE IF m = ref[h] THEN None
                  ELSE owner[m]]

\* Fault: the handles inside the deleted nodes are not destroyed.
ReleaseOuterOnly(E, D, r, o) ==
  /\ alive' = alive \ D
  /\ slots' = slots \ E
  /\ parent' = [h \in Handle |-> IF h \in E THEN None ELSE parent[h]]
  /\ ref' = [h \in Handle |-> IF h \in E THEN None ELSE r[h]]
  /\ owner' = [n \in Node |-> IF n \in D THEN None ELSE o[n]]

\* The slots E die, and the nodes D with the slots inside them; r and o are
\* the pointers that the operation left behind.
Release(E, D, r, o) ==
  LET dead == E \union {h \in slots : parent[h] \in D}
  IN  /\ alive' = alive \ D
      /\ slots' = slots \ dead
      /\ parent' = [h \in Handle |-> IF h \in dead THEN None ELSE parent[h]]
      /\ ref' = [h \in Handle |-> IF h \in dead THEN None ELSE r[h]]
      /\ owner' = [n \in Node |-> IF n \in D THEN None ELSE o[n]]

-----------------------------------------------------------------------------
(* The operations.                                                         *)

Init ==
  /\ alive = {}
  /\ slots = {}
  /\ parent = [h \in Handle |-> None]
  /\ ref = [h \in Handle |-> None]
  /\ owner = [n \in Node |-> None]

\* A new statement or expression, not owned by any handle.
New(n) ==
  /\ n \notin alive
  /\ alive' = alive \union {n}
  /\ UNCHANGED <<slots, parent, ref, owner>>

\* ASTHandle(ref, owner): a node's operand, a handle outside of the tree
\* (parent null) or the slot that addStmt, insertBeforeStmt and insertAfterStmt
\* emplace in a body.  n is taken away from the handle that holds it.
Construct(h, p, n) ==
  /\ h \notin slots
  /\ p \in alive \union {None}
  /\ p \in Expr => h \in ExprHandle
  /\ n \in alive \union {None}
  /\ n # None => Fits(h, n) /\ NotAbove(n, p)
  /\ slots' = slots \union {h}
  /\ parent' = [parent EXCEPT ![h] = p]
  /\ ref' = RefAfterSet(h, n)
  /\ owner' = OwnerAfterSet(h, n)
  /\ UNCHANGED alive

\* Fault: the node comes from an unchecked cast such as (Scope *)getParent().
SetReferenceAnyKind(h, n) ==
  /\ h \in slots
  /\ n \in alive \union {None}
  /\ n # None => NotAbove(n, parent[h])
  /\ ref' = RefAfterSet(h, n)
  /\ owner' = OwnerAfterSet(h, n)
  /\ UNCHANGED <<alive, slots, parent>>

\* setReference, and with n null take(): the old child is not deleted.
SetReference(h, n) ==
  /\ h \in slots
  /\ n \in alive \union {None}
  /\ n # None => Fits(h, n) /\ NotAbove(n, parent[h])
  /\ ref' = RefAfterSet(h, n)
  /\ owner' = OwnerAfterSet(h, n)
  /\ UNCHANGED <<alive, slots, parent>>

\* The move constructor (h is new) and the move assignment (h is a slot of the
\* same body), as std::vector uses them when it grows, inserts or erases.
Move(h, g) ==
  /\ g \in slots /\ h # g
  /\ h \in StmtHandle <=> g \in StmtHandle
  /\ h \in slots => parent[h] = parent[g]
  /\ slots' = slots \union {h}
  /\ parent' = [parent EXCEPT ![h] = parent[g]]
  /\ ref' = RefAfterSet(h, ref[g])
  /\ owner' = OwnerAfterSet(h, ref[g])
  /\ UNCHANGED alive

\* ~ASTHandle of a handle outside of the tree: its whole tree goes.
DestroyHandle(h) ==
  /\ h \in slots /\ parent[h] = None
  /\ Release({h}, IF ref[h] = None THEN {} ELSE Subtree(ref, ref[h]), ref,
             [m \in Node |-> IF m = ref[h] THEN None ELSE owner[m]])

\* Expr::replaceUseWith and Scope::replaceStmt: o takes the place of e, and e
\* is deleted with what is still below it.  o may come from below e.
ReplaceUseWith(e, o) ==
  /\ e \in alive /\ o \in alive /\ e # o
  /\ e \in Stmt <=> o \in Stmt
  /\ owner[e] # None
  /\ NotAbove(o, getParent(e))
  /\ LET r == RefAfterSet(owner[e], o)
     IN  Release({}, Subtree(r, e), r, OwnerAfterSet(owner[e], o))

\* Scope::removeStmt: s leaves its scope, the empty slots of the scope are
\* erased, s itself is not deleted.
RemoveStmt(s) ==
  /\ s \in alive \intersect Stmt /\ getParent(s) # None
  /\ Release({h \in Body(getParent(s)) : ref[h] \in {s, None}}, {},
             ref, [owner EXCEPT ![s] = None])

\* Scope::clear: no statement is deleted.
Clear(p) ==
  /\ p \in alive \intersect Stmt
  /\ Release(Body(p), {}, ref,
             [n \in Node |-> IF owner[n] \in Body(p) THEN None ELSE owner[n]])

\* Scope::takeContent: the statements of q move to the end of p.  The slot
\* that is emplaced in p keeps the name of the one that dies in q.
TakeContent(p, q) ==
  /\ p \in alive \intersect Stmt /\ q \in alive \intersect Stmt
  /\ NotAbove(q, p)
  /\ parent' = [h \in Handle |-> IF h \in Body(q) THEN p ELSE parent[h]]
  /\ UNCHANGED <<alive, slots, ref, owner>>

\* Fault: without the parent->clear() that unregisters L.
HoistWithoutClear(L) ==
  LET p  == getParent(L)
      PH == owner[p]
      hL == owner[L]
  IN  /\ L \in alive \intersect Stmt /\ p # None
      /\ Body(p) = {hL}
      /\ PH # None
      /\ parent' = [h \in Handle |-> IF h = hL THEN L
                                     ELSE IF h \in Body(L) THEN p
                                     ELSE parent[h]]
      /\ owner' = [owner EXCEPT ![p] = PH]
      /\ UNCHANGED <<alive, slots, ref>>

\* hoist (Transforms.cpp): the loop L and the scope around it trade places.
\*   parent->clear(); parent->takeContent(L); L->addStmt(parent);
\*   PH->setReference(L)
\* The slot that addStmt emplaces keeps the name of the one that held L.
Hoist(L) ==
  LET p  == getParent(L)
      PH == owner[p]
      hL == owner[L]
  IN  /\ L \in alive \intersect Stmt /\ p # None
      /\ Body(p) = {hL}
      /\ PH # None
      /\ parent' = [h \in Handle |-> IF h = hL THEN L
                                     ELSE IF h \in Body(L) THEN p
                                     ELSE parent[h]]
      /\ ref' = [ref EXCEPT ![hL] = p, ![PH] = L]
      /\ owner' = [owner EXCEPT ![p] = hL, ![L] = PH]
      /\ UNCHANGED <<alive, slots>>

Next ==
  \/ \E n \in Node : New(n)
  \/ \E h \in Handle, p \in Node \union {None}, n \in Node \union {None} :
        Construct(h, p, n)
  \/ \E h \in Handle, n \in Node \union {None} : SetReference(h, n)
  \/ \E h, g \in Handle : Move(h, g)
  \/ \E h \in Handle : DestroyHandle(h)
  \/ \E e, o \in Node : ReplaceUseWith(e, o)
  \/ \E s \in Stmt : RemoveStmt(s)
  \/ \E p \in Stmt : Clear(p)
  \/ \E p, q \in Stmt : TakeContent(p, q)
  \/ \E L \in Stmt : Hoist(L)

Spec == Init /\ [][Next]_vars

-----------------------------------------------------------------------------
(* Correctness.                                                            *)

\* ASTHandle::verify, "The handle pointes to an unowned ref.": a handle that is
\* not empty holds an existing node, and that node remembers this handle (so no
\* two handles hold, and will delete, the same node).
HandleOwnsRef ==
  \A h \in slots : ref[h] # None => ref[h] \in alive /\ owner[ref[h]] = h

\* The pointer that replaceUseWith, getParent and hoist follow without a check
\* never dangles: the handle a node remembers exists and holds the node.
OwnerNeverDangles ==
  \A n \in alive : owner[n] # None => owner[n] \in slots /\ ref[owner[n]] = n

\* The getParent() chain that getProgram and the verifier walk stays inside
\* existing nodes.
HolderAlive == \A h \in slots : parent[h] \in alive \union {None}

\* ... and it ends: no set of nodes is closed under getParent, so that no
\* rewrite hangs a node below itself.
Rooted ==
  \A S \in SUBSET Node : S # {} => \E n \in S : getParent(n) \notin S

\* The model's convention for objects that do not exist: their pointers are null.
DeadIsNull ==
  /\ \A n \in Node \ alive : owner[n] = None
  /\ \A h \in Handle \ slots : ref[h] = None /\ parent[h] = None

\* The inductive invariant of the protocol.
Ownership ==
  /\ TypeOK
  /\ DeadIsNull
  /\ HandleOwnsRef
  /\ OwnerNeverDangles
  /\ HolderAlive
  /\ Rooted

\* A node that an operation re-attaches from below the node it replaces is not
\* deleted with it (simplifyExpr returns an operand of the expression it
\* replaces; the trip-1 and if removals lift a body out of its scope), and a
\* node that survives a step keeps the children it had, unless they were moved
\* or removed: nothing below a surviving handle is deleted.
NoLiveChildDeleted ==
  [][\A n \in alive \ alive' :
       \/ getParent(n) = None \/ getParent(n) \notin alive'
       \/ \E o \in alive' : ReplaceUseWith(n, o)]_vars

\* The nodes as the trees that the handles make of them.
F == INSTANCE Forest WITH up <- [n \in Node |-> getParent(n)]

\* Every operation on handles is one operation on whole trees, or none: nodes are
\* created as roots, moved to nodes that are not below them, and deleted with all
\* that is below them and nothing else.
ImplementsForest == F!Spec
=============================================================================
