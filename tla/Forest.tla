------------------------------- MODULE Forest --------------------------------
(***************************************************************************)
(* What the ownership protocol promises to the code that rewrites          *)
(* programs: the nodes are trees, and an operation grows, moves or deletes *)
(* whole trees.  There are no handles here and no pointers that have to    *)
(* agree; module UseDef implements this specification.                     *)
(***************************************************************************)

CONSTANTS
  Node,  \* the nodes
  None   \* no node

VARIABLES
  alive,  \* the nodes that exist
  up      \* for each node the node it belongs to, None for a root

vars == <<alive, up>>

Init == alive = {} /\ up = [n \in Node |-> None]

\* S contains what belongs to its members, by the function f.
DownClosed(f, S) == \A n \in Node : f[n] \in S => n \in S

\* n and everything that belongs to it.
Tree(f, n) ==
  {m \in Node : \A S \in SUBSET Node : n \in S /\ DownClosed(f, S) => m \in S}

Children(p) == {n \in Node : up[n] = p}

\* The nodes in S belong to p from now on.
Given(S, p) == [n \in Node |-> IF n \in S THEN p ELSE up[n]]

\* n is deleted with its tree, where f says what belongs to it.
Delete(f, n) ==
  /\ n \notin alive'
  /\ alive' = alive \ Tree(f, n)
  /\ up' = [m \in Node |-> IF m \in alive' THEN f[m] ELSE None]

\* A new node is a root.
Plant(n) ==
  /\ n \notin alive
  /\ alive' = alive \union {n}
  /\ UNCHANGED up

\* n goes to p, or becomes a root.
Graft(n, p) ==
  /\ UNCHANGED alive
  /\ n \in alive /\ p \in alive \union {None}
  /\ up' = Given({n}, p)
  /\ p \notin Tree(up, n)

\* The same, and the node m of p, whose place n takes, becomes a root.
GraftInPlace(n, p, m) ==
  /\ UNCHANGED alive
  /\ n \in alive /\ p \in alive \union {None}
  /\ m # n /\ up[m] = p
  /\ up' = [Given({n}, p) EXCEPT ![m] = None]
  /\ p \notin Tree(up, n)

\* Some of the nodes of p become roots.
CutOff(p, S) ==
  /\ UNCHANGED alive
  /\ p \in alive /\ S \subseteq Children(p)
  /\ up' = Given(S, None)

\* Some of the nodes of q go to p, which does not belong to q.
Adopt(p, q, S) ==
  /\ UNCHANGED alive
  /\ p \in alive /\ q \in alive /\ S \subseteq Children(q)
  /\ up' = Given(S, p)
  /\ p \notin Tree(up, q)

\* o takes the place of e, and the tree of e, without o, is deleted.
Replace(e, o) ==
  /\ e \in alive /\ o \in alive' /\ e # o
  /\ Delete([Given({o}, up[e]) EXCEPT ![e] = None], e)
  /\ up[e] \notin Tree(up, o)

\* A root is deleted with its tree.
Fell(n) ==
  /\ n \in alive /\ up[n] = None
  /\ Delete(up, n)

\* n and the node it belongs to trade places; some of the nodes of n go to that
\* node.
Exchange(n, S) ==
  /\ UNCHANGED alive
  /\ n \in alive /\ up[n] \in alive
  /\ S \subseteq Children(n)
  /\ up' = [m \in Node |-> IF m = n THEN up[up[n]]
                           ELSE IF m = up[n] THEN n
                           ELSE IF m \in S THEN up[n] ELSE up[m]]

Next ==
  \/ \E n \in Node : Plant(n) \/ Fell(n)
  \/ \E n \in Node, p \in Node \union {None} :
       Graft(n, p) \/ \E m \in Node : GraftInPlace(n, p, m)
  \/ \E p \in Node : \E S \in SUBSET Children(p) :
       CutOff(p, S) \/ Exchange(p, S) \/ \E q \in Node : Adopt(q, p, S)
  \/ \E e, o \in Node : Replace(e, o)

Spec == Init /\ [][Next]_vars
=============================================================================
