------------------------------ MODULE MCTrees -------------------------------
(* Block trees for TLC, given by their Parent functions.  Every branch has *)
(* the block of height 1 in common: the code finds no fork point below it. *)
EXTENDS BlockTree, TLC

CONSTANTS g, a1, a2, a3, a4, b2, b3, b4, c2, c3, c4

(* A single chain.                                                         *)
Line  == (a1 :> g) @@ (a2 :> a1) @@ (a3 :> a2) @@ (a4 :> a3)

(* Two branches, of lengths 2 and 3, and one that leaves the longer.       *)
Forks == (a1 :> g) @@ (a2 :> a1) @@ (a3 :> a2) @@ (b2 :> a1) @@ (b3 :> b2) @@ (b4 :> b3)
           @@ (c3 :> b2) @@ (c4 :> c3)

(* Three branches that leave the same block, each longer than the last.    *)
Fan   == (a1 :> g) @@ (a2 :> a1) @@ (b2 :> a1) @@ (b3 :> b2)
           @@ (c2 :> a1) @@ (c3 :> c2) @@ (c4 :> c3)

(* Three branches above a2, which a node may have been given to assume.    *)
Late  == (a1 :> g) @@ (a2 :> a1) @@ (a3 :> a2) @@ (b3 :> a2) @@ (b4 :> b3)
           @@ (c3 :> a2) @@ (c4 :> c3)

(* Two branches, the second of which goes on after it has won.             *)
Two   == (a1 :> g) @@ (a2 :> a1) @@ (b2 :> a1) @@ (b3 :> b2) @@ (b4 :> b3)

(* What a tree determines.                                                 *)
BlocksOf(tree) == {g} \cup DOMAIN tree

RECURSIVE PathTo(_, _)
PathTo(tree, b) == {b} \cup IF b = g THEN {} ELSE PathTo(tree, tree[b])

PathsOf(tree)   == [b \in BlocksOf(tree) |-> PathTo(tree, b)]
HeightsOf(tree) == [b \in BlocksOf(tree) |-> Cardinality(PathTo(tree, b)) - 1]
OnesOf(tree)    == [b \in BlocksOf(tree) |-> 1]

MCBlocks  == BlocksOf(Parent)
MCPath    == PathsOf(Parent)
MCHeight  == HeightsOf(Parent)
EqualWork == OnesOf(Parent)

(* Retarget periods of two blocks, with a difficulty each.  The last one   *)
(* depends on the timestamps of the branch: c4 comes after quicker blocks. *)
PeriodsOf(tree) ==
  [b \in BlocksOf(tree) |-> IF b = c4 THEN 4 ELSE 1 + (HeightsOf(tree)[b] \div 2)]

PeriodWork == PeriodsOf(Parent)
==============================================================================
