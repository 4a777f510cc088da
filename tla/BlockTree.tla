------------------------------ MODULE BlockTree ------------------------------
(***************************************************************************)
(* The headers that the network can ever show to a Floresta node, as a     *)
(* tree.  Every block of the tree has a header that passes the checks of   *)
(* ChainState::validate_header which do not depend on our own state (proof *)
(* of work, difficulty bits, timestamps, version); headers that fail them  *)
(* are refused before anything is read or written, so they are left out.   *)
(***************************************************************************)
EXTENDS Integers, FiniteSets

CONSTANTS
  Blocks,      \* the blocks (a block, its header and its hash are one value)
  Genesis,     \* the block every chain starts from
  Parent,      \* Parent[b]: the block b.prev_blockhash names
  Height,      \* Height[b]: number of ancestors of b
  Path,        \* Path[b]: the ancestors of b, Genesis and b included
  Work,        \* Work[b]: the work of b alone (header.work())
  NoBlock      \* "no hash": an empty height, an error result

Heights == {Height[b] : b \in Blocks}

(* What makes the constants a rooted tree.                                 *)
ASSUME TreeAssumption ==
  /\ NoBlock \notin Blocks
  /\ Genesis \in Blocks
  /\ Parent \in [Blocks \ {Genesis} -> Blocks]
  /\ Height \in [Blocks -> Nat]
  /\ Path \in [Blocks -> SUBSET Blocks]
  /\ Height[Genesis] = 0
  /\ Path[Genesis] = {Genesis}
  /\ \A b \in Blocks \ {Genesis} :
       /\ Height[b] = Height[Parent[b]] + 1
       /\ Path[b] = Path[Parent[b]] \cup {b}

(* The tree is finite, as far as heights go.                               *)
ASSUME HeightAssumption ==
  \A S \in SUBSET Heights : S # {} => \E m \in S : \A h \in S : h <= m

ASSUME WorkAssumption == Work \in [Blocks -> Nat \ {0}]
==============================================================================
