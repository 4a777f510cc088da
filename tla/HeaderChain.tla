----------------------------- MODULE HeaderChain -----------------------------
(***************************************************************************)
(* The tree of headers as the contexts of the node that talk about headers *)
(* see it: the best chain is the longest of those that are known.  The     *)
(* chain state itself, with work and invalid blocks, is in ChainState.     *)
(***************************************************************************)
EXTENDS NodeCommon

CONSTANT Path   \* Path[b]: the blocks from height 1 to b, for every block

Parent(b) == IF Len(Path[b]) = 1 THEN <<>> ELSE Path[Path[b][Len(Path[b]) - 1]]
Tip(m) == Len(m.best)

(* accept_header: a longer branch becomes the best chain, and validation   *)
(* goes back to the last block that the two have in common.                *)
Common(p, q) == Max({0} \cup {i \in DOMAIN p \cap DOMAIN q : SubSeq(p, 1, i) = SubSeq(q, 1, i)})
(* Mutant of accept_header: only what extends the best chain is adopted.   *)
AcceptNoReorg(m, b) ==
  LET k == [m EXCEPT !.known = @ \cup {b}] IN
  IF Parent(b) # m.best THEN k ELSE [k EXCEPT !.best = Path[b]]

accept_header(m, b) ==
  LET k == [m EXCEPT !.known = @ \cup {b}] IN
  IF Len(Path[b]) <= Tip(m) THEN k
  ELSE [k EXCEPT !.best = Path[b], !.valid = Min({@, Common(m.best, Path[b])})]

(* What a peer with tip b sends for a locator: all that comes after the    *)
(* last block it shares with that chain.                                   *)
HeadersAfter(locator, b) == SubSeq(Path[b], Common(locator, Path[b]) + 1, Len(Path[b]))
==============================================================================
