---------------------------- MODULE ChainQueries ----------------------------
(***************************************************************************)
(* Queries that read the chain state several times, each time under a lock *)
(* of its own, while the node task goes on changing it: the verbose        *)
(* getblockheader of the JSON-RPC server (json_rpc/blockchain.rs, on the   *)
(* HeaderExt of extensions.rs), and the block locator a getheaders message *)
(* starts with (get_block_locator).  One query runs at a time; what only   *)
(* depends on headers, which never change, is left out of the answer.      *)
(***************************************************************************)
EXTENDS ChainState, Sequences

CONSTANT DENSE    \* 10: the entries of a locator that follow each other

VARIABLE query

queries == <<vars, query>>

Idle == [op |-> "none"]

(* steady is history: since the query began the best chain has only grown, *)
(* and the block asked for is on it.                                       *)
Header(b) ==
  [op |-> "header", b |-> b, pc |-> "height", height |-> 0, confirmations |-> 0,
   next |-> NoBlock, steady |-> b \in Path[best_block]]

-----------------------------------------------------------------------------
(* getblockheader: the header must be known; then the block is fetched     *)
(* from a peer, which takes a while.                                       *)
get_block_header(b) ==
  /\ query = Idle
  /\ header[b] \in Known
  /\ query' = Header(b)
  /\ UNCHANGED vars

(* get_height, which get_confirmations and get_next_block_hash call again. *)
(* A block of an invalid chain has none: the answer is BlockNotFound.      *)
get_height ==
  /\ query.op = "header"
  /\ query.pc \in {"height", "confirmations", "next"}
  /\ query' = IF header[query.b] \notin HasHeight THEN Idle
              ELSE [query EXCEPT !.height = Height[query.b],
                                 !.pc = CASE @ = "height" -> "confirmations"
                                          [] @ = "confirmations" -> "depth"
                                          [] @ = "next" -> "slot"]
  /\ UNCHANGED vars

(* Mutant of get_confirmations: the block itself is not counted.           *)
ConfirmationsAbove ==
  /\ query.op = "header" /\ query.pc = "depth"
  /\ query' = [query EXCEPT !.confirmations = depth - query.height, !.pc = "next"]
  /\ UNCHANGED vars

(* get_confirmations, after the height.  Below zero the u32 wraps around.  *)
get_confirmations ==
  /\ query.op = "header" /\ query.pc = "depth"
  /\ query' = [query EXCEPT !.confirmations = depth - query.height + 1, !.pc = "next"]
  /\ UNCHANGED vars

(* get_next_block_hash, after the height.                                  *)
get_next_block_hash ==
  /\ query.op = "header" /\ query.pc = "slot"
  /\ query' = [query EXCEPT !.next = SlotAt(query.height + 1), !.pc = "done"]
  /\ UNCHANGED vars

-----------------------------------------------------------------------------
(* The heights of a locator, from the top one: one after the other, then   *)
(* in steps that double, and genesis.                                      *)
Descend(s) ==
  LET step == IF Len(s.indexes) >= DENSE THEN 2 * s.step ELSE s.step
  IN  IF s.index = 0 THEN s
      ELSE [indexes |-> Append(s.indexes, s.index), step |-> step,
            index |-> IF s.index > step THEN s.index - step ELSE 0]

Indexes(top) ==
  LET descent[i \in 0..top] == IF i = 0 THEN [indexes |-> <<>>, step |-> 1, index |-> top]
                               ELSE Descend(descent[i - 1])
  IN  Append(descent[top].indexes, 0)

(* get_block_locator: the height of the tip is read first, then a hash for *)
(* each height; a height without one is left out.                          *)
get_block_locator ==
  /\ query = Idle
  /\ query' = [op |-> "locator", todo |-> Indexes(depth), hashes |-> <<>>,
               top |-> depth, steady |-> TRUE]
  /\ UNCHANGED vars

get_block_hash ==
  /\ query.op = "locator" /\ query.todo # <<>>
  /\ LET hash == SlotAt(Head(query.todo))
     IN  query' = [query EXCEPT !.todo = Tail(@),
                                !.hashes = IF hash = NoBlock THEN @ ELSE Append(@, hash)]
  /\ UNCHANGED vars

(* get_ancestor, until the height h is reached.                            *)
Ancestor(b, h) == CHOOSE a \in Path[b] : Height[a] = h

(* get_block_locator_for_tip: the same heights, found by walking down from *)
(* the tip of any branch; only genesis comes from the height index.        *)
get_block_locator_for_tip(tip) ==
  Append([i \in 1..(Len(Indexes(Height[tip])) - 1) |->
            Ancestor(tip, Indexes(Height[tip])[i])], slot[0])

-----------------------------------------------------------------------------
(* The answer goes out, or the request is dropped with its connection.     *)
Finish ==
  /\ \/ query.op = "header" /\ query.pc = "done"
     \/ query.op = "locator" /\ query.todo = <<>>
  /\ query' = Idle
  /\ UNCHANGED vars

(* A step of the chain; a restart ends the query.                          *)
ChainStep ==
  /\ Next
  /\ query' = IF query = Idle \/ restarts' # restarts THEN Idle
              ELSE [query EXCEPT !.steady = @ /\ best_block \in Path[best_block']]

QInit == Init /\ query = Idle

QNext ==
  \/ ChainStep
  \/ \E b \in Blocks : get_block_header(b)
  \/ get_height \/ get_confirmations \/ get_next_block_hash
  \/ get_block_locator \/ get_block_hash \/ Finish

QSpec == QInit /\ [][QNext]_queries

-----------------------------------------------------------------------------
(* While the best chain only grows, the answer about a block of it is of   *)
(* one chain although it is read in five steps: the block is confirmed,    *)
(* and when the confirmations say that it is not the tip, the next hash    *)
(* names its child (get_confirmations, get_next_block_hash).  Of the tip   *)
(* itself the next hash may name a block that is on no chain any more:     *)
(* the height index is not cleared above the tip.                          *)
AnswerOfOneChain ==
  query.op = "header" /\ query.pc = "done" /\ query.steady =>
    /\ query.confirmations >= 1
    /\ query.confirmations > 1 => query.next # NoBlock /\ Parent[query.next] = query.b

(* Whatever happens to the chain while get_block_locator reads it, the     *)
(* locator descends through known headers and ends with genesis: every     *)
(* peer finds a block in it to continue from.                              *)
LocatorServes ==
  query.op = "locator" /\ query.todo = <<>> =>
    /\ query.hashes # <<>> /\ query.hashes[Len(query.hashes)] = Genesis
    /\ \A i \in DOMAIN query.hashes : header[query.hashes[i]] \in Known
    /\ \A i \in DOMAIN query.hashes : \A j \in 1..(i - 1) :
         Height[query.hashes[j]] > Height[query.hashes[i]]

(* A peer on any branch that left ours at depth d continues at most        *)
(* d - DENSE blocks below the block where it left, and exactly there when  *)
(* that is recent: the steps of the locator never grow faster than its     *)
(* depth (get_block_locator).                                              *)
LocatorNear ==
  query.op = "locator" /\ query.todo = <<>> /\ query.steady =>
    \A b \in Blocks :
      LET fork  == Max({Height[a] : a \in {c \in Path[b] \cap Path[best_block] :
                                             Height[c] <= query.top}})
          found == Max({Height[a] : a \in Range(query.hashes) \cap Path[b]})
      IN  fork - found <= Max({0, query.top - fork - DENSE})

(* The two ways to build a locator agree on the best chain: by the height  *)
(* index and by parents, also after reorgs and invalid blocks              *)
(* (get_block_locator, get_block_locator_for_tip).                         *)
LocatorsAgree ==
  LET top == Indexes(depth)
  IN  get_block_locator_for_tip(best_block) = [i \in DOMAIN top |-> SlotAt(top[i])]

(* The three together: what a query that is read in several steps, while   *)
(* the node goes on, answers is of one chain (get_block_header,            *)
(* get_block_locator, get_block_locator_for_tip).                          *)
QueriesSound ==
  /\ AnswerOfOneChain
  /\ LocatorServes
  /\ query.op = "locator" => LocatorsAgree
==============================================================================
