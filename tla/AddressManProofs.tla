-------------------------- MODULE AddressManProofs --------------------------
(***************************************************************************)
(* The address book stays consistent, whatever is gossiped, dialled, lost, *)
(* banned, saved and read back, for any addresses, services and times and  *)
(* any size of the book.                                                   *)
(***************************************************************************)
EXTENDS AddressMan, FiniteSetTheorems, TLAPS

USE Zenon

(* The fields of the LocalAddress, of the book's record and of a peer.     *)
IsEntry(e) == DOMAIN e = {"addr", "st", "at", "sv", "last", "since"}
IsBook(m) ==
  /\ DOMAIN m = {"addresses", "good", "goodBy", "by"}
  /\ DOMAIN m.goodBy = Indexed /\ DOMAIN m.by = Indexed
  /\ IsFiniteSet(DOMAIN m.addresses)
  /\ \A i \in DOMAIN m.addresses : IsEntry(m.addresses[i])
IsLink(l) == DOMAIN l = {"id", "addr", "kind", "needs", "st"}

(* IndexedByService, FailedNotGood and GoodByServiceKnown, of a book that  *)
(* a method is at work on.                                                 *)
Indexing(m) ==
  /\ \A i, j \in DOMAIN m.addresses : m.addresses[i].addr = m.addresses[j].addr => i = j
  /\ \A s \in Indexed : m.by[s] = {i \in DOMAIN m.addresses : Has(m.addresses[i].sv, s)}
Listing(m) ==
  /\ \A i \in DOMAIN m.addresses : m.addresses[i].st = "Failed" =>
       i \notin m.good /\ \A s \in Indexed : i \notin m.goodBy[s]
  /\ \A s \in Indexed : m.goodBy[s] \subseteq DOMAIN m.addresses
Book(m) == IsBook(m) /\ Indexing(m) /\ Listing(m)

(* The ids in C are the only ones marked as connected.                     *)
ConnectedIn(m, C) == \A i \in DOMAIN m.addresses : m.addresses[i].st = "Connected" => i \in C
ReadyIds(l) == {l[c].id : c \in {d \in DOMAIN l : l[d].st = "Ready"}}

(* What peers.json holds was no connection when it was saved.              *)
AInv ==
  /\ Book(Am) /\ Cardinality(DOMAIN addresses) <= max_size
  /\ ConnectedIn(Am, ReadyIds(link))
  /\ \A c \in DOMAIN link : IsLink(link[c])
  /\ IsFiniteSet(DOMAIN disk)
  /\ \A i \in DOMAIN disk : IsEntry(disk[i]) /\ disk[i].st # "Connected"

-----------------------------------------------------------------------------
LEMMA RemovedBook ==
  ASSUME NEW m, Book(m), NEW K
  PROVE  /\ Book(Removed(m, K))
         /\ DOMAIN Removed(m, K).addresses = DOMAIN m.addresses \ K
         /\ \A C : ConnectedIn(m, C) => ConnectedIn(Removed(m, K), C)
<1> DEFINE r == Removed(m, K)
<1>1. /\ DOMAIN r = {"addresses", "good", "goodBy", "by"}
      /\ r.addresses = [i \in DOMAIN m.addresses \ K |-> m.addresses[i]]
      /\ r.good = m.good \ K
      /\ r.goodBy = [s \in Indexed |-> m.goodBy[s] \ K]
      /\ r.by = [s \in Indexed |-> m.by[s] \ K]
  BY DEF Removed, Without, Restrict, NotIn
<1> HIDE DEF r
<1>2. IsBook(r)
  <2>1. DOMAIN r.addresses \in SUBSET (DOMAIN m.addresses)
    BY <1>1
  <2>2. IsFiniteSet(DOMAIN r.addresses)
    BY <2>1, FS_Subset DEF Book, IsBook
  <2> QED BY <1>1, <2>2 DEF Book, IsBook
<1>3. Indexing(r) /\ Listing(r)
  BY <1>1, SMT DEF Book, Indexing, Listing
<1>4. \A C : ConnectedIn(m, C) => ConnectedIn(r, C)
  BY <1>1 DEF ConnectedIn
<1> QED BY <1>1, <1>2, <1>3, <1>4 DEF Book, r

(* prune_addresses brings the book back to its size.                       *)
LEMMA PrunedBook ==
  ASSUME NEW m, Book(m), max_size \in Nat, NEW p \in prune_addresses(m)
  PROVE  /\ Book(p) /\ Cardinality(DOMAIN p.addresses) <= max_size
         /\ \A C : ConnectedIn(m, C) => ConnectedIn(p, C)
<1> DEFINE D == DOMAIN m.addresses
           excess == Cardinality(D) - max_size
<1>1. IsFiniteSet(D) /\ Cardinality(D) \in Nat
  BY FS_CardinalityType DEF Book, IsBook
<1>2. CASE excess <= 0
  <2>1. p = m
    BY <1>2 DEF prune_addresses
  <2> QED BY <1>1, <1>2, <2>1, SMT
<1>3. CASE ~(excess <= 0)
  <2>1. PICK K \in SUBSET D : Cardinality(K) = excess /\ p = Removed(m, K)
    BY <1>3 DEF prune_addresses
  <2>2. IsFiniteSet(K) /\ IsFiniteSet(D \ K)
    BY <1>1, FS_Subset
  <2>3. Cardinality(K \cup (D \ K)) = Cardinality(K) + Cardinality(D \ K) - Cardinality(K \cap (D \ K))
    BY <2>2, FS_Union
  <2>4. K \cup (D \ K) = D /\ K \cap (D \ K) = {}
    BY <2>1
  <2>5. Cardinality({}) = 0 /\ Cardinality(K) \in Nat /\ Cardinality(D \ K) \in Nat
    BY <2>2, FS_EmptySet, FS_CardinalityType
  <2>6. Cardinality(D \ K) = max_size
    <3>1. Cardinality(D) = Cardinality(K) + Cardinality(D \ K) - Cardinality({})
      BY <2>3, <2>4
    <3>2. ASSUME NEW d \in Nat, NEW k \in Nat, NEW n \in Nat, d = k + n - 0, k = d - max_size
          PROVE  n = max_size
      BY <3>2, SMT
    <3> QED BY <1>1, <2>1, <2>5, <3>1, <3>2
  <2>7. DOMAIN p.addresses = D \ K
    BY <2>1, RemovedBook
  <2> QED BY <2>1, <2>6, <2>7, RemovedBook, SMT
<1> QED BY <1>2, <1>3

(* Pushing entries whose addresses are new, one for each address.          *)
LEMMA PushedBook ==
  ASSUME NEW m, Book(m), NEW f, IsFiniteSet(DOMAIN f),
         \A i \in DOMAIN f : /\ IsEntry(f[i]) /\ f[i].st # "Connected"
                             /\ f[i].st = "Failed" => i \notin m.good,
         NEW K \in OnePerAddress(f, Pushable(m, f))
  PROVE  /\ Book(Pushed(m, f, K))
         /\ \A C : ConnectedIn(m, C) => ConnectedIn(Pushed(m, f, K), C)
<1> DEFINE r == Pushed(m, f, K)
           D == DOMAIN m.addresses
<1>1. K \subseteq DOMAIN f \ D /\ \A i \in K : ~Knows(m, f[i].addr)
  BY DEF OnePerAddress, Pushable
<1>2. \A i, k \in K : f[i].addr = f[k].addr => i = k
  <2> SUFFICES ASSUME NEW i \in K, NEW k \in K, f[i].addr = f[k].addr PROVE i = k
    OBVIOUS
  <2>1. i \in Pushable(m, f)
    BY DEF OnePerAddress
  <2>2. PICK j \in K : \A l \in K : f[l].addr = f[i].addr => l = j
    BY <2>1 DEF OnePerAddress
  <2> QED BY <2>2
<1>3. /\ DOMAIN r = {"addresses", "good", "goodBy", "by"}
      /\ r.addresses = [i \in D \cup K |-> IF i \in K THEN f[i] ELSE m.addresses[i]]
      /\ r.good = m.good \cup {i \in K : is_good_address(f[i])}
      /\ r.goodBy = [s \in Indexed |-> m.goodBy[s] \cup
                                         {i \in K : is_good_address(f[i]) /\ Has(f[i].sv, s)}]
      /\ r.by = [s \in Indexed |-> m.by[s] \cup {i \in K : Has(f[i].sv, s)}]
  BY DEF Pushed
<1> HIDE DEF r
<1>4. IsBook(r)
  <2>1. IsFiniteSet(K) /\ IsFiniteSet(D)
    BY <1>1, FS_Subset DEF Book, IsBook
  <2>2. IsFiniteSet(DOMAIN r.addresses)
    <3>1. DOMAIN r.addresses = D \cup K
      BY <1>3
    <3> QED BY <2>1, <3>1, FS_Union
  <2> QED BY <1>1, <1>3, <2>2 DEF Book, IsBook
<1>5. DOMAIN r.addresses = D \cup K /\ D \cap K = {}
  BY <1>1, <1>3
<1>6. /\ \A i \in K : r.addresses[i] = f[i]
      /\ \A i \in D : r.addresses[i] = m.addresses[i]
  BY <1>3, <1>5
<1>7. Indexing(r)
  <2>1. ASSUME NEW i \in D \cup K, NEW j \in D \cup K, r.addresses[i].addr = r.addresses[j].addr
        PROVE  i = j
    BY <1>1, <1>2, <1>5, <1>6, <2>1, SMT DEF Knows, Book, Indexing
  <2>2. ASSUME NEW s \in Indexed
        PROVE  r.by[s] = {i \in D \cup K : Has(r.addresses[i].sv, s)}
    <3>1. r.by[s] = m.by[s] \cup {i \in K : Has(f[i].sv, s)}
      BY <1>3
    <3>2. m.by[s] = {i \in D : Has(m.addresses[i].sv, s)}
      BY DEF Book, Indexing
    <3> QED BY <1>5, <1>6, <3>1, <3>2
  <2> QED BY <1>5, <2>1, <2>2 DEF Indexing
<1>8. Listing(r)
  <2>1. ASSUME NEW i \in D \cup K, r.addresses[i].st = "Failed"
        PROVE  i \notin r.good /\ \A s \in Indexed : i \notin r.goodBy[s]
    BY <1>1, <1>3, <1>5, <1>6, <2>1, SMT DEF Book, Listing, is_good_address
  <2>2. \A s \in Indexed : r.goodBy[s] \subseteq D \cup K
    BY <1>3, SMT DEF Book, Listing
  <2> QED BY <1>5, <2>1, <2>2 DEF Listing
<1>9. \A C : ConnectedIn(m, C) => ConnectedIn(r, C)
  BY <1>1, <1>5, <1>6 DEF ConnectedIn
<1> QED BY <1>4, <1>7, <1>8, <1>9 DEF Book, r

(* push_addresses, its pruning included.                                   *)
LEMMA PushAddressesBook ==
  ASSUME NEW m, Book(m), max_size \in Nat, NEW f, IsFiniteSet(DOMAIN f),
         \A i \in DOMAIN f : /\ IsEntry(f[i]) /\ f[i].st # "Connected"
                             /\ f[i].st = "Failed" => i \notin m.good,
         NEW p \in push_addresses(m, f)
  PROVE  /\ Book(p) /\ Cardinality(DOMAIN p.addresses) <= max_size
         /\ \A C : ConnectedIn(m, C) => ConnectedIn(p, C)
<1>1. PICK K \in OnePerAddress(f, Pushable(m, f)) : p \in prune_addresses(Pushed(m, f, K))
  BY DEF push_addresses
<1>2. Book(Pushed(m, f, K)) /\ \A C : ConnectedIn(m, C) => ConnectedIn(Pushed(m, f, K), C)
  BY PushedBook
<1>3. /\ Book(p) /\ Cardinality(DOMAIN p.addresses) <= max_size
      /\ \A C : ConnectedIn(Pushed(m, f, K), C) => ConnectedIn(p, C)
  BY <1>1, <1>2, PrunedBook
<1> QED BY <1>2, <1>3

-----------------------------------------------------------------------------
States == {"NeverTried", "Tried", "Connected", "Failed", "Banned"}

(* update_set_state changes the state of one entry, and lists it           *)
(* accordingly.                                                            *)
LEMMA SetStateBook ==
  ASSUME NEW m, Book(m), NEW i, NEW st \in States, NEW at
  PROVE  LET r == update_set_state(m, i, st, at)
         IN  /\ Book(r) /\ DOMAIN r.addresses = DOMAIN m.addresses
             /\ \A C : ConnectedIn(m, C) /\ st = "Connected" => ConnectedIn(r, C \cup {i})
             /\ \A C : ConnectedIn(m, C) /\ st # "Connected" => ConnectedIn(r, C \ {i})
<1> DEFINE r == update_set_state(m, i, st, at)
           D == DOMAIN m.addresses
           e == Marked(m.addresses[i], st, at)
           k == IF i \in D THEN [m EXCEPT !.addresses[i] = e] ELSE m
           pushed == IF i \in DOMAIN k.addresses
                     THEN [k EXCEPT !.by = PushBy(@, i, k.addresses[i]),
                                    !.goodBy = PushGoodBy(@, i, k.addresses[i])]
                     ELSE k
<1>1. r = CASE st \in {"Banned", "NeverTried"} -> [k EXCEPT !.good = @ \ {i}]
            [] st \in {"Tried", "Connected"} -> [pushed EXCEPT !.good = @ \cup {i}]
            [] st = "Failed" -> [k EXCEPT !.good = @ \ {i}, !.goodBy = NotIn(@, {i})]
  BY Zenon DEF update_set_state
<1>2. ASSUME i \in D
      PROVE  IsEntry(e) /\ e.st = st /\ e.addr = m.addresses[i].addr /\ e.sv = m.addresses[i].sv
  <2>1. IsEntry(m.addresses[i])
    BY <1>2 DEF Book, IsBook
  <2> QED BY <2>1 DEF IsEntry, Marked
<1> HIDE DEF r, e
<1>3. /\ DOMAIN k = {"addresses", "good", "goodBy", "by"} /\ DOMAIN k.addresses = D
      /\ k.good = m.good /\ k.goodBy = m.goodBy /\ k.by = m.by
      /\ \A j \in D : k.addresses[j] = IF j = i THEN e ELSE m.addresses[j]
  <2>1. DOMAIN m = {"addresses", "good", "goodBy", "by"}
    BY DEF Book, IsBook
  <2> QED BY <2>1
<1> HIDE DEF k
<1>4. /\ DOMAIN pushed = {"addresses", "good", "goodBy", "by"}
      /\ pushed.addresses = k.addresses /\ pushed.good = k.good
      /\ DOMAIN pushed.by = Indexed /\ DOMAIN pushed.goodBy = Indexed
      /\ \A s \in Indexed : pushed.by[s] = m.by[s]
      /\ \A s \in Indexed : pushed.goodBy[s] \subseteq m.goodBy[s] \cup (D \cap {i})
  <2>1. CASE i \in D
    <3>1. k.addresses[i] = e
      BY <1>3, <2>1
    <3>2. /\ DOMAIN pushed = {"addresses", "good", "goodBy", "by"}
          /\ pushed.addresses = k.addresses /\ pushed.good = k.good
          /\ pushed.by = PushBy(m.by, i, e) /\ pushed.goodBy = PushGoodBy(m.goodBy, i, e)
      BY <1>3, <2>1, <3>1
    <3> HIDE DEF pushed
    <3>3. \A s \in Indexed : m.by[s] = {j \in D : Has(m.addresses[j].sv, s)}
      BY DEF Book, Indexing
    <3>4. \A s \in Indexed : Has(e.sv, s) => i \in m.by[s]
      BY <1>2, <2>1, <3>3
    <3>5. /\ DOMAIN pushed.by = Indexed
          /\ \A s \in Indexed : pushed.by[s] = m.by[s]
      <4>1. pushed.by = [s \in Indexed |-> IF Has(e.sv, s) THEN m.by[s] \cup {i} ELSE m.by[s]]
        BY <3>2 DEF PushBy
      <4>2. ASSUME NEW s \in Indexed PROVE pushed.by[s] = m.by[s]
        <5>1. i \in m.by[s] => m.by[s] \cup {i} = m.by[s]
          OBVIOUS
        <5> QED BY <3>4, <4>1, <5>1
      <4> QED BY <4>1, <4>2
    <3>6. DOMAIN m.goodBy = Indexed
      BY DEF Book, IsBook
    <3>7. \/ pushed.goodBy = m.goodBy
          \/ pushed.goodBy = [s \in Indexed |-> IF Has(e.sv, s) THEN m.goodBy[s] \cup {i}
                                                ELSE m.goodBy[s]]
      BY <3>2 DEF PushBy, PushGoodBy
    <3>8. /\ DOMAIN pushed.goodBy = Indexed
          /\ \A s \in Indexed : pushed.goodBy[s] \subseteq m.goodBy[s] \cup (D \cap {i})
      BY <2>1, <3>6, <3>7
    <3> QED BY <3>2, <3>5, <3>8
  <2>2. CASE i \notin D
    BY <1>3, <2>2 DEF Book, IsBook
  <2> QED BY <2>1, <2>2
<1> HIDE DEF pushed
<1>5. /\ DOMAIN r = {"addresses", "good", "goodBy", "by"} /\ r.addresses = k.addresses
      /\ DOMAIN r.by = Indexed /\ DOMAIN r.goodBy = Indexed
      /\ \A s \in Indexed : r.by[s] = m.by[s]
      /\ r.good \subseteq m.good \cup {i}
      /\ \A s \in Indexed : r.goodBy[s] \subseteq m.goodBy[s] \cup (D \cap {i})
      /\ st = "Failed" => i \notin r.good /\ \A s \in Indexed : i \notin r.goodBy[s]
  <2>1. DOMAIN m.by = Indexed /\ DOMAIN m.goodBy = Indexed
    BY DEF Book, IsBook
  <2>2. CASE st \in {"Banned", "NeverTried"}
    <3>1. r = [k EXCEPT !.good = @ \ {i}]
      BY <1>1, <2>2
    <3> QED BY <1>3, <2>1, <2>2, <3>1
  <2>3. CASE st \in {"Tried", "Connected"}
    <3>1. r = [pushed EXCEPT !.good = @ \cup {i}]
      BY <1>1, <2>3
    <3> QED BY <1>3, <1>4, <2>3, <3>1
  <2>4. CASE st = "Failed"
    <3>1. r = [k EXCEPT !.good = @ \ {i}, !.goodBy = NotIn(@, {i})]
      BY <1>1, <2>4
    <3>2. /\ DOMAIN r = {"addresses", "good", "goodBy", "by"} /\ r.addresses = k.addresses
          /\ r.by = m.by /\ r.good = m.good \ {i} /\ r.goodBy = NotIn(m.goodBy, {i})
      BY <1>3, <3>1
    <3> QED BY <2>1, <2>4, <3>2 DEF NotIn
  <2> QED BY <2>2, <2>3, <2>4 DEF States
<1>6. IsBook(r)
  BY <1>2, <1>3, <1>5 DEF Book, IsBook
<1>7. \A j \in D : r.addresses[j].addr = m.addresses[j].addr /\ r.addresses[j].sv = m.addresses[j].sv
  BY <1>2, <1>3, <1>5
<1>8. Indexing(r)
  <2>1. \A s \in Indexed : m.by[s] = {j \in D : Has(m.addresses[j].sv, s)}
    BY DEF Book, Indexing
  <2>2. \A a, b \in D : m.addresses[a].addr = m.addresses[b].addr => a = b
    BY DEF Book, Indexing
  <2> QED BY <1>3, <1>5, <1>7, <2>1, <2>2, SMT DEF Indexing
<1>9. Listing(r)
  <2>1. ASSUME NEW j \in D, r.addresses[j].st = "Failed"
        PROVE  j \notin r.good /\ \A s \in Indexed : j \notin r.goodBy[s]
    <3>1. CASE j = i
      BY <1>2, <1>3, <1>5, <2>1, <3>1
    <3>2. CASE j # i
      BY <1>3, <1>5, <2>1, <3>2, SMT DEF Book, Listing
    <3> QED BY <3>1, <3>2
  <2>2. \A s \in Indexed : r.goodBy[s] \subseteq D
    BY <1>5 DEF Book, Listing
  <2> QED BY <1>3, <1>5, <2>1, <2>2 DEF Listing
<1>10. /\ \A C : ConnectedIn(m, C) /\ st = "Connected" => ConnectedIn(r, C \cup {i})
       /\ \A C : ConnectedIn(m, C) /\ st # "Connected" => ConnectedIn(r, C \ {i})
  BY <1>2, <1>3, <1>5, SMT DEF ConnectedIn
<1> QED BY <1>3, <1>5, <1>6, <1>8, <1>9, <1>10 DEF Book, r

(* update_set_service_flag: the services of one entry change, or it goes.  *)
LEMMA ServiceFlagBook ==
  ASSUME NEW m, Book(m), NEW i, NEW sv
  PROVE  LET r == update_set_service_flag(m, i, sv)
         IN  /\ Book(r) /\ DOMAIN r.addresses \subseteq DOMAIN m.addresses
             /\ \A C : ConnectedIn(m, C) => ConnectedIn(r, C)
<1> DEFINE r == update_set_service_flag(m, i, sv)
           D == DOMAIN m.addresses
           e == [m.addresses[i] EXCEPT !.sv = sv]
<1>1. CASE ~(MinimumServices \subseteq sv)
  <2>1. r = Removed(m, {i})
    BY <1>1 DEF update_set_service_flag
  <2> QED BY <2>1, RemovedBook, SMT
<1>2. CASE MinimumServices \subseteq sv /\ i \notin D
  BY <1>2 DEF update_set_service_flag
<1>3. CASE MinimumServices \subseteq sv /\ i \in D
  <2>1. r = [m EXCEPT !.addresses[i] = e,
                      !.by["UTREEXO"] = IF "UTREEXO" \in sv THEN @ \cup {i} ELSE @ \ {i}]
    BY <1>3, Zenon DEF update_set_service_flag
  <2>2. /\ DOMAIN m = {"addresses", "good", "goodBy", "by"}
        /\ DOMAIN m.by = Indexed /\ DOMAIN m.goodBy = Indexed
        /\ IsEntry(m.addresses[i])
    BY <1>3 DEF Book, IsBook
  <2>3. IsEntry(e) /\ e.sv = sv /\ e.st = m.addresses[i].st /\ e.addr = m.addresses[i].addr
    BY <2>2 DEF IsEntry
  <2> HIDE DEF r, e
  <2>4. /\ DOMAIN r = {"addresses", "good", "goodBy", "by"} /\ DOMAIN r.addresses = D
        /\ r.good = m.good /\ r.goodBy = m.goodBy /\ DOMAIN r.by = Indexed
        /\ \A j \in D : r.addresses[j] = IF j = i THEN e ELSE m.addresses[j]
        /\ r.by["NONE"] = m.by["NONE"]
        /\ r.by["UTREEXO"] = IF "UTREEXO" \in sv THEN m.by["UTREEXO"] \cup {i}
                                                 ELSE m.by["UTREEXO"] \ {i}
    BY <2>1, <2>2 DEF Indexed
  <2>5. IsBook(r)
    BY <2>2, <2>3, <2>4 DEF Book, IsBook
  <2>6. /\ \A s \in Indexed : m.by[s] = {j \in D : Has(m.addresses[j].sv, s)}
        /\ \A a, b \in D : m.addresses[a].addr = m.addresses[b].addr => a = b
    BY DEF Book, Indexing
  <2>7. ASSUME NEW s \in Indexed PROVE r.by[s] = {j \in D : Has(r.addresses[j].sv, s)}
    <3>1. CASE s = "NONE"
      BY <2>4, <2>6, <3>1 DEF Has, Indexed
    <3>2. CASE s = "UTREEXO"
      BY <1>3, <2>3, <2>4, <2>6, <3>2, SMT DEF Has, Indexed
    <3> QED BY <3>1, <3>2 DEF Indexed
  <2>8. Indexing(r)
    BY <2>3, <2>4, <2>6, <2>7, SMT DEF Indexing
  <2>9. Listing(r)
    BY <2>3, <2>4 DEF Book, Listing
  <2>10. \A C : ConnectedIn(m, C) => ConnectedIn(r, C)
    BY <2>3, <2>4 DEF ConnectedIn
  <2> QED BY <2>4, <2>5, <2>8, <2>9, <2>10 DEF Book, r
<1> QED BY <1>1, <1>2, <1>3

(* Draws only take addresses off the good lists.                           *)
LEMMA DrawnBook ==
  ASSUME NEW m, Book(m), NEW s, NEW k \in AfterDraws(m, s)
  PROVE  Book(k) /\ k.addresses = m.addresses
<1>1. CASE k = m
  BY <1>1
<1>2. ASSUME NEW i, k = DropFailed(m, s, i)
      PROVE  Book(k) /\ k.addresses = m.addresses
  <2>1. /\ DOMAIN m = {"addresses", "good", "goodBy", "by"}
        /\ DOMAIN m.goodBy = Indexed
    BY DEF Book, IsBook
  <2>2. /\ DOMAIN k = DOMAIN m /\ k.addresses = m.addresses /\ k.by = m.by
        /\ k.good = m.good \ {i}
        /\ k.goodBy = [t \in Indexed |-> IF t = s THEN m.goodBy[t] \ {i} ELSE m.goodBy[t]]
    BY <1>2, <2>1 DEF DropFailed
  <2>3. \A t \in Indexed : k.goodBy[t] \subseteq m.goodBy[t]
    BY <2>2
  <2> QED BY <2>1, <2>2, <2>3, SMT DEF Book, IsBook, Indexing, Listing
<1> QED BY <1>1, <1>2 DEF AfterDraws

-----------------------------------------------------------------------------
LEMMA BecomeBook ==
  ASSUME NEW m, Book(m), Become(m)
  PROVE  /\ Book(Am)' /\ addresses' = m.addresses
         /\ \A C : ConnectedIn(m, C) => ConnectedIn(Am', C)
<1>1. /\ DOMAIN Am' = {"addresses", "good", "goodBy", "by"} /\ Am'.addresses = m.addresses
      /\ Am'.good = m.good /\ Am'.goodBy = m.goodBy /\ Am'.by = m.by
  BY DEF Am, Become
<1>2. Book(Am')
  BY <1>1, SMT DEF Book, IsBook, Indexing, Listing
<1>3. \A C : ConnectedIn(m, C) => ConnectedIn(Am', C)
  BY <1>1 DEF ConnectedIn
<1> QED BY <1>1, <1>2, <1>3 DEF Become

LEMMA WiderIn ==
  ASSUME NEW m, NEW C, NEW E, ConnectedIn(m, C), C \subseteq E
  PROVE  ConnectedIn(m, E)
  BY DEF ConnectedIn

(* A step of the book whose peers stay marked.                             *)
LEMMA StepAInv ==
  ASSUME AInv, NEW m, Book(m), Become(m), Cardinality(DOMAIN m.addresses) <= max_size,
         NEW C, ConnectedIn(m, C), C \subseteq ReadyIds(link'),
         \A c \in DOMAIN link' : IsLink(link'[c]), disk' = disk
  PROVE  AInv'
<1>1. /\ Book(Am)' /\ addresses' = m.addresses /\ ConnectedIn(Am', C)
  BY BecomeBook
<1>2. ConnectedIn(Am', ReadyIds(link'))
  BY <1>1, WiderIn
<1> QED BY <1>1, <1>2 DEF AInv

LEMMA DialAInv ==
  ASSUME AInv, NEW c, NEW kind, NEW s, Dial(c, kind, s)
  PROVE  AInv'
<1>1. PICK m \in IF kind = "feeler" THEN {Am} ELSE AfterDraws(Am, s) :
      \E i \in IF kind = "feeler" THEN FeelerCandidates(m) ELSE CanReturn(m, s) :
        /\ Become(update_set_state(m, i, "Failed", now))
        /\ link' = Put(link, c, [id |-> i, addr |-> m.addresses[i].addr, kind |-> kind,
                                 needs |-> IF kind = "full" THEN s ELSE "NONE", st |-> "Awaiting"])
  BY DEF Dial
<1>2. PICK i : /\ Become(update_set_state(m, i, "Failed", now))
               /\ link' = Put(link, c, [id |-> i, addr |-> m.addresses[i].addr, kind |-> kind,
                                 needs |-> IF kind = "full" THEN s ELSE "NONE", st |-> "Awaiting"])
  BY <1>1
<1>3. Book(m) /\ m.addresses = addresses
  BY DrawnBook, SMT DEF AInv, Am
<1>4. ConnectedIn(m, ReadyIds(link))
  BY <1>3 DEF AInv, ConnectedIn, Am
<1> DEFINE r == update_set_state(m, i, "Failed", now)
<1>5. Book(r) /\ DOMAIN r.addresses = DOMAIN addresses /\ ConnectedIn(r, ReadyIds(link) \ {i})
  BY <1>3, <1>4, SetStateBook, SMT DEF States
<1>6. /\ c \notin DOMAIN link /\ DOMAIN link' = DOMAIN link \cup {c}
      /\ \A d \in DOMAIN link : link'[d] = link[d]
      /\ IsLink(link'[c])
  BY <1>2 DEF Dial, Put, IsLink
<1>7. ReadyIds(link) \ {i} \subseteq ReadyIds(link')
  BY <1>6 DEF ReadyIds
<1>8. \A d \in DOMAIN link' : IsLink(link'[d])
  BY <1>6 DEF AInv
<1>9. disk' = disk
  BY DEF Dial
<1> HIDE DEF r
<1>10. Become(r)
  BY <1>2 DEF r
<1>11. Cardinality(DOMAIN r.addresses) <= max_size
  BY <1>5 DEF AInv
<1> QED BY <1>5, <1>7, <1>8, <1>9, <1>10, <1>11, StepAInv

LEMMA ReadyBook ==
  ASSUME NEW m, Book(m), NEW l, NEW sv, NEW C, ConnectedIn(m, C)
  PROVE  LET r == Ready(m, l, sv)
         IN  /\ Book(r) /\ DOMAIN r.addresses \subseteq DOMAIN m.addresses
             /\ ConnectedIn(r, C \cup {l.id})
<1> DEFINE r == Ready(m, l, sv)
           Ok(x) == /\ Book(x) /\ DOMAIN x.addresses \subseteq DOMAIN m.addresses
                    /\ ConnectedIn(x, C \cup {l.id})
<1>1. Ok(m)
  BY WiderIn, SMT
<1>2. ASSUME NEW x, Ok(x) PROVE Ok(update_set_state(x, l.id, "Tried", now))
  <2> DEFINE y == update_set_state(x, l.id, "Tried", now)
  <2>1. /\ Book(y) /\ DOMAIN y.addresses = DOMAIN x.addresses
        /\ ConnectedIn(y, (C \cup {l.id}) \ {l.id})
    BY <1>2, SetStateBook, SMT DEF States
  <2>2. ConnectedIn(y, C \cup {l.id})
    BY <2>1, WiderIn
  <2> QED BY <1>2, <2>1, <2>2
<1>3. ASSUME NEW x, Ok(x) PROVE Ok(update_set_state(x, l.id, "Connected", 0))
  <2> DEFINE y == update_set_state(x, l.id, "Connected", 0)
  <2>1. /\ Book(y) /\ DOMAIN y.addresses = DOMAIN x.addresses
    <3>1. "Connected" \in States
      BY DEF States
    <3> QED BY <1>3, <3>1, SetStateBook
  <2>2. ConnectedIn(y, C \cup {l.id})
    <3>1. \A E : ConnectedIn(x, E) => ConnectedIn(y, E \cup {l.id})
      BY <1>3, SetStateBook DEF States
    <3>2. ConnectedIn(y, (C \cup {l.id}) \cup {l.id})
      BY <1>3, <3>1
    <3> QED BY <3>2, WiderIn
  <2> QED BY <1>3, <2>1, <2>2
<1>4. ASSUME NEW x, Ok(x) PROVE Ok(update_set_service_flag(x, l.id, sv))
  BY <1>4, ServiceFlagBook
<1> HIDE DEF Ok
<1>5. \/ r = m
      \/ r = update_set_state(update_set_service_flag(m, l.id, sv), l.id, "Tried", now)
      \/ r = update_set_service_flag(update_set_state(m, l.id, "Tried", now), l.id, sv)
      \/ r = update_set_service_flag(update_set_state(m, l.id, "Connected", 0), l.id, sv)
  BY Zenon DEF Ready
<1>6. Ok(r)
  BY <1>1, <1>2, <1>3, <1>4, <1>5
<1> QED BY <1>6 DEF Ok

LEMMA SmallerFits ==
  ASSUME NEW S, IsFiniteSet(S), NEW T \in SUBSET S, max_size \in Nat, Cardinality(S) <= max_size
  PROVE  Cardinality(T) <= max_size
<1>1. Cardinality(T) <= Cardinality(S) /\ IsFiniteSet(T)
  BY FS_Subset
<1>2. Cardinality(T) \in Nat /\ Cardinality(S) \in Nat
  BY <1>1, FS_CardinalityType
<1> QED BY <1>1, <1>2, SMT

LEMMA HandshakeAInv ==
  ASSUME AInv, max_size \in Nat, NEW c, Handshake(c)
  PROVE  AInv'
<1>1. c \in DOMAIN link /\ IsLink(link[c]) /\ disk' = disk
  BY DEF Handshake, AInv
<1>2. PICK kind :
        /\ Become(Ready(Am, [link[c] EXCEPT !.kind = kind], Sv[link[c].addr]))
        /\ link' = [link EXCEPT ![c] = [@ EXCEPT !.st = "Ready", !.kind = kind, !.needs = "NONE"]]
  BY DEF Handshake
<1> DEFINE l == [link[c] EXCEPT !.kind = kind]
           n == [link[c] EXCEPT !.st = "Ready", !.kind = kind, !.needs = "NONE"]
           r == Ready(Am, l, Sv[link[c].addr])
<1>3. l.id = link[c].id /\ IsLink(n) /\ n.id = link[c].id /\ n.st = "Ready"
  BY <1>1 DEF IsLink
<1>4. /\ DOMAIN link' = DOMAIN link /\ link'[c] = n
      /\ \A d \in DOMAIN link : d # c => link'[d] = link[d]
  BY <1>1, <1>2
<1>5. Become(r)
  BY <1>2
<1> HIDE DEF l, n
<1>6. /\ Book(r) /\ DOMAIN r.addresses \subseteq DOMAIN Am.addresses
      /\ ConnectedIn(r, ReadyIds(link) \cup {l.id})
  BY ReadyBook DEF AInv
<1>7. ReadyIds(link) \cup {l.id} \subseteq ReadyIds(link')
  BY <1>1, <1>3, <1>4 DEF ReadyIds
<1>8. \A d \in DOMAIN link' : IsLink(link'[d])
  BY <1>3, <1>4 DEF AInv
<1> HIDE DEF r
<1>9. Cardinality(DOMAIN r.addresses) <= max_size
  <2>1. Am.addresses = addresses /\ IsFiniteSet(DOMAIN addresses)
    BY DEF AInv, Book, IsBook, Am
  <2> QED BY <1>6, <2>1, SmallerFits DEF AInv
<1> QED BY <1>1, <1>5, <1>6, <1>7, <1>8, <1>9, StepAInv

LEMMA LeaveAInv ==
  ASSUME AInv, NEW c, Leave(c)
  PROVE  AInv'
<1> DEFINE i == link[c].id
<1>1. PICK st \in {"Failed", "Tried", "Banned"} : \E at : Become(update_set_state(Am, i, st, at))
  BY DEF Leave
<1>2. PICK at : Become(update_set_state(Am, i, st, at))
  BY <1>1
<1> DEFINE r == update_set_state(Am, i, st, at)
<1>3. Am.addresses = addresses
  BY DEF Am
<1>4. /\ Book(r) /\ DOMAIN r.addresses = DOMAIN addresses
      /\ ConnectedIn(r, ReadyIds(link) \ {i})
  <2>1. st \in States /\ st # "Connected"
    BY DEF States
  <2>2. Book(Am) /\ ConnectedIn(Am, ReadyIds(link))
    BY DEF AInv
  <2>3. \A E : ConnectedIn(Am, E) => ConnectedIn(r, E \ {i})
    BY <2>1, <2>2, SetStateBook
  <2>4. Book(r) /\ DOMAIN r.addresses = DOMAIN Am.addresses
    BY <2>1, <2>2, SetStateBook
  <2> QED BY <1>3, <2>2, <2>3, <2>4
<1>5. c \in DOMAIN link /\ disk' = disk /\ link' = [d \in DOMAIN link \ {c} |-> link[d]]
  BY DEF Leave, Without, Restrict
<1>6. ReadyIds(link) \ {i} \subseteq ReadyIds(link')
  BY <1>5 DEF ReadyIds
<1>7. \A d \in DOMAIN link' : IsLink(link'[d])
  BY <1>5 DEF AInv
<1>8. Become(r)
  BY <1>2
<1> HIDE DEF r, i
<1>9. Cardinality(DOMAIN r.addresses) <= max_size
  BY <1>4 DEF AInv
<1> QED BY <1>4, <1>5, <1>6, <1>7, <1>8, <1>9, StepAInv

(* A new address, from gossip, a DNS seed or the seeds file.               *)
LEMMA PushAInv ==
  ASSUME AInv, max_size \in Nat, NEW a, NEW st \in {"NeverTried", "Tried"}, NEW at, NEW sv,
         Push(a, st, at, sv), disk' = disk, link' = link
  PROVE  AInv'
<1> DEFINE e == [addr |-> a, st |-> st, at |-> at, sv |-> sv, last |-> 0, since |-> 0]
<1>1. PICK i \in FreshIds : \E m \in push_addresses(Am, Put(Empty, i, e)) : Become(m)
  BY DEF Push
<1> DEFINE f == Put(Empty, i, e)
<1>2. PICK m \in push_addresses(Am, f) : Become(m)
  BY <1>1
<1>3. IsEntry(e) /\ e.st # "Connected" /\ e.st # "Failed"
  BY DEF IsEntry
<1> HIDE DEF e
<1>4. DOMAIN f = {i} /\ f[i] = e
  BY DEF Put, Empty
<1>5. IsFiniteSet(DOMAIN f)
  BY <1>4, FS_Singleton
<1> HIDE DEF f
<1>6. Book(Am) /\ ConnectedIn(Am, ReadyIds(link))
  BY DEF AInv
<1>7. \A j \in DOMAIN f : /\ IsEntry(f[j]) /\ f[j].st # "Connected"
                          /\ f[j].st = "Failed" => j \notin Am.good
  BY <1>3, <1>4
<1>8. /\ Book(m) /\ Cardinality(DOMAIN m.addresses) <= max_size
      /\ \A C : ConnectedIn(Am, C) => ConnectedIn(m, C)
  BY <1>5, <1>6, <1>7, PushAddressesBook
<1>9. ConnectedIn(m, ReadyIds(link'))
  BY <1>6, <1>8
<1>10. \A c \in DOMAIN link' : IsLink(link'[c])
  BY DEF AInv
<1> QED BY <1>2, <1>8, <1>9, <1>10, StepAInv

(* Nothing but the clock or the seeding changes.                           *)
LEMMA StutterAInv == AInv /\ UNCHANGED <<am, disk, link>> => AInv'
<1> SUFFICES ASSUME AInv, UNCHANGED <<am, disk, link>> PROVE AInv'
  OBVIOUS
<1>1. Am' = Am /\ addresses' = addresses /\ disk' = disk /\ link' = link
  BY DEF am, Am
<1> QED BY <1>1 DEF AInv

LEMMA SeedAInv ==
  ASSUME AInv, max_size \in Nat,
         \/ Gossip \/ maybe_ask_dns_seed_for_addresses
         \/ DnsSeedAddresses \/ maybe_use_hardcoded_addresses \/ Pass
  PROVE  AInv'
<1>1. CASE UNCHANGED <<am, disk, link>>
  BY <1>1, StutterAInv
<1>2. CASE Gossip
  BY <1>2, PushAInv DEF Gossip
<1>3. CASE DnsSeedAddresses
  <2>1. ASSUME NEW a, NEW sv, Push(a, "Tried", now, sv) PROVE AInv'
    BY <1>3, <2>1, PushAInv DEF DnsSeedAddresses
  <2> QED BY <1>1, <1>3, <2>1 DEF DnsSeedAddresses
<1>4. CASE maybe_use_hardcoded_addresses
  BY <1>4, PushAInv DEF maybe_use_hardcoded_addresses
<1> QED BY <1>1, <1>2, <1>3, <1>4 DEF maybe_ask_dns_seed_for_addresses, Pass

(* rearrange_buckets and dump_peers.                                       *)
LEMMA RearrangeAInv == ASSUME AInv, Rearrange PROVE AInv'
<1> DEFINE D == DOMAIN addresses
<1>1. /\ DOMAIN addresses' = D /\ \A i \in D : addresses'[i] = Rearranged(addresses[i])
      /\ UNCHANGED <<good, goodBy, by, disk, link>>
  BY DEF Rearrange
<1>2. \A i \in D : IsEntry(addresses[i])
  BY DEF AInv, Book, IsBook, Am
<1>3. ASSUME NEW e, IsEntry(e)
      PROVE  LET r == Rearranged(e)
             IN  /\ IsEntry(r) /\ r.addr = e.addr /\ r.sv = e.sv
                 /\ r.st = e.st \/ r.st = "NeverTried"
  <2> DEFINE n == [e EXCEPT !.st = "NeverTried", !.at = 0, !.since = 0]
  <2>1. IsEntry(n) /\ n.addr = e.addr /\ n.sv = e.sv /\ n.st = "NeverTried"
    BY <1>3 DEF IsEntry
  <2>2. Rearranged(e) \in {e, n}
    BY DEF Rearranged
  <2> HIDE DEF n
  <2> QED BY <1>3, <2>1, <2>2
<1>4. \A i \in D : /\ IsEntry(addresses'[i]) /\ addresses'[i].addr = addresses[i].addr
                   /\ addresses'[i].sv = addresses[i].sv
                   /\ addresses'[i].st = addresses[i].st \/ addresses'[i].st = "NeverTried"
  BY <1>1, <1>2, <1>3
<1>5. /\ Am.addresses = addresses /\ Am.good = good /\ Am.goodBy = goodBy /\ Am.by = by
      /\ Am'.addresses = addresses' /\ Am'.good = good /\ Am'.goodBy = goodBy /\ Am'.by = by
      /\ DOMAIN Am' = {"addresses", "good", "goodBy", "by"}
  BY <1>1 DEF Am
<1>6. IsBook(Am')
  BY <1>1, <1>4, <1>5 DEF AInv, Book, IsBook
<1>7. Indexing(Am')
  <2>1. /\ \A s \in Indexed : by[s] = {j \in D : Has(addresses[j].sv, s)}
        /\ \A a, b \in D : addresses[a].addr = addresses[b].addr => a = b
    BY <1>5 DEF AInv, Book, Indexing
  <2> QED BY <1>1, <1>4, <1>5, <2>1, SMT DEF Indexing
<1>8. Listing(Am')
  BY <1>1, <1>4, <1>5 DEF AInv, Book, Listing
<1>9. ConnectedIn(Am', ReadyIds(link'))
  BY <1>1, <1>4, <1>5 DEF AInv, ConnectedIn
<1> QED BY <1>1, <1>6, <1>7, <1>8, <1>9 DEF AInv, Book

LEMMA DumpAInv == ASSUME AInv, DumpPeers PROVE AInv'
<1>1. /\ DOMAIN disk' = DOMAIN addresses
      /\ \A i \in DOMAIN disk' : disk'[i] = Saved(addresses[i])
      /\ UNCHANGED <<am, link>>
  BY DEF DumpPeers
<1>2. \A i \in DOMAIN addresses : IsEntry(addresses[i])
  BY DEF AInv, Book, IsBook, Am
<1>3. ASSUME NEW e, IsEntry(e) PROVE IsEntry(Saved(e)) /\ Saved(e).st # "Connected"
  <2> DEFINE n == [e EXCEPT !.st = "Tried", !.at = now]
  <2>1. IsEntry(n) /\ n.st = "Tried"
    BY <1>3 DEF IsEntry
  <2>2. Saved(e) = IF e.st = "Connected" THEN n ELSE e
    BY DEF Saved
  <2> HIDE DEF n
  <2> QED BY <1>3, <2>1, <2>2
<1>4. \A i \in DOMAIN disk' : IsEntry(disk'[i]) /\ disk'[i].st # "Connected"
  BY <1>1, <1>2, <1>3
<1>5. IsFiniteSet(DOMAIN disk')
  BY <1>1 DEF AInv, Book, IsBook, Am
<1>6. /\ Book(Am)' /\ (Cardinality(DOMAIN addresses) <= max_size)'
      /\ ConnectedIn(Am, ReadyIds(link))' /\ (\A c \in DOMAIN link : IsLink(link[c]))'
  <2>1. Am' = Am /\ addresses' = addresses /\ link' = link
    BY <1>1 DEF am, Am
  <2> QED BY <2>1 DEF AInv
<1> QED BY <1>4, <1>5, <1>6 DEF AInv

(* A restart reads peers.json into an empty book, with no peers yet.       *)
LEMMA RestartAInv == ASSUME AInv, max_size \in Nat, Restart PROVE AInv'
<1> DEFINE n == [addresses |-> Empty, good |-> {}, goodBy |-> [s \in Indexed |-> {}],
                 by |-> [s \in Indexed |-> {}]]
<1>1. PICK m \in push_addresses(n, disk) : Become(m)
  BY DEF Restart
<1>2. Book(n) /\ ConnectedIn(n, {}) /\ n.good = {}
  <2>1. /\ DOMAIN n = {"addresses", "good", "goodBy", "by"} /\ DOMAIN n.addresses = {}
        /\ n.good = {} /\ n.goodBy = [s \in Indexed |-> {}] /\ n.by = [s \in Indexed |-> {}]
    BY DEF Empty
  <2> HIDE DEF n
  <2> QED BY <2>1, FS_EmptySet DEF Book, IsBook, Indexing, Listing, ConnectedIn
<1> HIDE DEF n
<1>3. \A j \in DOMAIN disk : /\ IsEntry(disk[j]) /\ disk[j].st # "Connected"
                             /\ disk[j].st = "Failed" => j \notin n.good
  BY <1>2 DEF AInv
<1>4. IsFiniteSet(DOMAIN disk) /\ m \in push_addresses(n, disk)
  BY <1>1 DEF AInv
<1>5. /\ Book(m) /\ Cardinality(DOMAIN m.addresses) <= max_size
      /\ \A C : ConnectedIn(n, C) => ConnectedIn(m, C)
  BY <1>2, <1>3, <1>4, PushAddressesBook, Zenon
<1>6. DOMAIN link' = {} /\ disk' = disk
  BY DEF Restart, Empty
<1>7. ConnectedIn(m, {}) /\ {} \subseteq ReadyIds(link')
  BY <1>2, <1>5
<1> QED BY <1>1, <1>5, <1>6, <1>7, StepAInv

LEMMA InitAInv == ASSUME max_size \in Nat, Init PROVE AInv
<1>1. /\ Am.addresses = Empty /\ Am.good = {} /\ Am.goodBy = [s \in Indexed |-> {}]
      /\ Am.by = [s \in Indexed |-> {}] /\ DOMAIN Am = {"addresses", "good", "goodBy", "by"}
  BY DEF Init, Am
<1>2. DOMAIN Am.addresses = {} /\ DOMAIN addresses = {} /\ DOMAIN disk = {} /\ DOMAIN link = {}
  BY <1>1 DEF Init, Empty
<1>3. Book(Am) /\ ConnectedIn(Am, ReadyIds(link))
  BY <1>1, <1>2, FS_EmptySet DEF Book, IsBook, Indexing, Listing, ConnectedIn
<1>4. Cardinality(DOMAIN addresses) <= max_size
  BY <1>2, FS_EmptySet, SMT
<1> QED BY <1>2, <1>3, <1>4, FS_EmptySet DEF AInv

LEMMA NextAInv == ASSUME max_size \in Nat PROVE AInv /\ [Next]_vars => AInv'
<1>1. AInv /\ UNCHANGED vars => AInv'
  BY StutterAInv DEF vars, am
<1> QED BY <1>1, DialAInv, HandshakeAInv, LeaveAInv, SeedAInv, RearrangeAInv, DumpAInv, RestartAInv
        DEF Next

(* What AddressMan promises holds for a book of any size.                  *)
THEOREM BookInvariance == ASSUME max_size \in Nat PROVE Spec => []AInv
<1>1. Init => AInv
  BY InitAInv
<1>2. AInv /\ [Next]_vars => AInv'
  BY NextAInv
<1> QED BY <1>1, <1>2, PTL DEF Spec

(* However addresses are learned, dialled, lost, banned, rearranged, saved *)
(* and read back: none is kept twice, each is found by its services, no    *)
(* failed one is offered as good, none stays marked as connected without a *)
(* peer, and the book keeps to its size (push_addresses, update_set_state, *)
(* update_set_service_flag, prune_addresses, dump_peers).                  *)
THEOREM BookIsConsistent == ASSUME max_size \in Nat PROVE Spec => []BookConsistent
<1>1. AInv => BookConsistent
  <2> SUFFICES ASSUME AInv PROVE BookConsistent
    OBVIOUS
  <2>1. /\ Am.addresses = addresses /\ Am.good = good /\ Am.goodBy = goodBy /\ Am.by = by
    BY DEF Am
  <2>2. IndexedByService
    BY <2>1 DEF AInv, Book, Indexing, IndexedByService
  <2>3. FailedNotGood /\ GoodByServiceKnown
    BY <2>1 DEF AInv, Book, Listing, FailedNotGood, GoodByServiceKnown
  <2>4. ConnectedHasPeer
    BY <2>1 DEF AInv, ConnectedIn, ReadyIds, ConnectedHasPeer
  <2> QED BY <2>2, <2>3, <2>4 DEF AInv, BookConsistent
<1>2. Spec => []AInv
  BY BookInvariance
<1> QED BY <1>1, <1>2, PTL
=============================================================================
