------------------------------ MODULE AddressMan ------------------------------
(***************************************************************************)
(* The address manager (p2p_wire/address_man.rs): the known addresses, the *)
(* indexes that address selection reads, and peers.json.  Its methods are  *)
(* driven the way the node drives them: an address is picked and marked as *)
(* failed, the handshake or its absence updates it, the peer leaves or is  *)
(* banned, addresses are gossiped, the buckets are rearranged once in a    *)
(* while, and the node restarts.                                           *)
(***************************************************************************)
EXTENDS Integers, FiniteSets, Functions

CONSTANTS
  Addr,        \* network addresses
  Ids,         \* the random ids that LocalAddresses are given
  Conns,       \* slots for connections
  Kinds,       \* the kinds of connections the node opens
  Dialled,     \* the services that it asks for
  Sv,          \* Sv[a]: the services the node at a announces
  Claimed,     \* Claimed[a]: the services gossip attributes to a
  Reachable,   \* the addresses of a network we can reach, and routable
  max_size,    \* how many addresses are kept
  MIN_ADDRESSES, MIN_ADDRESSES_UTREEXO,
  Seeds,       \* the addresses the DNS seeds return
  Hardcoded,   \* the addresses of the seeds file
  BAN_TIME, RETRY_TIME, ASSUME_STALE,
  Start,       \* the time (seconds since 1970) at which the node starts
  MaxTime      \* bound on the time

VARIABLES
  addresses,   \* id -> [addr, st, at, sv, last, since]: st and at are the
               \* AddressState, since is a ghost: when the address was banned
  good,        \* good_addresses
  goodBy,      \* good_peers_by_service
  by,          \* peers_by_service
  disk,        \* what peers.json holds: the entries as saved
  now,
  seeding,     \* [dns: a lookup is on its way, fixed: used_fixed_addresses]
  link         \* the node's connections: [id, addr, kind, needs, st]

vars == <<addresses, good, goodBy, by, disk, now, seeding, link>>
am == <<addresses, good, goodBy, by>>

Indexed == {"NONE", "UTREEXO"}
MinimumServices == {"WITNESS", "NETWORK_LIMITED"}
Has(sv, s) == s = "NONE" \/ s \in sv
Empty == [x \in {} |-> x]
Put(f, k, v) == [x \in DOMAIN f \cup {k} |-> IF x = k THEN v ELSE f[x]]
Without(f, K) == Restrict(f, DOMAIN f \ K)
NotIn(idx, K) == [s \in Indexed |-> idx[s] \ K]

Init ==
  /\ addresses = Empty /\ good = {} /\ goodBy = [s \in Indexed |-> {}]
  /\ by = [s \in Indexed |-> {}] /\ disk = Empty /\ now = Start
  /\ link = Empty /\ seeding = [dns |-> TRUE, fixed |-> FALSE]

is_good_address(e) == e.addr \in Reachable /\ e.st \in {"Connected", "Tried"}

(* push_if_has_service, for the services a method lists: NONE is any.      *)
PushBy(idx, i, e) == [s \in Indexed |-> IF Has(e.sv, s) THEN idx[s] \cup {i} ELSE idx[s]]
PushGoodBy(idx, i, e) == IF is_good_address(e) THEN PushBy(idx, i, e) ELSE idx

(* The state am as a record, so that methods compose.                      *)
Am == [addresses |-> addresses, good |-> good, goodBy |-> goodBy, by |-> by]
Become(m) == /\ addresses' = m.addresses /\ good' = m.good
             /\ goodBy' = m.goodBy /\ by' = m.by

(* push_addresses, up to its last line: entries without the minimum        *)
(* services, unreachable, or known already are skipped.  Of several with   *)
(* one address the first stays, and the order is that of a HashMap where   *)
(* there are several: any of them.                                         *)
Knows(m, a) == \E j \in DOMAIN m.addresses : m.addresses[j].addr = a

(* Mutant of Pushable: an address is only known by its id.                 *)
PushableById(m, f) ==
  {i \in DOMAIN f \ DOMAIN m.addresses : MinimumServices \subseteq f[i].sv /\ f[i].addr \in Reachable}

Pushable(m, f) ==
  {i \in DOMAIN f \ DOMAIN m.addresses : /\ MinimumServices \subseteq f[i].sv
                                         /\ f[i].addr \in Reachable /\ ~Knows(m, f[i].addr)}
OnePerAddress(f, S) ==
  {K \in SUBSET S : \A i \in S : \E j \in K : /\ f[j].addr = f[i].addr
                                              /\ \A k \in K : f[k].addr = f[i].addr => k = j}
Pushed(m, f, K) ==
  LET GoodWith(s) == {i \in K : is_good_address(f[i]) /\ Has(f[i].sv, s)}
  IN  [addresses |-> [i \in DOMAIN m.addresses \cup K |-> IF i \in K THEN f[i] ELSE m.addresses[i]],
       good |-> m.good \cup {i \in K : is_good_address(f[i])},
       goodBy |-> [s \in Indexed |-> m.goodBy[s] \cup GoodWith(s)],
       by |-> [s \in Indexed |-> m.by[s] \cup {i \in K : Has(f[i].sv, s)}]]

Removed(m, K) ==
  [addresses |-> Without(m.addresses, K), good |-> m.good \ K,
   goodBy |-> NotIn(m.goodBy, K), by |-> NotIn(m.by, K)]

(* prune_addresses: the ones connected longest ago go first.               *)
prune_addresses(m) ==
  LET excess == Cardinality(DOMAIN m.addresses) - max_size
      last(i) == m.addresses[i].last
      Oldest(K) == \A i \in K, j \in DOMAIN m.addresses \ K : last(i) <= last(j)
  IN  IF excess <= 0 THEN {m}
      ELSE {Removed(m, K) : K \in {K \in SUBSET DOMAIN m.addresses :
                                     Cardinality(K) = excess /\ Oldest(K)}}

push_addresses(m, f) ==
  UNION {prune_addresses(Pushed(m, f, K)) : K \in OnePerAddress(f, Pushable(m, f))}

Marked(e, st, at) ==
  [e EXCEPT !.st = st, !.at = at, !.last = IF st = "Connected" THEN now ELSE e.last,
            !.since = IF st = "Banned" THEN now ELSE 0]
update_set_state(m, i, st, at) ==
  LET k == IF i \in DOMAIN m.addresses
           THEN [m EXCEPT !.addresses[i] = Marked(m.addresses[i], st, at)] ELSE m
      pushed == IF i \in DOMAIN k.addresses
                THEN [k EXCEPT !.by = PushBy(@, i, k.addresses[i]),
                               !.goodBy = PushGoodBy(@, i, k.addresses[i])]
                ELSE k
  IN  CASE st \in {"Banned", "NeverTried"} -> [k EXCEPT !.good = @ \ {i}]
        [] st \in {"Tried", "Connected"} -> [pushed EXCEPT !.good = @ \cup {i}]
        [] st = "Failed" -> [k EXCEPT !.good = @ \ {i}, !.goodBy = NotIn(@, {i})]

(* update_set_service_flag, with update_peer_services_buckets.             *)
update_set_service_flag(m, i, sv) ==
  IF ~(MinimumServices \subseteq sv) THEN Removed(m, {i})
  ELSE IF i \notin DOMAIN m.addresses THEN m
  ELSE [m EXCEPT !.addresses[i] = [@ EXCEPT !.sv = sv],
                 !.by["UTREEXO"] = IF "UTREEXO" \in sv THEN @ \cup {i} ELSE @ \ {i}]

-----------------------------------------------------------------------------
(* get_address_to_connect: one draw, by the indexes in the code's order.   *)
Retriable(e) == e.st = "Failed" /\ e.at + RETRY_TIME < now
Connectable(e) == e.st \in {"NeverTried", "Tried"} \/ Retriable(e)
get_address_by_service(m, s) ==
  {i \in DOMAIN m.addresses : /\ s \in Indexed /\ i \in m.goodBy[s]
                              /\ m.addresses[i].st # "Connected"}
try_with_service(m, s) ==
  {i \in DOMAIN m.addresses : s \in Indexed /\ i \in m.by[s] /\ Connectable(m.addresses[i])}
get_random_address(m, s) ==
  IF try_with_service(m, s) # {} THEN try_with_service(m, s) ELSE DOMAIN m.addresses
Drawn(m, s) ==
  IF get_address_by_service(m, s) # {} THEN get_address_by_service(m, s)
  ELSE get_random_address(m, s)

(* Of ten draws the last is returned; a recent failure drawn before it     *)
(* leaves the good lists.                                                  *)
CanReturn(m, s) == {i \in Drawn(m, s) : Connectable(m.addresses[i])}
DropFailed(m, s, i) ==
  [m EXCEPT !.good = @ \ {i}, !.goodBy = [t \in Indexed |-> IF t = s THEN @[t] \ {i} ELSE @[t]]]
AfterDraws(m, s) ==
  {m} \cup {DropFailed(m, s, i) : i \in {j \in Drawn(m, s) :
              m.addresses[j].st = "Failed" /\ ~Retriable(m.addresses[j])}}

(* A feeler takes any address that is not banned or connected.             *)
FeelerCandidates(m) == {i \in DOMAIN m.addresses : m.addresses[i].st \notin {"Banned", "Connected"}}

(* create_connection: the address is marked as failed, then dialled.  The  *)
(* connection may be the second one to that address.                       *)
Dial(c, kind, s) ==
  /\ c \notin DOMAIN link
  /\ \E m \in IF kind = "feeler" THEN {Am} ELSE AfterDraws(Am, s) :
     \E i \in IF kind = "feeler" THEN FeelerCandidates(m) ELSE CanReturn(m, s) :
       /\ Become(update_set_state(m, i, "Failed", now))
       /\ link' = Put(link, c, [id |-> i, addr |-> m.addresses[i].addr, kind |-> kind,
                                needs |-> IF kind = "full" THEN s ELSE "NONE", st |-> "Awaiting"])
  /\ UNCHANGED <<disk, now, seeding>>

(* handle_peer_ready: a feeler (or a peer beyond our maximum, which becomes *)
(* an addr-fetch) was tried; an extra peer is left as it is; a peer that    *)
(* lacks what it was dialled for was tried; any other is connected.         *)
Ready(m, l, sv) ==
  LET tried(k) == update_set_state(k, l.id, "Tried", now)
      flagged(k) == update_set_service_flag(k, l.id, sv)
  IN  CASE l.kind = "feeler" -> tried(flagged(m))
        [] l.kind = "extra" -> m
        [] l.kind = "full" /\ ~Has(sv, l.needs) -> flagged(tried(m))
        [] OTHER -> flagged(update_set_state(m, l.id, "Connected", 0))
Handshake(c) ==
  /\ c \in DOMAIN link /\ link[c].st = "Awaiting"
  /\ \E kind \in {link[c].kind} \cup (IF link[c].kind = "full" THEN {"feeler"} ELSE {}) :
       /\ Become(Ready(Am, [link[c] EXCEPT !.kind = kind], Sv[link[c].addr]))
       /\ link' = [link EXCEPT ![c] = [@ EXCEPT !.st = "Ready", !.kind = kind, !.needs = "NONE"]]
  /\ UNCHANGED <<disk, now, seeding>>

(* handle_disconnection, by the status of the peer; the address of a banned *)
(* peer is recorded with the length of the ban.                             *)
Leave(c) ==
  /\ c \in DOMAIN link
  /\ LET i == link[c].id IN
     IF link[c].st = "Awaiting" THEN Become(update_set_state(Am, i, "Failed", now))
     ELSE \/ Become(update_set_state(Am, i, "Tried", now))
          \/ link[c].kind # "feeler" /\ Become(update_set_state(Am, i, "Banned", BAN_TIME))
  /\ link' = Without(link, {c})
  /\ UNCHANGED <<disk, now, seeding>>

(* An address that is not known yet comes with a random id.               *)
FreshIds == Ids \ (DOMAIN addresses \cup DOMAIN disk \cup good \cup {link[c].id : c \in DOMAIN link})
Push(a, st, at, sv) ==
  \E i \in FreshIds :
    \E m \in push_addresses(Am, Put(Empty, i,
         [addr |-> a, st |-> st, at |-> at, sv |-> sv, last |-> 0, since |-> 0])) :
      Become(m)

Gossip ==
  /\ \E a \in Addr : Push(a, "NeverTried", 0, Claimed[a])
  /\ UNCHANGED <<disk, now, seeding, link>>

(* What good_addresses lists counts, known or not.  The same rule for      *)
(* compact filters is left out, with that service.                         *)
enough_addresses(m) ==
  /\ Cardinality(m.good) >= MIN_ADDRESSES
  /\ Cardinality(m.goodBy["UTREEXO"] \cap DOMAIN m.addresses) >= MIN_ADDRESSES_UTREEXO

(* maybe_open_connection, without enough addresses: the DNS seeds are      *)
(* asked by a task of its own, and what they return counts as tried; after *)
(* some time the seeds file is used, once.                                 *)
maybe_ask_dns_seed_for_addresses ==
  /\ ~enough_addresses(Am) /\ ~seeding.dns
  /\ seeding' = [seeding EXCEPT !.dns = TRUE]
  /\ UNCHANGED <<am, disk, now, link>>
DnsSeedAddresses ==
  /\ seeding.dns /\ seeding' = [seeding EXCEPT !.dns = FALSE]
  /\ UNCHANGED am \/ \E a \in Seeds, sv \in {MinimumServices, MinimumServices \cup {"UTREEXO"}} :
                        Push(a, "Tried", now, sv)
  /\ UNCHANGED <<disk, now, link>>
maybe_use_hardcoded_addresses ==
  /\ ~seeding.fixed /\ ~enough_addresses(Am)
  /\ seeding' = [seeding EXCEPT !.fixed = TRUE]
  /\ \E a \in Hardcoded : Push(a, "Tried", 0, MinimumServices)
  /\ UNCHANGED <<disk, now, link>>

(* rearrange_buckets: only the states change, no index does.               *)
Rearranged(e) ==
  IF \/ e.st = "Banned" /\ e.at < now
     \/ e.st \in {"Tried", "Failed"} /\ e.at + ASSUME_STALE < now
  THEN [e EXCEPT !.st = "NeverTried", !.at = 0, !.since = 0] ELSE e
Rearrange ==
  /\ addresses' = [i \in DOMAIN addresses |-> Rearranged(addresses[i])]
  /\ UNCHANGED <<good, goodBy, by, disk, now, seeding, link>>

(* dump_peers: a connected peer is saved as tried.                         *)
Saved(e) == IF e.st = "Connected" THEN [e EXCEPT !.st = "Tried", !.at = now] ELSE e
DumpPeers ==
  /\ disk' = [i \in DOMAIN addresses |-> Saved(addresses[i])]
  /\ UNCHANGED <<am, now, seeding, link>>

(* A restart, clean or not: start_addr_man reads what was saved last, and  *)
(* init_peers asks the DNS seeds if that is not enough.                    *)
Restart ==
  /\ \E m \in push_addresses([addresses |-> Empty, good |-> {},
                 goodBy |-> [s \in Indexed |-> {}], by |-> [s \in Indexed |-> {}]], disk) :
       /\ Become(m)
       /\ seeding' = [dns |-> ~enough_addresses(m), fixed |-> FALSE]
  /\ link' = Empty
  /\ UNCHANGED <<disk, now>>

Pass == now < MaxTime /\ now' = now + 1 /\ UNCHANGED <<am, disk, seeding, link>>

Next == \/ \E c \in Conns, kind \in Kinds, s \in Dialled : Dial(c, kind, s)
        \/ \E c \in Conns : Handshake(c) \/ Leave(c)
        \/ maybe_ask_dns_seed_for_addresses \/ DnsSeedAddresses \/ maybe_use_hardcoded_addresses
        \/ Gossip \/ Rearrange \/ DumpPeers \/ Restart \/ Pass

Spec == Init /\ [][Next]_vars

-----------------------------------------------------------------------------
(* The book keeps at most max_size addresses, all of them reachable, each in *)
(* one of the five states of AddressState (push_addresses, prune_addresses). *)
TypeOK ==
  /\ DOMAIN addresses \subseteq Ids /\ good \subseteq Ids
  /\ \A i \in DOMAIN addresses :
       /\ addresses[i].addr \in Reachable
       /\ addresses[i].st \in {"NeverTried", "Tried", "Connected", "Failed", "Banned"}
  /\ Cardinality(DOMAIN addresses) <= max_size

(* No address is kept twice, whatever gossip repeats and whatever id it    *)
(* comes with, and every address can be found by the services it has.      *)
IndexedByService ==
  /\ \A i, j \in DOMAIN addresses : addresses[i].addr = addresses[j].addr => i = j
  /\ \A s \in Indexed : by[s] = {i \in DOMAIN addresses : Has(addresses[i].sv, s)}

(* An address marked as connected has a connection: an address that stayed *)
(* marked after its peer left would never be dialled again.                *)
ConnectedHasPeer ==
  \A i \in DOMAIN addresses : addresses[i].st = "Connected" =>
     \E c \in DOMAIN link : link[c].id = i /\ link[c].st = "Ready"

(* A failed address is in no list of good addresses ("this peer is assumed *)
(* to be down and removed from good addresses for some time").             *)
FailedNotGood ==
  \A i \in DOMAIN addresses : addresses[i].st = "Failed" =>
     i \notin good /\ \A s \in Indexed : i \notin goodBy[s]

(* The lists that selection draws from only name known addresses.          *)
GoodByServiceKnown == \A s \in Indexed : goodBy[s] \subseteq DOMAIN addresses

(* The address book is consistent through gossip, pruning, connections     *)
(* that succeed, fail, hang up or are banned, peers.json and restarts:     *)
(* selection never draws an address that is gone, failed, or was never     *)
(* marked as free again, and the book keeps to its size (push_addresses,   *)
(* update_set_state, prune_addresses, dump_peers).                         *)
BookConsistent ==
  /\ Cardinality(DOMAIN addresses) <= max_size
  /\ IndexedByService /\ ConnectedHasPeer /\ FailedNotGood /\ GoodByServiceKnown

(* "Disconnects a peer and bans it for BAN_TIME" (disconnect_and_ban): no  *)
(* banned address is forgiven earlier.                                     *)
BanLasts ==
  [][\A i \in DOMAIN addresses \cap DOMAIN addresses' :
       addresses[i].st = "Banned" /\ addresses'[i].st # "Banned"
         => now - addresses[i].since >= BAN_TIME]_vars

(* "Good peers are those which we think are live, and haven't banned yet"  *)
BannedNotGood ==
  \A i \in DOMAIN addresses : addresses[i].st = "Banned" =>
     \A s \in Indexed : i \notin goodBy[s]
==============================================================================
