-------------------------------- MODULE Rpl --------------------------------
(***************************************************************************)
(* RPL on a router of a storing-mode network, core/net/rpl, over the       *)
(* neighbour table and its four users: the link statistics, the IPv6       *)
(* neighbours, the next hops of the routes and the candidate parents.      *)
(*                                                                         *)
(* A message, the report of a transmission or a tick of the periodic timer *)
(* is handled in one step.  A function of the code is an operator from the *)
(* state of the node to its next state, or to the set of the states that   *)
(* it may end in, because one calls the other in the middle: a table that  *)
(* is full evicts a neighbour, and the callbacks of the tables change      *)
(* routes and parents while the message goes on.                           *)
(*                                                                         *)
(* The node is not the root, and knows one instance with one DAG.  A       *)
(* neighbour's link-local address is made from its link-layer address, so  *)
(* the two are one here.  Lifetimes are left out: a route may run out at   *)
(* any tick.  So are the clock and the counters behind rpl_parent_is_fresh: *)
(* any of the links with statistics may be found fresh.  Messages that are *)
(* sent, their timers and DTSN are left out.  The build is the default one *)
(* with RPL: links are probed (rpl-conf.h:279), and solicitations are      *)
(* answered but not sent (contiki-default-conf.h:218).                     *)
(***************************************************************************)
EXTENDS NbrTable

CONSTANTS
  Dest,                     \* the destinations of routes
  NumRoutes,                \* UIP_DS6_ROUTE_NB
  MinHop,                   \* min_hoprankinc
  MaxRankInc,               \* max_rankinc, not zero
  INFINITE_RANK,
  IntRange,                 \* 2^16 where an int has 16 bits, else 2^32
  MAX_LINK_METRIC, MAX_PATH_COST, PARENT_SWITCH_THRESHOLD,   \* of MRHOF
  INIT_ETX,                 \* LINK_STATS_INIT_ETX
  Etx,                      \* the other metrics that a link may come to
  DioRank                   \* the ranks that neighbours advertise

ROOT_RANK == MinHop
MAX_CHILDREN == NumNeighbors - 2
Wrap(n) == n % IntRange
Rank == 0..INFINITE_RANK

Route == [hop: Index, nopath: BOOLEAN, expired: BOOLEAN]

ASSUME RplAssumption ==
  /\ NULL \notin Route
  /\ Table = {"link_stats", "ds6_neighbors", "nbr_routes", "rpl_parents"}
  /\ {NumRoutes, MinHop, MaxRankInc, INFINITE_RANK, IntRange, MAX_PATH_COST}
       \subseteq Nat \ {0}
  /\ IntRange > INFINITE_RANK
  /\ MAX_PATH_COST + MinHop + MaxRankInc <= INFINITE_RANK
  /\ DioRank \subseteq ROOT_RANK..INFINITE_RANK
  /\ Etx \cup {INIT_ETX} \subseteq 1..(INFINITE_RANK - 1)

VARIABLES
  table,   \* the neighbour table
  etx,     \* of the items of link_stats
  parent,  \* the items of rpl_parents
  route,   \* of each destination; NULL: there is none
  dag      \* the DAG, its instance's default route and the default routers

vars == <<table, etx, parent, route, dag>>

\* What is not used is never read before it is set; the model clears it.
NoParent == [rank |-> 0, updated |-> FALSE]

\* What an operator from states to states is about.
State == [table: NbrTable,
          etx: [Index -> Etx \cup {INIT_ETX, 0}],
          parent: [Index -> [rank: Rank, updated: BOOLEAN]],
          route: [Dest -> Route \cup {NULL}],
          dag: [rank: Rank, joined: BOOLEAN, min_rank: Rank,
                preferred_parent: Index \cup {NONE},
                def_route: Addr \cup {NULL}, defaultrouterlist: SUBSET Addr]]

RplInit ==
  /\ table = EmptyTable
  /\ etx = [i \in Index |-> 0]
  /\ parent = [i \in Index |-> NoParent]
  /\ route = [d \in Dest |-> NULL]
  /\ dag = [rank |-> INFINITE_RANK, joined |-> FALSE, min_rank |-> INFINITE_RANK,
            preferred_parent |-> NONE, def_route |-> NULL, defaultrouterlist |-> {}]

Now == [table |-> table, etx |-> etx, parent |-> parent, route |-> route, dag |-> dag]
Becomes(s) == /\ table' = s.table /\ etx' = s.etx /\ parent' = s.parent
              /\ route' = s.route /\ dag' = s.dag

Then(S, F(_)) == UNION {F(s) : s \in S}     \* F, whichever of S came before

Uses(s, m, i) == <<m, i>> \in s.table.used
Hops(s) == {s.route[d].hop : d \in {e \in Dest : s.route[e] # NULL}}

----------------------------------------------------------------------------
(* Ranks: rpl-mrhof.c *)

DAG_RANK(r) == r \div MinHop

parent_link_metric(s, p) ==
  IF Uses(s, "link_stats", p) THEN s.etx[p] ELSE INFINITE_RANK
parent_path_cost(s, p) ==
  Min({s.parent[p].rank + parent_link_metric(s, p), INFINITE_RANK})
rank_via_parent(s, p) ==
  Max({Min({s.parent[p].rank + MinHop, INFINITE_RANK}), parent_path_cost(s, p)})
rpl_rank_via_parent(s, p) == IF p = NONE THEN INFINITE_RANK ELSE rank_via_parent(s, p)

has_usable_link(s, p) == parent_link_metric(s, p) <= MAX_LINK_METRIC
parent_is_acceptable(s, p) ==
  p # NONE /\ has_usable_link(s, p) /\ parent_path_cost(s, p) <= MAX_PATH_COST

\* best_parent of the objective function, with its hysteresis.
Better(s, p1, p2) ==
  LET c1 == parent_path_cost(s, p1)
      c2 == parent_path_cost(s, p2)
      close == c1 < c2 + PARENT_SWITCH_THRESHOLD /\ c1 > c2 - PARENT_SWITCH_THRESHOLD
      acceptable == {p \in {p1, p2} : parent_is_acceptable(s, p)}
  IN CASE acceptable = {} -> NONE
       [] acceptable = {p1} -> p1
       [] acceptable = {p2} -> p2
       [] OTHER -> IF s.dag.preferred_parent \in {p1, p2} /\ close
                   THEN s.dag.preferred_parent
                   ELSE IF c1 < c2 THEN p1 ELSE p2

AnyRank(s, r) == r # INFINITE_RANK
acceptable_rank(s, r) ==
  r # INFINITE_RANK /\ DAG_RANK(r) <= DAG_RANK(Wrap(s.dag.min_rank + MaxRankInc))

----------------------------------------------------------------------------
(* Routes and default routes: uip-ds6-route.c, rpl.c *)

\* The last route through a neighbour releases it.
KeepsHop(s, d) == [s EXCEPT !.route[d] = NULL]
uip_ds6_route_rm(s, d) ==
  LET hop == s.route[d].hop
      t == [s EXCEPT !.route[d] = NULL]
  IN IF s.route[d] = NULL THEN s
     ELSE IF hop \in Hops(t) THEN t
     ELSE [t EXCEPT !.table = nbr_table_remove(t.table, "nbr_routes", hop)]

rm_routelist(s, i) ==
  [s EXCEPT !.route = [d \in Dest |-> IF @[d] # NULL /\ @[d].hop = i THEN NULL ELSE @[d]],
            !.table = nbr_table_remove(s.table, "nbr_routes", i)]

\* rpl_remove_routes_by_nexthop leaves the removal to the next ticks.
ExpireRoutesVia(s, i) ==
  [s EXCEPT !.route = [d \in Dest |->
     IF @[d] # NULL /\ @[d].hop = i THEN [@[d] EXCEPT !.expired = TRUE] ELSE @[d]]]

\* rpl_add_route, where a is an IPv6 neighbour.
RoutesLeft(s) == Cardinality({d \in Dest : s.route[d] # NULL}) < NumRoutes
rpl_add_route(s, d, a) ==
  LET i == nbr_table_get_from_lladdr(s.table, "ds6_neighbors", a)
      known == s.route[d] # NULL /\ s.route[d].hop = i
      t == IF known THEN s ELSE uip_ds6_route_rm(s, d)
      fresh == [hop |-> i, nopath |-> FALSE, expired |-> FALSE]
  IN IF known THEN [s EXCEPT !.route[d] = fresh]
     ELSE IF ~RoutesLeft(t) THEN t
     ELSE [t EXCEPT !.route[d] = fresh,
                    !.table = nbr_table_lock(Use(t.table, "nbr_routes", i), "nbr_routes", i)]

rpl_set_default_route(s, a) ==
  [s EXCEPT !.dag.def_route = a,
            !.dag.defaultrouterlist = (@ \ {s.dag.def_route}) \cup ({a} \cap Addr)]

----------------------------------------------------------------------------
(* Parents: rpl-dag.c *)

rpl_set_preferred_parent(s, p) ==
  LET last == s.dag.preferred_parent IN
  IF p = last THEN s
  ELSE [s EXCEPT !.dag.preferred_parent = p,
                 !.table = nbr_table_lock(nbr_table_unlock(s.table, "rpl_parents", last),
                                          "rpl_parents", p)]

\* Without a preferred parent there may still be a default route to remove.
OnlyPreferred(s, p) ==
  IF s.dag.preferred_parent # p THEN s
  ELSE rpl_set_preferred_parent(
         rpl_set_default_route([s EXCEPT !.dag.rank = INFINITE_RANK], NULL), NONE)
rpl_nullify_parent(s, p) ==
  IF s.dag.preferred_parent \notin {p, NONE} THEN s
  ELSE rpl_set_preferred_parent(
         rpl_set_default_route([s EXCEPT !.dag.rank = INFINITE_RANK], NULL), NONE)

rpl_remove_parent(s, p) ==
  LET t == rpl_nullify_parent(s, p)
  IN [t EXCEPT !.table = nbr_table_remove(t.table, "rpl_parents", p), !.parent[p] = NoParent]

\* rpl_add_parent, unless the sender is not an IPv6 neighbour.
rpl_add_parent(s, p, r) ==
  [s EXCEPT !.table = Use(s.table, "rpl_parents", p),
            !.parent[p] = [rank |-> r, updated |-> FALSE]]

\* best_parent, of a set of parents.
BestParent(s, of) ==
  LET Candidate(p) == s.parent[p].rank \in ROOT_RANK..(INFINITE_RANK - 1) /\ p \in of
      Visit(best, p) == IF Candidate(p) THEN Better(s, best, p) ELSE best
  IN Through(s.table, "rpl_parents", NONE, Visit)

\* The best parent, or the best fresh one while the best is not fresh.
MayBeFresh(s) == Used(s.table, "rpl_parents") \cap Used(s.table, "link_stats")
Selectable(s) ==
  LET Select(best, fresh, best_fresh) ==
        IF best \in fresh \/ best_fresh = NONE THEN best ELSE best_fresh
  IN {Select(best, fresh, BestParent(s, fresh)) :
        best \in {BestParent(s, Index)}, fresh \in SUBSET MayBeFresh(s)}

rpl_select_parent(s) ==
  {[rpl_set_preferred_parent(s, p) EXCEPT !.dag.rank = rpl_rank_via_parent(s, p)] :
     p \in Selectable(s)}

\* The result of rpl_select_dag is NULL where no preferred parent is left.
WithMinRank(s, last) ==
  IF last = NONE \/ s.dag.rank < s.dag.min_rank
  THEN [s EXCEPT !.dag.min_rank = s.dag.rank] ELSE s
Settle(s, last) ==
  LET p == s.dag.preferred_parent
  IN IF ~acceptable_rank(s, s.dag.rank) THEN rpl_set_preferred_parent(s, NONE)
     ELSE IF p = last THEN s
     ELSE rpl_set_default_route(s, IF Uses(s, "ds6_neighbors", p) THEN s.table.key[p] ELSE NULL)
rpl_select_dag(s) ==
  LET last == s.dag.preferred_parent
  IN {IF t.dag.preferred_parent = NONE THEN t ELSE Settle(WithMinRank(t, last), last) :
        t \in rpl_select_parent(s)}

rpl_local_repair(s) ==
  Through(s.table, "rpl_parents", [s EXCEPT !.dag.rank = INFINITE_RANK], rpl_nullify_parent)

\* A parent whose link is fresh and useless is no next hop any more.
DropUnreachable(s, p) ==
  IF /\ Uses(s, "ds6_neighbors", p) /\ Uses(s, "nbr_routes", p)
     /\ p \in MayBeFresh(s) /\ ~has_usable_link(s, p)
  THEN {s, ExpireRoutesVia(s, p)} ELSE {s}
rpl_process_parent_event(s, p) ==
  LET Repair(t) == IF t.dag.preferred_parent = NONE /\ s.dag.preferred_parent # NONE
                   THEN rpl_local_repair(t) ELSE t
      Decide(t) == IF acceptable_rank(t, t.parent[p].rank)
                   THEN {Repair(u) : u \in rpl_select_dag(t)} ELSE {rpl_nullify_parent(t, p)}
  IN Then(DropUnreachable(s, p), Decide)

----------------------------------------------------------------------------
(* Eviction: rpl-nbr-policy.c, nbr-table.c *)

NothingMustStay(s, i) == FALSE
MustStay(s, i) == i = s.dag.preferred_parent

\* update_nbr: the neighbour to remove, and the rank through it.
Worst(s) ==
  LET Visit(w, i) ==
        CASE ~Uses(s, "nbr_routes", i) /\ ~Uses(s, "rpl_parents", i)
               -> [rank |-> INFINITE_RANK, nbr |-> i]
          [] /\ ~Uses(s, "nbr_routes", i) /\ Uses(s, "rpl_parents", i)
             /\ ~MustStay(s, i) /\ s.parent[i].rank > 0
             /\ w.rank < INFINITE_RANK /\ rank_via_parent(s, i) > w.rank
               -> [rank |-> rank_via_parent(s, i), nbr |-> i]
          [] OTHER -> w
  IN Through(s.table, "ds6_neighbors", [rank |-> 0, nbr |-> NONE], Visit)

Children(s) == Used(s.table, "ds6_neighbors") \cap Used(s.table, "nbr_routes")

\* Whether the policy lets the neighbour in; r is the rank of a DIO.
LetsIn(s, reason, r) ==
  CASE reason = "DIO" -> /\ s.dag.joined
                         /\ Wrap(r + MinHop) < Wrap(Worst(s).rank - (MinHop \div 2))
    [] reason \in {"DIS", "DAO"} -> Cardinality(Children(s)) < MAX_CHILDREN
    [] OTHER -> FALSE

\* At most one neighbour.
rpl_nbr_policy_find_removable(s, reason, r) ==
  IF LetsIn(s, reason, r) THEN {Worst(s).nbr} \ {NONE} ELSE {}

\* The callbacks of the tables that use the key, in the order of registration.
remove_key(s, i) ==
  LET nbr_rm(t) == [t EXCEPT
        !.parent[i] = IF Uses(t, "rpl_parents", i)
                      THEN [rank |-> INFINITE_RANK, updated |-> TRUE] ELSE @,
        !.table = nbr_table_remove(t.table, "ds6_neighbors", i)]
      s1 == IF Uses(s, "ds6_neighbors", i) THEN nbr_rm(s) ELSE s
      s2 == IF Uses(s1, "nbr_routes", i) THEN rm_routelist(s1, i) ELSE s1
      s3 == IF Uses(s2, "rpl_parents", i) THEN rpl_remove_parent(s2, i) ELSE s2
  IN [s3 EXCEPT !.table = RemoveKey(s3.table, i), !.etx[i] = 0]

\* Without room and without a neighbour to remove nothing happens.
nbr_table_add_lladdr(s, m, a, reason, r) ==
  LET i == index_from_lladdr(s.table, a)
      Add(t, k) == [t EXCEPT !.table = Use(AddKey(t.table, k, a), m, k)]
      MakeRoom(k) == {Add(t, k) : t \in {remove_key([s EXCEPT !.table = UnlockKey(s.table, k)], k)}}
      victim == rpl_nbr_policy_find_removable(s, reason, r)
  IN CASE i # NONE -> {[s EXCEPT !.table = Use(s.table, m, i)]}
       [] i = NONE /\ FreeKeys(s.table) # {} -> {Add(s, FirstFree(s.table))}
       [] OTHER -> IF victim = {} THEN {s} ELSE Then(victim, MakeRoom)

\* rpl_icmp6_update_nbr_table, and the same in ns_input.
update_nbr_table(s, a, reason, r) ==
  IF nbr_table_get_from_lladdr(s.table, "ds6_neighbors", a) # NONE THEN {s}
  ELSE nbr_table_add_lladdr(s, "ds6_neighbors", a, reason, r)

----------------------------------------------------------------------------
(* Events *)

\* link_stats_input_callback, to which every frame is shown first.
Received(a) ==
  LET Fresh(t) == [t EXCEPT !.etx[index_from_lladdr(t.table, a)] = INIT_ETX]
  IN {IF index_from_lladdr(t.table, a) \in Used(t.table, "link_stats") \ Used(table, "link_stats")
      THEN Fresh(t) ELSE t :
        t \in nbr_table_add_lladdr(Now, "link_stats", a, "LINK_STATS", 0)}

\* What comes of a message that makes its sender an IPv6 neighbour.
Heard(a, reason, r) == Then(Received(a), LAMBDA s : update_nbr_table(s, a, reason, r))
Neighbor(s, a) == nbr_table_get_from_lladdr(s.table, "ds6_neighbors", a)

OneOf(S) == \E s \in S : Becomes(s)

Input(a) == OneOf(Received(a))

\* The first DIO: rpl_join_instance.
rpl_join_instance(s, a, p, r) ==
  LET t == rpl_set_preferred_parent(rpl_add_parent(s, p, r), p)
      rank == rank_via_parent(t, p)
  IN rpl_set_default_route([t EXCEPT !.dag.joined = TRUE, !.dag.rank = rank,
                                     !.dag.min_rank = rank], a)
JoinInstance(a, r) ==
  /\ ~dag.joined
  /\ \E s \in Heard(a, "DIO", r) :
       LET p == Neighbor(s, a) IN Becomes(IF p = NONE THEN s ELSE rpl_join_instance(s, a, p, r))

\* A DIO of a newer version.
remove_parents(s) == Through(s.table, "rpl_parents", s, rpl_remove_parent)
global_repair(s, p, r) ==
  LET t == rpl_add_parent(s, p, r)
      rank == rank_via_parent(t, p)
  IN IF p = NONE THEN {[s EXCEPT !.dag.rank = INFINITE_RANK, !.dag.min_rank = INFINITE_RANK]}
     ELSE Then({[t EXCEPT !.dag.rank = rank, !.dag.min_rank = rank]},
               LAMBDA u : rpl_process_parent_event(u, p))
GlobalRepair(a, r) ==
  /\ dag.joined
  /\ \E s \in Received(a) : \E t \in {remove_parents(s)} :
       OneOf(global_repair(t, Neighbor(t, a), r))

\* A DIO of the version that the node has.
rpl_process_dio(s, a, p, r) ==
  LET t == IF Uses(s, "rpl_parents", p) THEN s ELSE rpl_add_parent(s, p, r)
      Refreshed(u) == IF p = u.dag.preferred_parent
                      THEN [u EXCEPT !.dag.defaultrouterlist = @ \cup {a}] ELSE u
  IN {Refreshed(u) : u \in Then({[t EXCEPT !.parent[p] = [rank |-> r, updated |-> TRUE]]},
                                LAMBDA u : rpl_process_parent_event(u, p))}
ProcessDio(a, r) ==
  /\ dag.joined
  /\ \E s \in Heard(a, "DIO", r) : \E p \in {Neighbor(s, a)} :
       IF p = NONE THEN Becomes(s) ELSE OneOf(rpl_process_dio(s, a, p, r))

\* A unicast DIS; a neighbour solicitation; both add the neighbour.
DisInput(a) == dag.joined /\ OneOf(Heard(a, "DIS", 0))
NsInput(a) == OneOf(Heard(a, "IPV6_ND", 0))

\* A DAO from a neighbour that is, or seems, nearer to the root is a loop.
IsLoop(s, p) == /\ Uses(s, "ds6_neighbors", p) /\ Uses(s, "rpl_parents", p)
                /\ \/ DAG_RANK(s.parent[p].rank) < DAG_RANK(s.dag.rank)
                   \/ p = s.dag.preferred_parent
LoopFound(s, p) == [s EXCEPT !.parent[p] = [rank |-> INFINITE_RANK, updated |-> TRUE]]

DaoInput(a, d) ==
  /\ dag.joined
  /\ \E s \in Received(a) : \E p \in {index_from_lladdr(s.table, a)} :
       IF IsLoop(s, p) THEN Becomes(LoopFound(s, p))
       ELSE \E t \in update_nbr_table(s, a, "DAO", 0) :
              Becomes(IF Neighbor(t, a) = NONE THEN t ELSE rpl_add_route(t, d, a))

\* A No-Path DAO gives the route, through its sender only, a last delay.
NoPathInput(a, d) ==
  LET Leaves(s, p) == s.route[d] # NULL /\ ~s.route[d].nopath /\ s.route[d].hop = p
  IN /\ dag.joined
     /\ \E s \in Received(a) : \E p \in {index_from_lladdr(s.table, a)} :
          Becomes(IF IsLoop(s, p) THEN LoopFound(s, p)
                  ELSE IF Leaves(s, p)
                  THEN [s EXCEPT !.route[d].nopath = TRUE, !.route[d].expired = FALSE]
                  ELSE s)

\* The MAC reports what became of a packet to a neighbour, an IPv6 neighbour
\* when it was sent: link_stats_packet_sent, rpl_link_neighbor_callback.
PacketSent(a, metric) ==
  \E i \in {Neighbor(Now, a)} \ {NONE} :
    /\ table' = Use(table, "link_stats", i)
    /\ etx' = [etx EXCEPT ![i] = metric]
    /\ parent' = [parent EXCEPT ![i].updated = i \in Used(table, "rpl_parents")]
    /\ UNCHANGED <<route, dag>>

\* A packet comes back that a neighbour could not forward, or one whose header
\* tells a rank of its sender that does not fit.
ForwardError(d) == dag.joined /\ Becomes(uip_ds6_route_rm(Now, d))
RankError(a, r) ==
  /\ dag.joined
  /\ \E s \in Received(a) : \E p \in Used(s.table, "rpl_parents") :
       s.table.key[p] = a /\ Becomes([s EXCEPT !.parent[p].rank = r])

\* rpl_recalculate_ranks.
recalculate_ranks(s) ==
  LET Update(t, p) ==
        IF t.parent[p].updated
        THEN rpl_process_parent_event([t EXCEPT !.parent[p].updated = FALSE], p)
        ELSE {t}
      Visit(S, p) == UNION {Update(t, p) : t \in S}
  IN Through(s.table, "rpl_parents", {s}, Visit)

\* The periodic timer: the lifetimes of some routes run out; one route that has
\* run out is removed; the parents with news are gone through.
Routed == {d \in Dest : route[d] # NULL}
Aged(out) ==
  [Now EXCEPT !.route = [d \in Dest |->
     IF d \in out THEN [@[d] EXCEPT !.expired = TRUE] ELSE @[d]]]
Purged(s) ==
  LET dead == {d \in Routed : s.route[d].expired}
  IN IF dead = {} THEN {s} ELSE {uip_ds6_route_rm(s, d) : d \in dead}
Tick(out) == \E s \in Purged(Aged(out)) : OneOf(recalculate_ranks(s))

RplNext ==
  \/ \E a \in Addr : Input(a) \/ DisInput(a) \/ NsInput(a)
  \/ \E a \in Addr, r \in DioRank : JoinInstance(a, r) \/ GlobalRepair(a, r) \/ ProcessDio(a, r)
  \/ \E a \in Addr, d \in Dest : DaoInput(a, d) \/ NoPathInput(a, d)
  \/ \E a \in Addr, metric \in Etx : PacketSent(a, metric)
  \/ \E d \in Dest : ForwardError(d)
  \/ \E a \in Addr, r \in DioRank : RankError(a, r)
  \/ \E out \in SUBSET Routed : Tick(out)

RplSpec == RplInit /\ [][RplNext]_vars

----------------------------------------------------------------------------
(* Properties *)

(* The tables agree although each is changed by other handlers: a parent   *)
(* and a next hop are IPv6 neighbours (rpl_remove_routes_by_nexthop reads  *)
(* the address of every next hop), the next hops are exactly the items of  *)
(* nbr_routes and locked there, a listed address is listed once, and no    *)
(* table uses what is not listed.                                          *)
TablesAgree ==
  /\ Now \in State
  /\ Used(table, "rpl_parents") \cup Hops(Now) \subseteq Used(table, "ds6_neighbors")
  /\ Used(table, "nbr_routes") = Hops(Now) /\ Locked(table, "nbr_routes") = Hops(Now)
  /\ IsInjective([n \in DOMAIN table.keys |-> table.key[table.keys[n]]])
  /\ \A m \in Table : Used(table, m) \subseteq Range(table.keys)

(* The default route follows the preferred parent through every switch,    *)
(* repair and failure half-way: with a preferred parent, which is in the   *)
(* parent table and alone locked there, it goes through that parent and    *)
(* nowhere else; without one the node has no default route and advertises  *)
(* an infinite rank.                                                       *)
ParentIsRouter ==
  LET p == dag.preferred_parent
      router == IF p = NONE THEN {} ELSE {table.key[p]}
  IN /\ p # NONE => p \in Used(table, "rpl_parents")
     /\ Locked(table, "rpl_parents") = {p} \ {NONE}
     /\ dag.defaultrouterlist = router
     /\ {dag.def_route} \ {NULL} = router
     /\ p = NONE => dag.rank = INFINITE_RANK

(* An attached node never advertises a rank further from the lowest it had *)
(* than DAGMaxRankIncrease allows, however parents and links change.       *)
RankWithinMin ==
  dag.preferred_parent # NONE =>
    /\ dag.min_rank <= dag.rank
    /\ DAG_RANK(dag.rank) <= DAG_RANK(dag.min_rank + MaxRankInc)

(* Making room never costs a neighbour in use: who leaves the table was    *)
(* neither the preferred parent nor a next hop.                            *)
Listed == {table.key[i] : i \in Range(table.keys)}
InUse == {table.key[i] : i \in ({dag.preferred_parent} \ {NONE}) \cup Hops(Now)}
EvictionSparesUsed == [][(Listed \ Listed') \cap InUse = {}]_vars

=============================================================================
