----------------------------- MODULE RplProofs -----------------------------
(***************************************************************************)
(* What Rpl promises, proved for every number of neighbours, table size,   *)
(* set of destinations and of ranks.                                       *)
(***************************************************************************)
EXTENDS Rpl, ListLemmas

----------------------------------------------------------------------------
(* The inductive invariant *)

\* The list of the neighbour table has the indices that have an address, each
\* once and no two with the same, and no table uses any other.
Listing(t) ==
  /\ Distinct(t.keys)
  /\ \A i \in Index : t.key[i] # NULL <=> i \in Range(t.keys)
  /\ \A i, j \in Range(t.keys) : t.key[i] = t.key[j] => i = j
  /\ \A m \in Table : Used(t, m) \subseteq Range(t.keys)

Agree(s) ==
  /\ s \in State
  /\ Listing(s.table)
  /\ Used(s.table, "rpl_parents") \cup Hops(s) \subseteq Used(s.table, "ds6_neighbors")
  /\ Used(s.table, "nbr_routes") = Hops(s) /\ Locked(s.table, "nbr_routes") = Hops(s)

\* What holds even between the choice of a parent and the default route's.
ParentIsLocked(s) == Locked(s.table, "rpl_parents") = {s.dag.preferred_parent} \ {NONE}
Consistent(s) ==
  /\ ParentIsLocked(s)
  /\ s.dag.defaultrouterlist = {s.dag.def_route} \ {NULL}

FollowsParent(s) ==
  /\ Consistent(s)
  /\ s.dag.preferred_parent # NONE =>
       /\ s.dag.preferred_parent \in Used(s.table, "rpl_parents")
       /\ s.dag.def_route = s.table.key[s.dag.preferred_parent]
  /\ s.dag.preferred_parent = NONE => s.dag.def_route = NULL

RankFits(s) ==
  s.dag.preferred_parent # NONE =>
    /\ s.dag.min_rank <= s.dag.rank
    /\ DAG_RANK(s.dag.rank) <= DAG_RANK(s.dag.min_rank + MaxRankInc)

Detached(s) == s.dag.preferred_parent = NONE => s.dag.rank = INFINITE_RANK

Good(s) == Agree(s) /\ FollowsParent(s) /\ RankFits(s) /\ Detached(s)

RplInv == Good(Now)

----------------------------------------------------------------------------
(* Numbers *)

LEMMA MinOfTwo ==
  ASSUME NEW a \in Nat, NEW b \in Nat
  PROVE  Min({a, b}) = IF a <= b THEN a ELSE b
<1> DEFINE m == IF a <= b THEN a ELSE b
<1>1. m \in {a, b} /\ \A y \in {a, b} : m <= y
  OBVIOUS
<1>2. \A x \in {a, b} : (\A y \in {a, b} : x <= y) => x = m
  OBVIOUS
<1> QED BY <1>1, <1>2 DEF Min

LEMMA MaxOfTwo ==
  ASSUME NEW a \in Nat, NEW b \in Nat
  PROVE  Max({a, b}) = IF a >= b THEN a ELSE b
<1> DEFINE m == IF a >= b THEN a ELSE b
<1>1. m \in {a, b} /\ \A y \in {a, b} : m >= y
  OBVIOUS
<1>2. \A x \in {a, b} : (\A y \in {a, b} : x >= y) => x = m
  OBVIOUS
<1> QED BY <1>1, <1>2 DEF Max

LEMMA DagRankGrows ==
  ASSUME NEW r \in Nat, NEW q \in Nat, r <= q
  PROVE  DAG_RANK(r) <= DAG_RANK(q)
<1>1. MinHop \in Nat \ {0}
  BY RplAssumption
<1> DEFINE x == r \div MinHop
           y == q \div MinHop
<1>2. /\ x \in Int /\ y \in Int
      /\ MinHop * x <= r /\ r < MinHop * x + MinHop
      /\ MinHop * y <= q /\ q < MinHop * y + MinHop
  BY <1>1, Z3
<1>3. SUFFICES ASSUME x >= y + 1 PROVE FALSE
  <2> HIDE DEF x, y
  <2>1. x <= y
    BY <1>2, <1>3
  <2> QED BY <2>1 DEF x, y, DAG_RANK
<1> HIDE DEF x, y
<1>4. MinHop * x >= MinHop * (y + 1)
  BY <1>1, <1>2, <1>3, Z3
<1>5. MinHop * (y + 1) = MinHop * y + MinHop
  BY <1>1, <1>2, Z3
<1> QED BY <1>1, <1>2, <1>4, <1>5

LEMMA WrapShrinks ==
  ASSUME NEW n \in Nat
  PROVE  Wrap(n) \in Nat /\ Wrap(n) <= n
<1>1. IntRange \in Nat \ {0}
  BY RplAssumption
<1> QED BY <1>1, Z3 DEF Wrap

LEMMA WrapOfSmall ==
  ASSUME NEW n \in Nat, n < IntRange
  PROVE  Wrap(n) = n
<1>1. IntRange \in Nat \ {0}
  BY RplAssumption
<1> QED BY <1>1, Z3 DEF Wrap

LEMMA RanksAreRanks ==
  ASSUME NEW s \in State, NEW p \in Index
  PROVE  rank_via_parent(s, p) \in Rank
<1>1. INFINITE_RANK \in Nat /\ MinHop \in Nat /\ Etx \cup {INIT_ETX} \subseteq Nat
  BY RplAssumption
<1>2. s.parent[p].rank \in Nat /\ s.etx[p] \in Nat
  BY <1>1 DEF State, Rank
<1>3. parent_link_metric(s, p) \in Nat
  BY <1>1, <1>2 DEF parent_link_metric
<1> DEFINE a == Min({s.parent[p].rank + MinHop, INFINITE_RANK})
           b == Min({s.parent[p].rank + parent_link_metric(s, p), INFINITE_RANK})
<1>4. a \in Rank
  BY <1>1, <1>2, MinOfTwo DEF Rank
<1>5. b \in Rank
  BY <1>1, <1>2, <1>3, MinOfTwo DEF Rank
<1>6. rank_via_parent(s, p) = Max({a, b})
  BY DEF rank_via_parent, parent_path_cost
<1> HIDE DEF a, b
<1> QED BY <1>1, <1>4, <1>5, <1>6, MaxOfTwo DEF Rank

----------------------------------------------------------------------------
(* The DAG changes, and the lock of the parent; the tables do not *)

SameTables(s, t) ==
  /\ t \in State
  /\ t.etx = s.etx /\ t.parent = s.parent /\ t.route = s.route
  /\ t.table.used = s.table.used
  /\ t.table.key = s.table.key /\ t.table.keys = s.table.keys
  /\ Locked(t.table, "nbr_routes") = Locked(s.table, "nbr_routes")

LEMMA SameAgrees ==
  ASSUME NEW s, Agree(s), NEW t, SameTables(s, t)
  PROVE  Agree(t)
<1>1. /\ t.table.used = s.table.used
      /\ t.table.key = s.table.key /\ t.table.keys = s.table.keys
      /\ t.route = s.route /\ Locked(t.table, "nbr_routes") = Locked(s.table, "nbr_routes")
      /\ t \in State
  BY DEF SameTables
<1>2. \A m : Used(t.table, m) = Used(s.table, m)
  BY <1>1 DEF Used
<1>3. Listing(t.table)
  BY <1>1, <1>2 DEF Listing, Agree
<1>4. Hops(t) = Hops(s)
  BY <1>1 DEF Hops
<1> QED BY <1>1, <1>2, <1>3, <1>4 DEF Agree

LEMMA SameIsTransitive ==
  ASSUME NEW s, NEW t, NEW u, SameTables(s, t), SameTables(t, u)
  PROVE  SameTables(s, u)
BY DEF SameTables

LEMMA DagChanges ==
  ASSUME NEW s \in State,
         NEW d \in [rank: Rank, joined: BOOLEAN, min_rank: Rank,
                    preferred_parent: Index \cup {NONE},
                    def_route: Addr \cup {NULL}, defaultrouterlist: SUBSET Addr]
  PROVE  /\ [s EXCEPT !.dag = d] \in State
         /\ SameTables(s, [s EXCEPT !.dag = d])
         /\ [s EXCEPT !.dag = d].dag = d
         /\ [s EXCEPT !.dag = d].table = s.table
BY DEF State, SameTables

LEMMA RankChanges ==
  ASSUME NEW s \in State, NEW r \in Rank, NEW t, t = [s EXCEPT !.dag.rank = r]
  PROVE  /\ SameTables(s, t) /\ t \in State
         /\ t.table = s.table
         /\ t.dag = [s.dag EXCEPT !.rank = r]
BY DEF State, SameTables

LEMMA SetDefaultRoute ==
  ASSUME NEW s \in State, NEW a \in Addr \cup {NULL}, NEW t, t = rpl_set_default_route(s, a)
  PROVE  /\ SameTables(s, t) /\ t \in State
         /\ t.table = s.table
         /\ t.dag.rank = s.dag.rank /\ t.dag.min_rank = s.dag.min_rank
         /\ t.dag.preferred_parent = s.dag.preferred_parent
         /\ t.dag.joined = s.dag.joined
         /\ t.dag.def_route = a
         /\ s.dag.defaultrouterlist = {s.dag.def_route} \ {NULL} =>
              t.dag.defaultrouterlist = {a} \ {NULL}
<1> DEFINE list == (s.dag.defaultrouterlist \ {s.dag.def_route}) \cup ({a} \cap Addr)
<1>1. t = [s EXCEPT !.dag = [s.dag EXCEPT !.def_route = a, !.defaultrouterlist = list]]
  BY DEF rpl_set_default_route, State
<1>2. list \in SUBSET Addr
  BY DEF State
<1>3. s.dag.defaultrouterlist = {s.dag.def_route} \ {NULL} => list = {a} \ {NULL}
  BY NbrTableAssumption
<1> HIDE DEF list
<1>4. [s.dag EXCEPT !.def_route = a, !.defaultrouterlist = list] \in
        [rank: Rank, joined: BOOLEAN, min_rank: Rank,
         preferred_parent: Index \cup {NONE},
         def_route: Addr \cup {NULL}, defaultrouterlist: SUBSET Addr]
  BY <1>2 DEF State
<1> DEFINE d == [s.dag EXCEPT !.def_route = a, !.defaultrouterlist = list]
<1>5. /\ d.rank = s.dag.rank /\ d.min_rank = s.dag.min_rank /\ d.joined = s.dag.joined
      /\ d.preferred_parent = s.dag.preferred_parent
      /\ d.def_route = a /\ d.defaultrouterlist = list
  BY DEF State
<1> HIDE DEF d
<1>6. SameTables(s, t) /\ t \in State /\ t.table = s.table /\ t.dag = d
  <2>1. t = [s EXCEPT !.dag = d]
    BY <1>1 DEF d
  <2>2. d \in [rank: Rank, joined: BOOLEAN, min_rank: Rank,
               preferred_parent: Index \cup {NONE},
               def_route: Addr \cup {NULL}, defaultrouterlist: SUBSET Addr]
    BY <1>4 DEF d
  <2> QED BY <2>1, <2>2, DagChanges
<1> QED BY <1>3, <1>5, <1>6

LEMMA SetPreferred ==
  ASSUME NEW s \in State, NEW p \in Index \cup {NONE},
         ParentIsLocked(s), NEW t, t = rpl_set_preferred_parent(s, p)
  PROVE  /\ SameTables(s, t) /\ t \in State
         /\ ParentIsLocked(t)
         /\ t.dag = [s.dag EXCEPT !.preferred_parent = p]
         /\ t.dag.preferred_parent = p
<1>1. CASE p = s.dag.preferred_parent
  BY <1>1 DEF rpl_set_preferred_parent, State, SameTables, ParentIsLocked
<1>2. CASE p # s.dag.preferred_parent
  <2> DEFINE last == s.dag.preferred_parent
             k == (s.table.locked \ {<<"rpl_parents", last>>})
                    \cup ({"rpl_parents"} \X ({p} \cap Index))
             tt == [s.table EXCEPT !.locked = k]
             d == [s.dag EXCEPT !.preferred_parent = p]
  <2>1. nbr_table_lock(nbr_table_unlock(s.table, "rpl_parents", last), "rpl_parents", p) = tt
    BY DEF nbr_table_lock, nbr_table_unlock, State, NbrTable
  <2>2. t = [s EXCEPT !.table = tt, !.dag = d]
    BY <1>2, <2>1 DEF rpl_set_preferred_parent, State
  <2>3. "rpl_parents" \in Table
    BY RplAssumption
  <2>4. k \in SUBSET (Table \X Index)
    BY <2>3 DEF State, NbrTable
  <2>5. /\ {i \in Index : <<"rpl_parents", i>> \in k} = {p} \ {NONE}
        /\ {i \in Index : <<"nbr_routes", i>> \in k} = Locked(s.table, "nbr_routes")
    BY NbrTableAssumption DEF Locked, Index, NONE, ParentIsLocked
  <2> HIDE DEF k
  <2>6. /\ tt \in NbrTable /\ tt.used = s.table.used /\ tt.key = s.table.key
        /\ tt.keys = s.table.keys /\ tt.locked = k
    BY <2>4 DEF State, NbrTable
  <2> HIDE DEF tt
  <2>7. /\ t \in State /\ t.table = tt /\ t.dag = d /\ d.preferred_parent = p
        /\ t.etx = s.etx /\ t.parent = s.parent /\ t.route = s.route
    BY <2>2, <2>6 DEF State
  <2>8. /\ Locked(t.table, "nbr_routes") = Locked(s.table, "nbr_routes")
        /\ Locked(t.table, "rpl_parents") = {p} \ {NONE}
    BY <2>5, <2>6, <2>7 DEF Locked
  <2> QED BY <2>6, <2>7, <2>8 DEF SameTables, ParentIsLocked
<1> QED BY <1>1, <1>2

\* What rpl_nullify_parent leaves, where it does anything.
Nullified(t) ==
  /\ Locked(t.table, "rpl_parents") = {}
  /\ t.dag.preferred_parent = NONE /\ t.dag.def_route = NULL
  /\ t.dag.defaultrouterlist = {} /\ t.dag.rank = INFINITE_RANK

LEMMA NullifyParent ==
  ASSUME NEW s \in State, Consistent(s), NEW p \in Index, NEW t, t = rpl_nullify_parent(s, p)
  PROVE  /\ SameTables(s, t) /\ t \in State
         /\ s.dag.preferred_parent \notin {p, NONE} => t = s
         /\ s.dag.preferred_parent \in {p, NONE} => Nullified(t)
<1>1. CASE s.dag.preferred_parent \notin {p, NONE}
  BY <1>1 DEF rpl_nullify_parent, SameTables
<1>2. CASE s.dag.preferred_parent \in {p, NONE}
  <2> DEFINE u == [s EXCEPT !.dag.rank = INFINITE_RANK]
             v == rpl_set_default_route(u, NULL)
  <2>1. t = rpl_set_preferred_parent(v, NONE)
    BY <1>2 DEF rpl_nullify_parent
  <2>2. INFINITE_RANK \in Rank
    BY RplAssumption DEF Rank
  <2>3. /\ SameTables(s, u) /\ u \in State /\ u.table = s.table
        /\ u.dag = [s.dag EXCEPT !.rank = INFINITE_RANK]
    BY <2>2, RankChanges
  <2>4. /\ u.dag.rank = INFINITE_RANK /\ u.dag.def_route = s.dag.def_route
        /\ u.dag.preferred_parent = s.dag.preferred_parent
        /\ u.dag.defaultrouterlist = {u.dag.def_route} \ {NULL}
    BY <2>3 DEF State, Consistent
  <2> HIDE DEF u
  <2>5. /\ SameTables(u, v) /\ v \in State /\ v.table = u.table
        /\ v.dag.rank = INFINITE_RANK /\ v.dag.def_route = NULL
        /\ v.dag.preferred_parent = s.dag.preferred_parent
        /\ v.dag.defaultrouterlist = {NULL} \ {NULL}
    <3>1. PICK a \in Addr \cup {NULL} : a = NULL
      OBVIOUS
    <3>2. v = rpl_set_default_route(u, a)
      BY <3>1 DEF v
    <3> HIDE DEF v
    <3>3. u \in State
      BY <2>3
    <3>4. /\ SameTables(u, v) /\ v \in State /\ v.table = u.table
          /\ v.dag.rank = u.dag.rank /\ v.dag.def_route = a
          /\ v.dag.preferred_parent = u.dag.preferred_parent
      BY <3>2, <3>3, SetDefaultRoute
    <3>5. v.dag.defaultrouterlist = {a} \ {NULL}
      BY <2>4, <3>2, <3>3, SetDefaultRoute
    <3> QED BY <2>4, <3>1, <3>4, <3>5
  <2> HIDE DEF v
  <2>6. ParentIsLocked(v)
    BY <2>3, <2>5 DEF Consistent, ParentIsLocked
  <2>7. /\ SameTables(v, t) /\ t \in State
        /\ ParentIsLocked(t)
        /\ t.dag = [v.dag EXCEPT !.preferred_parent = NONE]
        /\ t.dag.preferred_parent = NONE
    BY <2>1, <2>5, <2>6, SetPreferred
  <2>8. /\ t.dag.def_route = NULL /\ t.dag.defaultrouterlist = {}
        /\ t.dag.rank = INFINITE_RANK
    BY <2>5, <2>7 DEF State
  <2>9. SameTables(s, t)
    BY <2>3, <2>5, <2>7, SameIsTransitive
  <2> QED BY <1>2, <2>7, <2>8, <2>9 DEF Nullified, ParentIsLocked
<1> QED BY <1>1, <1>2

LEMMA NullifiedIsGood ==
  ASSUME NEW t, Agree(t), Nullified(t)
  PROVE  Good(t)
<1>1. Consistent(t)
  BY DEF Consistent, ParentIsLocked, Nullified
<1> QED BY <1>1 DEF Good, FollowsParent, RankFits, Detached, Nullified

----------------------------------------------------------------------------
(* Choosing a parent *)

Candidates(s) == {p \in Used(s.table, "rpl_parents") : parent_is_acceptable(s, p)}

LEMMA BetterIsAcceptable ==
  ASSUME NEW s, NEW p, NEW q
  PROVE  Better(s, p, q) \in {x \in {p, q} : parent_is_acceptable(s, x)} \cup {NONE}
<1> DEFINE close == /\ parent_path_cost(s, p) < parent_path_cost(s, q) + PARENT_SWITCH_THRESHOLD
                    /\ parent_path_cost(s, p) > parent_path_cost(s, q) - PARENT_SWITCH_THRESHOLD
           A == {x \in {p, q} : parent_is_acceptable(s, x)}
           lower == parent_path_cost(s, p) < parent_path_cost(s, q)
           pp == s.dag.preferred_parent
           other == IF pp \in {p, q} /\ close THEN pp ELSE IF lower THEN p ELSE q
<1>1. Better(s, p, q) = CASE A = {} -> NONE
                          [] A = {p} -> p
                          [] A = {q} -> q
                          [] OTHER -> other
  BY Zenon DEF Better
<1>2. other \in {p, q}
  OBVIOUS
<1>3. A \in SUBSET {p, q}
  OBVIOUS
<1> HIDE DEF other, A
<1>4. CASE A = {}
  BY <1>1, <1>4
<1>5. CASE A = {p}
  BY <1>1, <1>5 DEF A
<1>6. CASE A = {q} /\ p # q
  <2>1. Better(s, p, q) = q
    BY <1>1, <1>6
  <2> QED BY <1>6, <2>1 DEF A
<1>7. CASE A = {p, q} /\ p # q
  <2>1. Better(s, p, q) = other
    BY <1>1, <1>7
  <2>2. other \in A
    BY <1>2, <1>7
  <2> QED BY <2>1, <2>2 DEF A
<1> QED BY <1>3, <1>4, <1>5, <1>6, <1>7

\* The objective function picks an acceptable parent, or none.
LEMMA BestIsParent ==
  ASSUME NEW s \in State, NEW of
  PROVE  BestParent(s, of) \in Candidates(s) \cup {NONE}
<1> DEFINE keys == s.table.keys
           N == Len(keys)
           S == Candidates(s) \cup {NONE}
           Visit(best, p) ==
             IF s.parent[p].rank \in ROOT_RANK..(INFINITE_RANK - 1) /\ p \in of
             THEN Better(s, best, p) ELSE best
           Step(y, n) == IF <<"rpl_parents", keys[n]>> \in s.table.used
                         THEN Visit(y, keys[n]) ELSE y
           E(f) == f = [n \in 0..N |-> IF n = 0 THEN NONE ELSE Step(f[n - 1], n)]
           loop == CHOOSE f : E(f)
<1>1. BestParent(s, of) = loop[N]
  BY DEF BestParent, Through
<1>2. N \in Nat /\ \A n \in 1..N : keys[n] \in Index
  BY DEF State, NbrTable
<1>3. \A n \in 1..N : \A y \in S : Step(y, n) \in S
  <2> TAKE n \in 1..N
  <2> TAKE y \in S
  <2>1. CASE <<"rpl_parents", keys[n]>> \in s.table.used
    <3>1. keys[n] \in Used(s.table, "rpl_parents")
      BY <1>2, <2>1 DEF Used
    <3>2. Better(s, y, keys[n]) \in S
      <4> HIDE DEF keys
      <4>1. PICK q : q = keys[n]
        OBVIOUS
      <4>2. y = NONE \/ y \in Used(s.table, "rpl_parents")
        BY DEF Candidates
      <4>3. ~parent_is_acceptable(s, NONE)
        BY DEF parent_is_acceptable
      <4>4. Better(s, y, q) \in {x \in {y, q} : parent_is_acceptable(s, x)} \cup {NONE}
        BY BetterIsAcceptable
      <4> QED BY <3>1, <4>1, <4>2, <4>3, <4>4 DEF Candidates
    <3> HIDE DEF S, keys
    <3> QED BY <3>2
  <2>2. CASE <<"rpl_parents", keys[n]>> \notin s.table.used
    BY <2>2
  <2> QED BY <2>1, <2>2
<1>4. PICK SS, G : /\ SS = [n \in 0..N |-> S]
                   /\ G = [n \in 1..N |-> [y \in S |-> Step(y, n)]]
  OBVIOUS
<1>5. \E f : E(f)
  <2> HIDE DEF S, Step, N
  <2>1. NONE \in SS[0] /\ SS \in [0..N -> SUBSET S] /\ N \in Nat
    BY <1>2, <1>4 DEF S
  <2>2. \A n \in 1..N : \A y \in S : G[n][y] = Step(y, n)
    BY <1>4
  <2>3. \A n \in 1..N : \A y \in SS[n - 1] : G[n][y] \in SS[n]
    BY <1>2, <1>3, <1>4, <2>2
  <2>4. PICK f : LoopRun(f, N, S, SS, NONE, G)
    <3>1. Loop(N, S, SS, NONE, G)
      BY <2>1, <2>3 DEF Loop
    <3> QED BY <3>1, LoopRuns
  <2>5. \A n \in 1..N : n - 1 \in 0..N /\ f[n - 1] \in S
    BY <1>2, <2>4 DEF LoopRun
  <2>6. \A n \in 1..N : f[n] = Step(f[n - 1], n)
    BY <2>2, <2>4, <2>5 DEF LoopRun
  <2>7. E(f)
    BY <1>2, <2>4, <2>6 DEF LoopRun
  <2> QED BY <2>7
<1>6. E(loop)
  <2> HIDE DEF E
  <2> QED BY <1>5
<1>7. \A n \in 0..N : loop[n] \in SS[n]
  <2> HIDE DEF S, Step, N, loop
  <2>1. loop[0] \in SS[0]
    BY <1>2, <1>4, <1>6 DEF S
  <2>2. \A n \in 1..N : loop[n - 1] \in SS[n - 1] => loop[n] \in SS[n]
    BY <1>2, <1>3, <1>4, <1>6
  <2> QED BY <1>2, <2>1, <2>2, LoopStays
<1> HIDE DEF loop, N, S
<1> QED BY <1>1, <1>2, <1>4, <1>7 DEF S

\* The policy picks a neighbour that nobody needs, or none.
Removable(s) ==
  {i \in Used(s.table, "ds6_neighbors") \ Used(s.table, "nbr_routes") :
     i # s.dag.preferred_parent}

LEMMA WorstIsRemovable ==
  ASSUME NEW s \in State, s.dag.preferred_parent \in Used(s.table, "rpl_parents") \cup {NONE}
  PROVE  Worst(s).nbr \in Removable(s) \cup {NONE}
<1> DEFINE keys == s.table.keys
           N == Len(keys)
           S == [rank: Rank, nbr: Removable(s) \cup {NONE}]
           first == [rank |-> 0, nbr |-> NONE]
           Visit(w, i) ==
             CASE ~Uses(s, "nbr_routes", i) /\ ~Uses(s, "rpl_parents", i)
                    -> [rank |-> INFINITE_RANK, nbr |-> i]
               [] /\ ~Uses(s, "nbr_routes", i) /\ Uses(s, "rpl_parents", i)
                  /\ ~MustStay(s, i) /\ s.parent[i].rank > 0
                  /\ w.rank < INFINITE_RANK /\ rank_via_parent(s, i) > w.rank
                    -> [rank |-> rank_via_parent(s, i), nbr |-> i]
               [] OTHER -> w
           Step(y, n) == IF <<"ds6_neighbors", keys[n]>> \in s.table.used
                         THEN Visit(y, keys[n]) ELSE y
           E(f) == f = [n \in 0..N |-> IF n = 0 THEN first ELSE Step(f[n - 1], n)]
           loop == CHOOSE f : E(f)
<1>1. Worst(s) = loop[N]
  BY DEF Worst, Through
<1>2. N \in Nat /\ \A n \in 1..N : keys[n] \in Index
  BY DEF State, NbrTable
<1>3. \A n \in 1..N : \A y \in S : Step(y, n) \in S
  <2> TAKE n \in 1..N
  <2> TAKE y \in S
  <2>1. CASE <<"ds6_neighbors", keys[n]>> \in s.table.used
    <3>1. keys[n] \in Used(s.table, "ds6_neighbors")
      BY <1>2, <2>1 DEF Used
    <3>2. keys[n] \in Index
      BY <1>2
    <3> DEFINE i == keys[n]
    <3>3. rank_via_parent(s, i) \in Rank /\ INFINITE_RANK \in Rank
      BY <3>2, RanksAreRanks, RplAssumption DEF Rank
    <3> HIDE DEF i, keys
    <3>4. CASE ~Uses(s, "nbr_routes", i) /\ ~Uses(s, "rpl_parents", i)
      <4>1. i \in Removable(s)
        BY <3>1, <3>4 DEF Removable, Used, Uses, NONE, Index, i
      <4> QED BY <2>1, <3>3, <3>4, <4>1 DEF i
    <3>5. CASE /\ ~Uses(s, "nbr_routes", i) /\ Uses(s, "rpl_parents", i)
               /\ ~MustStay(s, i) /\ s.parent[i].rank > 0
               /\ y.rank < INFINITE_RANK /\ rank_via_parent(s, i) > y.rank
      <4>1. i \in Removable(s)
        BY <3>1, <3>5 DEF Removable, Used, Uses, MustStay, i
      <4> DEFINE r == rank_via_parent(s, i)
      <4>2. Visit(y, i) = [rank |-> r, nbr |-> i]
        BY <3>5, Zenon
      <4> HIDE DEF r, Visit
      <4>3. [rank |-> r, nbr |-> i] \in S
        BY <3>3, <4>1 DEF r
      <4> QED BY <2>1, <4>2, <4>3 DEF i
    <3>6. CASE /\ ~(~Uses(s, "nbr_routes", i) /\ ~Uses(s, "rpl_parents", i))
               /\ ~(/\ ~Uses(s, "nbr_routes", i) /\ Uses(s, "rpl_parents", i)
                    /\ ~MustStay(s, i) /\ s.parent[i].rank > 0
                    /\ y.rank < INFINITE_RANK /\ rank_via_parent(s, i) > y.rank)
      <4>1. Visit(y, i) = y
        BY <3>6, Zenon
      <4> HIDE DEF Visit
      <4> QED BY <2>1, <4>1 DEF i
    <3> QED BY <3>4, <3>5, <3>6
  <2>2. CASE <<"ds6_neighbors", keys[n]>> \notin s.table.used
    BY <2>2
  <2> QED BY <2>1, <2>2
<1>4. PICK SS, G : /\ SS = [n \in 0..N |-> S]
                   /\ G = [n \in 1..N |-> [y \in S |-> Step(y, n)]]
  OBVIOUS
<1>5. \E f : E(f)
  <2> HIDE DEF S, Step, N
  <2>9. first \in S
    BY RplAssumption DEF S, Rank
  <2> HIDE DEF first
  <2>1. first \in SS[0] /\ SS \in [0..N -> SUBSET S] /\ N \in Nat
    BY <2>9, <1>2, <1>4
  <2>2. \A n \in 1..N : \A y \in S : G[n][y] = Step(y, n)
    BY <1>4
  <2>3. \A n \in 1..N : \A y \in SS[n - 1] : G[n][y] \in SS[n]
    BY <1>2, <1>3, <1>4, <2>2
  <2>4. PICK f : LoopRun(f, N, S, SS, first, G)
    <3>1. Loop(N, S, SS, first, G)
      BY <2>1, <2>3 DEF Loop
    <3> QED BY <3>1, LoopRuns
  <2>5. \A n \in 1..N : n - 1 \in 0..N /\ f[n - 1] \in S
    BY <1>2, <2>4 DEF LoopRun
  <2>6. \A n \in 1..N : f[n] = Step(f[n - 1], n)
    BY <2>2, <2>4, <2>5 DEF LoopRun
  <2>7. E(f)
    BY <1>2, <2>4, <2>6 DEF LoopRun
  <2> QED BY <2>7
<1>6. E(loop)
  <2> HIDE DEF E
  <2> QED BY <1>5
<1>7. \A n \in 0..N : loop[n] \in SS[n]
  <2>9. first \in S
    BY RplAssumption DEF S, Rank
  <2> HIDE DEF S, Step, N, loop, first
  <2>1. loop[0] \in SS[0]
    BY <2>9, <1>2, <1>4, <1>6
  <2>2. \A n \in 1..N : loop[n - 1] \in SS[n - 1] => loop[n] \in SS[n]
    BY <1>2, <1>3, <1>4, <1>6
  <2> QED BY <1>2, <2>1, <2>2, LoopStays
<1> HIDE DEF loop, N, S
<1> QED BY <1>1, <1>2, <1>4, <1>7 DEF S

LEMMA AcceptableIsNear ==
  ASSUME NEW s \in State, NEW p \in Index, parent_is_acceptable(s, p)
  PROVE  rank_via_parent(s, p) + MaxRankInc <= INFINITE_RANK
<1>1. /\ INFINITE_RANK \in Nat /\ MinHop \in Nat \ {0} /\ MaxRankInc \in Nat \ {0}
      /\ MAX_PATH_COST \in Nat /\ Etx \cup {INIT_ETX} \subseteq Nat
      /\ MAX_PATH_COST + MinHop + MaxRankInc <= INFINITE_RANK
  BY RplAssumption
<1>2. s.parent[p].rank \in Nat /\ s.etx[p] \in Nat
  BY <1>1 DEF State, Rank
<1> DEFINE c == parent_link_metric(s, p)
           q == s.parent[p].rank
<1>3. c \in Nat /\ q \in Nat
  BY <1>1, <1>2 DEF parent_link_metric
<1>4. /\ rank_via_parent(s, p) = Max({Min({q + MinHop, INFINITE_RANK}),
                                      Min({q + c, INFINITE_RANK})})
      /\ Min({q + c, INFINITE_RANK}) <= MAX_PATH_COST
  BY DEF rank_via_parent, parent_path_cost, parent_is_acceptable
<1> HIDE DEF c, q
<1> DEFINE a == Min({q + MinHop, INFINITE_RANK})
           b == Min({q + c, INFINITE_RANK})
<1>5. a = IF q + MinHop <= INFINITE_RANK THEN q + MinHop ELSE INFINITE_RANK
  BY <1>1, <1>3, MinOfTwo
<1>6. b = IF q + c <= INFINITE_RANK THEN q + c ELSE INFINITE_RANK
  BY <1>1, <1>3, MinOfTwo
<1>7. rank_via_parent(s, p) = Max({a, b}) /\ b <= MAX_PATH_COST
  BY <1>4
<1> HIDE DEF a, b
<1>8. a \in Nat /\ b \in Nat /\ q + c <= MAX_PATH_COST
  BY <1>1, <1>3, <1>5, <1>6, <1>7
<1>9. rank_via_parent(s, p) = IF a >= b THEN a ELSE b
  BY <1>7, <1>8, MaxOfTwo
<1> QED BY <1>1, <1>3, <1>5, <1>6, <1>8, <1>9

LEMMA SelectableIsCandidate ==
  ASSUME NEW s \in State, NEW p \in Selectable(s)
  PROVE  p \in Candidates(s) \cup {NONE}
<1>1. \A of : BestParent(s, of) \in Candidates(s) \cup {NONE}
  BY BestIsParent
<1> QED BY <1>1 DEF Selectable

\* rpl_select_parent: the rank is that through the parent.
LEMMA SelectParent ==
  ASSUME NEW s, Agree(s), FollowsParent(s), NEW t \in rpl_select_parent(s)
  PROVE  /\ SameTables(s, t) /\ Consistent(t)
         /\ t.dag.preferred_parent \in Candidates(s) \cup {NONE}
         /\ t.dag.def_route = s.dag.def_route /\ t.dag.min_rank = s.dag.min_rank
         /\ t.dag.rank = rpl_rank_via_parent(s, t.dag.preferred_parent)
<1>1. s \in State /\ Consistent(s)
  BY DEF Agree, FollowsParent
<1>2. PICK p \in Selectable(s) :
        t = [rpl_set_preferred_parent(s, p) EXCEPT !.dag.rank = rpl_rank_via_parent(s, p)]
  BY DEF rpl_select_parent
<1>3. p \in Candidates(s) \cup {NONE}
  BY <1>1, SelectableIsCandidate
<1>4. p \in Index \cup {NONE}
  BY <1>3 DEF Candidates, Used
<1> DEFINE v == rpl_set_preferred_parent(s, p)
           r == rpl_rank_via_parent(s, p)
<1>5. /\ SameTables(s, v) /\ v \in State
      /\ ParentIsLocked(v)
      /\ v.dag = [s.dag EXCEPT !.preferred_parent = p]
      /\ v.dag.preferred_parent = p
  <2>1. ParentIsLocked(s)
    BY <1>1 DEF Consistent
  <2> QED BY <1>1, <1>4, <2>1, SetPreferred
<1>6. r \in Rank
  BY <1>1, <1>4, RanksAreRanks, RplAssumption DEF rpl_rank_via_parent, Rank
<1>7. t = [v EXCEPT !.dag.rank = r]
  BY <1>2
<1> HIDE DEF v
<1>8. /\ SameTables(v, t) /\ t.table = v.table /\ t.dag = [v.dag EXCEPT !.rank = r]
  <2> HIDE DEF r
  <2>1. v \in State
    BY <1>5
  <2>2. PICK rr \in Rank : rr = r
    BY <1>6
  <2>3. t = [v EXCEPT !.dag.rank = rr]
    BY <1>7, <2>2
  <2> QED BY <2>1, <2>2, <2>3, RankChanges
<1>9. /\ t.dag.preferred_parent = p /\ t.dag.rank = r
      /\ t.dag.def_route = s.dag.def_route /\ t.dag.min_rank = s.dag.min_rank
      /\ t.dag.defaultrouterlist = s.dag.defaultrouterlist
  <2> HIDE DEF r
  <2> QED BY <1>1, <1>5, <1>8 DEF State
<1>10. Consistent(t)
  BY <1>1, <1>5, <1>8, <1>9 DEF Consistent, ParentIsLocked
<1>11. SameTables(s, t)
  BY <1>5, <1>8, SameIsTransitive
<1> QED BY <1>3, <1>9, <1>10, <1>11

LEMMA LowestRank ==
  ASSUME NEW t \in State, NEW last, NEW w, w = WithMinRank(t, last)
  PROVE  /\ SameTables(t, w) /\ w \in State /\ w.table = t.table
         /\ w.dag.rank = t.dag.rank /\ w.dag.min_rank <= w.dag.rank
         /\ w.dag.preferred_parent = t.dag.preferred_parent
         /\ w.dag.def_route = t.dag.def_route
         /\ w.dag.defaultrouterlist = t.dag.defaultrouterlist
         /\ last = NONE => w.dag.min_rank = w.dag.rank
<1>1. t.dag.rank \in Int /\ t.dag.min_rank \in Int
  BY DEF State, Rank
<1>2. CASE last = NONE \/ t.dag.rank < t.dag.min_rank
  <2> DEFINE d == [t.dag EXCEPT !.min_rank = t.dag.rank]
  <2>1. w = [t EXCEPT !.dag = d]
    BY <1>2 DEF WithMinRank, State
  <2>2. /\ d.rank = t.dag.rank /\ d.min_rank = t.dag.rank
        /\ d.preferred_parent = t.dag.preferred_parent
        /\ d.def_route = t.dag.def_route /\ d.defaultrouterlist = t.dag.defaultrouterlist
        /\ d \in [rank: Rank, joined: BOOLEAN, min_rank: Rank,
                  preferred_parent: Index \cup {NONE},
                  def_route: Addr \cup {NULL}, defaultrouterlist: SUBSET Addr]
    BY DEF State
  <2> HIDE DEF d
  <2>3. SameTables(t, w) /\ w \in State /\ w.table = t.table /\ w.dag = d
    BY <2>1, <2>2, DagChanges
  <2> QED BY <1>1, <2>2, <2>3
<1>3. CASE ~(last = NONE \/ t.dag.rank < t.dag.min_rank)
  BY <1>1, <1>3 DEF WithMinRank, SameTables
<1> QED BY <1>2, <1>3

\* rpl_select_dag leaves the default route as it is only where a parent was
\* given up; then rpl_process_parent_event repairs.
LEMMA SelectDag ==
  ASSUME NEW s, Agree(s), FollowsParent(s), NEW u \in rpl_select_dag(s)
  PROVE  /\ SameTables(s, u) /\ Consistent(u)
         /\ u.dag.preferred_parent # NONE => FollowsParent(u) /\ RankFits(u)
         /\ u.dag.preferred_parent = NONE /\ s.dag.preferred_parent = NONE =>
              FollowsParent(u) /\ Detached(u)
<1>1. s \in State /\ Consistent(s)
  BY DEF Agree, FollowsParent
<1> DEFINE last == s.dag.preferred_parent
<1>2. PICK t \in rpl_select_parent(s) :
        u = IF t.dag.preferred_parent = NONE THEN t ELSE Settle(WithMinRank(t, last), last)
  BY DEF rpl_select_dag
<1> DEFINE p == t.dag.preferred_parent
<1>3. /\ SameTables(s, t) /\ Consistent(t) /\ t \in State
      /\ p \in Candidates(s) \cup {NONE}
      /\ t.dag.def_route = s.dag.def_route
      /\ t.dag.rank = rpl_rank_via_parent(s, p)
  BY SelectParent DEF SameTables
<1>4. CASE p = NONE
  <2>1. u = t /\ u.dag.preferred_parent = NONE /\ u.dag.rank = INFINITE_RANK
    BY <1>2, <1>3, <1>4 DEF rpl_rank_via_parent
  <2>2. last = NONE => u.dag.def_route = NULL
    BY <1>3, <2>1 DEF FollowsParent
  <2>3. last = NONE => FollowsParent(u)
    BY <1>3, <2>1, <2>2 DEF FollowsParent
  <2> QED BY <1>3, <2>1, <2>3 DEF Detached
<1>5. CASE p # NONE
  <2> DEFINE w == WithMinRank(t, last)
  <2>1. u = Settle(w, last)
    BY <1>2, <1>5
  <2>2. /\ SameTables(t, w) /\ w \in State /\ w.table = t.table
        /\ w.dag.rank = t.dag.rank /\ w.dag.min_rank <= w.dag.rank
        /\ w.dag.preferred_parent = p
        /\ w.dag.def_route = t.dag.def_route
        /\ w.dag.defaultrouterlist = t.dag.defaultrouterlist
        /\ last = NONE => w.dag.min_rank = w.dag.rank
    BY <1>3, LowestRank
  <2> HIDE DEF w
  <2>3. SameTables(s, w)
    BY <1>3, <2>2, SameIsTransitive
  <2>4. Consistent(w)
    BY <1>3, <2>2 DEF Consistent, ParentIsLocked
  <2>5. p \in Index /\ p \in Used(s.table, "rpl_parents") /\ parent_is_acceptable(s, p)
    BY <1>3, <1>5 DEF Candidates, Used
  <2>6. w.table.used = s.table.used /\ w.table.key = s.table.key
    BY <2>3 DEF SameTables
  <2>7. p \in Used(w.table, "rpl_parents") /\ Uses(w, "ds6_neighbors", p)
    BY <2>5, <2>6 DEF Used, Uses, Agree
  <2>8. w.table.key[p] \in Addr
    <3>1. p \in Range(s.table.keys)
      BY <2>5, RplAssumption DEF Agree, Listing
    <3>2. s.table.key[p] # NULL /\ s.table.key[p] \in Addr \cup {NULL}
      BY <1>1, <2>5, <3>1 DEF Agree, Listing, State, NbrTable
    <3> QED BY <2>6, <3>2
  <2>9. /\ MaxRankInc \in Nat /\ INFINITE_RANK \in Nat /\ IntRange > INFINITE_RANK
        /\ IntRange \in Nat \ {0}
        /\ w.dag.min_rank \in Nat /\ w.dag.rank \in Nat
    BY <2>2, RplAssumption DEF State, Rank
  <2>10. CASE ~acceptable_rank(w, w.dag.rank)
    <3>1. u = rpl_set_preferred_parent(w, NONE)
      BY <2>1, <2>10 DEF Settle
    <3>2. /\ SameTables(w, u) /\ u \in State
          /\ ParentIsLocked(u)
          /\ u.dag = [w.dag EXCEPT !.preferred_parent = NONE]
          /\ u.dag.preferred_parent = NONE
      <4>1. PICK q \in Index \cup {NONE} : q = NONE
        OBVIOUS
      <4>2. u = rpl_set_preferred_parent(w, q)
        BY <3>1, <4>1
      <4>3. ParentIsLocked(w)
        BY <2>4 DEF Consistent
      <4>4. w \in State
        BY <2>2
      <4>5. SameTables(w, u) /\ u \in State /\ u.dag.preferred_parent = q
        BY <4>2, <4>3, <4>4, SetPreferred
      <4>6. ParentIsLocked(u)
        BY <4>2, <4>3, <4>4, SetPreferred
      <4>7. u.dag = [w.dag EXCEPT !.preferred_parent = q]
        BY <4>2, <4>3, <4>4, SetPreferred
      <4> QED BY <4>1, <4>5, <4>6, <4>7
    <3>3. /\ u.dag.rank = w.dag.rank /\ u.dag.def_route = w.dag.def_route
          /\ u.dag.defaultrouterlist = w.dag.defaultrouterlist
      BY <2>2, <3>2 DEF State
    <3>4. SameTables(s, u)
      BY <2>3, <3>2, SameIsTransitive
    <3>5. Consistent(u)
      BY <2>4, <3>2, <3>3 DEF Consistent
    <3>6. ASSUME last = NONE PROVE FollowsParent(u) /\ Detached(u)
      <4>1. u.dag.def_route = NULL
        BY <1>3, <2>2, <3>3, <3>6 DEF FollowsParent
      <4>2. FollowsParent(u)
        BY <3>2, <3>5, <4>1 DEF FollowsParent
      <4>3. w.dag.rank + MaxRankInc <= INFINITE_RANK
        BY <1>1, <1>3, <1>5, <2>2, <2>5, AcceptableIsNear DEF rpl_rank_via_parent
      <4>4. Wrap(w.dag.rank + MaxRankInc) = w.dag.rank + MaxRankInc
        <5> DEFINE n == w.dag.rank + MaxRankInc
        <5>1. n \in Nat /\ n < IntRange
          BY <2>9, <4>3
        <5> HIDE DEF n
        <5>2. Wrap(n) = n
          BY <5>1, WrapOfSmall
        <5> QED BY <5>2 DEF n
      <4>5. DAG_RANK(w.dag.rank) <= DAG_RANK(w.dag.rank + MaxRankInc)
        <5>1. w.dag.rank + MaxRankInc \in Nat /\ w.dag.rank <= w.dag.rank + MaxRankInc
          BY <2>9
        <5> QED BY <2>9, <5>1, DagRankGrows
      <4>6. w.dag.rank = INFINITE_RANK
        BY <2>2, <2>10, <3>6, <4>4, <4>5 DEF acceptable_rank
      <4> QED BY <3>3, <4>2, <4>6 DEF Detached
    <3> QED BY <3>2, <3>4, <3>5, <3>6
  <2>11. CASE acceptable_rank(w, w.dag.rank)
    <3>1. DAG_RANK(w.dag.rank) <= DAG_RANK(w.dag.min_rank + MaxRankInc)
      <4> DEFINE n == w.dag.min_rank + MaxRankInc
      <4>1. n \in Nat
        BY <2>9
      <4> HIDE DEF n
      <4>2. Wrap(n) \in Nat /\ Wrap(n) <= n
        BY <4>1, WrapShrinks
      <4>3. DAG_RANK(Wrap(n)) <= DAG_RANK(n)
        BY <4>1, <4>2, DagRankGrows
      <4>4. DAG_RANK(w.dag.rank) <= DAG_RANK(Wrap(n))
        BY <2>11 DEF acceptable_rank, n
      <4>5. /\ DAG_RANK(w.dag.rank) \in Int /\ DAG_RANK(Wrap(n)) \in Int
            /\ DAG_RANK(n) \in Int
        <5>1. MinHop \in Nat \ {0}
          BY RplAssumption
        <5> QED BY <2>9, <4>1, <4>2, <5>1, Z3 DEF DAG_RANK
      <4> QED BY <4>3, <4>4, <4>5 DEF n
    <3>2. CASE p = last
      <4>1. u = w
        BY <2>1, <2>2, <2>11, <3>2 DEF Settle
      <4>2. w.dag.def_route = w.table.key[p]
        BY <1>3, <1>5, <2>2, <2>6, <3>2 DEF FollowsParent
      <4>3. FollowsParent(u)
        BY <1>5, <2>2, <2>4, <2>7, <4>1, <4>2 DEF FollowsParent
      <4> QED BY <1>5, <2>2, <2>3, <2>4, <3>1, <4>1, <4>3 DEF RankFits
    <3>3. CASE p # last
      <4> DEFINE a == w.table.key[p]
      <4>1. u = rpl_set_default_route(w, a)
        BY <2>1, <2>2, <2>7, <2>11, <3>3 DEF Settle
      <4>2. a \in Addr \cup {NULL} /\ w \in State
        BY <2>2, <2>8
      <4> HIDE DEF a
      <4>3. /\ SameTables(w, u) /\ u \in State /\ u.table = w.table
            /\ u.dag.rank = w.dag.rank /\ u.dag.min_rank = w.dag.min_rank
            /\ u.dag.preferred_parent = w.dag.preferred_parent
            /\ u.dag.def_route = a
        BY <4>1, <4>2, SetDefaultRoute
      <4>4. u.dag.defaultrouterlist = {a} \ {NULL}
        <5>1. w.dag.defaultrouterlist = {w.dag.def_route} \ {NULL}
          BY <2>4 DEF Consistent
        <5> QED BY <4>1, <4>2, <5>1, SetDefaultRoute
      <4>5. Consistent(u)
        BY <2>4, <4>3, <4>4 DEF Consistent, ParentIsLocked
      <4>6. FollowsParent(u)
        BY <1>5, <2>2, <2>7, <4>3, <4>5 DEF FollowsParent, a
      <4>7. SameTables(s, u)
        BY <2>3, <4>3, SameIsTransitive
      <4> QED BY <1>5, <2>2, <3>1, <4>3, <4>5, <4>6, <4>7 DEF RankFits
    <3> QED BY <3>2, <3>3
  <2> QED BY <2>10, <2>11
<1> QED BY <1>4, <1>5

----------------------------------------------------------------------------
(* Repair, and the news of a parent *)

\* A local repair visits at least one parent, and so the default route goes.
LEMMA LocalRepair ==
  ASSUME NEW s, Agree(s), Consistent(s), s.dag.preferred_parent = NONE,
         Used(s.table, "rpl_parents") # {}
  PROVE  SameTables(s, rpl_local_repair(s)) /\ Nullified(rpl_local_repair(s))
<1> DEFINE keys == s.table.keys
           N == Len(keys)
           Is(n) == <<"rpl_parents", keys[n]>> \in s.table.used
           U == {t \in State : /\ SameTables(s, t) /\ Consistent(t)
                               /\ t.dag.preferred_parent = NONE}
           S(n) == {t \in U : (\E k \in 1..n : Is(k)) => Nullified(t)}
           first == [s EXCEPT !.dag.rank = INFINITE_RANK]
           Step(y, n) == IF Is(n) THEN rpl_nullify_parent(y, keys[n]) ELSE y
           E(f) == f = [n \in 0..N |-> IF n = 0 THEN first ELSE Step(f[n - 1], n)]
           loop == CHOOSE f : E(f)
<1>1. rpl_local_repair(s) = loop[N]
  BY DEF rpl_local_repair, Through
<1>2. s \in State /\ N \in Nat /\ \A n \in 1..N : keys[n] \in Index
  BY DEF Agree, State, NbrTable
<1>3. \A n \in 1..N : \A y \in S(n - 1) : Step(y, n) \in S(n)
  <2> TAKE n \in 1..N
  <2> TAKE y \in S(n - 1)
  <2> HIDE DEF Is, keys
  <2>1. /\ y \in State /\ SameTables(s, y) /\ Consistent(y)
        /\ y.dag.preferred_parent = NONE
        /\ (\E k \in 1..(n - 1) : Is(k)) => Nullified(y)
    OBVIOUS
  <2>2. CASE Is(n)
    <3>1. PICK p \in Index : p = keys[n]
      BY <1>2
    <3> DEFINE t == rpl_nullify_parent(y, p)
    <3>2. SameTables(y, t) /\ t \in State /\ Nullified(t)
      BY <2>1, <3>1, NullifyParent
    <3>3. Step(y, n) = t
      BY <2>2, <3>1
    <3> HIDE DEF t, Step
    <3>4. SameTables(s, t)
      BY <2>1, <3>2, SameIsTransitive
    <3>5. Consistent(t) /\ t.dag.preferred_parent = NONE
      BY <3>2 DEF Nullified, Consistent, ParentIsLocked
    <3> QED BY <3>2, <3>3, <3>4, <3>5
  <2>3. CASE ~Is(n)
    <3>1. (\E k \in 1..n : Is(k)) => \E k \in 1..(n - 1) : Is(k)
      BY <1>2, <2>3
    <3>2. Step(y, n) = y
      BY <2>3
    <3> HIDE DEF Step
    <3> QED BY <2>1, <3>1, <3>2
  <2> QED BY <2>2, <2>3
<1>4. PICK SS, G : /\ SS = [n \in 0..N |-> S(n)]
                   /\ G = [n \in 1..N |-> [y \in S(n - 1) |-> Step(y, n)]]
  OBVIOUS
<1>5. first \in S(0)
  <2>1. INFINITE_RANK \in Rank
    BY RplAssumption DEF Rank
  <2>2. /\ SameTables(s, first) /\ first \in State /\ first.table = s.table
        /\ first.dag = [s.dag EXCEPT !.rank = INFINITE_RANK]
    BY <1>2, <2>1, RankChanges
  <2> HIDE DEF first
  <2>3. /\ first.dag.preferred_parent = NONE /\ first.dag.def_route = s.dag.def_route
        /\ first.dag.defaultrouterlist = s.dag.defaultrouterlist
    BY <1>2, <2>2 DEF State
  <2>4. Consistent(first)
    BY <2>2, <2>3 DEF Consistent, ParentIsLocked
  <2>5. ~\E k \in 1..0 : Is(k)
    <3> HIDE DEF Is
    <3> QED OBVIOUS
  <2> HIDE DEF Is
  <2> QED BY <2>2, <2>3, <2>4, <2>5
<1>6. \E f : E(f)
  <2> HIDE DEF S, U, Step, N, first
  <2>1. SS \in [0..N -> SUBSET U]
    BY <1>4 DEF S
  <2>2. \A n \in 1..N : \A y \in S(n - 1) : G[n][y] = Step(y, n)
    BY <1>4
  <2>3. \A n \in 1..N : \A y \in SS[n - 1] : G[n][y] \in SS[n]
    BY <1>2, <1>3, <1>4, <2>2
  <2>4. PICK f : LoopRun(f, N, U, SS, first, G)
    <3>1. SS[0] = S(0)
      BY <1>2, <1>4
    <3>2. Loop(N, U, SS, first, G)
      BY <1>2, <1>5, <2>1, <2>3, <3>1 DEF Loop
    <3> QED BY <3>2, LoopRuns
  <2>5. \A n \in 1..N : n - 1 \in 0..N /\ f[n - 1] \in S(n - 1)
    BY <1>2, <1>4, <2>4 DEF LoopRun
  <2>6. \A n \in 1..N : f[n] = Step(f[n - 1], n)
    BY <2>2, <2>4, <2>5 DEF LoopRun
  <2>7. E(f)
    BY <1>2, <2>4, <2>6 DEF LoopRun
  <2> QED BY <2>7
<1>7. E(loop)
  <2> HIDE DEF E
  <2> QED BY <1>6
<1>8. \A n \in 0..N : loop[n] \in SS[n]
  <2> HIDE DEF S, U, Step, N, loop, first
  <2>1. loop[0] \in SS[0]
    BY <1>2, <1>4, <1>5, <1>7
  <2>2. \A n \in 1..N : loop[n - 1] \in SS[n - 1] => loop[n] \in SS[n]
    BY <1>2, <1>3, <1>4, <1>7
  <2> QED BY <1>2, <2>1, <2>2, LoopStays
<1>9. \E k \in 1..N : Is(k)
  <2>1. PICK i \in Used(s.table, "rpl_parents") : TRUE
    OBVIOUS
  <2>2. i \in Range(keys) /\ <<"rpl_parents", i>> \in s.table.used
    BY <2>1, RplAssumption DEF Agree, Listing, Used
  <2>3. PICK k \in DOMAIN keys : keys[k] = i
    BY <2>2 DEF Range
  <2>4. DOMAIN keys = 1..N
    BY <1>2 DEF State, NbrTable
  <2>5. k \in 1..N /\ Is(k)
    BY <2>2, <2>3, <2>4
  <2> HIDE DEF Is, N
  <2> QED BY <2>5
<1> HIDE DEF loop, N, Is
<1>10. loop[N] \in S(N)
  BY <1>2, <1>4, <1>8
<1> QED BY <1>1, <1>9, <1>10

\* A parent's news change the DAG, and may mark routes; no table changes.
Kept(s, t) ==
  /\ t.table.used = s.table.used
  /\ t.table.key = s.table.key /\ t.table.keys = s.table.keys

LEMMA ExpiringKeeps ==
  ASSUME NEW s, Agree(s), NEW i, NEW t, t = ExpireRoutesVia(s, i)
  PROVE  /\ Agree(t) /\ t.dag = s.dag /\ t.table = s.table /\ t.parent = s.parent
         /\ t.etx = s.etx
<1> DEFINE r == [d \in Dest |-> IF s.route[d] # NULL /\ s.route[d].hop = i
                                THEN [s.route[d] EXCEPT !.expired = TRUE] ELSE s.route[d]]
<1>1. s \in State
  BY DEF Agree
<1>2. t = [s EXCEPT !.route = r]
  BY <1>1 DEF ExpireRoutesVia, State
<1>3. \A d \in Dest : /\ r[d] \in Route \cup {NULL}
                      /\ r[d] = NULL <=> s.route[d] = NULL
                      /\ r[d] # NULL => r[d].hop = s.route[d].hop
  <2> TAKE d \in Dest
  <2>1. s.route[d] \in Route \cup {NULL} /\ NULL \notin Route
    BY <1>1, RplAssumption DEF State
  <2> DEFINE e == [s.route[d] EXCEPT !.expired = TRUE]
  <2>2. CASE s.route[d] \in Route
    <3>1. e \in Route /\ e.hop = s.route[d].hop
      BY <2>2 DEF Route
    <3>2. r[d] \in {e, s.route[d]}
      OBVIOUS
    <3> HIDE DEF e, r
    <3> QED BY <2>1, <2>2, <3>1, <3>2
  <2>3. CASE s.route[d] = NULL
    BY <2>3
  <2> QED BY <2>1, <2>2, <2>3
<1>4. r \in [Dest -> Route \cup {NULL}]
  <2>1. r = [d \in Dest |-> r[d]]
    OBVIOUS
  <2> HIDE DEF r
  <2> QED BY <1>3, <2>1
<1> HIDE DEF r
<1>5. /\ t.table = s.table /\ t.dag = s.dag /\ t.parent = s.parent /\ t.etx = s.etx
      /\ t.route = r /\ t \in State
  BY <1>1, <1>2, <1>4 DEF State
<1>6. Hops(t) = Hops(s)
  BY <1>3, <1>5 DEF Hops
<1> QED BY <1>5, <1>6 DEF Agree

LEMMA ParentEvent ==
  ASSUME NEW s, Agree(s), FollowsParent(s), RankFits(s),
         NEW p \in Used(s.table, "rpl_parents"),
         NEW u \in rpl_process_parent_event(s, p)
  PROVE  Good(u) /\ Kept(s, u)
<1> DEFINE Repair(v) == IF v.dag.preferred_parent = NONE /\ s.dag.preferred_parent # NONE
                        THEN rpl_local_repair(v) ELSE v
<1>1. PICK t \in DropUnreachable(s, p) :
        u \in IF acceptable_rank(t, t.parent[p].rank)
              THEN {Repair(v) : v \in rpl_select_dag(t)} ELSE {rpl_nullify_parent(t, p)}
  BY DEF rpl_process_parent_event, Then
<1>2. t \in {s, ExpireRoutesVia(s, p)}
  BY DEF DropUnreachable
<1>3. Agree(t) /\ t.dag = s.dag /\ t.table = s.table
  BY <1>2, ExpiringKeeps
<1>4. FollowsParent(t) /\ RankFits(t) /\ t \in State /\ Consistent(t)
  BY <1>3 DEF FollowsParent, RankFits, Consistent, ParentIsLocked, Agree
<1>5. p \in Index /\ p \in Used(t.table, "rpl_parents")
  BY <1>3 DEF Used
<1>6. CASE acceptable_rank(t, t.parent[p].rank)
  <2>1. PICK v \in rpl_select_dag(t) : u = Repair(v)
    BY <1>1, <1>6
  <2>2. /\ SameTables(t, v) /\ Consistent(v)
        /\ v.dag.preferred_parent # NONE => FollowsParent(v) /\ RankFits(v)
        /\ v.dag.preferred_parent = NONE /\ t.dag.preferred_parent = NONE =>
             FollowsParent(v) /\ Detached(v)
    BY <1>3, <1>4, SelectDag
  <2>3. Agree(v)
    BY <1>3, <2>2, SameAgrees
  <2>4. CASE v.dag.preferred_parent = NONE /\ s.dag.preferred_parent # NONE
    <3>1. Used(v.table, "rpl_parents") # {}
      BY <1>5, <2>2 DEF SameTables, Used
    <3>2. SameTables(v, u) /\ Nullified(u)
      BY <2>1, <2>2, <2>3, <2>4, <3>1, LocalRepair
    <3>3. Good(u)
      BY <2>3, <3>2, SameAgrees, NullifiedIsGood
    <3> QED BY <1>3, <2>2, <3>2, <3>3 DEF SameTables, Kept
  <2>5. CASE v.dag.preferred_parent = NONE /\ s.dag.preferred_parent = NONE
    <3>1. u = v
      BY <2>1, <2>5
    <3>2. Good(v)
      BY <1>3, <2>2, <2>3, <2>5 DEF Good, RankFits
    <3> QED BY <1>3, <2>2, <3>1, <3>2 DEF SameTables, Kept
  <2>6. CASE v.dag.preferred_parent # NONE
    <3>1. u = v
      BY <2>1, <2>6
    <3>2. Good(v)
      BY <2>2, <2>3, <2>6 DEF Good, Detached
    <3> QED BY <1>3, <2>2, <3>1, <3>2 DEF SameTables, Kept
  <2> QED BY <2>4, <2>5, <2>6
<1>7. CASE ~acceptable_rank(t, t.parent[p].rank)
  <2>1. u = rpl_nullify_parent(t, p)
    BY <1>1, <1>7
  <2>2. /\ SameTables(t, u)
        /\ t.dag.preferred_parent \notin {p, NONE} => u = t
        /\ t.dag.preferred_parent \in {p, NONE} => Nullified(u)
    BY <1>4, <1>5, <2>1, NullifyParent
  <2>3. Agree(u)
    BY <1>3, <2>2, SameAgrees
  <2>4. Good(u)
    <3>1. CASE t.dag.preferred_parent \notin {p, NONE}
      BY <1>4, <2>2, <2>3, <3>1 DEF Good, Detached
    <3>2. CASE t.dag.preferred_parent \in {p, NONE}
      BY <2>2, <2>3, <3>2, NullifiedIsGood
    <3> QED BY <3>1, <3>2
  <2> QED BY <1>3, <2>2, <2>4 DEF SameTables, Kept
<1> QED BY <1>6, <1>7

----------------------------------------------------------------------------
(* Parents come and go *)

\* Tables and DAG together, where routes and addresses stay.
LEMMA RemoveParent ==
  ASSUME NEW s \in State, Consistent(s), NEW p \in Index, NEW t, t = rpl_remove_parent(s, p)
  PROVE  /\ t \in State /\ Consistent(t)
         /\ t.route = s.route /\ t.etx = s.etx
         /\ t.table.key = s.table.key /\ t.table.keys = s.table.keys
         /\ t.table.used = s.table.used \ {<<"rpl_parents", p>>}
         /\ Locked(t.table, "nbr_routes") = Locked(s.table, "nbr_routes")
         /\ s.dag.preferred_parent \notin {p, NONE} => t.dag = s.dag
         /\ s.dag.preferred_parent \in {p, NONE} => Nullified(t)
<1> DEFINE v == rpl_nullify_parent(s, p)
           tt == nbr_table_remove(v.table, "rpl_parents", p)
<1>1. /\ SameTables(s, v) /\ v \in State
      /\ s.dag.preferred_parent \notin {p, NONE} => v = s
      /\ s.dag.preferred_parent \in {p, NONE} => Nullified(v)
  BY NullifyParent
<1>2. Consistent(v) /\ v.dag.preferred_parent # p
  <2>1. CASE s.dag.preferred_parent \notin {p, NONE}
    BY <1>1, <2>1
  <2>2. CASE s.dag.preferred_parent \in {p, NONE}
    <3>1. p # NONE
      BY NbrTableAssumption DEF Index, NONE
    <3> QED BY <1>1, <2>2, <3>1 DEF Nullified, Consistent, ParentIsLocked
  <2> QED BY <2>1, <2>2
<1>3. t = [v EXCEPT !.table = tt, !.parent[p] = NoParent]
  BY DEF rpl_remove_parent
<1> HIDE DEF v
<1>4. /\ tt \in NbrTable /\ tt.key = v.table.key /\ tt.keys = v.table.keys
      /\ tt.used = v.table.used \ {<<"rpl_parents", p>>}
      /\ tt.locked = v.table.locked \ {<<"rpl_parents", p>>}
  BY <1>1 DEF State, NbrTable, nbr_table_remove
<1> HIDE DEF tt
<1>5. NoParent \in [rank: Rank, updated: BOOLEAN]
  BY RplAssumption DEF NoParent, Rank
<1>6. /\ t \in State /\ t.table = tt /\ t.dag = v.dag
      /\ t.route = v.route /\ t.etx = v.etx
  <2> DEFINE np == [v.parent EXCEPT ![p] = NoParent]
  <2>1. v \in State
    BY <1>1
  <2>2. np \in [Index -> [rank: Rank, updated: BOOLEAN]]
    <3> HIDE DEF NoParent
    <3> QED BY <2>1, <1>5 DEF State
  <2>3. t = [v EXCEPT !.table = tt, !.parent = np]
    BY <2>1, <1>3 DEF State
  <2> HIDE DEF np
  <2> QED BY <2>1, <2>2, <2>3, <1>4 DEF State
<1>7. Locked(t.table, "nbr_routes") = Locked(v.table, "nbr_routes")
  BY <1>4, <1>6 DEF Locked
<1>8. Locked(t.table, "rpl_parents") = Locked(v.table, "rpl_parents")
  <2>1. Locked(t.table, "rpl_parents") = Locked(v.table, "rpl_parents") \ {p}
    BY <1>4, <1>6 DEF Locked
  <2> QED BY <1>2, <2>1 DEF Consistent, ParentIsLocked
<1>9. Consistent(t)
  BY <1>2, <1>6, <1>8 DEF Consistent, ParentIsLocked
<1>10. s.dag.preferred_parent \in {p, NONE} => Nullified(t)
  BY <1>1, <1>6, <1>8 DEF Nullified
<1> QED BY <1>1, <1>4, <1>6, <1>7, <1>9, <1>10 DEF SameTables

\* A DAG that stays and one that is left, over tables that agree.
LEMMA DagIsGood ==
  ASSUME NEW s, Good(s), NEW t, Agree(t), Consistent(t),
         \/ Nullified(t)
         \/ /\ t.dag = s.dag
            /\ s.dag.preferred_parent # NONE =>
                 /\ s.dag.preferred_parent \in Used(t.table, "rpl_parents")
                 /\ t.table.key[s.dag.preferred_parent] = s.table.key[s.dag.preferred_parent]
  PROVE  Good(t)
<1>1. CASE Nullified(t)
  BY <1>1, NullifiedIsGood
<1>2. CASE /\ t.dag = s.dag
           /\ s.dag.preferred_parent # NONE =>
                /\ s.dag.preferred_parent \in Used(t.table, "rpl_parents")
                /\ t.table.key[s.dag.preferred_parent] = s.table.key[s.dag.preferred_parent]
  <2>1. FollowsParent(t)
    BY <1>2 DEF FollowsParent, Good
  <2> QED BY <1>2, <2>1 DEF Good, RankFits, Detached
<1> QED BY <1>1, <1>2

LEMMA RemoveParentKeeps ==
  ASSUME NEW s, Good(s), NEW p \in Index, NEW t, t = rpl_remove_parent(s, p)
  PROVE  /\ Good(t) /\ t.table.key = s.table.key /\ t.table.keys = s.table.keys
         /\ t.table.used = s.table.used \ {<<"rpl_parents", p>>}
<1>1. s \in State /\ Consistent(s)
  BY DEF Good, Agree, FollowsParent
<1>2. /\ t \in State /\ Consistent(t)
      /\ t.route = s.route /\ t.etx = s.etx
      /\ t.table.key = s.table.key /\ t.table.keys = s.table.keys
      /\ t.table.used = s.table.used \ {<<"rpl_parents", p>>}
      /\ Locked(t.table, "nbr_routes") = Locked(s.table, "nbr_routes")
      /\ s.dag.preferred_parent \notin {p, NONE} => t.dag = s.dag
      /\ s.dag.preferred_parent \in {p, NONE} => Nullified(t)
  BY <1>1, RemoveParent
<1>3. /\ \A m : Used(t.table, m) \subseteq Used(s.table, m)
      /\ Used(t.table, "rpl_parents") = Used(s.table, "rpl_parents") \ {p}
      /\ Used(t.table, "nbr_routes") = Used(s.table, "nbr_routes")
      /\ Used(t.table, "ds6_neighbors") = Used(s.table, "ds6_neighbors")
  BY <1>2 DEF Used
<1>4. Hops(t) = Hops(s)
  BY <1>2 DEF Hops
<1>5. Listing(t.table)
  BY <1>2, <1>3 DEF Listing, Good, Agree
<1>6. Agree(t)
  BY <1>2, <1>3, <1>4, <1>5 DEF Agree, Good
<1>7. CASE s.dag.preferred_parent \in {p, NONE}
  BY <1>2, <1>6, <1>7, DagIsGood
<1>8. CASE s.dag.preferred_parent \notin {p, NONE}
  <2>1. s.dag.preferred_parent \in Used(t.table, "rpl_parents")
    BY <1>3, <1>8 DEF Good, FollowsParent
  <2> QED BY <1>2, <1>6, <1>8, <2>1, DagIsGood
<1> QED BY <1>7, <1>8

LEMMA AllParentsGo ==
  ASSUME NEW s, Good(s), NEW t, t = remove_parents(s)
  PROVE  /\ Good(t) /\ Used(t.table, "rpl_parents") = {}
         /\ t.table.key = s.table.key /\ t.table.keys = s.table.keys
<1> DEFINE keys == s.table.keys
           N == Len(keys)
           Is(n) == <<"rpl_parents", keys[n]>> \in s.table.used
           U == {y \in State : /\ Good(y) /\ y.table.key = s.table.key
                               /\ y.table.keys = s.table.keys
                               /\ y.table.used \subseteq s.table.used}
           S(n) == {y \in U : \A k \in 1..n : <<"rpl_parents", keys[k]>> \notin y.table.used}
           Step(y, n) == IF Is(n) THEN rpl_remove_parent(y, keys[n]) ELSE y
           E(f) == f = [n \in 0..N |-> IF n = 0 THEN s ELSE Step(f[n - 1], n)]
           loop == CHOOSE f : E(f)
<1>1. t = loop[N]
  BY DEF remove_parents, Through
<1>2. s \in State /\ N \in Nat /\ \A n \in 1..N : keys[n] \in Index
  BY DEF Good, Agree, State, NbrTable
<1>3. \A n \in 1..N : \A y \in S(n - 1) : Step(y, n) \in S(n)
  <2> TAKE n \in 1..N
  <2> TAKE y \in S(n - 1)
  <2>1. /\ y \in State /\ Good(y) /\ y.table.key = s.table.key
        /\ y.table.keys = keys
        /\ y.table.used \subseteq s.table.used
        /\ \A k \in 1..(n - 1) : <<"rpl_parents", keys[k]>> \notin y.table.used
    OBVIOUS
  <2>2. \A k \in 1..n : k = n \/ k \in 1..(n - 1)
    BY <1>2
  <2>3. CASE Is(n)
    <3>1. PICK p \in Index : p = keys[n]
      BY <1>2
    <3>2. PICK z : z = rpl_remove_parent(y, p)
      OBVIOUS
    <3>3. /\ Good(z) /\ z.table.key = y.table.key /\ z.table.keys = y.table.keys
          /\ z.table.used = y.table.used \ {<<"rpl_parents", p>>}
      BY <2>1, <3>2, RemoveParentKeeps
    <3>4. Step(y, n) = z
      BY <2>3, <3>1, <3>2
    <3>5. z \in State
      BY <3>3 DEF Good, Agree
    <3> HIDE DEF Step, keys
    <3> QED BY <2>1, <2>2, <3>1, <3>3, <3>4, <3>5
  <2>4. CASE ~Is(n)
    <3>1. Step(y, n) = y
      BY <2>4
    <3>2. <<"rpl_parents", keys[n]>> \notin y.table.used
      BY <2>1, <2>4
    <3> HIDE DEF Step, keys
    <3> QED BY <2>1, <2>2, <3>1, <3>2
  <2> QED BY <2>3, <2>4
<1>4. PICK SS, G : /\ SS = [n \in 0..N |-> S(n)]
                   /\ G = [n \in 1..N |-> [y \in S(n - 1) |-> Step(y, n)]]
  OBVIOUS
<1>5. s \in S(0)
  BY <1>2
<1>6. \E f : E(f)
  <2> HIDE DEF S, U, Step, N
  <2>1. SS \in [0..N -> SUBSET U]
    BY <1>4 DEF S
  <2>2. \A n \in 1..N : \A y \in S(n - 1) : G[n][y] = Step(y, n)
    BY <1>4
  <2>3. \A n \in 1..N : \A y \in SS[n - 1] : G[n][y] \in SS[n]
    BY <1>2, <1>3, <1>4, <2>2
  <2>4. PICK f : LoopRun(f, N, U, SS, s, G)
    <3>1. SS[0] = S(0)
      BY <1>2, <1>4
    <3>2. Loop(N, U, SS, s, G)
      BY <1>2, <1>5, <2>1, <2>3, <3>1 DEF Loop
    <3> QED BY <3>2, LoopRuns
  <2>5. \A n \in 1..N : n - 1 \in 0..N /\ f[n - 1] \in S(n - 1)
    BY <1>2, <1>4, <2>4 DEF LoopRun
  <2>6. \A n \in 1..N : f[n] = Step(f[n - 1], n)
    BY <2>2, <2>4, <2>5 DEF LoopRun
  <2>7. E(f)
    BY <1>2, <2>4, <2>6 DEF LoopRun
  <2> QED BY <2>7
<1>7. E(loop)
  <2> HIDE DEF E
  <2> QED BY <1>6
<1>8. \A n \in 0..N : loop[n] \in SS[n]
  <2> HIDE DEF S, U, Step, N, loop
  <2>1. loop[0] \in SS[0]
    BY <1>2, <1>4, <1>5, <1>7
  <2>2. \A n \in 1..N : loop[n - 1] \in SS[n - 1] => loop[n] \in SS[n]
    BY <1>2, <1>3, <1>4, <1>7
  <2> QED BY <1>2, <2>1, <2>2, LoopStays
<1>9. t \in S(N)
  <2> HIDE DEF loop, N, S
  <2> QED BY <1>1, <1>2, <1>4, <1>8
<1>10. ASSUME NEW i \in Used(t.table, "rpl_parents") PROVE FALSE
  <2>1. i \in Range(keys) /\ <<"rpl_parents", i>> \in t.table.used
    BY <1>9, RplAssumption DEF Good, Agree, Listing, Used
  <2>2. PICK k \in DOMAIN keys : keys[k] = i
    BY <2>1 DEF Range
  <2>3. k \in 1..N
    BY <1>2, <2>2 DEF State, NbrTable
  <2> QED BY <1>9, <2>1, <2>2, <2>3
<1> QED BY <1>9, <1>10

----------------------------------------------------------------------------
(* Neighbours come and go *)

LEMMA IndexIsListed ==
  ASSUME NEW s \in State, NEW a
  PROVE  LET i == index_from_lladdr(s.table, a) IN
         \/ i = NONE /\ \A j \in Range(s.table.keys) : s.table.key[j] # a
         \/ i \in Range(s.table.keys) /\ i \in Index /\ i # NONE /\ s.table.key[i] = a
<1>1. Range(s.table.keys) \subseteq Index
  BY DEF State, NbrTable, Range
<1>2. \A i \in Index : i # NONE
  BY NbrTableAssumption DEF Index, NONE
<1>3. CASE \E i \in Range(s.table.keys) : s.table.key[i] = a
  <2> DEFINE i == CHOOSE i \in Range(s.table.keys) : s.table.key[i] = a
  <2>1. i \in Range(s.table.keys) /\ s.table.key[i] = a
    BY <1>3
  <2>2. index_from_lladdr(s.table, a) = i
    BY <1>3 DEF index_from_lladdr
  <2> HIDE DEF i
  <2> QED BY <1>1, <1>2, <2>1, <2>2
<1>4. CASE ~\E i \in Range(s.table.keys) : s.table.key[i] = a
  BY <1>4 DEF index_from_lladdr
<1> QED BY <1>3, <1>4

\* All but the list: a key that is taken over is off the list with its address.
AllButListing(s) ==
  /\ s \in State
  /\ Used(s.table, "rpl_parents") \cup Hops(s) \subseteq Used(s.table, "ds6_neighbors")
  /\ Used(s.table, "nbr_routes") = Hops(s) /\ Locked(s.table, "nbr_routes") = Hops(s)
  /\ FollowsParent(s) /\ RankFits(s) /\ Detached(s)

\* Parents, next hops and their addresses stay.
Grows(t, tt) ==
  /\ tt \in NbrTable /\ Listing(tt)
  /\ \A m \in {"rpl_parents", "nbr_routes"} :
       Used(tt, m) = Used(t, m) /\ Locked(tt, m) = Locked(t, m)
  /\ Used(t, "ds6_neighbors") \subseteq Used(tt, "ds6_neighbors")
  /\ \A i \in Used(t, "rpl_parents") : tt.key[i] = t.key[i]

WithTable(s, tt) == [s EXCEPT !.table = tt]
OnlyTable(s, t, tt) == t.table = tt /\ t.dag = s.dag /\ t.route = s.route

LEMMA TableGrows ==
  ASSUME NEW s, AllButListing(s), NEW tt, Grows(s.table, tt)
  PROVE  Good(WithTable(s, tt)) /\ OnlyTable(s, WithTable(s, tt), tt)
<1> DEFINE t == WithTable(s, tt)
<1>0. t = [s EXCEPT !.table = tt]
  BY DEF WithTable
<1> HIDE DEF t
<1> USE DEF Grows
<1>1. /\ t \in State /\ t.table = tt /\ t.dag = s.dag /\ t.route = s.route
  BY <1>0 DEF AllButListing, State
<1>2. Hops(t) = Hops(s)
  BY <1>1 DEF Hops
<1>3. Agree(t)
  BY <1>1, <1>2 DEF AllButListing, Agree
<1>4. FollowsParent(t)
  BY <1>1 DEF AllButListing, FollowsParent, Consistent, ParentIsLocked
<1>5. RankFits(t) /\ Detached(t)
  BY <1>1 DEF AllButListing, RankFits, Detached
<1> QED BY <1>1, <1>3, <1>4, <1>5 DEF Good, OnlyTable, t

LEMMA UseKeeps ==
  ASSUME NEW s, Good(s), NEW m \in {"link_stats", "ds6_neighbors"},
         NEW i \in Range(s.table.keys), NEW t, t = WithTable(s, Use(s.table, m, i))
  PROVE  /\ Good(t) /\ t.dag = s.dag /\ t.route = s.route
         /\ t.table.key = s.table.key /\ t.table.keys = s.table.keys
<1>1. s \in State /\ AllButListing(s) /\ Listing(s.table)
  BY DEF Good, Agree, AllButListing
<1>2. i \in Index /\ m \in Table
  BY <1>1, RplAssumption DEF State, NbrTable, Range
<1> DEFINE tt == Use(s.table, m, i)
<1>3. /\ tt \in NbrTable /\ tt.key = s.table.key /\ tt.keys = s.table.keys
      /\ tt.locked = s.table.locked /\ tt.used = s.table.used \cup {<<m, i>>}
  <2> DEFINE used == s.table.used \cup {<<m, i>>}
  <2>1. s.table \in NbrTable /\ tt = [s.table EXCEPT !.used = used]
    BY <1>1 DEF State, Use
  <2>2. used \in SUBSET (Table \X Index)
    BY <1>2, <2>1 DEF NbrTable
  <2> HIDE DEF used, tt
  <2>3. /\ tt \in NbrTable /\ tt.key = s.table.key /\ tt.keys = s.table.keys
        /\ tt.locked = s.table.locked /\ tt.used = used
    BY <2>1, <2>2 DEF NbrTable
  <2> QED BY <2>3 DEF used
<1>4. t = WithTable(s, tt)
  OBVIOUS
<1> HIDE DEF tt
<1>5. /\ \A n : Used(s.table, n) \subseteq Used(tt, n) /\ Locked(tt, n) = Locked(s.table, n)
      /\ \A n : n # m => Used(tt, n) = Used(s.table, n)
      /\ Used(tt, m) \subseteq Used(s.table, m) \cup {i}
  BY <1>3 DEF Used, Locked
<1>6. Listing(tt)
  BY <1>1, <1>3, <1>5 DEF Listing
<1>7. \A n \in {"rpl_parents", "nbr_routes"} :
        Used(tt, n) = Used(s.table, n) /\ Locked(tt, n) = Locked(s.table, n)
  BY <1>5
<1>8. Grows(s.table, tt)
  BY <1>3, <1>5, <1>6, <1>7 DEF Grows
<1>9. Good(t) /\ OnlyTable(s, t, tt)
  BY <1>1, <1>4, <1>8, TableGrows
<1> QED BY <1>3, <1>9 DEF OnlyTable

\* A key that is off the list.
Vacant(s, k) ==
  LET t == s.table IN
  /\ AllButListing(s) /\ k \in Index \ Range(t.keys)
  /\ Distinct(t.keys)
  /\ \A i \in Index \ {k} : t.key[i] # NULL <=> i \in Range(t.keys)
  /\ \A i, j \in Range(t.keys) : t.key[i] = t.key[j] => i = j
  /\ \A m \in Table : Used(t, m) \subseteq Range(t.keys)

LEMMA AddKeyKeeps ==
  ASSUME NEW s, NEW k, Vacant(s, k), NEW m \in {"link_stats", "ds6_neighbors"},
         NEW a \in Addr, \A i \in Range(s.table.keys) : s.table.key[i] # a,
         NEW t, t = WithTable(s, Use(AddKey(s.table, k, a), m, k))
  PROVE  /\ Good(t) /\ t.dag = s.dag /\ t.route = s.route
         /\ Range(t.table.keys) = Range(s.table.keys) \cup {k}
         /\ t.table.key[k] = a
         /\ \A i \in Index \ {k} : t.table.key[i] = s.table.key[i]
<1>1. s \in State /\ AllButListing(s) /\ k \in Index /\ m \in Table
  BY RplAssumption DEF Vacant, AllButListing
<1> DEFINE tt == Use(AddKey(s.table, k, a), m, k)
<1>2. s.table.keys \in Seq(Index) /\ k \notin Range(s.table.keys) /\ Distinct(s.table.keys)
  BY <1>1 DEF Vacant, State, NbrTable
<1>3. /\ Append(s.table.keys, k) \in Seq(Index) /\ Distinct(Append(s.table.keys, k))
      /\ Range(Append(s.table.keys, k)) = Range(s.table.keys) \cup {k}
  BY <1>1, <1>2, AppendKeeps
<1>4. /\ tt \in NbrTable /\ tt.key = [s.table.key EXCEPT ![k] = a]
      /\ tt.keys = Append(s.table.keys, k)
      /\ tt.locked = s.table.locked /\ tt.used = s.table.used \cup {<<m, k>>}
  <2> DEFINE ks == Append(s.table.keys, k)
             key == [s.table.key EXCEPT ![k] = a]
             used == s.table.used \cup {<<m, k>>}
  <2>1. s.table \in NbrTable
    BY <1>1 DEF State
  <2>2. tt = [s.table EXCEPT !.keys = ks, !.key = key, !.used = used]
    BY <2>1 DEF NbrTable, Use, AddKey
  <2>3. ks \in Seq(Index)
    BY <1>3
  <2>4. key \in [Index -> Addr \cup {NULL}] /\ used \in SUBSET (Table \X Index)
    BY <1>1, <2>1 DEF NbrTable
  <2> HIDE DEF ks, key, used
  <2>5. /\ tt \in NbrTable /\ tt.key = key /\ tt.keys = ks
        /\ tt.locked = s.table.locked /\ tt.used = used
    <3> HIDE DEF tt
    <3> QED BY <2>1, <2>2, <2>3, <2>4 DEF NbrTable
  <2> QED BY <2>5 DEF ks, key, used
<1>5. t = WithTable(s, tt)
  OBVIOUS
<1> HIDE DEF tt
<1>6. /\ \A n : Used(s.table, n) \subseteq Used(tt, n) /\ Locked(tt, n) = Locked(s.table, n)
      /\ \A n : n # m => Used(tt, n) = Used(s.table, n)
      /\ Used(tt, m) \subseteq Used(s.table, m) \cup {k}
  BY <1>4 DEF Used, Locked
<1>7. /\ tt.key[k] = a /\ a # NULL
      /\ \A i \in Index \ {k} : tt.key[i] = s.table.key[i]
  BY <1>1, <1>4, NbrTableAssumption DEF State, NbrTable
<1>8. Range(s.table.keys) \subseteq Index /\ Range(tt.keys) = Range(s.table.keys) \cup {k}
  <2>1. Range(s.table.keys) \subseteq Index
    BY <1>2 DEF Range
  <2> QED BY <1>3, <1>4, <2>1
<1>9. Listing(tt)
  <2>1. Distinct(tt.keys)
    BY <1>3, <1>4
  <2>2. \A i \in Index : tt.key[i] # NULL <=> i \in Range(tt.keys)
    BY <1>7, <1>8 DEF Vacant
  <2>3. \A i, j \in Range(tt.keys) : tt.key[i] = tt.key[j] => i = j
    BY <1>2, <1>7, <1>8 DEF Vacant
  <2>4. \A n \in Table : Used(tt, n) \subseteq Range(tt.keys)
    BY <1>6, <1>8 DEF Vacant
  <2> QED BY <2>1, <2>2, <2>3, <2>4 DEF Listing
<1>10. \A n \in {"rpl_parents", "nbr_routes"} :
        Used(tt, n) = Used(s.table, n) /\ Locked(tt, n) = Locked(s.table, n)
  BY <1>6
<1>11. \A i \in Used(s.table, "rpl_parents") : tt.key[i] = s.table.key[i]
  BY <1>2, <1>7, <1>8, RplAssumption DEF Vacant, Used
<1>12. Good(t) /\ OnlyTable(s, t, tt)
  <2>1. Grows(s.table, tt)
    BY <1>4, <1>6, <1>9, <1>10, <1>11 DEF Grows
  <2> QED BY <1>1, <1>5, <2>1, TableGrows
<1> QED BY <1>7, <1>8, <1>12 DEF OnlyTable

LEMMA FreeIsVacant ==
  ASSUME NEW s, Good(s), FreeKeys(s.table) # {}
  PROVE  Vacant(s, FirstFree(s.table))
<1> DEFINE F == FreeKeys(s.table)
           k == FirstFree(s.table)
<1>1. F \subseteq Index /\ F \subseteq Nat /\ F # {}
  BY NbrTableAssumption DEF FreeKeys, Index
<1>2. k \in F
  <2> HIDE DEF F
  <2>1. \E i \in F : \A j \in F : i <= j
    BY <1>1, NatMinimum
  <2> QED BY <2>1 DEF F, FirstFree
<1>3. k \in Index /\ s.table.key[k] = NULL
  BY <1>2 DEF FreeKeys
<1> HIDE DEF k, F
<1> QED BY <1>3 DEF Vacant, Good, Agree, AllButListing, Listing, k


\* Room is made.
LEMMA UnlockKeeps ==
  ASSUME NEW s, Good(s), NEW k \in Removable(s),
         NEW t, t = [s EXCEPT !.table = UnlockKey(s.table, k)]
  PROVE  /\ Good(t) /\ t.dag = s.dag /\ t.route = s.route
         /\ t.table.key = s.table.key /\ t.table.keys = s.table.keys
         /\ t.table.used = s.table.used
<1>1. s \in State /\ AllButListing(s) /\ Listing(s.table)
  BY DEF Good, Agree, AllButListing
<1> DEFINE tt == UnlockKey(s.table, k)
<1>2. /\ tt \in NbrTable /\ tt.key = s.table.key /\ tt.keys = s.table.keys
      /\ tt.used = s.table.used /\ tt.locked = s.table.locked \ (Table \X {k})
  BY <1>1 DEF State, NbrTable, UnlockKey
<1>3. t = WithTable(s, tt)
  BY DEF WithTable
<1> HIDE DEF tt
<1>4. /\ \A n : Used(tt, n) = Used(s.table, n)
      /\ \A n \in Table : Locked(tt, n) = Locked(s.table, n) \ {k}
  BY <1>2 DEF Used, Locked
<1>5. k \notin Locked(s.table, "rpl_parents") /\ k \notin Locked(s.table, "nbr_routes")
  BY DEF Removable, Good, Agree, FollowsParent, Consistent, ParentIsLocked
<1>6. \A n \in {"rpl_parents", "nbr_routes"} :
        Used(tt, n) = Used(s.table, n) /\ Locked(tt, n) = Locked(s.table, n)
  <2>1. {"rpl_parents", "nbr_routes"} \subseteq Table
    BY RplAssumption
  <2>2. \A n \in {"rpl_parents", "nbr_routes"} : Used(tt, n) = Used(s.table, n)
    BY <1>4, Zenon
  <2>3. \A n \in {"rpl_parents", "nbr_routes"} : Locked(tt, n) = Locked(s.table, n)
    BY <1>4, <1>5, <2>1
  <2> QED BY <2>2, <2>3
<1>7. Listing(tt)
  BY <1>1, <1>2, <1>4 DEF Listing
<1>8. Grows(s.table, tt)
  BY <1>2, <1>4, <1>6, <1>7 DEF Grows
<1>9. Good(t) /\ OnlyTable(s, t, tt)
  BY <1>1, <1>3, <1>8, TableGrows
<1> QED BY <1>2, <1>9 DEF OnlyTable

\* The neighbour that leaves takes its parent with it, and no route.
LEMMA KeyGoes ==
  ASSUME NEW s, Good(s), NEW k \in Removable(s), NEW t, t = remove_key(s, k)
  PROVE  /\ Vacant(t, k)
         /\ t.table.key = s.table.key /\ Range(t.table.keys) = Range(s.table.keys) \ {k}
         /\ t.route = s.route /\ t.dag.preferred_parent = s.dag.preferred_parent
<1>1. /\ s \in State /\ Listing(s.table) /\ Consistent(s) /\ k \in Index
      /\ k \in Used(s.table, "ds6_neighbors") /\ k \notin Used(s.table, "nbr_routes")
      /\ k # s.dag.preferred_parent
  BY DEF Good, Agree, FollowsParent, Removable, Used
<1> DEFINE e == IF Uses(s, "rpl_parents", k)
                THEN [rank |-> INFINITE_RANK, updated |-> TRUE] ELSE s.parent[k]
           np == [s.parent EXCEPT ![k] = e]
           tt == nbr_table_remove(s.table, "ds6_neighbors", k)
           s1 == [s EXCEPT !.parent = np, !.table = tt]
           s3 == IF Uses(s1, "rpl_parents", k) THEN rpl_remove_parent(s1, k) ELSE s1
<1>2. e \in [rank: Rank, updated: BOOLEAN]
  BY <1>1, RplAssumption DEF State, Rank
<1> HIDE DEF e
<1>3. /\ tt \in NbrTable /\ tt.key = s.table.key /\ tt.keys = s.table.keys
      /\ tt.used = s.table.used \ {<<"ds6_neighbors", k>>}
      /\ tt.locked = s.table.locked \ {<<"ds6_neighbors", k>>}
  BY <1>1 DEF State, NbrTable, nbr_table_remove
<1>4. /\ s1 \in State /\ s1.table = tt /\ s1.dag = s.dag
      /\ s1.route = s.route /\ s1.etx = s.etx
  <2> HIDE DEF tt
  <2>1. np \in [Index -> [rank: Rank, updated: BOOLEAN]]
    BY <1>1, <1>2 DEF State
  <2> HIDE DEF np
  <2> QED BY <1>1, <1>3, <2>1 DEF State
<1>5. ~Uses(s1, "nbr_routes", k)
  BY <1>1, <1>3, <1>4 DEF Uses, Used
<1>6. t = [s3 EXCEPT !.table = RemoveKey(s3.table, k), !.etx[k] = 0]
  <2>1. Uses(s, "ds6_neighbors", k)
    BY <1>1 DEF Uses, Used
  <2>2. s1 = [s EXCEPT !.parent[k] = IF Uses(s, "rpl_parents", k)
                                     THEN [rank |-> INFINITE_RANK, updated |-> TRUE] ELSE @,
                       !.table = nbr_table_remove(s.table, "ds6_neighbors", k)]
    BY <1>1 DEF State, e
  <2> HIDE DEF s1
  <2> QED BY <1>5, <2>1, <2>2 DEF remove_key
<1> HIDE DEF s1
<1>7. /\ \A m : Used(s1.table, m) = IF m = "ds6_neighbors" THEN Used(s.table, m) \ {k}
                                    ELSE Used(s.table, m)
      /\ \A m : m # "ds6_neighbors" => Locked(s1.table, m) = Locked(s.table, m)
  BY <1>3, <1>4 DEF Used, Locked
<1>8. Consistent(s1)
  BY <1>1, <1>4, <1>7 DEF Consistent, ParentIsLocked
<1> HIDE DEF tt
<1>9. /\ s3 \in State /\ Consistent(s3)
      /\ s3.route = s.route /\ s3.etx = s.etx
      /\ s3.table.key = s.table.key /\ s3.table.keys = s.table.keys
      /\ Locked(s3.table, "nbr_routes") = Locked(s.table, "nbr_routes")
      /\ s3.dag = s.dag \/ (Nullified(s3) /\ s.dag.preferred_parent = NONE)
      /\ s3.table.used \subseteq s1.table.used
      /\ s1.table.used \ {<<"rpl_parents", k>>} \subseteq s3.table.used
  <2>1. CASE ~Uses(s1, "rpl_parents", k)
    BY <1>3, <1>4, <1>7, <1>8, <2>1
  <2>2. CASE Uses(s1, "rpl_parents", k)
    <3>1. s3 = rpl_remove_parent(s1, k)
      BY <2>2
    <3> HIDE DEF s3
    <3>2. /\ s3 \in State /\ Consistent(s3)
          /\ s3.route = s1.route /\ s3.etx = s1.etx
          /\ s3.table.key = s1.table.key /\ s3.table.keys = s1.table.keys
          /\ s3.table.used = s1.table.used \ {<<"rpl_parents", k>>}
          /\ Locked(s3.table, "nbr_routes") = Locked(s1.table, "nbr_routes")
          /\ s1.dag.preferred_parent \notin {k, NONE} => s3.dag = s1.dag
          /\ s1.dag.preferred_parent \in {k, NONE} => Nullified(s3)
      BY <1>1, <1>4, <1>8, <3>1, RemoveParent
    <3> QED BY <1>1, <1>3, <1>4, <1>7, <3>2
  <2> QED BY <2>1, <2>2
<1> HIDE DEF s3
<1> DEFINE rt == RemoveKey(s3.table, k)
           ne == [s3.etx EXCEPT ![k] = 0]
<1>10. /\ RemoveFirst(s3.table.keys, k) \in Seq(Index)
       /\ Distinct(RemoveFirst(s3.table.keys, k))
       /\ Range(RemoveFirst(s3.table.keys, k)) = Range(s3.table.keys) \ {k}
  <2>1. s3.table.keys \in Seq(Index) /\ Distinct(s3.table.keys)
    BY <1>1, <1>9 DEF State, NbrTable, Listing
  <2> QED BY <2>1, RemoveFirstKeeps
<1>11. /\ rt \in NbrTable /\ rt.key = s.table.key
       /\ rt.keys = RemoveFirst(s3.table.keys, k)
       /\ rt.used = s3.table.used \ (Table \X {k}) /\ rt.locked = s3.table.locked
  <2> DEFINE ks == RemoveFirst(s3.table.keys, k)
             used == s3.table.used \ (Table \X {k})
  <2>1. s3.table \in NbrTable /\ rt = [s3.table EXCEPT !.used = used, !.keys = ks]
    BY <1>9 DEF State, NbrTable, RemoveKey
  <2>2. ks \in Seq(Index)
    BY <1>10
  <2>3. used \in SUBSET (Table \X Index)
    BY <2>1 DEF NbrTable
  <2> HIDE DEF ks, used, rt
  <2>4. /\ rt \in NbrTable /\ rt.key = s3.table.key /\ rt.keys = ks
        /\ rt.used = used /\ rt.locked = s3.table.locked
    BY <2>1, <2>2, <2>3 DEF NbrTable
  <2> QED BY <1>9, <2>4 DEF ks, used
<1>12. /\ t \in State /\ t.table = rt /\ t.dag = s3.dag /\ t.route = s.route
  <2>1. ne \in [Index -> Etx \cup {INIT_ETX, 0}]
    BY <1>9 DEF State
  <2>2. t = [s3 EXCEPT !.table = rt, !.etx = ne]
    BY <1>6, <1>9 DEF State
  <2> HIDE DEF ne, rt
  <2> QED BY <1>9, <1>11, <2>1, <2>2 DEF State
<1> HIDE DEF rt
<1>13. /\ \A m \in Table : Used(t.table, m) = Used(s.table, m) \ {k}
       /\ \A m : Locked(t.table, m) = Locked(s3.table, m)
  <2>1. \A m : Locked(t.table, m) = Locked(s3.table, m)
    BY <1>11, <1>12 DEF Locked
  <2>2. \A m \in Table : \A i \in Index :
          <<m, i>> \in t.table.used <=> i # k /\ <<m, i>> \in s.table.used
    BY <1>3, <1>4, <1>9, <1>11, <1>12 DEF tt
  <2> QED BY <2>1, <2>2 DEF Used
<1>14. Hops(t) = Hops(s) /\ k \notin Hops(s)
  BY <1>1, <1>12 DEF Hops, Good, Agree
<1>15. Consistent(t)
  BY <1>9, <1>12, <1>13 DEF Consistent, ParentIsLocked
<1>16. FollowsParent(t) /\ RankFits(t) /\ Detached(t)
  <2>1. CASE s3.dag = s.dag
    <3>1. RankFits(t) /\ Detached(t)
      BY <1>12, <2>1 DEF Good, RankFits, Detached
    <3>2. s.dag.preferred_parent # NONE =>
            s.dag.preferred_parent \in Used(t.table, "rpl_parents")
      BY <1>1, <1>13, RplAssumption DEF Good, FollowsParent
    <3> QED BY <1>11, <1>12, <1>15, <2>1, <3>1, <3>2 DEF Good, FollowsParent
  <2>2. CASE Nullified(s3)
    BY <1>12, <1>15, <2>2 DEF Nullified, FollowsParent, RankFits, Detached
  <2> QED BY <1>9, <2>1, <2>2
<1>17. AllButListing(t)
  <2>1. /\ Used(t.table, "rpl_parents") = Used(s.table, "rpl_parents") \ {k}
        /\ Used(t.table, "nbr_routes") = Used(s.table, "nbr_routes") \ {k}
        /\ Used(t.table, "ds6_neighbors") = Used(s.table, "ds6_neighbors") \ {k}
    BY <1>13, RplAssumption
  <2>2. /\ Used(s.table, "rpl_parents") \cup Hops(s) \subseteq Used(s.table, "ds6_neighbors")
        /\ Used(s.table, "nbr_routes") = Hops(s) /\ Locked(s.table, "nbr_routes") = Hops(s)
    BY DEF Good, Agree
  <2> QED BY <1>9, <1>12, <1>13, <1>14, <1>16, <2>1, <2>2 DEF AllButListing
<1>18. Range(t.table.keys) = Range(s.table.keys) \ {k} /\ Distinct(t.table.keys)
  BY <1>9, <1>10, <1>11, <1>12
<1>19. Vacant(t, k)
  <2>1. \A i \in Index \ {k} : t.table.key[i] # NULL <=> i \in Range(t.table.keys)
    BY <1>1, <1>11, <1>12, <1>18 DEF Listing
  <2>2. \A i, j \in Range(t.table.keys) : t.table.key[i] = t.table.key[j] => i = j
    BY <1>1, <1>11, <1>12, <1>18 DEF Listing
  <2>3. \A m \in Table : Used(t.table, m) \subseteq Range(t.table.keys)
    BY <1>1, <1>13, <1>18 DEF Listing
  <2> QED BY <1>1, <1>17, <1>18, <2>1, <2>2, <2>3 DEF Vacant
<1>20. t.dag.preferred_parent = s.dag.preferred_parent
  BY <1>9, <1>12 DEF Nullified
<1> QED BY <1>11, <1>12, <1>18, <1>19, <1>20


\* The neighbours in use are the same, and have the same addresses.
InUseOf(s) == ({s.dag.preferred_parent} \ {NONE}) \cup Hops(s)
Spares(s, t) ==
  /\ InUseOf(t) = InUseOf(s)
  /\ \A i \in InUseOf(s) : t.table.key[i] = s.table.key[i]

LEMMA SparesIsTransitive ==
  ASSUME NEW s, NEW t, NEW u, Spares(s, t), Spares(t, u)
  PROVE  Spares(s, u)
BY DEF Spares

LEMMA SparesWhenSame ==
  ASSUME NEW s, NEW t, t.route = s.route,
         t.dag.preferred_parent = s.dag.preferred_parent, t.table.key = s.table.key
  PROVE  Spares(s, t)
BY DEF Spares, InUseOf, Hops

LEMMA InUseIsListed ==
  ASSUME NEW s, Good(s)
  PROVE  InUseOf(s) \subseteq Range(s.table.keys) /\ InUseOf(s) \subseteq Index
<1>1. InUseOf(s) \subseteq Used(s.table, "rpl_parents") \cup Hops(s)
  BY DEF InUseOf, Good, FollowsParent
<1>2. InUseOf(s) \subseteq Used(s.table, "ds6_neighbors") /\ "ds6_neighbors" \in Table
  BY <1>1, RplAssumption DEF Good, Agree
<1> QED BY <1>2 DEF Good, Agree, Listing, Used

LEMMA AddNeighbor ==
  ASSUME NEW s, Good(s), NEW m \in {"link_stats", "ds6_neighbors"}, NEW a \in Addr,
         NEW reason, NEW r, NEW t \in nbr_table_add_lladdr(s, m, a, reason, r)
  PROVE  Good(t) /\ Spares(s, t)
<1> DEFINE i == index_from_lladdr(s.table, a)
           Add(v, k) == WithTable(v, Use(AddKey(v.table, k, a), m, k))
           MakeRoom(k) ==
             {Add(v, k) : v \in {remove_key([s EXCEPT !.table = UnlockKey(s.table, k)], k)}}
           victim == rpl_nbr_policy_find_removable(s, reason, r)
<1>1. /\ s \in State
      /\ \/ i = NONE /\ \A j \in Range(s.table.keys) : s.table.key[j] # a
         \/ i \in Range(s.table.keys) /\ i \in Index /\ i # NONE /\ s.table.key[i] = a
  BY IndexIsListed DEF Good, Agree
<1>2. t \in CASE i # NONE -> {WithTable(s, Use(s.table, m, i))}
              [] i = NONE /\ FreeKeys(s.table) # {} -> {Add(s, FirstFree(s.table))}
              [] OTHER -> IF victim = {} THEN {s} ELSE Then(victim, MakeRoom)
  BY DEF nbr_table_add_lladdr, WithTable
<1> HIDE DEF i, victim
<1>3. CASE i # NONE
  <2>1. t = WithTable(s, Use(s.table, m, i)) /\ i \in Range(s.table.keys)
    BY <1>1, <1>2, <1>3
  <2>2. Good(t) /\ t.dag = s.dag /\ t.route = s.route /\ t.table.key = s.table.key
    BY <2>1, UseKeeps
  <2> QED BY <2>2, SparesWhenSame
<1>4. CASE i = NONE /\ FreeKeys(s.table) # {}
  <2> DEFINE k == FirstFree(s.table)
  <2>1. t = Add(s, k)
    BY <1>2, <1>4
  <2>2. Vacant(s, k)
    BY <1>4, FreeIsVacant
  <2> HIDE DEF k
  <2>3. /\ Good(t) /\ t.dag = s.dag /\ t.route = s.route
        /\ \A j \in Index \ {k} : t.table.key[j] = s.table.key[j]
    BY <1>1, <1>4, <2>1, <2>2, AddKeyKeeps
  <2>4. InUseOf(t) = InUseOf(s)
    BY <2>3 DEF InUseOf, Hops
  <2>5. k \notin InUseOf(s) /\ InUseOf(s) \subseteq Index
    BY <2>2, InUseIsListed DEF Vacant
  <2> QED BY <2>3, <2>4, <2>5 DEF Spares
<1>5. CASE i = NONE /\ FreeKeys(s.table) = {}
  <2>1. t \in IF victim = {} THEN {s} ELSE Then(victim, MakeRoom)
    BY <1>2, <1>5
  <2>2. CASE t = s
    BY <2>2 DEF Spares
  <2>3. CASE t # s
    <3>1. PICK k \in victim : t \in MakeRoom(k)
      BY <2>1, <2>3 DEF Then
    <3>2. k \in Removable(s)
      <4>1. s.dag.preferred_parent \in Used(s.table, "rpl_parents") \cup {NONE}
        BY DEF Good, FollowsParent
      <4> QED BY <1>1, <3>1, <4>1, WorstIsRemovable DEF victim, rpl_nbr_policy_find_removable
    <3> DEFINE u == [s EXCEPT !.table = UnlockKey(s.table, k)]
               v == remove_key(u, k)
    <3>3. t = Add(v, k)
      BY <3>1
    <3>4. /\ Good(u) /\ u.dag = s.dag /\ u.route = s.route
          /\ u.table.key = s.table.key /\ u.table.keys = s.table.keys
          /\ u.table.used = s.table.used
      BY <3>2, UnlockKeeps
    <3> HIDE DEF u
    <3>5. k \in Removable(u)
      BY <3>2, <3>4 DEF Removable, Used
    <3>6. /\ Vacant(v, k)
          /\ v.table.key = u.table.key /\ Range(v.table.keys) = Range(u.table.keys) \ {k}
          /\ v.route = u.route /\ v.dag.preferred_parent = u.dag.preferred_parent
      BY <3>4, <3>5, KeyGoes
    <3> HIDE DEF v
    <3>7. \A j \in Range(v.table.keys) : v.table.key[j] # a
      BY <1>1, <1>5, <3>4, <3>6
    <3>8. /\ Good(t) /\ t.dag = v.dag /\ t.route = v.route
          /\ \A j \in Index \ {k} : t.table.key[j] = v.table.key[j]
      BY <3>3, <3>6, <3>7, AddKeyKeeps
    <3>9. InUseOf(t) = InUseOf(s)
      BY <3>4, <3>6, <3>8 DEF InUseOf, Hops
    <3>10. k \notin InUseOf(s) /\ InUseOf(s) \subseteq Index
      <4>1. k \notin Hops(s) /\ k # s.dag.preferred_parent
        BY <3>2 DEF Removable, Good, Agree
      <4> QED BY <4>1, InUseIsListed DEF InUseOf
    <3> QED BY <3>4, <3>6, <3>8, <3>9, <3>10 DEF Spares
  <2> QED BY <2>2, <2>3
<1> QED BY <1>3, <1>4, <1>5

LEMMA EtxChanges ==
  ASSUME NEW s, Good(s), NEW f \in [Index -> Etx \cup {INIT_ETX, 0}],
         NEW t, t = [s EXCEPT !.etx = f]
  PROVE  Good(t) /\ t.table = s.table /\ t.dag = s.dag /\ t.route = s.route
<1>1. /\ t \in State /\ t.table = s.table /\ t.dag = s.dag /\ t.route = s.route
  BY DEF Good, Agree, State
<1>2. Agree(t)
  BY <1>1 DEF Good, Agree, Hops
<1>3. FollowsParent(t) /\ RankFits(t) /\ Detached(t)
  BY <1>1 DEF Good, FollowsParent, Consistent, ParentIsLocked, RankFits, Detached
<1> QED BY <1>1, <1>2, <1>3 DEF Good

LEMMA ParentChanges ==
  ASSUME NEW s, Good(s), NEW f \in [Index -> [rank: Rank, updated: BOOLEAN]],
         NEW t, t = [s EXCEPT !.parent = f]
  PROVE  Good(t) /\ t.table = s.table /\ t.dag = s.dag /\ t.route = s.route
<1>1. /\ t \in State /\ t.table = s.table /\ t.dag = s.dag /\ t.route = s.route
  BY DEF Good, Agree, State
<1>2. Agree(t)
  BY <1>1 DEF Good, Agree, Hops
<1>3. FollowsParent(t) /\ RankFits(t) /\ Detached(t)
  BY <1>1 DEF Good, FollowsParent, Consistent, ParentIsLocked, RankFits, Detached
<1> QED BY <1>1, <1>2, <1>3 DEF Good

LEMMA UpdateTable ==
  ASSUME NEW s, Good(s), NEW a \in Addr, NEW reason, NEW r,
         NEW t \in update_nbr_table(s, a, reason, r)
  PROVE  Good(t) /\ Spares(s, t)
<1>1. CASE t = s
  BY <1>1 DEF Spares
<1>2. CASE t \in nbr_table_add_lladdr(s, "ds6_neighbors", a, reason, r)
  BY <1>2, AddNeighbor
<1> QED BY <1>1, <1>2 DEF update_nbr_table

LEMMA Receive ==
  ASSUME RplInv, NEW a \in Addr, NEW t \in Received(a)
  PROVE  Good(t) /\ Spares(Now, t)
<1>1. PICK u \in nbr_table_add_lladdr(Now, "link_stats", a, "LINK_STATS", 0) :
        \/ t = u
        \/ /\ t = [u EXCEPT !.etx[index_from_lladdr(u.table, a)] = INIT_ETX]
           /\ index_from_lladdr(u.table, a) \in Used(u.table, "link_stats")
  BY DEF Received
<1>2. PICK s : s = Now
  OBVIOUS
<1>3. Good(u) /\ Spares(s, u)
  BY <1>1, <1>2, AddNeighbor DEF RplInv
<1>4. ASSUME NEW j \in Index, t = [u EXCEPT !.etx[j] = INIT_ETX]
      PROVE  Good(t) /\ Spares(s, t)
  <2>1. [u.etx EXCEPT ![j] = INIT_ETX] \in [Index -> Etx \cup {INIT_ETX, 0}]
    BY <1>3 DEF Good, Agree, State
  <2>2. PICK f : f = [u.etx EXCEPT ![j] = INIT_ETX]
    OBVIOUS
  <2>3. t = [u EXCEPT !.etx = f]
    BY <1>3, <1>4, <2>2 DEF Good, Agree, State
  <2>4. Good(t) /\ t.table = u.table /\ t.dag = u.dag /\ t.route = u.route
    BY <1>3, <2>1, <2>2, <2>3, EtxChanges
  <2>5. Spares(u, t)
    BY <2>4, SparesWhenSame
  <2> QED BY <1>3, <2>4, <2>5, SparesIsTransitive
<1> QED BY <1>1, <1>2, <1>3, <1>4 DEF Used

LEMMA Hear ==
  ASSUME RplInv, NEW a \in Addr, NEW reason, NEW r, NEW t \in Heard(a, reason, r)
  PROVE  Good(t) /\ Spares(Now, t)
<1>1. PICK u \in Received(a) : t \in update_nbr_table(u, a, reason, r)
  BY DEF Heard, Then
<1>2. Good(u) /\ Spares(Now, u)
  BY <1>1, Receive
<1>3. Good(t) /\ Spares(u, t)
  BY <1>1, <1>2, UpdateTable
<1>4. PICK s : s = Now
  OBVIOUS
<1> QED BY <1>2, <1>3, <1>4, SparesIsTransitive

LEMMA NeighborIsListed ==
  ASSUME NEW s, Good(s), NEW a, NEW p, p = Neighbor(s, a), p # NONE
  PROVE  p \in Index /\ p \in Used(s.table, "ds6_neighbors") /\ s.table.key[p] = a
<1>1. s \in State
  BY DEF Good, Agree
<1> QED BY <1>1, IndexIsListed DEF Neighbor, nbr_table_get_from_lladdr

----------------------------------------------------------------------------
(* Routes come and go *)

\* The next hops change together with nbr_routes, and nothing else does.
RoutesMove(s, t) ==
  /\ t \in State /\ t.dag = s.dag /\ t.parent = s.parent
  /\ t.table.key = s.table.key /\ t.table.keys = s.table.keys
  /\ \A m : m # "nbr_routes" =>
       Used(t.table, m) = Used(s.table, m) /\ Locked(t.table, m) = Locked(s.table, m)
  /\ Used(t.table, "nbr_routes") = Hops(t) /\ Locked(t.table, "nbr_routes") = Hops(t)
  /\ Hops(t) \subseteq Used(s.table, "ds6_neighbors")

LEMMA RoutesMoveWell ==
  ASSUME NEW s, Good(s), NEW t, RoutesMove(s, t)
  PROVE  Good(t)
<1>1. /\ t.dag = s.dag /\ t.table.key = s.table.key /\ t.table.keys = s.table.keys
      /\ t \in State
  BY DEF RoutesMove
<1>2. /\ Used(t.table, "rpl_parents") = Used(s.table, "rpl_parents")
      /\ Locked(t.table, "rpl_parents") = Locked(s.table, "rpl_parents")
      /\ Used(t.table, "ds6_neighbors") = Used(s.table, "ds6_neighbors")
  BY DEF RoutesMove
<1>3. Listing(t.table)
  <2>1. "ds6_neighbors" \in Table
    BY RplAssumption
  <2>2. Listing(s.table)
    BY DEF Good, Agree
  <2>3. ASSUME NEW m \in Table PROVE Used(t.table, m) \subseteq Range(s.table.keys)
    <3>1. CASE m = "nbr_routes"
      BY <2>1, <2>2, <3>1 DEF RoutesMove, Listing
    <3>2. CASE m # "nbr_routes"
      BY <2>2, <3>2 DEF RoutesMove, Listing
    <3> QED BY <3>1, <3>2
  <2> QED BY <1>1, <2>2, <2>3 DEF Listing
<1>4. Agree(t)
  BY <1>1, <1>2, <1>3 DEF RoutesMove, Good, Agree
<1>5. FollowsParent(t)
  BY <1>1, <1>2 DEF Good, FollowsParent, Consistent, ParentIsLocked
<1>6. RankFits(t) /\ Detached(t)
  BY <1>1 DEF Good, RankFits, Detached
<1> QED BY <1>4, <1>5, <1>6 DEF Good

Rerouted(s, f, tt) == [s EXCEPT !.route = f, !.table = tt]
OnlyRoutes(s, t, f, tt) ==
  /\ t \in State /\ t.dag = s.dag /\ t.parent = s.parent
  /\ t.route = f /\ t.table = tt

LEMMA RoutesChange ==
  ASSUME NEW s \in State, NEW f \in [Dest -> Route \cup {NULL}], NEW tt \in NbrTable,
         NEW t, t = Rerouted(s, f, tt)
  PROVE  OnlyRoutes(s, t, f, tt)
BY DEF State, Rerouted, OnlyRoutes

\* Routes are marked; they stay where they are.
LEMMA RoutesMarked ==
  ASSUME NEW s, Good(s), NEW f \in [Dest -> Route \cup {NULL}],
         \A d \in Dest : /\ f[d] = NULL <=> s.route[d] = NULL
                         /\ f[d] # NULL => f[d].hop = s.route[d].hop,
         NEW t, t = [s EXCEPT !.route = f]
  PROVE  /\ Good(t) /\ t.table = s.table /\ t.dag = s.dag /\ t.parent = s.parent
         /\ t.route = f
<1>1. s \in State /\ s.table \in NbrTable
  BY DEF Good, Agree, State
<1>2. t = Rerouted(s, f, s.table)
  BY <1>1 DEF State, Rerouted
<1>3. /\ t \in State /\ t.dag = s.dag /\ t.parent = s.parent
      /\ t.route = f /\ t.table = s.table
  <2>1. OnlyRoutes(s, t, f, s.table)
    BY <1>1, <1>2, RoutesChange
  <2> QED BY <2>1 DEF OnlyRoutes
<1>4. Hops(t) = Hops(s)
  BY <1>3 DEF Hops
<1>5. RoutesMove(s, t)
  BY <1>3, <1>4 DEF RoutesMove, Good, Agree
<1> QED BY <1>3, <1>5, RoutesMoveWell

LEMMA RouteGoes ==
  ASSUME NEW s, Good(s), NEW d \in Dest, NEW t, t = uip_ds6_route_rm(s, d)
  PROVE  /\ Good(t) /\ t.dag = s.dag /\ t.parent = s.parent
         /\ t.table.key = s.table.key /\ t.table.keys = s.table.keys
         /\ \A m : m # "nbr_routes" => Used(t.table, m) = Used(s.table, m)
         /\ t.route[d] = NULL
<1> DEFINE f == [s.route EXCEPT ![d] = NULL]
           u == [s EXCEPT !.route = f]
           hop == s.route[d].hop
           tt == nbr_table_remove(s.table, "nbr_routes", hop)
<1>1. s \in State /\ s.table \in NbrTable
  BY DEF Good, Agree, State
<1>2. t = IF s.route[d] = NULL THEN s ELSE IF hop \in Hops(u) THEN u
          ELSE [u EXCEPT !.table = tt]
  <2>1. u.table = s.table /\ u = [s EXCEPT !.route[d] = NULL]
    BY <1>1 DEF State
  <2> QED BY <2>1 DEF uip_ds6_route_rm
<1>3. CASE s.route[d] = NULL
  BY <1>2, <1>3
<1>4. CASE s.route[d] # NULL
  <2>1. f \in [Dest -> Route \cup {NULL}] /\ f[d] = NULL
    BY <1>1 DEF State
  <2>2. u = Rerouted(s, f, s.table)
    BY <1>1 DEF State, Rerouted
  <2>3. \A e \in Dest \ {d} : f[e] = s.route[e]
    BY <1>1 DEF State
  <2>4. s.route[d] \in Route /\ hop \in Index
    BY <1>1, <1>4 DEF State, Route
  <2> HIDE DEF f
  <2>5. /\ u \in State /\ u.dag = s.dag /\ u.parent = s.parent
        /\ u.route = f /\ u.table = s.table
    <3>1. OnlyRoutes(s, u, f, s.table)
      BY <1>1, <2>1, <2>2, RoutesChange
    <3> QED BY <3>1 DEF OnlyRoutes
  <2> HIDE DEF u
  <2>6. Hops(s) = Hops(u) \cup {hop}
    BY <1>4, <2>1, <2>3, <2>5 DEF Hops
  <2>7. CASE hop \in Hops(u)
    <3>1. t = u
      BY <1>2, <1>4, <2>7
    <3>2. RoutesMove(s, u)
      BY <2>5, <2>6, <2>7 DEF RoutesMove, Good, Agree
    <3> QED BY <2>1, <2>5, <3>1, <3>2, RoutesMoveWell
  <2>8. CASE hop \notin Hops(u)
    <3>1. t = [u EXCEPT !.table = tt]
      BY <1>2, <1>4, <2>8
    <3>2. /\ tt \in NbrTable /\ tt.key = s.table.key /\ tt.keys = s.table.keys
          /\ tt.used = s.table.used \ {<<"nbr_routes", hop>>}
          /\ tt.locked = s.table.locked \ {<<"nbr_routes", hop>>}
      BY <1>1 DEF NbrTable, nbr_table_remove
    <3> HIDE DEF tt, hop
    <3>3. /\ t \in State /\ t.table = tt /\ t.dag = s.dag /\ t.parent = s.parent
          /\ t.route = f
      BY <2>5, <3>1, <3>2 DEF State
    <3>4. Hops(t) = Hops(u)
      BY <2>5, <3>3 DEF Hops
    <3>5. /\ Used(tt, "nbr_routes") = Used(s.table, "nbr_routes") \ {hop}
          /\ Locked(tt, "nbr_routes") = Locked(s.table, "nbr_routes") \ {hop}
          /\ \A m : m # "nbr_routes" =>
               Used(tt, m) = Used(s.table, m) /\ Locked(tt, m) = Locked(s.table, m)
      BY <3>2 DEF Used, Locked
    <3>6. /\ Used(s.table, "nbr_routes") = Hops(s) /\ Locked(s.table, "nbr_routes") = Hops(s)
          /\ Hops(s) \subseteq Used(s.table, "ds6_neighbors")
      BY DEF Good, Agree
    <3>7. RoutesMove(s, t)
      <4>1. Hops(t) = Hops(s) \ {hop}
        BY <2>6, <2>8, <3>4
      <4>2. /\ Used(t.table, "nbr_routes") = Hops(t) /\ Locked(t.table, "nbr_routes") = Hops(t)
            /\ Hops(t) \subseteq Used(s.table, "ds6_neighbors")
        BY <3>3, <3>5, <3>6, <4>1
      <4>3. \A m : m # "nbr_routes" =>
              Used(t.table, m) = Used(s.table, m) /\ Locked(t.table, m) = Locked(s.table, m)
        BY <3>3, <3>5
      <4> QED BY <3>2, <3>3, <4>2, <4>3 DEF RoutesMove
    <3>8. Good(t)
      BY <3>7, RoutesMoveWell
    <3> QED BY <2>1, <3>2, <3>3, <3>5, <3>8
  <2> QED BY <2>7, <2>8
<1> QED BY <1>3, <1>4

\* d is reached through i, and did not have a route.
LEMMA RouteComes ==
  ASSUME NEW s, Good(s), NEW d \in Dest, s.route[d] = NULL,
         NEW i \in Used(s.table, "ds6_neighbors"), NEW e \in Route, e.hop = i,
         NEW tt, tt = nbr_table_lock(Use(s.table, "nbr_routes", i), "nbr_routes", i),
         NEW f, f = [s.route EXCEPT ![d] = e],
         NEW t, t = Rerouted(s, f, tt)
  PROVE  Good(t) /\ t.table.key = s.table.key /\ t.table.keys = s.table.keys
<1>1. s \in State /\ s.table \in NbrTable /\ i \in Index /\ "nbr_routes" \in Table
  BY RplAssumption DEF Good, Agree, State, Used
<1>2. f \in [Dest -> Route \cup {NULL}] /\ f[d] = e /\ \A c \in Dest \ {d} : f[c] = s.route[c]
  BY <1>1 DEF State
<1>3. /\ tt \in NbrTable /\ tt.key = s.table.key /\ tt.keys = s.table.keys
      /\ tt.used = s.table.used \cup {<<"nbr_routes", i>>}
      /\ tt.locked = s.table.locked \cup {<<"nbr_routes", i>>}
  <2> DEFINE used == s.table.used \cup {<<"nbr_routes", i>>}
             locked == s.table.locked \cup {<<"nbr_routes", i>>}
  <2>1. ({"nbr_routes"} \X ({i} \cap Index)) = {<<"nbr_routes", i>>}
    BY <1>1
  <2>2. tt = [s.table EXCEPT !.used = used, !.locked = locked]
    BY <1>1, <2>1 DEF nbr_table_lock, Use, NbrTable
  <2>3. used \in SUBSET (Table \X Index) /\ locked \in SUBSET (Table \X Index)
    BY <1>1 DEF NbrTable
  <2> HIDE DEF used, locked
  <2>4. /\ tt \in NbrTable /\ tt.key = s.table.key /\ tt.keys = s.table.keys
        /\ tt.used = used /\ tt.locked = locked
    BY <1>1, <2>2, <2>3 DEF NbrTable
  <2> QED BY <2>4 DEF used, locked
<1>4. /\ t \in State /\ t.dag = s.dag /\ t.parent = s.parent
      /\ t.route = f /\ t.table = tt
  <2>1. OnlyRoutes(s, t, f, tt)
    BY <1>1, <1>2, <1>3, RoutesChange
  <2> QED BY <2>1 DEF OnlyRoutes
<1>5. Hops(t) = Hops(s) \cup {i}
  BY <1>2, <1>4, RplAssumption DEF Hops
<1>6. /\ Used(tt, "nbr_routes") = Used(s.table, "nbr_routes") \cup {i}
      /\ Locked(tt, "nbr_routes") = Locked(s.table, "nbr_routes") \cup {i}
      /\ \A m : m # "nbr_routes" =>
           Used(tt, m) = Used(s.table, m) /\ Locked(tt, m) = Locked(s.table, m)
  BY <1>1, <1>3 DEF Used, Locked
<1>7. /\ Used(s.table, "nbr_routes") = Hops(s) /\ Locked(s.table, "nbr_routes") = Hops(s)
      /\ Hops(s) \subseteq Used(s.table, "ds6_neighbors")
  BY DEF Good, Agree
<1>8. RoutesMove(s, t)
  BY <1>3, <1>4, <1>5, <1>6, <1>7 DEF RoutesMove
<1> QED BY <1>3, <1>4, <1>8, RoutesMoveWell

LEMMA AddRoute ==
  ASSUME NEW s, Good(s), NEW d \in Dest, NEW a, Neighbor(s, a) # NONE,
         NEW t, t = rpl_add_route(s, d, a)
  PROVE  Good(t) /\ t.table.key = s.table.key /\ t.table.keys = s.table.keys
<1> DEFINE i == nbr_table_get_from_lladdr(s.table, "ds6_neighbors", a)
           known == s.route[d] # NULL /\ s.route[d].hop = i
           u == uip_ds6_route_rm(s, d)
           e == [hop |-> i, nopath |-> FALSE, expired |-> FALSE]
<1>1. i \in Index /\ i \in Used(s.table, "ds6_neighbors") /\ s \in State
  <2>1. i = Neighbor(s, a)
    BY DEF Neighbor
  <2> HIDE DEF i
  <2> QED BY <2>1, NeighborIsListed DEF Good, Agree
<1>2. t = IF known THEN [s EXCEPT !.route[d] = e]
          ELSE IF ~RoutesLeft(u) THEN u
          ELSE [u EXCEPT !.route[d] = e,
                         !.table = nbr_table_lock(Use(u.table, "nbr_routes", i), "nbr_routes", i)]
  BY DEF rpl_add_route
<1> HIDE DEF i
<1>3. e \in Route /\ e.hop = i /\ e # NULL
  <2>1. e \in Route /\ e.hop = i
    BY <1>1 DEF Route
  <2> QED BY <2>1, RplAssumption
<1> HIDE DEF e
<1>4. CASE known
  <2>1. PICK f : f = [s.route EXCEPT ![d] = e]
    OBVIOUS
  <2>2. f \in [Dest -> Route \cup {NULL}] /\ t = [s EXCEPT !.route = f]
    BY <1>1, <1>2, <1>3, <1>4, <2>1 DEF State
  <2>3. \A c \in Dest : /\ f[c] = NULL <=> s.route[c] = NULL
                        /\ f[c] # NULL => f[c].hop = s.route[c].hop
    BY <1>1, <1>3, <1>4, <2>1 DEF State
  <2>4. Good(t) /\ t.table = s.table
    BY <2>2, <2>3, RoutesMarked
  <2> QED BY <2>4
<1>5. CASE ~known
  <2> HIDE DEF u
  <2>1. /\ Good(u) /\ u.table.key = s.table.key /\ u.table.keys = s.table.keys
        /\ Used(u.table, "ds6_neighbors") = Used(s.table, "ds6_neighbors")
        /\ u.route[d] = NULL
    BY RouteGoes DEF u
  <2>2. CASE t = u
    BY <2>1, <2>2
  <2>3. CASE t # u
    <3>1. PICK f : f = [u.route EXCEPT ![d] = e]
      OBVIOUS
    <3>2. PICK tt : tt = nbr_table_lock(Use(u.table, "nbr_routes", i), "nbr_routes", i)
      OBVIOUS
    <3>3. t = Rerouted(u, f, tt)
      BY <1>2, <1>5, <2>1, <2>3, <3>1, <3>2 DEF Good, Agree, State, Rerouted
    <3>4. Good(t) /\ t.table.key = u.table.key /\ t.table.keys = u.table.keys
      BY <1>1, <1>3, <2>1, <3>1, <3>2, <3>3, RouteComes
    <3> QED BY <2>1, <3>4
  <2> QED BY <2>2, <2>3
<1> QED BY <1>4, <1>5

----------------------------------------------------------------------------
(* Messages *)

LEMMA AddParent ==
  ASSUME NEW s, Good(s), NEW p \in Used(s.table, "ds6_neighbors"), NEW r \in Rank,
         NEW t, t = rpl_add_parent(s, p, r)
  PROVE  /\ Good(t) /\ t.table.key = s.table.key /\ t.table.keys = s.table.keys
         /\ t.dag = s.dag /\ p \in Used(t.table, "rpl_parents")
<1>1. s \in State /\ s.table \in NbrTable /\ p \in Index /\ "rpl_parents" \in Table
  BY RplAssumption DEF Good, Agree, State, Used
<1> DEFINE used == s.table.used \cup {<<"rpl_parents", p>>}
           tt == Use(s.table, "rpl_parents", p)
           np == [s.parent EXCEPT ![p] = [rank |-> r, updated |-> FALSE]]
<1>2. t = [s EXCEPT !.table = tt, !.parent = np]
  BY <1>1 DEF rpl_add_parent, State
<1>3. np \in [Index -> [rank: Rank, updated: BOOLEAN]]
  BY <1>1 DEF State
<1>4. /\ tt \in NbrTable /\ tt.key = s.table.key /\ tt.keys = s.table.keys
      /\ tt.used = used /\ tt.locked = s.table.locked
  <2>1. tt = [s.table EXCEPT !.used = used]
    BY DEF Use
  <2>2. used \in SUBSET (Table \X Index)
    BY <1>1 DEF NbrTable
  <2> HIDE DEF used, tt
  <2> QED BY <1>1, <2>1, <2>2 DEF NbrTable
<1> HIDE DEF tt, np
<1>5. /\ t \in State /\ t.table = tt /\ t.dag = s.dag /\ t.route = s.route
  BY <1>1, <1>2, <1>3, <1>4 DEF State
<1>6. /\ Used(tt, "rpl_parents") = Used(s.table, "rpl_parents") \cup {p}
      /\ \A m : m # "rpl_parents" => Used(tt, m) = Used(s.table, m)
      /\ \A m : Locked(tt, m) = Locked(s.table, m)
  BY <1>1, <1>4 DEF Used, Locked
<1>7. Hops(t) = Hops(s)
  BY <1>5 DEF Hops
<1>8. Listing(tt)
  <2>1. Listing(s.table)
    BY DEF Good, Agree
  <2>2. p \in Range(s.table.keys)
    BY <2>1, RplAssumption DEF Listing
  <2>3. \A m \in Table : Used(tt, m) \subseteq Range(s.table.keys)
    BY <1>6, <2>1, <2>2 DEF Listing
  <2> QED BY <1>4, <2>1, <2>3 DEF Listing
<1>9. Agree(t)
  BY <1>5, <1>6, <1>7, <1>8 DEF Good, Agree
<1>10. FollowsParent(t)
  BY <1>4, <1>5, <1>6 DEF Good, FollowsParent, Consistent, ParentIsLocked
<1>11. RankFits(t) /\ Detached(t)
  BY <1>5 DEF Good, RankFits, Detached
<1> QED BY <1>4, <1>5, <1>6, <1>9, <1>10, <1>11 DEF Good

LEMMA Joins ==
  ASSUME NEW s, Good(s), NEW p \in Used(s.table, "ds6_neighbors"), NEW r \in Rank,
         NEW a \in Addr, s.table.key[p] = a, NEW u, u = rpl_join_instance(s, a, p, r)
  PROVE  Good(u) /\ u.table.key = s.table.key /\ u.table.keys = s.table.keys
<1> DEFINE v == rpl_add_parent(s, p, r)
           t == rpl_set_preferred_parent(v, p)
           rank == rank_via_parent(t, p)
           d == [t.dag EXCEPT !.joined = TRUE, !.rank = rank, !.min_rank = rank]
           w == [t EXCEPT !.dag = d]
<1>1. p \in Index /\ p # NONE
  BY NbrTableAssumption DEF Used, Index, NONE
<1>2. /\ Good(v) /\ v.table.key = s.table.key /\ v.table.keys = s.table.keys
      /\ p \in Used(v.table, "rpl_parents")
  BY AddParent
<1>3. v \in State /\ ParentIsLocked(v) /\ Agree(v)
  BY <1>2 DEF Good, Agree, FollowsParent, Consistent
<1> HIDE DEF v
<1>4. /\ SameTables(v, t) /\ t \in State /\ ParentIsLocked(t)
      /\ t.dag = [v.dag EXCEPT !.preferred_parent = p]
      /\ t.dag.preferred_parent = p
  BY <1>1, <1>3, SetPreferred
<1>5. u = rpl_set_default_route(w, a)
  <2>1. w = [t EXCEPT !.dag.joined = TRUE, !.dag.rank = rank, !.dag.min_rank = rank]
    BY <1>4 DEF State
  <2>2. u = rpl_set_default_route([t EXCEPT !.dag.joined = TRUE, !.dag.rank = rank,
                                            !.dag.min_rank = rank], a)
    BY DEF rpl_join_instance, v
  <2> HIDE DEF w, t, rank
  <2> QED BY <2>1, <2>2
<1> HIDE DEF t
<1>6. rank \in Rank
  BY <1>1, <1>4, RanksAreRanks
<1> HIDE DEF rank
<1>7. t.dag.defaultrouterlist = {t.dag.def_route} \ {NULL}
  BY <1>2, <1>3, <1>4 DEF Good, FollowsParent, Consistent, State
<1>8. /\ d \in [rank: Rank, joined: BOOLEAN, min_rank: Rank,
                preferred_parent: Index \cup {NONE},
                def_route: Addr \cup {NULL}, defaultrouterlist: SUBSET Addr]
      /\ d.rank = rank /\ d.min_rank = rank /\ d.preferred_parent = p
      /\ d.defaultrouterlist = {d.def_route} \ {NULL}
  BY <1>4, <1>6, <1>7 DEF State
<1> HIDE DEF d
<1>9. w \in State /\ SameTables(t, w) /\ w.dag = d /\ w.table = t.table
  BY <1>4, <1>8, DagChanges
<1> HIDE DEF w
<1>10. /\ SameTables(w, u) /\ u \in State /\ u.table = w.table
       /\ u.dag.rank = rank /\ u.dag.min_rank = rank
       /\ u.dag.preferred_parent = p /\ u.dag.def_route = a
       /\ u.dag.defaultrouterlist = {a} \ {NULL}
  <2>1. a \in Addr \cup {NULL}
    OBVIOUS
  <2>2. /\ SameTables(w, u) /\ u \in State /\ u.table = w.table
        /\ u.dag.rank = w.dag.rank /\ u.dag.min_rank = w.dag.min_rank
        /\ u.dag.preferred_parent = w.dag.preferred_parent /\ u.dag.def_route = a
    BY <1>5, <1>9, <2>1, SetDefaultRoute
  <2>3. u.dag.defaultrouterlist = {a} \ {NULL}
    BY <1>5, <1>8, <1>9, <2>1, SetDefaultRoute
  <2> QED BY <1>8, <1>9, <2>2, <2>3
<1>11. SameTables(v, u)
  BY <1>4, <1>9, <1>10, SameIsTransitive
<1>12. Agree(u)
  BY <1>3, <1>11, SameAgrees
<1>13. FollowsParent(u)
  <2>1. p \in Used(u.table, "rpl_parents")
    BY <1>2, <1>11 DEF SameTables, Used
  <2>2. ParentIsLocked(u)
    BY <1>4, <1>9, <1>10 DEF ParentIsLocked
  <2>3. u.table.key[p] = a
    BY <1>2, <1>11 DEF SameTables
  <2> QED BY <1>1, <1>10, <2>1, <2>2, <2>3 DEF FollowsParent, Consistent
<1>14. RankFits(u) /\ Detached(u)
  <2>1. rank \in Nat /\ rank <= rank /\ MaxRankInc \in Nat
    BY <1>6, RplAssumption DEF Rank
  <2>2. rank <= rank + MaxRankInc /\ rank + MaxRankInc \in Nat
    BY <2>1
  <2>3. DAG_RANK(rank) <= DAG_RANK(rank + MaxRankInc)
    BY <2>1, <2>2, DagRankGrows
  <2> QED BY <1>1, <1>10, <2>1, <2>3 DEF RankFits, Detached
<1> QED BY <1>2, <1>11, <1>12, <1>13, <1>14 DEF Good, SameTables

\* While no parent is preferred, the ranks may be anything.
LEMMA Repairs ==
  ASSUME NEW s, Good(s), Used(s.table, "rpl_parents") = {},
         NEW p, p = NONE \/ p \in Used(s.table, "ds6_neighbors"), NEW r \in Rank,
         NEW u \in global_repair(s, p, r)
  PROVE  Good(u) /\ u.table.key = s.table.key /\ u.table.keys = s.table.keys
<1>1. s.dag.preferred_parent = NONE
  BY DEF Good, FollowsParent
<1>2. CASE p = NONE
  <2> DEFINE d == [s.dag EXCEPT !.rank = INFINITE_RANK, !.min_rank = INFINITE_RANK]
  <2>1. s \in State /\ INFINITE_RANK \in Rank
    BY RplAssumption DEF Good, Agree, Rank
  <2>2. u = [s EXCEPT !.dag = d]
    <3>1. u = [s EXCEPT !.dag.rank = INFINITE_RANK, !.dag.min_rank = INFINITE_RANK]
      BY <1>2 DEF global_repair
    <3> QED BY <2>1, <3>1 DEF State
  <2>3. /\ d \in [rank: Rank, joined: BOOLEAN, min_rank: Rank,
                  preferred_parent: Index \cup {NONE},
                  def_route: Addr \cup {NULL}, defaultrouterlist: SUBSET Addr]
        /\ d.rank = INFINITE_RANK /\ d.preferred_parent = NONE
        /\ d.def_route = s.dag.def_route /\ d.defaultrouterlist = s.dag.defaultrouterlist
    BY <1>1, <2>1 DEF State
  <2> HIDE DEF d
  <2>4. SameTables(s, u) /\ u.dag = d /\ u.table = s.table
    BY <2>1, <2>2, <2>3, DagChanges
  <2>5. Agree(u)
    BY <2>4, SameAgrees DEF Good
  <2>6. FollowsParent(u)
    BY <1>1, <2>3, <2>4 DEF Good, FollowsParent, Consistent, ParentIsLocked
  <2> QED BY <2>3, <2>4, <2>5, <2>6 DEF Good, RankFits, Detached
<1>3. CASE p # NONE
  <2> DEFINE t == rpl_add_parent(s, p, r)
             rank == rank_via_parent(t, p)
             d == [t.dag EXCEPT !.rank = rank, !.min_rank = rank]
             w == [t EXCEPT !.dag = d]
  <2>1. p \in Used(s.table, "ds6_neighbors") /\ p \in Index
    BY <1>3 DEF Used
  <2>2. /\ Good(t) /\ t.table.key = s.table.key /\ t.table.keys = s.table.keys
        /\ t.dag = s.dag /\ p \in Used(t.table, "rpl_parents")
    BY <2>1, AddParent
  <2>3. u \in rpl_process_parent_event(w, p)
    <3>1. w = [t EXCEPT !.dag.rank = rank, !.dag.min_rank = rank]
      BY <2>2 DEF Good, Agree, State
    <3> QED BY <1>3, <3>1 DEF global_repair, Then
  <2> HIDE DEF t
  <2>4. rank \in Rank /\ t \in State
    BY <2>1, <2>2, RanksAreRanks DEF Good, Agree
  <2> HIDE DEF rank
  <2>5. /\ d \in [rank: Rank, joined: BOOLEAN, min_rank: Rank,
                  preferred_parent: Index \cup {NONE},
                  def_route: Addr \cup {NULL}, defaultrouterlist: SUBSET Addr]
        /\ d.preferred_parent = NONE
        /\ d.def_route = t.dag.def_route /\ d.defaultrouterlist = t.dag.defaultrouterlist
    BY <1>1, <2>2, <2>4 DEF State
  <2> HIDE DEF d
  <2>6. SameTables(t, w) /\ w.dag = d /\ w.table = t.table
    BY <2>4, <2>5, DagChanges
  <2> HIDE DEF w
  <2>7. Agree(w)
    BY <2>2, <2>6, SameAgrees DEF Good
  <2>8. FollowsParent(w)
    BY <1>1, <2>2, <2>5, <2>6 DEF Good, FollowsParent, Consistent, ParentIsLocked
  <2>9. RankFits(w)
    BY <2>5, <2>6 DEF RankFits
  <2>10. p \in Used(w.table, "rpl_parents")
    BY <2>2, <2>6
  <2>11. Good(u) /\ Kept(w, u)
    BY <2>3, <2>7, <2>8, <2>9, <2>10, ParentEvent
  <2> QED BY <2>2, <2>6, <2>11 DEF Kept
<1> QED BY <1>2, <1>3

LEMMA Dio ==
  ASSUME NEW s, Good(s), NEW p \in Used(s.table, "ds6_neighbors"), NEW r \in Rank,
         NEW a \in Addr, s.table.key[p] = a, NEW u \in rpl_process_dio(s, a, p, r)
  PROVE  Good(u) /\ u.table.key = s.table.key /\ u.table.keys = s.table.keys
<1> DEFINE t == IF Uses(s, "rpl_parents", p) THEN s ELSE rpl_add_parent(s, p, r)
           np == [t.parent EXCEPT ![p] = [rank |-> r, updated |-> TRUE]]
           w == [t EXCEPT !.parent = np]
<1>1. /\ Good(t) /\ t.table.key = s.table.key /\ t.table.keys = s.table.keys
      /\ p \in Used(t.table, "rpl_parents") /\ p \in Index
  BY AddParent DEF Uses, Used
<1>2. PICK v \in rpl_process_parent_event(w, p) :
        u = IF p = v.dag.preferred_parent
            THEN [v EXCEPT !.dag.defaultrouterlist = @ \cup {a}] ELSE v
  <2>1. w = [t EXCEPT !.parent[p] = [rank |-> r, updated |-> TRUE]]
    BY <1>1 DEF Good, Agree, State
  <2> DEFINE x == [t EXCEPT !.parent[p] = [rank |-> r, updated |-> TRUE]]
             News(y) == rpl_process_parent_event(y, p)
             Refreshed(v) == IF p = v.dag.preferred_parent
                             THEN [v EXCEPT !.dag.defaultrouterlist = @ \cup {a}] ELSE v
  <2>2. u \in {Refreshed(v) : v \in UNION {News(y) : y \in {x}}}
    BY DEF rpl_process_dio, Then
  <2>3. x = w
    BY <2>1
  <2> HIDE DEF x, w, Refreshed, News
  <2>4. PICK v \in News(w) : u = Refreshed(v)
    BY <2>2, <2>3
  <2> QED BY <2>4 DEF Refreshed, News
<1> HIDE DEF t
<1>3. np \in [Index -> [rank: Rank, updated: BOOLEAN]]
  BY <1>1 DEF Good, Agree, State
<1> HIDE DEF np
<1>4. Good(w) /\ w.table = t.table
  BY <1>1, <1>3, ParentChanges
<1> HIDE DEF w
<1>5. Good(v) /\ Kept(w, v)
  BY <1>1, <1>2, <1>4, ParentEvent DEF Good
<1>6. v.table.key = s.table.key /\ v.table.keys = s.table.keys
  BY <1>1, <1>4, <1>5 DEF Kept
<1>7. u = v
  <2>1. SUFFICES ASSUME p = v.dag.preferred_parent
                 PROVE  [v EXCEPT !.dag.defaultrouterlist = @ \cup {a}] = v
    BY <1>2
  <2>2. p # NONE
    BY <1>1, NbrTableAssumption DEF Index, NONE
  <2>3. v.dag.def_route = a /\ v.dag.defaultrouterlist = {v.dag.def_route} \ {NULL}
    BY <1>5, <1>6, <2>1, <2>2 DEF Good, FollowsParent, Consistent
  <2>4. v.dag.defaultrouterlist \cup {a} = v.dag.defaultrouterlist
    BY <2>3, NbrTableAssumption
  <2>5. v \in State
    BY <1>5 DEF Good, Agree
  <2> QED BY <2>4, <2>5 DEF State
<1> QED BY <1>5, <1>6, <1>7

----------------------------------------------------------------------------
(* The periodic timer *)

LEMMA RanksRecalculated ==
  ASSUME NEW s, Good(s), NEW t \in recalculate_ranks(s)
  PROVE  Good(t) /\ Kept(s, t)
<1> DEFINE keys == s.table.keys
           N == Len(keys)
           Is(n) == <<"rpl_parents", keys[n]>> \in s.table.used
           Update(y, p) ==
             IF y.parent[p].updated
             THEN rpl_process_parent_event([y EXCEPT !.parent[p].updated = FALSE], p)
             ELSE {y}
           U == SUBSET {y \in State : Good(y) /\ Kept(s, y)}
           Step(Y, n) == IF Is(n) THEN UNION {Update(y, keys[n]) : y \in Y} ELSE Y
           E(f) == f = [n \in 0..N |-> IF n = 0 THEN {s} ELSE Step(f[n - 1], n)]
           loop == CHOOSE f : E(f)
<1>1. t \in loop[N]
  BY DEF recalculate_ranks, Through
<1>2. s \in State /\ N \in Nat /\ \A n \in 1..N : keys[n] \in Index
  BY DEF Good, Agree, State, NbrTable
<1>3. \A n \in 1..N : \A Y \in U : Step(Y, n) \in U
  <2> TAKE n \in 1..N
  <2> TAKE Y \in U
  <2>1. CASE Is(n)
    <3>1. PICK p \in Index : p = keys[n]
      BY <1>2
    <3>2. ASSUME NEW y \in Y, NEW z \in Update(y, p)
          PROVE  z \in State /\ Good(z) /\ Kept(s, z)
      <4>1. y \in State /\ Good(y) /\ Kept(s, y)
        OBVIOUS
      <4>2. CASE z = y
        BY <4>1, <4>2
      <4>3. CASE z # y
        <5> DEFINE np == [y.parent EXCEPT ![p] = [rank |-> y.parent[p].rank, updated |-> FALSE]]
                   w == [y EXCEPT !.parent = np]
        <5>1. w = [y EXCEPT !.parent[p].updated = FALSE]
          BY <4>1, <3>1 DEF State
        <5>2. z \in rpl_process_parent_event(w, p)
          <6> HIDE DEF w
          <6> QED BY <3>2, <4>3, <5>1
        <5>3. np \in [Index -> [rank: Rank, updated: BOOLEAN]]
          BY <4>1 DEF State
        <5> HIDE DEF np
        <5>4. Good(w) /\ w.table = y.table
          BY <4>1, <5>3, ParentChanges
        <5> HIDE DEF w
        <5>5. p \in Used(w.table, "rpl_parents")
          BY <2>1, <3>1, <4>1, <5>4 DEF Kept, Used
        <5>6. Good(z) /\ Kept(w, z)
          BY <5>2, <5>4, <5>5, ParentEvent DEF Good
        <5> QED BY <4>1, <5>4, <5>6 DEF Kept, Good, Agree
      <4> QED BY <4>2, <4>3
    <3>3. Step(Y, n) = UNION {Update(y, p) : y \in Y}
      BY <2>1, <3>1
    <3> HIDE DEF Step, Update
    <3> QED BY <3>2, <3>3
  <2>2. CASE ~Is(n)
    BY <2>2
  <2> QED BY <2>1, <2>2
<1>4. PICK SS, G : /\ SS = [n \in 0..N |-> U]
                   /\ G = [n \in 1..N |-> [Y \in U |-> Step(Y, n)]]
  OBVIOUS
<1>5. {s} \in U
  BY <1>2 DEF Kept
<1>6. \E f : E(f)
  <2> DEFINE V == {y \in State : Good(y) /\ Kept(s, y)}
  <2> HIDE DEF Step, N, V
  <2>1. SS \in [0..N -> SUBSET (SUBSET V)] /\ U = SUBSET V
    BY <1>4 DEF V
  <2> HIDE DEF U
  <2>2. \A n \in 1..N : \A Y \in U : G[n][Y] = Step(Y, n)
    BY <1>4
  <2>3. \A n \in 1..N : \A Y \in SS[n - 1] : G[n][Y] \in SS[n]
    BY <1>2, <1>3, <1>4, <2>2
  <2>4. PICK f : LoopRun(f, N, U, SS, {s}, G)
    <3>1. SS[0] = U
      BY <1>2, <1>4
    <3>2. SS \in [0..N -> SUBSET U]
      BY <1>4
    <3>3. Loop(N, U, SS, {s}, G)
      BY <1>2, <1>5, <2>3, <3>1, <3>2 DEF Loop
    <3> QED BY <3>3, LoopRuns
  <2>5. \A n \in 1..N : n - 1 \in 0..N /\ f[n - 1] \in U
    BY <1>2, <1>4, <2>4 DEF LoopRun
  <2>6. \A n \in 1..N : f[n] = Step(f[n - 1], n)
    BY <2>2, <2>4, <2>5 DEF LoopRun
  <2>7. E(f)
    BY <1>2, <2>4, <2>6 DEF LoopRun
  <2> QED BY <2>7
<1>7. E(loop)
  <2> HIDE DEF E
  <2> QED BY <1>6
<1>8. \A n \in 0..N : loop[n] \in SS[n]
  <2> HIDE DEF U, Step, N, loop
  <2>1. loop[0] \in SS[0]
    BY <1>2, <1>4, <1>5, <1>7
  <2>2. \A n \in 1..N : loop[n - 1] \in SS[n - 1] => loop[n] \in SS[n]
    <3> TAKE n \in 1..N
    <3>1. n \in 0..N /\ n # 0 /\ n - 1 \in 0..N
      BY <1>2
    <3>2. SS[n - 1] = U /\ SS[n] = U
      BY <1>4, <3>1
    <3>3. loop[n] = Step(loop[n - 1], n)
      BY <1>7, <3>1
    <3> HIDE DEF E
    <3> QED BY <1>3, <3>2, <3>3
  <2> QED BY <1>2, <2>1, <2>2, LoopStays
<1>9. loop[N] \in U
  <2> HIDE DEF loop, N, U
  <2> QED BY <1>2, <1>4, <1>8
<1> HIDE DEF loop
<1> QED BY <1>1, <1>9

LEMMA Ages ==
  ASSUME RplInv, NEW out \in SUBSET Routed, NEW s, s = Aged(out)
  PROVE  Good(s) /\ s.table = table /\ s.dag = dag
<1>1. PICK n : n = Now
  OBVIOUS
<1>2. Good(n) /\ n.route = route /\ n.table = table /\ n.dag = dag /\ n \in State
  BY <1>1 DEF RplInv, Now, Good, Agree
<1> DEFINE f == [d \in Dest |-> IF d \in out THEN [route[d] EXCEPT !.expired = TRUE] ELSE route[d]]
<1>3. s = [n EXCEPT !.route = f]
  BY <1>1, <1>2 DEF Aged, State, Now
<1>4. \A d \in Dest : /\ f[d] \in Route \cup {NULL}
                      /\ f[d] = NULL <=> n.route[d] = NULL
                      /\ f[d] # NULL => f[d].hop = n.route[d].hop
  <2> TAKE d \in Dest
  <2>1. n.route[d] \in Route \cup {NULL} /\ NULL \notin Route
    BY <1>2, RplAssumption DEF State
  <2>2. CASE d \in out
    <3> DEFINE e == [route[d] EXCEPT !.expired = TRUE]
    <3>1. route[d] \in Route
      BY <1>2, <2>1, <2>2 DEF Routed
    <3>2. e \in Route /\ e.hop = route[d].hop
      BY <3>1 DEF Route
    <3>3. f[d] = e
      BY <2>2
    <3> HIDE DEF e, f
    <3> QED BY <1>2, <2>1, <3>1, <3>2, <3>3
  <2>3. CASE d \notin out
    BY <1>2, <2>1, <2>3
  <2> QED BY <2>2, <2>3
<1>5. f \in [Dest -> Route \cup {NULL}]
  <2>1. f = [d \in Dest |-> f[d]]
    OBVIOUS
  <2> HIDE DEF f
  <2> QED BY <1>4, <2>1
<1> HIDE DEF f
<1>6. Good(s) /\ s.table = n.table /\ s.dag = n.dag
  BY <1>2, <1>3, <1>4, <1>5, RoutesMarked
<1> QED BY <1>2, <1>6

LEMMA Ticks ==
  ASSUME RplInv, NEW out \in SUBSET Routed, NEW s \in Purged(Aged(out)),
         NEW t \in recalculate_ranks(s)
  PROVE  Good(t) /\ t.table.key = table.key /\ t.table.keys = table.keys
<1>1. PICK v : v = Aged(out)
  OBVIOUS
<1>2. Good(v) /\ v.table = table
  BY <1>1, Ages
<1>3. Good(s) /\ s.table.key = table.key /\ s.table.keys = table.keys
  <2>1. s = v \/ \E d \in Dest : s = uip_ds6_route_rm(v, d)
    BY <1>1 DEF Purged, Routed
  <2>2. CASE s = v
    BY <1>2, <2>2
  <2>3. ASSUME NEW d \in Dest, s = uip_ds6_route_rm(v, d)
        PROVE  Good(s) /\ s.table.key = v.table.key /\ s.table.keys = v.table.keys
    BY <1>2, <2>3, RouteGoes
  <2> QED BY <1>2, <2>1, <2>2, <2>3
<1>4. Good(t) /\ Kept(s, t)
  BY <1>3, RanksRecalculated
<1> QED BY <1>3, <1>4 DEF Kept

----------------------------------------------------------------------------
(* Every action *)

Spared == (Listed \ Listed') \cap InUse = {}

\* A step that makes room, s being what it has become by then, and goes on.
LEMMA Lands ==
  ASSUME RplInv, NEW s, Good(s), Spares(Now, s),
         NEW t, Good(t), t.table.key = s.table.key, t.table.keys = s.table.keys,
         Becomes(t)
  PROVE  RplInv' /\ Spared
<1>1. t \in State
  BY DEF Good, Agree
<1>2. Now' = t
  BY <1>1 DEF Now, Becomes, State
<1>3. Good(Now')
  BY <1>2
<1>4. RplInv'
  BY <1>3 DEF RplInv
<1>5. table' = t.table
  BY DEF Becomes
<1>6. Spared
  <2>1. SUFFICES ASSUME NEW i \in InUseOf(Now)
                 PROVE  table.key[i] \in {table'.key[j] : j \in Range(table'.keys)}
    BY DEF Spared, Listed, InUse, InUseOf, Now
  <2>2. i \in Range(s.table.keys) /\ s.table.key[i] = table.key[i]
    BY InUseIsListed DEF Spares, Now
  <2> QED BY <1>5, <2>2
<1> QED BY <1>4, <1>6

LEMMA NowIsGood ==
  ASSUME RplInv
  PROVE  Good(Now) /\ Spares(Now, Now)
BY DEF RplInv, Spares

LEMMA RanksOfDios ==
  DioRank \subseteq Rank /\ Etx \cup {INIT_ETX} \subseteq Etx \cup {INIT_ETX, 0}
BY RplAssumption DEF Rank, ROOT_RANK

LEMMA InputLands ==
  ASSUME RplInv, NEW a \in Addr, Input(a) \/ DisInput(a) \/ NsInput(a)
  PROVE  RplInv' /\ Spared
<1>1. PICK t : Becomes(t) /\ (t \in Received(a) \/ \E reason : t \in Heard(a, reason, 0))
  BY DEF Input, DisInput, NsInput, OneOf
<1>2. Good(t) /\ Spares(Now, t)
  BY <1>1, Receive, Hear
<1> QED BY <1>1, <1>2, Lands

LEMMA JoinLands ==
  ASSUME RplInv, NEW a \in Addr, NEW r \in DioRank, JoinInstance(a, r)
  PROVE  RplInv' /\ Spared
<1>1. PICK s \in Heard(a, "DIO", r) :
        LET p == Neighbor(s, a) IN Becomes(IF p = NONE THEN s ELSE rpl_join_instance(s, a, p, r))
  BY DEF JoinInstance
<1>2. Good(s) /\ Spares(Now, s)
  BY <1>1, Hear
<1>3. PICK p : p = Neighbor(s, a)
  OBVIOUS
<1>4. PICK t : t = IF p = NONE THEN s ELSE rpl_join_instance(s, a, p, r)
  OBVIOUS
<1>5. Becomes(t)
  BY <1>1, <1>3, <1>4
<1>6. Good(t) /\ t.table.key = s.table.key /\ t.table.keys = s.table.keys
  <2>1. CASE p = NONE
    BY <1>2, <1>4, <2>1
  <2>2. CASE p # NONE
    <3>1. p \in Used(s.table, "ds6_neighbors") /\ s.table.key[p] = a
      BY <1>2, <1>3, <2>2, NeighborIsListed
    <3>2. r \in Rank /\ t = rpl_join_instance(s, a, p, r)
      BY <1>4, <2>2, RanksOfDios
    <3> QED BY <1>2, <3>1, <3>2, Joins
  <2> QED BY <2>1, <2>2
<1> QED BY <1>2, <1>5, <1>6, Lands

LEMMA RepairLands ==
  ASSUME RplInv, NEW a \in Addr, NEW r \in DioRank, GlobalRepair(a, r)
  PROVE  RplInv' /\ Spared
<1>1. PICK s \in Received(a) : \E t \in {remove_parents(s)} :
        OneOf(global_repair(t, Neighbor(t, a), r))
  BY DEF GlobalRepair
<1>2. PICK t : t = remove_parents(s) /\ OneOf(global_repair(t, Neighbor(t, a), r))
  BY <1>1
<1>3. PICK p : p = Neighbor(t, a)
  OBVIOUS
<1>4. PICK u \in global_repair(t, p, r) : Becomes(u)
  BY <1>2, <1>3 DEF OneOf
<1>5. Good(s) /\ Spares(Now, s)
  BY <1>1, Receive
<1>6. /\ Good(t) /\ Used(t.table, "rpl_parents") = {}
      /\ t.table.key = s.table.key /\ t.table.keys = s.table.keys
  BY <1>2, <1>5, AllParentsGo
<1>7. p = NONE \/ p \in Used(t.table, "ds6_neighbors")
  BY <1>3, <1>6, NeighborIsListed
<1>8. r \in Rank
  BY RanksOfDios
<1>9. Good(u) /\ u.table.key = t.table.key /\ u.table.keys = t.table.keys
  BY <1>4, <1>6, <1>7, <1>8, Repairs
<1>10. u.table.key = s.table.key /\ u.table.keys = s.table.keys
  BY <1>6, <1>9
<1> QED BY <1>4, <1>5, <1>9, <1>10, Lands

LEMMA DioLands ==
  ASSUME RplInv, NEW a \in Addr, NEW r \in DioRank, ProcessDio(a, r)
  PROVE  RplInv' /\ Spared
<1>1. PICK s \in Heard(a, "DIO", r) : \E p \in {Neighbor(s, a)} :
        IF p = NONE THEN Becomes(s) ELSE OneOf(rpl_process_dio(s, a, p, r))
  BY DEF ProcessDio
<1>2. PICK p : /\ p = Neighbor(s, a)
               /\ IF p = NONE THEN Becomes(s) ELSE OneOf(rpl_process_dio(s, a, p, r))
  BY <1>1
<1>3. Good(s) /\ Spares(Now, s)
  BY <1>1, Hear
<1>4. CASE p = NONE
  BY <1>2, <1>3, <1>4, Lands
<1>5. CASE p # NONE
  <2>1. PICK u \in rpl_process_dio(s, a, p, r) : Becomes(u)
    BY <1>2, <1>5 DEF OneOf
  <2>2. p \in Used(s.table, "ds6_neighbors") /\ s.table.key[p] = a
    BY <1>2, <1>3, <1>5, NeighborIsListed
  <2>3. r \in Rank
    BY RanksOfDios
  <2>4. Good(u) /\ u.table.key = s.table.key /\ u.table.keys = s.table.keys
    BY <1>3, <2>1, <2>2, <2>3, Dio
  <2> QED BY <1>3, <2>1, <2>4, Lands
<1> QED BY <1>4, <1>5

LEMMA LoopIsGood ==
  ASSUME NEW s, Good(s), NEW p, p \in Index, NEW t, t = LoopFound(s, p)
  PROVE  Good(t) /\ t.table = s.table
<1> DEFINE np == [s.parent EXCEPT ![p] = [rank |-> INFINITE_RANK, updated |-> TRUE]]
<1>1. s \in State /\ INFINITE_RANK \in Rank
  BY RplAssumption DEF Good, Agree, Rank
<1>2. t = [s EXCEPT !.parent = np]
  BY <1>1 DEF LoopFound, State
<1>3. np \in [Index -> [rank: Rank, updated: BOOLEAN]]
  BY <1>1 DEF State
<1> HIDE DEF np
<1> QED BY <1>2, <1>3, ParentChanges

LEMMA LoopNeighbor ==
  ASSUME NEW s, NEW p, IsLoop(s, p), Good(s)
  PROVE  p \in Index
BY DEF IsLoop, Uses, Good, Agree, State, NbrTable

LEMMA DaoLands ==
  ASSUME RplInv, NEW a \in Addr, NEW d \in Dest, DaoInput(a, d)
  PROVE  RplInv' /\ Spared
<1>1. PICK s \in Received(a) : \E p \in {index_from_lladdr(s.table, a)} :
        IF IsLoop(s, p) THEN Becomes(LoopFound(s, p))
        ELSE \E t \in update_nbr_table(s, a, "DAO", 0) :
               Becomes(IF Neighbor(t, a) = NONE THEN t ELSE rpl_add_route(t, d, a))
  BY DEF DaoInput
<1>2. PICK p : IF IsLoop(s, p) THEN Becomes(LoopFound(s, p))
               ELSE \E t \in update_nbr_table(s, a, "DAO", 0) :
                      Becomes(IF Neighbor(t, a) = NONE THEN t ELSE rpl_add_route(t, d, a))
  BY <1>1
<1>3. Good(s) /\ Spares(Now, s)
  BY <1>1, Receive
<1>4. CASE IsLoop(s, p)
  <2>1. PICK t : t = LoopFound(s, p)
    OBVIOUS
  <2>2. Good(t) /\ t.table = s.table
    BY <1>3, <1>4, <2>1, LoopIsGood, LoopNeighbor
  <2> QED BY <1>2, <1>3, <1>4, <2>1, <2>2, Lands
<1>5. CASE ~IsLoop(s, p)
  <2>1. PICK t \in update_nbr_table(s, a, "DAO", 0) :
          Becomes(IF Neighbor(t, a) = NONE THEN t ELSE rpl_add_route(t, d, a))
    BY <1>2, <1>5
  <2>2. Good(t) /\ Spares(Now, t)
    <3>1. PICK n : n = Now
      OBVIOUS
    <3>2. Good(t) /\ Spares(s, t)
      BY <1>3, <2>1, UpdateTable
    <3> QED BY <1>3, <3>1, <3>2, SparesIsTransitive
  <2>3. PICK u : u = IF Neighbor(t, a) = NONE THEN t ELSE rpl_add_route(t, d, a)
    OBVIOUS
  <2>4. Good(u) /\ u.table.key = t.table.key /\ u.table.keys = t.table.keys
    BY <2>2, <2>3, AddRoute
  <2> QED BY <2>1, <2>2, <2>3, <2>4, Lands
<1> QED BY <1>4, <1>5

LEMMA NoPathLands ==
  ASSUME RplInv, NEW a \in Addr, NEW d \in Dest, NoPathInput(a, d)
  PROVE  RplInv' /\ Spared
<1> DEFINE Marked(s) == [s EXCEPT !.route[d].nopath = TRUE, !.route[d].expired = FALSE]
<1>1. PICK s \in Received(a) : \E p \in {index_from_lladdr(s.table, a)} :
        Becomes(IF IsLoop(s, p) THEN LoopFound(s, p)
                ELSE IF s.route[d] # NULL /\ ~s.route[d].nopath /\ s.route[d].hop = p
                THEN Marked(s) ELSE s)
  BY DEF NoPathInput
<1>2. Good(s) /\ Spares(Now, s)
  BY <1>1, Receive
<1>3. PICK p, t : /\ Becomes(t)
                  /\ \/ IsLoop(s, p) /\ t = LoopFound(s, p)
                     \/ s.route[d] # NULL /\ t = Marked(s)
                     \/ t = s
  <2> HIDE DEF Marked
  <2> QED BY <1>1
<1>4. Good(t) /\ t.table = s.table
  <2>1. CASE IsLoop(s, p) /\ t = LoopFound(s, p)
    BY <1>2, <2>1, LoopIsGood, LoopNeighbor
  <2>2. CASE s.route[d] # NULL /\ t = Marked(s)
    <3> DEFINE e == [s.route[d] EXCEPT !.nopath = TRUE, !.expired = FALSE]
               f == [s.route EXCEPT ![d] = e]
    <3>1. s \in State /\ s.route[d] \in Route
      BY <1>2, <2>2 DEF Good, Agree, State
    <3>2. e \in Route /\ e.hop = s.route[d].hop
      BY <3>1 DEF Route
    <3>3. t = [s EXCEPT !.route = f]
      BY <2>2, <3>1 DEF State, Route
    <3> HIDE DEF e
    <3>4. /\ f \in [Dest -> Route \cup {NULL}]
          /\ \A c \in Dest : /\ f[c] = NULL <=> s.route[c] = NULL
                             /\ f[c] # NULL => f[c].hop = s.route[c].hop
      BY <2>2, <3>1, <3>2, RplAssumption DEF State
    <3> HIDE DEF f
    <3> QED BY <1>2, <3>3, <3>4, RoutesMarked
  <2>3. CASE t = s
    BY <1>2, <2>3
  <2> QED BY <1>3, <2>1, <2>2, <2>3
<1> QED BY <1>2, <1>3, <1>4, Lands

LEMMA SentLands ==
  ASSUME RplInv, NEW a \in Addr, NEW metric \in Etx, PacketSent(a, metric)
  PROVE  RplInv' /\ Spared
<1>1. PICK n : n = Now
  OBVIOUS
<1>2. /\ Good(n) /\ Spares(Now, n) /\ n \in State
      /\ n.table = table /\ n.etx = etx /\ n.parent = parent
      /\ n.route = route /\ n.dag = dag
  BY <1>1, NowIsGood DEF Now, Good, Agree
<1>3. PICK i : /\ i = Neighbor(Now, a) /\ i # NONE
               /\ table' = Use(table, "link_stats", i)
               /\ etx' = [etx EXCEPT ![i] = metric]
               /\ parent' = [parent EXCEPT ![i].updated = i \in Used(table, "rpl_parents")]
               /\ UNCHANGED <<route, dag>>
  BY DEF PacketSent
<1>4. i \in Index /\ i \in Used(n.table, "ds6_neighbors")
  BY <1>1, <1>2, <1>3, NeighborIsListed
<1>5. i \in Range(n.table.keys)
  BY <1>2, <1>4, RplAssumption DEF Good, Agree, Listing
<1>6. PICK u : u = WithTable(n, Use(n.table, "link_stats", i))
  OBVIOUS
<1>7. /\ Good(u) /\ u.dag = n.dag /\ u.route = n.route
      /\ u.table.key = n.table.key /\ u.table.keys = n.table.keys
  BY <1>2, <1>5, <1>6, UseKeeps
<1>8. /\ u.table = Use(n.table, "link_stats", i) /\ u.etx = n.etx /\ u.parent = n.parent
  BY <1>2, <1>6 DEF WithTable, State
<1> DEFINE f == [etx EXCEPT ![i] = metric]
           np == [parent EXCEPT ![i].updated = i \in Used(table, "rpl_parents")]
           v == [u EXCEPT !.etx = f]
           t == [v EXCEPT !.parent = np]
<1>9. f \in [Index -> Etx \cup {INIT_ETX, 0}]
  BY <1>2, <1>4 DEF State
<1>10. np \in [Index -> [rank: Rank, updated: BOOLEAN]]
  <2> DEFINE b == i \in Used(table, "rpl_parents")
  <2>1. b \in BOOLEAN
    OBVIOUS
  <2> HIDE DEF b
  <2>2. [parent EXCEPT ![i].updated = b] \in [Index -> [rank: Rank, updated: BOOLEAN]]
    BY <1>2, <1>4, <2>1 DEF State
  <2> QED BY <2>2 DEF b
<1> HIDE DEF f, np
<1>11. Good(v) /\ v.table = u.table /\ v.dag = u.dag /\ v.route = u.route
  BY <1>7, <1>9, EtxChanges
<1>12. v.etx = f /\ v.parent = u.parent
  BY <1>7, <1>9 DEF Good, Agree, State
<1> HIDE DEF v
<1>13. Good(t) /\ t.table = v.table /\ t.dag = v.dag /\ t.route = v.route
  BY <1>10, <1>11, ParentChanges
<1>14. t.etx = v.etx /\ t.parent = np
  BY <1>10, <1>11 DEF Good, Agree, State
<1> HIDE DEF t
<1>15. Becomes(t)
  BY <1>2, <1>3, <1>7, <1>8, <1>11, <1>12, <1>13, <1>14 DEF Becomes, f, np
<1> QED BY <1>2, <1>7, <1>11, <1>13, <1>15, Lands

LEMMA ErrorLands ==
  ASSUME RplInv, NEW d \in Dest, ForwardError(d)
  PROVE  RplInv' /\ Spared
<1>1. PICK n : n = Now
  OBVIOUS
<1>2. Good(n) /\ Spares(Now, n)
  BY <1>1, NowIsGood
<1>3. PICK t : t = uip_ds6_route_rm(n, d) /\ Becomes(t)
  BY <1>1 DEF ForwardError
<1>4. Good(t) /\ t.table.key = n.table.key /\ t.table.keys = n.table.keys
  BY <1>2, <1>3, RouteGoes
<1> QED BY <1>2, <1>3, <1>4, Lands

LEMMA RankErrorLands ==
  ASSUME RplInv, NEW a \in Addr, NEW r \in DioRank, RankError(a, r)
  PROVE  RplInv' /\ Spared
<1>1. PICK s \in Received(a) : \E p \in Used(s.table, "rpl_parents") :
        Becomes([s EXCEPT !.parent[p].rank = r])
  BY DEF RankError
<1>2. Good(s) /\ Spares(Now, s) /\ s \in State
  BY <1>1, Receive DEF Good, Agree
<1>3. PICK p, t : /\ p \in Used(s.table, "rpl_parents")
                  /\ t = [s EXCEPT !.parent[p].rank = r] /\ Becomes(t)
  BY <1>1
<1> DEFINE np == [s.parent EXCEPT ![p].rank = r]
<1>4. t = [s EXCEPT !.parent = np]
  BY <1>2, <1>3 DEF State
<1>5. np \in [Index -> [rank: Rank, updated: BOOLEAN]]
  BY <1>2, <1>3, RanksOfDios DEF State, Used
<1> HIDE DEF np
<1>6. Good(t) /\ t.table = s.table
  BY <1>2, <1>4, <1>5, ParentChanges
<1> QED BY <1>2, <1>3, <1>6, Lands

LEMMA TickLands ==
  ASSUME RplInv, NEW out \in SUBSET Routed, Tick(out)
  PROVE  RplInv' /\ Spared
<1>1. PICK s \in Purged(Aged(out)) : \E t \in recalculate_ranks(s) : Becomes(t)
  BY DEF Tick, OneOf
<1>2. PICK t : /\ Becomes(t)
               /\ Good(t) /\ t.table.key = table.key /\ t.table.keys = table.keys
  BY <1>1, Ticks
<1>3. PICK n : n = Now
  OBVIOUS
<1>4. Good(n) /\ Spares(Now, n) /\ n.table = table
  BY <1>3, NowIsGood DEF Now
<1> QED BY <1>2, <1>4, Lands

LEMMA RplStep ==
  ASSUME RplInv, [RplNext]_vars
  PROVE  RplInv' /\ (Spared \/ UNCHANGED vars)
<1>1. CASE UNCHANGED vars
  <2>1. Now' = Now
    BY <1>1 DEF Now, vars
  <2>2. Good(Now')
    BY <2>1 DEF RplInv
  <2> QED BY <1>1, <2>2 DEF RplInv
<1>2. CASE RplNext
  BY <1>2, InputLands, JoinLands, RepairLands, DioLands, DaoLands, NoPathLands,
     SentLands, ErrorLands, RankErrorLands, TickLands DEF RplNext
<1> QED BY <1>1, <1>2

----------------------------------------------------------------------------
(* What holds in every state *)

LEMMA RplStarts ==
  ASSUME RplInit
  PROVE  RplInv
<1> DEFINE n == Now
<1>1. /\ n.table = EmptyTable /\ n.etx = [i \in Index |-> 0]
      /\ n.parent = [i \in Index |-> NoParent] /\ n.route = [d \in Dest |-> NULL]
      /\ n.dag = [rank |-> INFINITE_RANK, joined |-> FALSE, min_rank |-> INFINITE_RANK,
                  preferred_parent |-> NONE, def_route |-> NULL, defaultrouterlist |-> {}]
      /\ n = [table |-> n.table, etx |-> n.etx, parent |-> n.parent,
              route |-> n.route, dag |-> n.dag]
  BY DEF RplInit, Now
<1> HIDE DEF n
<1>2. /\ EmptyTable.key = [i \in Index |-> NULL] /\ EmptyTable.keys = <<>>
      /\ EmptyTable.used = {} /\ EmptyTable.locked = {} /\ EmptyTable \in NbrTable
  BY DEF EmptyTable, NbrTable
<1>3. Range(EmptyTable.keys) = {} /\ Distinct(EmptyTable.keys)
  BY <1>2 DEF Range, Distinct
<1>4. \A m : Used(n.table, m) = {} /\ Locked(n.table, m) = {}
  BY <1>1, <1>2 DEF Used, Locked
<1>5. Hops(n) = {}
  BY <1>1 DEF Hops
<1>6. Listing(n.table)
  BY <1>1, <1>2, <1>3, <1>4 DEF Listing
<1>7. n \in State
  <2>1. INFINITE_RANK \in Rank /\ NoParent \in [rank: Rank, updated: BOOLEAN]
    BY RplAssumption DEF Rank, NoParent
  <2>2. /\ n.etx \in [Index -> Etx \cup {INIT_ETX, 0}]
        /\ n.parent \in [Index -> [rank: Rank, updated: BOOLEAN]]
        /\ n.route \in [Dest -> Route \cup {NULL}]
    BY <1>1, <2>1
  <2>3. n.dag \in [rank: Rank, joined: BOOLEAN, min_rank: Rank,
                   preferred_parent: Index \cup {NONE},
                   def_route: Addr \cup {NULL}, defaultrouterlist: SUBSET Addr]
    BY <1>1, <2>1
  <2>4. n.table \in NbrTable
    BY <1>1, <1>2
  <2> QED BY <1>1, <2>2, <2>3, <2>4 DEF State
<1>8. Agree(n)
  BY <1>4, <1>5, <1>6, <1>7 DEF Agree
<1>9. FollowsParent(n)
  BY <1>1, <1>4 DEF FollowsParent, Consistent, ParentIsLocked
<1>10. RankFits(n) /\ Detached(n)
  BY <1>1 DEF RankFits, Detached
<1> QED BY <1>8, <1>9, <1>10 DEF RplInv, Good, n

\* The inductive invariant holds in every state.
THEOREM RplInvariant == RplSpec => []RplInv
<1>1. RplInit => RplInv
  BY RplStarts
<1>2. RplInv /\ [RplNext]_vars => RplInv'
  BY RplStep
<1> QED BY <1>1, <1>2, PTL DEF RplSpec

\* The parents, the routes and the neighbour table never disagree, whatever is
\* evicted, expires or is removed while a message is handled (nbr-table.c).
THEOREM TablesNeverDisagree == RplSpec => []TablesAgree
<1>1. RplInv => TablesAgree
  <2> SUFFICES ASSUME RplInv PROVE TablesAgree
    OBVIOUS
  <2>1. PICK n : n = Now
    OBVIOUS
  <2>2. Agree(n) /\ n.table = table
    BY <2>1 DEF RplInv, Good, Now
  <2>3. IsInjective([k \in DOMAIN table.keys |-> table.key[table.keys[k]]])
    <3>1. \A k \in DOMAIN table.keys : table.keys[k] \in Range(table.keys)
      BY DEF Range
    <3>2. \A k, l \in DOMAIN table.keys :
            table.key[table.keys[k]] = table.key[table.keys[l]] => table.keys[k] = table.keys[l]
      BY <2>2, <3>1 DEF Agree, Listing
    <3>3. \A k, l \in DOMAIN table.keys : table.keys[k] = table.keys[l] => k = l
      BY <2>2 DEF Agree, Listing, Distinct, State, NbrTable
    <3> QED BY <3>2, <3>3 DEF IsInjective
  <2> QED BY <2>1, <2>2, <2>3 DEF TablesAgree, Agree, Listing
<1> QED BY <1>1, RplInvariant, PTL

\* The default route goes through the preferred parent and nowhere else, and
\* ends with it (rpl-dag.c).
THEOREM ParentIsTheRouter == RplSpec => []ParentIsRouter
<1>1. RplInv => ParentIsRouter
  <2> SUFFICES ASSUME RplInv PROVE ParentIsRouter
    OBVIOUS
  <2> DEFINE p == dag.preferred_parent
             router == IF p = NONE THEN {} ELSE {table.key[p]}
  <2>1. PICK n : n = Now
    OBVIOUS
  <2>2. /\ Agree(n) /\ FollowsParent(n) /\ Detached(n)
        /\ n.table = table /\ n.dag = dag /\ n \in State
    BY <2>1 DEF RplInv, Good, Now, Agree
  <2>3. /\ p # NONE => p \in Used(table, "rpl_parents")
        /\ Locked(table, "rpl_parents") = {p} \ {NONE}
        /\ p = NONE => dag.rank = INFINITE_RANK
    BY <2>2 DEF FollowsParent, Consistent, ParentIsLocked, Detached
  <2>4. {dag.def_route} \ {NULL} = router /\ dag.defaultrouterlist = router
    <3>1. dag.defaultrouterlist = {dag.def_route} \ {NULL}
      BY <2>2 DEF FollowsParent, Consistent
    <3>2. CASE p = NONE
      BY <2>2, <3>1, <3>2 DEF FollowsParent
    <3>3. CASE p # NONE
      <4>1. dag.def_route = table.key[p] /\ p \in Used(table, "rpl_parents")
        BY <2>2, <3>3 DEF FollowsParent
      <4>2. p \in Range(table.keys) /\ p \in Index
        BY <2>2, <4>1, RplAssumption DEF Agree, Listing, Used
      <4>3. table.key[p] # NULL
        BY <2>2, <4>2 DEF Agree, Listing
      <4> QED BY <3>1, <3>3, <4>1, <4>3
    <3> QED BY <3>2, <3>3
  <2> QED BY <2>3, <2>4 DEF ParentIsRouter
<1> QED BY <1>1, RplInvariant, PTL

\* An attached node advertises no rank beyond the one that DAGMaxRankIncrease
\* allows (rpl-dag.c, acceptable_rank).
THEOREM RankStaysWithin == RplSpec => []RankWithinMin
<1>1. RplInv => RankWithinMin
  BY DEF RplInv, Good, RankFits, RankWithinMin, Now
<1> QED BY <1>1, RplInvariant, PTL

\* No step that makes room for a neighbour costs the preferred parent or a next
\* hop (rpl-nbr-policy.c).
THEOREM EvictionAlwaysSpares == RplSpec => EvictionSparesUsed
<1>1. RplInv /\ [RplNext]_vars => [(Listed \ Listed') \cap InUse = {}]_vars
  BY RplStep DEF Spared
<1> QED BY <1>1, RplInvariant, PTL DEF RplSpec, EvictionSparesUsed

=============================================================================
