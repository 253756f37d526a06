------------------------------ MODULE NbrTable ------------------------------
(***************************************************************************)
(* The neighbour table, core/net/nbr-table.c: one list of link-layer       *)
(* addresses that the tables of several modules share.  A neighbour has    *)
(* the same index in every table, and the maps tell which tables use it    *)
(* and which lock it.  The operators take and give the whole table.        *)
(***************************************************************************)
EXTENDS Integers, SequencesExt

CONSTANTS
  Addr,          \* link-layer addresses
  Table,         \* the tables that are registered
  NumNeighbors,  \* NBR_TABLE_MAX_NEIGHBORS
  NULL

Index == 1..NumNeighbors        \* in the order of memb_alloc
NONE == 0                       \* no item; the code's index is -1

ASSUME NbrTableAssumption == NumNeighbors \in Nat \ {0} /\ NULL \notin Addr

NbrTable == [used: SUBSET (Table \X Index),       \* used_map
             key: [Index -> Addr \cup {NULL}],    \* neighbor_addr_mem
             locked: SUBSET (Table \X Index),     \* locked_map
             keys: Seq(Index)]                    \* nbr_table_keys

EmptyTable ==
  [used |-> {}, key |-> [i \in Index |-> NULL], locked |-> {}, keys |-> <<>>]

Used(t, m) == {i \in Index : <<m, i>> \in t.used}
Locked(t, m) == {i \in Index : <<m, i>> \in t.locked}

index_from_lladdr(t, a) ==
  IF \E i \in Range(t.keys) : t.key[i] = a
  THEN CHOOSE i \in Range(t.keys) : t.key[i] = a ELSE NONE

nbr_table_get_from_lladdr(t, m, a) ==
  LET i == index_from_lladdr(t, a) IN IF i \in Used(t, m) THEN i ELSE NONE

\* nbr_table_head and nbr_table_next: what Visit makes of x when it comes to one
\* item of the table after the other.  No Visit gives away an item ahead of it.
Through(t, m, x, Visit(_, _)) ==
  LET after[n \in 0..Len(t.keys)] ==
        IF n = 0 THEN x
        ELSE IF <<m, t.keys[n]>> \in t.used THEN Visit(after[n - 1], t.keys[n])
        ELSE after[n - 1]
  IN after[Len(t.keys)]

\* A key is never given back to the pool: one that is removed is taken again
\* at once for the neighbour that it had to make room for.
FreeKeys(t) == {i \in Index : t.key[i] = NULL}
FirstFree(t) == CHOOSE i \in FreeKeys(t) : \A j \in FreeKeys(t) : i <= j

\* nbr_table_add_lladdr, once it has the key.
AddKey(t, i, a) == [t EXCEPT !.keys = Append(@, i), !.key[i] = a]
Use(t, m, i) == [t EXCEPT !.used = @ \cup {<<m, i>>}]

nbr_table_remove(t, m, i) ==
  [t EXCEPT !.used = @ \ {<<m, i>>}, !.locked = @ \ {<<m, i>>}]
nbr_table_lock(t, m, i) == [t EXCEPT !.locked = @ \cup ({m} \X ({i} \cap Index))]
nbr_table_unlock(t, m, i) == [t EXCEPT !.locked = @ \ {<<m, i>>}]

\* nbr_table_allocate, before remove_key: no table locks the key any more.
UnlockKey(t, i) == [t EXCEPT !.locked = @ \ (Table \X {i})]

\* The end of remove_key.
RemoveKey(t, i) ==
  [t EXCEPT !.used = @ \ (Table \X {i}), !.keys = RemoveFirst(@, i)]

=============================================================================
