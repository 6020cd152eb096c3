----------------------------- MODULE RouteTable -----------------------------
(***************************************************************************)
(* What the Admin API promises of the persisted route table: one table,    *)
(* changed by one request at a time.  A new route takes a free id, an      *)
(* update replaces one route, renaming it at most to a free id, and a      *)
(* delete removes one; every other route stays as it is                    *)
(* (src/gateway/config/loader.py, create_route, update_route,              *)
(* delete_route).                                                          *)
(***************************************************************************)
CONSTANTS Id, Content, Absent

VARIABLE table

Init == table \in [Id -> Content \union {Absent}]

Create(i, c) ==
    /\ table[i] = Absent
    /\ table' = [table EXCEPT ![i] = c]

Update(i, j, c) ==
    /\ table[i] # Absent
    /\ i # j => table[j] = Absent
    /\ table' = [table EXCEPT ![i] = Absent, ![j] = c]

Delete(i) ==
    /\ table[i] # Absent
    /\ table' = [table EXCEPT ![i] = Absent]

Next ==
    \E i \in Id :
        \/ \E c \in Content : Create(i, c) \/ \E j \in Id : Update(i, j, c)
        \/ Delete(i)

Spec == Init /\ [][Next]_table
=============================================================================
