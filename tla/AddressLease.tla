---------------------------- MODULE AddressLease ----------------------------
(***************************************************************************)
(* What AllocIp of db.c and the answer of deal_msg promise to the clients, *)
(* free of sockets, rows, error codes and processes: an address is taken   *)
(* out of the pool for good, and one that is taken may be leased, once, to *)
(* a client that has no lease.  An address that is taken and never leased  *)
(* is lost, as the code loses it when a call fails or the server ends.     *)
(* Provision is shown to implement this module with one worker thread.     *)
(***************************************************************************)
CONSTANTS Ids,   \* the mdn or calling_id of the clients
          Stock \* the addresses of group_ip

VARIABLES taken,  \* the addresses with type 2
          leases  \* which id was answered which address

vars == <<taken, leases>>

Init == taken = {} /\ leases = {}

\* AllocIp marks an address that is free.
Take(a) == /\ a \notin taken
           /\ taken' = taken \cup {a}
           /\ UNCHANGED leases

\* deal_msg answers an address that AllocIp has marked.
Grant(i, a) == /\ a \in taken
               /\ \A l \in leases : l.ip # a /\ l.id # i
               /\ leases' = leases \cup {[id |-> i, ip |-> a]}
               /\ UNCHANGED taken

Next == \E a \in Stock : Take(a) \/ \E i \in Ids : Grant(i, a)

Spec == Init /\ [][Next]_vars
=============================================================================
