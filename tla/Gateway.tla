------------------------------ MODULE Gateway ------------------------------
(***************************************************************************)
(* What a gateway promises about the addresses of its clients, with no     *)
(* word of mutexes, retries, rules or reloads.                             *)
(*                                                                         *)
(* An address has a tenant, the key whose packets it carries, and an exit, *)
(* the upstream they leave through.  Clients come and go, upstreams become *)
(* healthy or ill and profiles change at any time; the gateway follows     *)
(* when it can, and may close an exit whenever it likes.  What it may not  *)
(* do is hand an address on while anything of it is open, take it from a   *)
(* client, or open an exit for nobody, through an ill upstream or one that *)
(* the tenant's profile does not name.                                     *)
(***************************************************************************)
CONSTANTS Keys, Ips, Ups, None

VARIABLES
  issued,    \* keys that have been clients
  clients,   \* keys that are
  healthy,   \* upstreams
  menu,      \* key -> the upstreams its profile may use
  tenant,    \* address -> key, or None
  exit       \* address -> upstream, or None

vars == <<issued, clients, healthy, menu, tenant, exit>>

Init ==
  /\ issued = {} /\ clients = {}
  /\ healthy \in SUBSET Ups /\ menu \in [Keys -> SUBSET Ups]
  /\ tenant = [ip \in Ips |-> None] /\ exit = [ip \in Ips |-> None]

\* A key becomes a client once in its life
Join(k) ==
  /\ k \notin issued
  /\ issued' = issued \cup {k} /\ clients' = clients \cup {k}
  /\ UNCHANGED <<tenant, exit>>

Part(k) ==
  /\ clients' = clients \ {k}
  /\ UNCHANGED <<issued, tenant, exit>>

\* A client gets an address nobody holds and nothing leaves from; it may
\* have parted again meanwhile
Admit(ip, k) ==
  /\ k \in issued /\ tenant[ip] = None /\ exit[ip] = None
  /\ \A other \in Ips : tenant[other] # k
  /\ tenant' = [tenant EXCEPT ![ip] = k]
  /\ UNCHANGED <<issued, clients, exit>>

Forward(ip, u) ==
  /\ tenant[ip] # None /\ u \in healthy \cap menu[tenant[ip]]
  /\ exit' = [exit EXCEPT ![ip] = u]
  /\ UNCHANGED <<issued, clients, tenant>>

\* Only who is no client any more loses an address, perhaps with its exit
Evict(k) ==
  /\ k \notin clients
  /\ tenant' = [ip \in Ips |-> IF tenant[ip] = k THEN None ELSE tenant[ip]]
  /\ \E open \in SUBSET Ips : exit' = [ip \in Ips |-> IF ip \in open THEN exit[ip] ELSE None]
  /\ UNCHANGED <<issued, clients>>

Block ==
  /\ \E open \in SUBSET Ips : exit' = [ip \in Ips |-> IF ip \in open THEN exit[ip] ELSE None]
  /\ UNCHANGED <<issued, clients, tenant>>

\* Health and profiles move on with every step
Inputs == healthy' \in SUBSET Ups /\ menu' \in [Keys -> SUBSET Ups]

Next ==
  /\ Inputs
  /\ \/ \E k \in Keys : Join(k) \/ Part(k) \/ Evict(k)
     \/ \E ip \in Ips : \E k \in Keys : Admit(ip, k)
     \/ \E ip \in Ips, u \in Ups : Forward(ip, u)
     \/ Block

Spec == Init /\ [][Next]_vars
=============================================================================
