---------------------------- MODULE AddressBook ----------------------------
(***************************************************************************)
(* What the DHCP address pool promises, without its maps, scan and clock:  *)
(* at any time each address has at most one owner and each client at most  *)
(* one address; an owner keeps its address until it is given back, and an  *)
(* address passes from one client to another only by becoming free first.  *)
(***************************************************************************)
CONSTANTS Clients, Addresses, Free

VARIABLE owner

Init == owner = [a \in Addresses |-> Free]

Grant(c, a) == /\ owner[a] = Free
               /\ \A b \in Addresses : owner[b] # c
               /\ owner' = [owner EXCEPT ![a] = c]

Return(a) == /\ owner[a] # Free
             /\ owner' = [owner EXCEPT ![a] = Free]

Next == \E a \in Addresses : Return(a) \/ \E c \in Clients : Grant(c, a)

Spec == Init /\ [][Next]_owner
=============================================================================
