--------------------------- MODULE AddressService ---------------------------
(***************************************************************************)
(* What the DHCP server promises about addresses, restarts included, and   *)
(* without its handlers, records, leases and clock: within one run of the  *)
(* server the addresses are a book from which nothing is struck out, and a *)
(* client is told to use an address only when the book says it is the      *)
(* client's.  A new run starts an empty book; what clients were told they  *)
(* still know.                                                             *)
(***************************************************************************)
EXTENDS Naturals

CONSTANTS Clients, Addresses, Free, NotTold

VARIABLES
    run,     \* of the server
    owner,   \* the book of this run
    told     \* the address each client was told last, and in which run

serviceVars == <<run, owner, told>>

Book == INSTANCE AddressBook

Init == run = 0 /\ Book!Init /\ told = [c \in Clients |-> NotTold]

Give(c, a) == Book!Grant(c, a) /\ UNCHANGED <<run, told>>

Tell(c, a) == /\ owner[a] = c
              /\ told' = [told EXCEPT ![c] = [address |-> a, run |-> run]]
              /\ UNCHANGED <<run, owner>>

StartOver == /\ run' = run + 1
             /\ owner' = [a \in Addresses |-> Free]
             /\ UNCHANGED told

Next == StartOver \/ \E c \in Clients, a \in Addresses : Give(c, a) \/ Tell(c, a)

Spec == Init /\ [][Next]_serviceVars
=============================================================================
