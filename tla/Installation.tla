---------------------------- MODULE Installation ----------------------------
(***************************************************************************)
(* What the installation of machines promises, without DHCP, boot scripts, *)
(* handlers, agents and their reports: a disk is erased only on request,   *)
(* and only while the machine is not recorded as installed; it is recorded *)
(* so only on request, and with a complete system on its disk.  An         *)
(* installation may be broken off.  A record may be undone, and the        *)
(* machine is then installed, or recorded, again.                          *)
(***************************************************************************)

CONSTANT Machines

VARIABLES
    requested,    \* the machines an operator has asked to install
    byHand,       \* those that someone may send into the installer on the spot
    installing,   \* those with the installer at work on their disk
    withSystem,   \* those with a complete system on their disk, its agent included
    installed     \* those recorded as installed

installationVars == <<requested, byHand, installing, withSystem, installed>>

Init == /\ requested = {} /\ installing = {} /\ installed = {}
        /\ byHand \subseteq Machines /\ withSystem \subseteq Machines

Request(m) == /\ requested' = requested \cup {m}
              /\ UNCHANGED <<byHand, installing, withSystem, installed>>

Erase(m) == /\ m \in requested \ installing
            /\ m \in installed => m \in byHand
            /\ installing' = installing \cup {m}
            /\ withSystem' = withSystem \ {m}
            /\ UNCHANGED <<requested, byHand, installed>>

Complete(m) == /\ m \in installing
               /\ installing' = installing \ {m}
               /\ withSystem' = withSystem \cup {m}
               /\ UNCHANGED <<requested, byHand, installed>>

BreakOff(m) == /\ m \in installing
               /\ installing' = installing \ {m}
               /\ UNCHANGED <<requested, byHand, withSystem, installed>>

Record(m) == /\ m \in requested
             /\ m \in withSystem \cup byHand
             /\ installed' = installed \cup {m}
             /\ UNCHANGED <<requested, byHand, installing, withSystem>>

Undo(m) == /\ installed' = installed \ {m}
           /\ UNCHANGED <<requested, byHand, installing, withSystem>>

Next == \E m \in Machines : \/ Request(m) \/ Erase(m) \/ Complete(m)
                            \/ BreakOff(m) \/ Record(m) \/ Undo(m)

Spec == Init /\ [][Next]_installationVars
=============================================================================
