--------------------------- MODULE MachinesAndTime --------------------------
(***************************************************************************)
(* What every component shares: the machines' MAC addresses in canonical   *)
(* form, the IPv4 address space, and the wall clock that time.Now() reads. *)
(*                                                                         *)
(* An address is an unsigned integer of fixed width, as ipToInt makes it:  *)
(* 0 stands for 0.0.0.0 and MaxIP for 255.255.255.255, the largest uint32. *)
(* NoIP is the nil net.IP of a message and the empty string of a record.   *)
(***************************************************************************)
EXTENDS Integers

CONSTANTS
    MACs,      \* the machines
    MaxIP,     \* the largest address: addresses are integers modulo MaxIP + 1
    MaxClock   \* bound: the clock stops here

ASSUME MaxIPAssumption == MaxIP \in Nat
ASSUME MaxClockAssumption == MaxClock \in Nat

VARIABLE now   \* the wall clock

NoIP == -1
IPs == 0..MaxIP
UnspecifiedIP == 0

ClockInit == now = 0

Tick == /\ now < MaxClock
        /\ now' = now + 1
=============================================================================
