------------------------------- MODULE IPPool -------------------------------
(***************************************************************************)
(* internal/dhcp/ip_pool.go: the in-memory DHCP address pool (IPManager).  *)
(*                                                                         *)
(* Every method takes the manager's mutex for its whole body, so each is   *)
(* one action.  Two maps are kept: leases (MAC to lease) and its reverse   *)
(* index allocated (address to MAC); a map without an entry for a key      *)
(* holds NoLease or NoMAC there.                                           *)
(*                                                                         *)
(* One method may never return: the scan for a free address, when the      *)
(* range ends at the largest address and every address is taken.  It then  *)
(* keeps the mutex (scanning), and every other caller waits for it.        *)
(***************************************************************************)
EXTENDS MachinesAndTime

CONSTANTS
    PoolStart, PoolEnd,   \* the configured range, both ends included
    LeaseTime,            \* in clock units
    NoLease, NoMAC        \* no entry in leases, in allocated

ASSUME PoolAssumption == PoolStart \in IPs /\ PoolEnd \in IPs
ASSUME LeaseTimeAssumption == LeaseTime \in Nat
ASSUME NoMACAssumption == NoMAC \notin MACs

VARIABLES
    leases, allocated,
    scanning             \* a scan that does not end holds the mutex
poolVars == <<leases, allocated, scanning>>

Lease == [ip : IPs, expires : Nat]
LeaseOf(ip, expires) == [ip |-> ip, expires |-> expires]
ASSUME NoLeaseAssumption == NoLease \notin Lease

PoolTypeOK == /\ leases \in [MACs -> Lease \cup {NoLease}]
              /\ allocated \in [IPs -> MACs \cup {NoMAC}]
              /\ scanning \in BOOLEAN

\* NewIPManager starts with two empty maps, after every start of the server.
EmptyLeases == [m \in MACs |-> NoLease]
EmptyAllocated == [i \in IPs |-> NoMAC]
PoolInit == leases = EmptyLeases /\ allocated = EmptyAllocated /\ scanning = FALSE

-----------------------------------------------------------------------------
isIPInPool(ip) == PoolStart <= ip /\ ip <= PoolEnd

\* Defect: an address whose lease has expired counts as free.
isIPAllocatedLive(ip) ==
    allocated[ip] # NoMAC /\ leases[allocated[ip]] # NoLease
    /\ now <= leases[allocated[ip]].expires
isIPAllocated(ip) == allocated[ip] # NoMAC

\* Defect: only the reverse index is written.
allocateIPNoLease(mac, ip) ==
    leases' = leases /\ allocated' = [allocated EXCEPT ![ip] = mac]
\* Defect: only the lease is written.
allocateIPNoIndex(mac, ip) ==
    leases' = [leases EXCEPT ![mac] = LeaseOf(ip, now + LeaseTime)] /\ UNCHANGED allocated
\* The internal allocateIP: both maps.
allocateIP(mac, ip) ==
    /\ leases' = [leases EXCEPT ![mac] = LeaseOf(ip, now + LeaseTime)]
    /\ allocated' = [allocated EXCEPT ![ip] = mac]

\* The addresses the scan `for ip := start; ip <= end; ip++` visits, and the
\* iteration at which it visits each.  The counter is unsigned: when the range
\* ends at the largest address the loop condition never fails, and the counter
\* wraps to 0.
\* Defect: the scan stops before the last address, and so never wraps.
ScannedShort == PoolStart..(PoolEnd - 1)
Scanned == IF PoolEnd = MaxIP THEN IPs ELSE PoolStart..PoolEnd
ScanRank(ip) == (ip - PoolStart) % (MaxIP + 1)

NextFree(ip) ==
    /\ ip \in Scanned /\ ~isIPAllocated(ip)
    /\ \A other \in Scanned :
          isIPAllocated(other) \/ ScanRank(ip) <= ScanRank(other)

\* Defect: a requested address need not be in the range.
RequestHonouredAnywhere(req) ==
    req \notin {NoIP, UnspecifiedIP} /\ ~isIPAllocated(req)
RequestHonoured(req) ==
    req \notin {NoIP, UnspecifiedIP} /\ isIPInPool(req) /\ ~isIPAllocated(req)

\* The address a client without a lease gets: the one it asks for, or the first
\* free one of the scan.
Chosen(req, ip) == IF RequestHonoured(req) THEN ip = req ELSE NextFree(ip)

-----------------------------------------------------------------------------
(***************************************************************************)
(* The exported methods.  Each begins by taking the mutex.                 *)
(***************************************************************************)
\* Defect: the lease time is subtracted.
RenewedBack(mac) == [leases EXCEPT ![mac] = LeaseOf(@.ip, now - LeaseTime)]
\* Defect: the lease time is not added.
RenewedNow(mac) == [leases EXCEPT ![mac] = LeaseOf(@.ip, now)]
Renewed(mac) == [leases EXCEPT ![mac] = LeaseOf(@.ip, now + LeaseTime)]

\* AllocateIP(mac, req) returns ip: the address of the lease the client already
\* has, live or expired, renewed; otherwise a new lease.
AllocateIP(mac, req, ip) ==
    /\ ~scanning
    /\ \/ /\ leases[mac] # NoLease
          /\ ip = leases[mac].ip
          /\ leases' = Renewed(mac)
          /\ UNCHANGED allocated
       \/ /\ leases[mac] = NoLease
          /\ Chosen(req, ip)
          /\ allocateIP(mac, ip)
    /\ UNCHANGED scanning

\* AllocateIP(mac, req) finds no address.
ScanFails(mac, req) ==
    /\ ~scanning
    /\ leases[mac] = NoLease
    /\ ~RequestHonoured(req)
    /\ \A ip \in Scanned : isIPAllocated(ip)

\* The scan ends, and AllocateIP returns ErrIPPoolExhausted.
PoolExhausted(mac, req) == ScanFails(mac, req) /\ PoolEnd < MaxIP

\* The scan goes round for ever; AllocateIP returns nothing and keeps the mutex.
ScanForever(mac, req) ==
    /\ ScanFails(mac, req) /\ PoolEnd = MaxIP
    /\ scanning' = TRUE
    /\ UNCHANGED <<leases, allocated>>

\* Defect: the lease stays behind.
ReleaseIPIndexOnly(ip) ==
    /\ ~scanning /\ isIPAllocated(ip)
    /\ allocated' = [allocated EXCEPT ![ip] = NoMAC]
    /\ UNCHANGED <<leases, scanning>>
\* ReleaseIP(ip) drops the lease through the index, and the index entry.
ReleaseIP(ip) ==
    /\ ~scanning /\ isIPAllocated(ip)
    /\ leases' = [leases EXCEPT ![allocated[ip]] = NoLease]
    /\ allocated' = [allocated EXCEPT ![ip] = NoMAC]
    /\ UNCHANGED scanning

RenewLease(mac) ==
    /\ ~scanning /\ leases[mac] # NoLease
    /\ leases' = Renewed(mac)
    /\ UNCHANGED <<allocated, scanning>>

\* GetLease(mac) returns ip; it fails without a lease or with an expired one,
\* and changes nothing.
GetLease(mac, ip) ==
    /\ ~scanning
    /\ leases[mac] # NoLease
    /\ now <= leases[mac].expires
    /\ ip = leases[mac].ip

-----------------------------------------------------------------------------
(***************************************************************************)
(* The pool on its own, called in any order by any number of goroutines.   *)
(***************************************************************************)
PoolAllocate ==
    /\ \E m \in MACs, req \in IPs \cup {NoIP} :
          ScanForever(m, req) \/ \E ip \in IPs : AllocateIP(m, req, ip)
    /\ UNCHANGED now
PoolRelease == (\E ip \in IPs : ReleaseIP(ip)) /\ UNCHANGED now
PoolRenew == (\E m \in MACs : RenewLease(m)) /\ UNCHANGED now
PoolTick == Tick /\ UNCHANGED poolVars

PoolNext == PoolAllocate \/ PoolRelease \/ PoolRenew \/ PoolTick

PoolAloneInit == ClockInit /\ PoolInit

PoolSpec == PoolAloneInit /\ [][PoolNext]_<<now, poolVars>>

-----------------------------------------------------------------------------
(***************************************************************************)
(* Properties.                                                             *)
(***************************************************************************)
\* The two maps agree: a client has a lease on an address exactly when the
\* reverse index gives that address to that client.  AllocateIP decides on one
\* map that an address is free and on the other that a client has none, and
\* ReleaseIP finds the lease to drop through the index, so a disagreement makes
\* two clients share an address or leaks one.
IndexConsistent ==
    \A m \in MACs, i \in IPs :
       allocated[i] = m <=> leases[m] # NoLease /\ leases[m].ip = i

\* Some client has a lease on the address, live or expired.
Leased(i) == \E m \in MACs : leases[m] # NoLease /\ leases[m].ip = i

\* As long as one address of the configured range is in nobody's lease, the pool
\* answers, and a client without a lease gets an address of the range, whatever
\* it asks for: no address is lost to the two maps or missed by the scan, and
\* the scan that never ends is not entered before the range is full.
ServedWhileFree ==
    \A req \in IPs \cup {NoIP}, i \in PoolStart..PoolEnd :
       ~Leased(i) => ~scanning /\ \E ip \in PoolStart..PoolEnd : Chosen(req, ip)

\* A client is given an address outside the range only by a scan whose counter
\* has wrapped: the range ends at the largest address, and all of it is leased.
RangeLeftWhenFull ==
    [][\A m \in MACs :
          leases[m] = NoLease /\ leases'[m] # NoLease /\ ~isIPInPool(leases'[m].ip)
          => PoolEnd = MaxIP /\ \A i \in PoolStart..PoolEnd : Leased(i)
      ]_<<now, poolVars>>

\* While a client has a lease its address never changes and the lease is never
\* cut short, whatever address the client asks for.
LeaseKept ==
    [][\A m \in MACs :
          leases[m] # NoLease /\ leases'[m] # NoLease
          => leases'[m].ip = leases[m].ip /\ leases'[m].expires >= leases[m].expires
      ]_<<now, poolVars>>

\* The pool implements the address book: its reverse index is the book.
Book == INSTANCE AddressBook
          WITH Clients <- MACs, Addresses <- IPs, Free <- NoMAC, owner <- allocated
KeepsBook == Book!Spec
=============================================================================
