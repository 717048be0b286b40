---------------------------- MODULE IPPoolProofs ----------------------------
(***************************************************************************)
(* Proofs about the address pool, for every set of machines, every range   *)
(* and every lease time.                                                   *)
(***************************************************************************)
EXTENDS IPPool, WellFoundedInduction, TLAPS

\* Inductive: a method trusts both maps, so types and agreement go together.
PoolInv == now \in Nat /\ PoolTypeOK /\ IndexConsistent

\* Inductive with it: a scan goes round for ever only over addresses that are all
\* taken, and nothing is given back while it does.
HangsFull == scanning => PoolEnd = MaxIP /\ \A ip \in IPs : isIPAllocated(ip)

-----------------------------------------------------------------------------
(***************************************************************************)
(* The helpers.                                                            *)
(***************************************************************************)
\* Whatever a client without a lease is given is an address, and is free.
LEMMA ChosenFree ==
    ASSUME NEW req, NEW ip, Chosen(req, ip), req \in IPs \cup {NoIP}
    PROVE  ip \in IPs /\ allocated[ip] = NoMAC
BY PoolAssumption, MaxIPAssumption
   DEF Chosen, RequestHonoured, NextFree, Scanned, isIPAllocated, isIPInPool, IPs, NoIP

\* A range that ends below the largest address is never left.
LEMMA ChosenInPool ==
    ASSUME NEW req, NEW ip, Chosen(req, ip), req \in IPs \cup {NoIP}, PoolEnd < MaxIP
    PROVE  isIPInPool(ip)
BY PoolAssumption, MaxIPAssumption
   DEF Chosen, RequestHonoured, NextFree, Scanned, isIPInPool, IPs, NoIP

\* The address given is determined: the scan reaches no two addresses at once.
LEMMA ChosenUnique ==
    ASSUME NEW req, NEW ip, NEW other, Chosen(req, ip), Chosen(req, other),
           req \in IPs \cup {NoIP}
    PROVE  ip = other
PROOF
<1>1. CASE RequestHonoured(req)
  BY <1>1 DEF Chosen
<1>2. CASE ~RequestHonoured(req)
  <2>1. ip \in IPs /\ other \in IPs
    BY ChosenFree
  <2>2. ScanRank(ip) = ScanRank(other)
    BY <1>2, <2>1, MaxIPAssumption, PoolAssumption
       DEF Chosen, NextFree, ScanRank, IPs
  <2>3. QED
    BY <2>1, <2>2, MaxIPAssumption, PoolAssumption DEF ScanRank, IPs
<1>3. QED
  BY <1>1, <1>2

-----------------------------------------------------------------------------
(***************************************************************************)
(* The methods keep the invariant.                                         *)
(***************************************************************************)
\* Renewing a lease leaves its address alone.
LEMMA RenewedKeepsInv ==
    ASSUME PoolInv, NEW m \in MACs, leases[m] # NoLease,
           leases' = Renewed(m), UNCHANGED <<allocated, scanning>>
    PROVE  PoolTypeOK' /\ IndexConsistent'
PROOF
<1>1. leases[m] \in Lease /\ now + LeaseTime \in Nat
  BY LeaseTimeAssumption DEF PoolInv, PoolTypeOK
<1>2. leases' = [leases EXCEPT ![m] = [ip |-> leases[m].ip, expires |-> now + LeaseTime]]
  BY <1>1 DEF Renewed, LeaseOf
<1>3. PoolTypeOK'
  BY <1>1, <1>2 DEF PoolInv, PoolTypeOK, Lease
<1>4. IndexConsistent'
  BY <1>1, <1>2, <1>3, NoLeaseAssumption DEF PoolInv, PoolTypeOK, IndexConsistent, Lease
<1>5. QED
  BY <1>3, <1>4

\* A new lease is entered in both maps, for a free address and a client that
\* has none.
LEMMA GrantKeepsInv ==
    ASSUME PoolInv, NEW m \in MACs, NEW ip \in IPs,
           leases[m] = NoLease, allocated[ip] = NoMAC, allocateIP(m, ip), UNCHANGED scanning
    PROVE  PoolTypeOK' /\ IndexConsistent'
PROOF
<1> DEFINE l == [ip |-> ip, expires |-> now + LeaseTime]
<1>1. l \in Lease
  BY LeaseTimeAssumption DEF PoolInv, Lease
<1>2. /\ leases' = [leases EXCEPT ![m] = l]
      /\ allocated' = [allocated EXCEPT ![ip] = m]
  BY DEF allocateIP, LeaseOf
<1>3. PoolTypeOK'
  BY <1>1, <1>2 DEF PoolInv, PoolTypeOK
<1>4. ASSUME NEW n \in MACs, NEW i \in IPs
      PROVE  allocated'[i] = n <=> leases'[n] # NoLease /\ leases'[n].ip = i
  <2>1. allocated[i] = n <=> leases[n] # NoLease /\ leases[n].ip = i
    BY <1>4 DEF PoolInv, IndexConsistent
  <2>2. l # NoLease /\ l.ip = ip
    BY <1>1, NoLeaseAssumption
  <2>3. CASE n = m
    BY <1>2, <2>1, <2>2, <2>3, NoMACAssumption DEF PoolInv, PoolTypeOK
  <2>4. CASE n # m
    BY <1>2, <2>1, <2>4, NoMACAssumption DEF PoolInv, PoolTypeOK
  <2>5. QED
    BY <2>3, <2>4
<1>5. QED
  BY <1>3, <1>4 DEF IndexConsistent

LEMMA AllocateKeepsInv ==
    ASSUME PoolInv, NEW m \in MACs, NEW req \in IPs \cup {NoIP}, NEW ip,
           AllocateIP(m, req, ip)
    PROVE  PoolTypeOK' /\ IndexConsistent'
PROOF
<1>1. CASE leases[m] # NoLease
  BY <1>1, RenewedKeepsInv DEF AllocateIP
<1>2. CASE leases[m] = NoLease
  BY <1>2, ChosenFree, GrantKeepsInv DEF AllocateIP
<1>3. QED
  BY <1>1, <1>2

\* What AllocateIP returns is the address the client holds afterwards.
LEMMA AllocateReserves ==
    ASSUME PoolInv, NEW m \in MACs, NEW req \in IPs \cup {NoIP}, NEW ip,
           AllocateIP(m, req, ip)
    PROVE  ip \in IPs /\ leases'[m] # NoLease /\ leases'[m].ip = ip
PROOF
<1>1. CASE leases[m] # NoLease
  <2>1. leases[m] \in Lease /\ ip = leases[m].ip
    BY <1>1 DEF AllocateIP, PoolInv, PoolTypeOK
  <2>2. leases' = [leases EXCEPT ![m] = [ip |-> ip, expires |-> now + LeaseTime]]
    BY <1>1, <2>1 DEF AllocateIP, Renewed, LeaseOf
  <2>3. [ip |-> ip, expires |-> now + LeaseTime] \in Lease
    BY <2>1, LeaseTimeAssumption DEF Lease, PoolInv
  <2>4. QED
    BY <2>1, <2>2, <2>3, NoLeaseAssumption DEF PoolInv, PoolTypeOK, Lease
<1>2. CASE leases[m] = NoLease
  <2>1. ip \in IPs /\ allocateIP(m, ip)
    BY <1>2, ChosenFree DEF AllocateIP
  <2>2. [ip |-> ip, expires |-> now + LeaseTime] \in Lease
    BY <2>1, LeaseTimeAssumption DEF Lease, PoolInv
  <2>3. QED
    BY <2>1, <2>2, NoLeaseAssumption DEF allocateIP, LeaseOf, PoolInv, PoolTypeOK
<1>3. QED
  BY <1>1, <1>2

\* AllocateIP takes no address away from its owner.
LEMMA AllocateKeepsOwners ==
    ASSUME PoolInv, NEW m \in MACs, NEW req \in IPs \cup {NoIP}, NEW ip,
           AllocateIP(m, req, ip), NEW i \in IPs, allocated[i] # NoMAC
    PROVE  allocated'[i] = allocated[i]
PROOF
<1>1. CASE leases[m] # NoLease
  BY <1>1 DEF AllocateIP
<1>2. CASE leases[m] = NoLease
  <2>1. ip \in IPs /\ allocated[ip] = NoMAC /\ allocateIP(m, ip)
    BY <1>2, ChosenFree DEF AllocateIP
  <2>2. QED
    BY <2>1 DEF allocateIP, PoolInv, PoolTypeOK
<1>3. QED
  BY <1>1, <1>2

\* AllocateIP leaves the index alone, or gives a free address to a client that
\* has none.
LEMMA AllocateGrants ==
    ASSUME PoolInv, NEW m \in MACs, NEW req \in IPs \cup {NoIP}, NEW ip,
           AllocateIP(m, req, ip)
    PROVE  UNCHANGED allocated \/ Book!Grant(m, ip)
PROOF
<1>1. CASE leases[m] # NoLease
  BY <1>1 DEF AllocateIP
<1>2. CASE leases[m] = NoLease
  <2>1. allocated[ip] = NoMAC /\ allocateIP(m, ip)
    BY <1>2, ChosenFree DEF AllocateIP
  <2>2. \A i \in IPs : allocated[i] # m
    BY <1>2 DEF PoolInv, IndexConsistent
  <2>3. QED
    BY <2>1, <2>2 DEF Book!Grant, allocateIP
<1>3. QED
  BY <1>1, <1>2

\* A scan that does not end touches neither map.
LEMMA HangKeepsInv ==
    ASSUME PoolInv, NEW m, NEW req, ScanForever(m, req)
    PROVE  PoolTypeOK' /\ IndexConsistent'
BY DEF ScanForever, PoolInv, PoolTypeOK, IndexConsistent

LEMMA ReleaseKeepsInv ==
    ASSUME PoolInv, NEW ip \in IPs, ReleaseIP(ip)
    PROVE  PoolTypeOK' /\ IndexConsistent'
PROOF
<1>1. PICK m \in MACs : allocated[ip] = m
  BY DEF ReleaseIP, isIPAllocated, PoolInv, PoolTypeOK
<1>2. /\ leases' = [leases EXCEPT ![m] = NoLease]
      /\ allocated' = [allocated EXCEPT ![ip] = NoMAC]
      /\ UNCHANGED scanning
  BY <1>1 DEF ReleaseIP
<1>3. PoolTypeOK'
  BY <1>2 DEF PoolInv, PoolTypeOK
<1>4. IndexConsistent'
  BY <1>1, <1>2, NoMACAssumption DEF PoolInv, PoolTypeOK, IndexConsistent
<1>5. QED
  BY <1>3, <1>4

-----------------------------------------------------------------------------
(***************************************************************************)
(* The pool's invariants.                                                  *)
(***************************************************************************)
LEMMA PoolInvInit == ClockInit /\ PoolInit => PoolInv
PROOF
<1> SUFFICES ASSUME ClockInit, PoolInit PROVE PoolInv
  OBVIOUS
<1>1. scanning \in BOOLEAN
  BY DEF PoolInit
<1>2. QED
  BY <1>1, NoMACAssumption
     DEF ClockInit, PoolInit, EmptyLeases, EmptyAllocated, PoolInv, PoolTypeOK, IndexConsistent

LEMMA PoolInvNext == PoolInv /\ [PoolNext]_<<now, poolVars>> => PoolInv'
PROOF
<1> SUFFICES ASSUME PoolInv, [PoolNext]_<<now, poolVars>> PROVE PoolInv'
  OBVIOUS
<1>1. CASE PoolAllocate
  BY <1>1, AllocateKeepsInv, HangKeepsInv DEF PoolAllocate, PoolInv
<1>2. CASE PoolRelease
  BY <1>2, ReleaseKeepsInv DEF PoolRelease, PoolInv
<1>3. CASE PoolRenew
  BY <1>3, RenewedKeepsInv DEF PoolRenew, RenewLease, PoolInv
<1>4. CASE PoolTick
  BY <1>4 DEF PoolTick, Tick, poolVars, PoolInv, PoolTypeOK, IndexConsistent
<1>5. CASE UNCHANGED <<now, poolVars>>
  BY <1>5 DEF poolVars, PoolInv, PoolTypeOK, IndexConsistent
<1>6. QED
  BY <1>1, <1>2, <1>3, <1>4, <1>5 DEF PoolNext

LEMMA PoolInvariance == PoolSpec => []PoolInv
BY PoolInvInit, PoolInvNext, PTL DEF PoolSpec, PoolAloneInit

\* The maps keep their types.
THEOREM PoolTypeCorrect == PoolSpec => []PoolTypeOK
PROOF
<1>1. PoolInv => PoolTypeOK
  BY DEF PoolInv
<1>2. QED
  BY PoolInvariance, <1>1, PTL

\* The two maps of the pool always agree.
THEOREM PoolIndexConsistent == PoolSpec => []IndexConsistent
PROOF
<1>1. PoolInv => IndexConsistent
  BY DEF PoolInv
<1>2. QED
  BY PoolInvariance, <1>1, PTL

LEMMA HangsFullNext == PoolInv /\ HangsFull /\ [PoolNext]_<<now, poolVars>> => HangsFull'
PROOF
<1> SUFFICES ASSUME PoolInv, HangsFull, [PoolNext]_<<now, poolVars>> PROVE HangsFull'
  OBVIOUS
<1>1. ASSUME NEW m \in MACs, NEW req \in IPs \cup {NoIP}, ScanForever(m, req)
      PROVE  HangsFull'
  BY <1>1 DEF ScanForever, ScanFails, Scanned, HangsFull, isIPAllocated
<1>2. CASE ~scanning /\ UNCHANGED scanning
  BY <1>2 DEF HangsFull
<1>3. CASE UNCHANGED poolVars
  BY <1>3 DEF poolVars, HangsFull, isIPAllocated
<1>4. QED
  BY <1>1, <1>2, <1>3
     DEF PoolNext, PoolAllocate, PoolRelease, PoolRenew, PoolTick, AllocateIP, ReleaseIP, RenewLease

LEMMA HangsFullInvariance == PoolSpec => []HangsFull
PROOF
<1>1. ClockInit /\ PoolInit => HangsFull
  BY DEF PoolInit, HangsFull
<1>2. QED
  BY PoolInvariance, HangsFullNext, <1>1, PTL DEF PoolSpec, PoolAloneInit

-----------------------------------------------------------------------------
(***************************************************************************)
(* Who is served, and from where.                                          *)
(***************************************************************************)
\* An address has a lease exactly when the index gives it to somebody.
LEMMA LeasedAllocated ==
    ASSUME PoolInv, NEW i \in IPs
    PROVE  Leased(i) <=> isIPAllocated(i)
BY NoMACAssumption DEF PoolInv, PoolTypeOK, IndexConsistent, Leased, isIPAllocated

LEMMA SmallestNat ==
    ASSUME NEW S, S \subseteq Nat, NEW e \in S
    PROVE  \E x \in S : \A y \in S : x <= y
PROOF
<1> DEFINE R == OpToRel(<, Nat)
<1>1. IsWellFoundedOn(R, Nat)
  BY NatLessThanWellFounded
<1>2. PICK x \in S : \A y \in S : <<y, x>> \notin R
  <2> HIDE DEF R
  <2>1. QED
    BY <1>1, WFMin
<1>3. ASSUME NEW y \in S PROVE x <= y
  <2>1. x \in Nat /\ y \in Nat
    BY <1>2
  <2>2. CASE y < x
    <3>1. <<y, x>> \in R
      BY <2>1, <2>2 DEF OpToRel
    <3>2. QED
      BY <1>2, <3>1
  <2>3. QED
    BY <2>1, <2>2
<1>4. QED
  BY <1>3

\* The scan comes to the range first and from below: it takes the smallest free
\* address of the range, if there is one.
LEMMA ScanTakesSmallest ==
    ASSUME PoolInv, NEW i \in PoolStart..PoolEnd, ~isIPAllocated(i)
    PROVE  \E ip \in PoolStart..PoolEnd : NextFree(ip)
PROOF
<1> DEFINE Free == {ip \in PoolStart..PoolEnd : ~isIPAllocated(ip)}
<1>1. PICK ip \in Free : \A other \in Free : ip <= other
  <2>1. Free \subseteq Nat /\ i \in Free
    BY PoolAssumption, MaxIPAssumption DEF IPs
  <2>2. QED
    BY <2>1, SmallestNat
<1>2. ASSUME NEW other \in Scanned, ~isIPAllocated(other)
      PROVE  ScanRank(ip) <= ScanRank(other)
  <2>1. CASE other \in PoolStart..PoolEnd
    <3>1. ip <= other
      BY <1>1, <1>2, <2>1
    <3>2. ScanRank(ip) = ip - PoolStart /\ ScanRank(other) = other - PoolStart
      BY <2>1, PoolAssumption, MaxIPAssumption DEF ScanRank, IPs
    <3>3. QED
      BY <2>1, <3>1, <3>2, PoolAssumption, MaxIPAssumption DEF IPs
  <2>2. CASE other \notin PoolStart..PoolEnd
    <3>1. other \in IPs /\ PoolEnd = MaxIP /\ other < PoolStart
      BY <2>2, PoolAssumption, MaxIPAssumption DEF Scanned, IPs
    <3>2. ScanRank(ip) = ip - PoolStart
      BY PoolAssumption, MaxIPAssumption DEF ScanRank, IPs
    <3>3. ScanRank(other) = other - PoolStart + (MaxIP + 1)
      BY <3>1, PoolAssumption, MaxIPAssumption DEF ScanRank, IPs
    <3>4. QED
      BY <3>1, <3>2, <3>3, PoolAssumption, MaxIPAssumption DEF IPs
  <2>3. QED
    BY <2>1, <2>2
<1>3. ip \in Scanned
  BY PoolAssumption, MaxIPAssumption DEF Scanned, IPs
<1>4. QED
  BY <1>1, <1>2, <1>3 DEF NextFree

\* As long as an address of the range is in no lease, a client without a lease is
\* served, and from the range.
LEMMA ServedFromRange ==
    ASSUME PoolInv, NEW req \in IPs \cup {NoIP}, NEW i \in PoolStart..PoolEnd, ~Leased(i)
    PROVE  \E ip \in PoolStart..PoolEnd : Chosen(req, ip)
PROOF
<1>1. i \in IPs /\ ~isIPAllocated(i)
  BY LeasedAllocated, PoolAssumption, MaxIPAssumption DEF IPs
<1>2. CASE RequestHonoured(req)
  BY <1>2, PoolAssumption, MaxIPAssumption DEF RequestHonoured, Chosen, isIPInPool, IPs, NoIP
<1>3. CASE ~RequestHonoured(req)
  BY <1>1, <1>3, ScanTakesSmallest DEF Chosen
<1>4. QED
  BY <1>2, <1>3

\* The pool answers, and from its range, until every address of the range is leased.
THEOREM PoolServesWhileFree == PoolSpec => []ServedWhileFree
PROOF
<1>1. PoolInv /\ HangsFull => ServedWhileFree
  <2> SUFFICES ASSUME PoolInv, HangsFull, NEW req \in IPs \cup {NoIP},
                      NEW i \in PoolStart..PoolEnd, ~Leased(i)
               PROVE  ~scanning /\ \E ip \in PoolStart..PoolEnd : Chosen(req, ip)
    BY DEF ServedWhileFree
  <2>1. i \in IPs
    BY PoolAssumption, MaxIPAssumption DEF IPs
  <2>2. ~scanning
    BY <2>1, LeasedAllocated DEF HangsFull
  <2>3. QED
    BY <2>2, ServedFromRange
<1>2. QED
  BY PoolInvariance, HangsFullInvariance, <1>1, PTL

\* An address outside the range is given only when the range is leased to its end,
\* and that end is the largest address.
LEMMA GrantedOutside ==
    ASSUME PoolInv, [PoolNext]_<<now, poolVars>>, NEW m \in MACs,
           leases[m] = NoLease, leases'[m] # NoLease, ~isIPInPool(leases'[m].ip)
    PROVE  PoolEnd = MaxIP /\ \A i \in PoolStart..PoolEnd : Leased(i)
PROOF
<1>1. PICK n \in MACs, req \in IPs \cup {NoIP}, ip \in IPs : AllocateIP(n, req, ip)
  <2>1. CASE PoolRelease
    BY <2>1 DEF PoolRelease, ReleaseIP, PoolInv, PoolTypeOK
  <2>2. CASE PoolRenew
    BY <2>2 DEF PoolRenew, RenewLease, Renewed, PoolInv, PoolTypeOK
  <2>3. CASE UNCHANGED leases
    BY <2>3
  <2>4. QED
    BY <2>1, <2>2, <2>3 DEF PoolNext, PoolAllocate, PoolTick, poolVars, ScanForever
<1>2. leases[n] = NoLease
  BY <1>1 DEF AllocateIP, Renewed, PoolInv, PoolTypeOK
<1>3. Chosen(req, ip) /\ allocateIP(n, ip)
  BY <1>1, <1>2 DEF AllocateIP
<1>4. ip = leases'[m].ip
  BY <1>3 DEF allocateIP, LeaseOf, PoolInv, PoolTypeOK
<1>5. PoolEnd = MaxIP
  BY <1>3, <1>4, ChosenInPool, PoolAssumption, MaxIPAssumption DEF IPs
<1>6. ASSUME NEW i \in PoolStart..PoolEnd, ~Leased(i)
      PROVE  FALSE
  <2>1. PICK other \in PoolStart..PoolEnd : Chosen(req, other)
    BY <1>6, ServedFromRange
  <2>2. ip = other
    BY <1>3, <2>1, ChosenUnique
  <2>3. QED
    BY <1>4, <2>2, PoolAssumption, MaxIPAssumption DEF isIPInPool, IPs
<1>7. QED
  BY <1>5, <1>6

\* The range is left only when it is full and its end is the largest address.
THEOREM PoolLeavesRangeWhenFull == PoolSpec => RangeLeftWhenFull
PROOF
<1>1. PoolInv /\ [PoolNext]_<<now, poolVars>>
      => [\A m \in MACs :
            leases[m] = NoLease /\ leases'[m] # NoLease /\ ~isIPInPool(leases'[m].ip)
            => PoolEnd = MaxIP /\ \A i \in PoolStart..PoolEnd : Leased(i)]_<<now, poolVars>>
  BY GrantedOutside
<1>2. QED
  BY PoolInvariance, <1>1, PTL DEF PoolSpec, PoolAloneInit, RangeLeftWhenFull

-----------------------------------------------------------------------------
(***************************************************************************)
(* The pool implements the address book.                                   *)
(***************************************************************************)
\* Every step of the pool grants one free address to a client that has none,
\* takes one back, or leaves the book alone.
THEOREM PoolKeepsBook == PoolSpec => KeepsBook
PROOF
<1>1. ClockInit /\ PoolInit => Book!Init
  BY DEF PoolInit, EmptyAllocated, Book!Init
<1>2. PoolInv /\ [PoolNext]_<<now, poolVars>> => [Book!Next]_allocated
  <2> SUFFICES ASSUME PoolInv, [PoolNext]_<<now, poolVars>>
               PROVE  Book!Next \/ UNCHANGED allocated
    OBVIOUS
  <2>1. CASE PoolAllocate
    <3>1. CASE \E m \in MACs, req \in IPs \cup {NoIP}, ip \in IPs : AllocateIP(m, req, ip)
      <4>1. PICK m \in MACs, req \in IPs \cup {NoIP}, ip \in IPs : AllocateIP(m, req, ip)
        BY <3>1
      <4>2. UNCHANGED allocated \/ Book!Grant(m, ip)
        BY <4>1, AllocateGrants
      <4>3. QED
        BY <4>2 DEF Book!Next
    <3>2. QED
      BY <2>1, <3>1 DEF PoolAllocate, ScanForever
  <2>2. CASE PoolRelease
    BY <2>2 DEF PoolRelease, ReleaseIP, isIPAllocated, Book!Next, Book!Return
  <2>3. CASE PoolRenew
    BY <2>3 DEF PoolRenew, RenewLease
  <2>4. CASE PoolTick \/ UNCHANGED <<now, poolVars>>
    BY <2>4 DEF PoolTick, poolVars
  <2>5. QED
    BY <2>1, <2>2, <2>3, <2>4 DEF PoolNext
<1>3. QED
  BY PoolInvariance, <1>1, <1>2, PTL DEF PoolSpec, PoolAloneInit, KeepsBook, Book!Spec

-----------------------------------------------------------------------------
(***************************************************************************)
(* How long a lease lasts.                                                 *)
(***************************************************************************)
\* No lease ends later than one allocated now would.
ExpiryBounded == \A m \in MACs : leases[m] # NoLease => leases[m].expires <= now + LeaseTime

\* A step on a lease gives it the latest expiry there is, and keeps its address.
LeasesExtended ==
    \A m \in MACs :
       leases[m] # NoLease /\ leases'[m] # NoLease
       => leases'[m].ip = leases[m].ip /\ leases'[m].expires >= leases[m].expires

LEMMA RenewedExtends ==
    ASSUME PoolInv, ExpiryBounded, NEW m \in MACs, leases[m] # NoLease,
           leases' = Renewed(m), UNCHANGED now
    PROVE  LeasesExtended /\ ExpiryBounded'
PROOF
<1>1. /\ now \in Nat /\ LeaseTime \in Nat
      /\ \A n \in MACs : leases[n] # NoLease => leases[n].ip \in IPs /\ leases[n].expires \in Nat
  BY LeaseTimeAssumption DEF PoolInv, PoolTypeOK, Lease
<1>2. \A n \in MACs : leases'[n] = IF n = m THEN LeaseOf(leases[m].ip, now + LeaseTime)
                                             ELSE leases[n]
  BY DEF Renewed, PoolInv, PoolTypeOK
<1>3. QED
  BY <1>1, <1>2 DEF LeaseOf, ExpiryBounded, LeasesExtended

LEMMA PoolStepExtends ==
    ASSUME PoolInv, ExpiryBounded, [PoolNext]_<<now, poolVars>>
    PROVE  LeasesExtended /\ ExpiryBounded'
PROOF
<1>1. /\ now \in Nat /\ LeaseTime \in Nat
      /\ \A n \in MACs : leases[n] # NoLease => leases[n].ip \in IPs /\ leases[n].expires \in Nat
  BY LeaseTimeAssumption DEF PoolInv, PoolTypeOK, Lease
<1>2. ASSUME NEW m \in MACs, NEW req \in IPs \cup {NoIP}, NEW ip \in IPs,
             AllocateIP(m, req, ip), PoolAllocate
      PROVE  LeasesExtended /\ ExpiryBounded'
  <2>1. AllocateIP(m, req, ip)
    BY <1>2
  <2>2. UNCHANGED now
    BY <1>2 DEF PoolAllocate
  <2>3. CASE leases[m] # NoLease
    BY <2>1, <2>2, <2>3, RenewedExtends DEF AllocateIP
  <2>4. CASE leases[m] = NoLease
    <3>1. \A n \in MACs : leases'[n] = IF n = m THEN LeaseOf(ip, now + LeaseTime)
                                                 ELSE leases[n]
      BY <2>1, <2>4 DEF AllocateIP, allocateIP, PoolInv, PoolTypeOK
    <3>2. QED
      BY <1>1, <2>2, <2>4, <3>1 DEF LeaseOf, ExpiryBounded, LeasesExtended
  <2>5. QED
    BY <2>3, <2>4
<1>3. CASE PoolRelease
  <2>1. PICK ip \in IPs : ReleaseIP(ip)
    BY <1>3 DEF PoolRelease
  <2>2. \A n \in MACs : leases'[n] = NoLease \/ leases'[n] = leases[n]
    BY <2>1 DEF ReleaseIP, PoolInv, PoolTypeOK
  <2>3. QED
    BY <1>1, <1>3, <2>2 DEF PoolRelease, ExpiryBounded, LeasesExtended
<1>4. CASE PoolRenew
  BY <1>4, RenewedExtends DEF PoolRenew, RenewLease
<1>5. CASE UNCHANGED leases /\ (UNCHANGED now \/ Tick)
  BY <1>1, <1>5 DEF Tick, ExpiryBounded, LeasesExtended
<1>6. QED
  BY <1>2, <1>3, <1>4, <1>5 DEF PoolNext, PoolAllocate, PoolTick, poolVars, ScanForever

\* A client keeps its address while it has a lease, and no step cuts a lease
\* short: time goes on between two renewals, never back.
THEOREM PoolKeepsLeases == PoolSpec => LeaseKept
PROOF
<1>1. ClockInit /\ PoolInit => ExpiryBounded
  BY DEF PoolInit, EmptyLeases, ExpiryBounded
<1>2. PoolInv /\ ExpiryBounded /\ [PoolNext]_<<now, poolVars>>
      => ExpiryBounded' /\ [LeasesExtended]_<<now, poolVars>>
  BY PoolStepExtends
<1>3. PoolSpec => [][LeasesExtended]_<<now, poolVars>>
  BY PoolInvariance, <1>1, <1>2, PTL DEF PoolSpec, PoolAloneInit
<1>4. QED
  BY <1>3 DEF LeaseKept, LeasesExtended
=============================================================================
