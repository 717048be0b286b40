---------------------------- MODULE NodeListing ----------------------------
(***************************************************************************)
(* internal/db/bolt_node_repository.go: what List shows of the records,    *)
(* and the repository on its own, called in any order.                     *)
(*                                                                         *)
(* A listing is the sequence of the listed machines' keys.                 *)
(***************************************************************************)
EXTENDS NodeStore, SequencesExt

CONSTANT KeyOrder   \* the machines in the byte order of their keys

ASSUME KeyOrderAssumption ==
    /\ KeyOrder \in Seq(MACs)
    /\ \A m \in MACs : \E i \in 1..Len(KeyOrder) : KeyOrder[i] = m
    /\ \A i, j \in 1..Len(KeyOrder) : KeyOrder[i] = KeyOrder[j] => i = j

listingVars == <<now, storeVars>>

\* The comparison of the sort: m, in front of n, is the older.
OutOfOrder(m, n) == nodes[m].created < nodes[n].created

\* Neighbours j and j + 1 are compared, and exchanged when out of order.
CompareAt(s, j) ==
    IF OutOfOrder(s[j], s[j + 1])
    THEN [s EXCEPT ![j] = s[j + 1], ![j + 1] = s[j]]
    ELSE s

\* One run of the inner loop over the first n neighbours.
Pass(s, n) ==
    LET after[j \in 0..n] == IF j = 0 THEN s ELSE CompareAt(after[j - 1], j)
    IN  after[n]

\* Defect: the last pass is missing.
sortNodesShort(s) ==
    LET after[i \in 0..Len(s)] == IF i = 0 THEN s ELSE Pass(after[i - 1], Len(s) - i)
    IN  IF Len(s) < 2 THEN s ELSE after[Len(s) - 2]
\* Bubble sort: pass i leaves the i oldest at the end.
sortNodes(s) ==
    LET after[i \in 0..Len(s)] == IF i = 0 THEN s ELSE Pass(after[i - 1], Len(s) - i)
    IN  IF Len(s) < 2 THEN s ELSE after[Len(s) - 1]

\* The members of s that are in chosen, appended one after the other.
Selected(s, chosen) ==
    LET kept[i \in 0..Len(s)] == IF i = 0 THEN <<>>
                                 ELSE IF s[i] \in chosen THEN Append(kept[i - 1], s[i])
                                 ELSE kept[i - 1]
    IN  kept[Len(s)]

Recorded == {m \in MACs : nodes[m] # NoNode}

\* The records are visited in the order of their keys, then sorted.
List == sortNodes(Selected(KeyOrder, Recorded))

ListByStatus(status) == Selected(List, {m \in Recorded : nodes[m].status = status})

-----------------------------------------------------------------------------
(***************************************************************************)
(* The repository on its own.  A caller may save any copy it has read, or  *)
(* made at some earlier time.                                              *)
(***************************************************************************)
Copy(status, created) == [NewNode EXCEPT !.status = status, !.created = created]

ListingSave == /\ \E m \in MACs, s \in Status, c \in 0..now : Save(m, Copy(s, c))
               /\ UNCHANGED now
ListingUpdate == (\E m \in MACs, s \in Status : UpdateStatus(m, s)) /\ UNCHANGED now
ListingDelete == (\E m \in MACs : Delete(m)) /\ UNCHANGED now
ListingClose == Close /\ UNCHANGED now
ListingOpen == InitializeDB /\ UNCHANGED now
ListingTick == Tick /\ UNCHANGED storeVars

ListingNext == \/ ListingSave \/ ListingUpdate \/ ListingDelete
               \/ ListingClose \/ ListingOpen \/ ListingTick

ListingInit == ClockInit /\ StoreInit

ListingSpec == ListingInit /\ [][ListingNext]_listingVars

-----------------------------------------------------------------------------
(***************************************************************************)
(* Properties.                                                             *)
(***************************************************************************)
\* Of two machines in the listing l the first was made later, or their keys are
\* in this order.
InOrder(l, i, j) ==
    \/ nodes[l[i]].created > nodes[l[j]].created
    \/ /\ nodes[l[i]].created = nodes[l[j]].created
       /\ \E p, q \in 1..Len(KeyOrder) : p < q /\ KeyOrder[p] = l[i] /\ KeyOrder[q] = l[j]

\* A listing shows every record once, newest first; records made at the same
\* time stand in the order of their keys.  Every record is in the listing of one
\* of the three statuses.
ListSorted ==
    LET l == List IN
    /\ ToSet(l) = Recorded
    /\ \A i, j \in 1..Len(l) : i < j => InOrder(l, i, j)
    /\ ToSet(l) = UNION {ToSet(ListByStatus(s)) : s \in Status}

\* Records keep their order in the listing as long as they are not deleted,
\* whichever old copies are saved and however their status changes.
ListOrderKept ==
    [][Selected(List, Recorded') = Selected(List', Recorded)]_listingVars
=============================================================================
