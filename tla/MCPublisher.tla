---------------------------- MODULE MCPublisher -----------------------------
(* Finite instances of Publisher.                                          *)
EXTENDS Publisher, TLC

CONSTANTS home, work, home4, homeMarked, work4, addrA, addrB, zone, r1, r2, r3

Entry(k, a) == [key |-> k, address |-> a]
Rec(k, ip)  == [key |-> k, zone |-> zone, ip |-> ip]

AllKeys == {home4, homeMarked, work4}
AB      == {addrA, addrB}
IdSet   == {r1, r2, r3}

(* Two domains in one instance and, in another, one of the two again under *)
(* a mark of its own.                                                      *)
TwoInstances ==
  (home :> <<Entry(home4, addrA), Entry(work4, addrB)>>)
    @@ (work :> <<Entry(homeMarked, addrA)>>)

OneInstance == home :> <<Entry(home4, addrA), Entry(work4, addrB)>>

ZonesEach == [k \in AllKeys |-> {zone}]

Empty     == [id \in IdSet |-> Unused]
FromEmpty == {Empty}
FromOld   == {Empty, [Empty EXCEPT ![r1] = Rec(home4, 1)]}

(* An address comes and goes, or takes a newer value.                      *)
Newer == {<<NoIP, 1>>, <<1, NoIP>>, <<NoIP, 2>>, <<1, 2>>}

(* What the theorems of PublisherProofs take for granted. *)
ASSUME InstanceFits == UniqueKeys /\ OneZone /\ Forward
=============================================================================
