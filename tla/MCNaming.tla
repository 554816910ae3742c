------------------------------ MODULE MCNaming ------------------------------
(* An instance of Publisher that is put together by Naming from settings.  *)
EXTENDS Configured, TLC

CONSTANTS home, work, lost, addr, r1, r2, r3

AllParts == {"a", "b", Dash, "cfddns", "home.", "work.", "example", ".elsewhere"}

(* Long enough for a mark or a name with a dash between two other parts.   *)
Short == UNION {[1..n -> {"a", "b", Dash}] : n \in 0..3}

Cfddns   == <<"cfddns">>
HomeName == <<"home.", "example">>
WorkName == <<"work.", "example">>
LostName == <<"example", ".elsewhere">>
Nested   == {<<"example">>, WorkName}

Entry(name, mark) == [domain |-> name, type |-> "A", mark |-> mark, address |-> addr]

(* Two names in one instance and, in another, one of the two under a mark  *)
(* that must not be mixed up with the name of the first; and an instance   *)
(* with a name that contains that of a zone but is in none.                *)
Settings ==
  (home :> [service |-> <<"b", "a">>, domains |-> <<Entry(HomeName, <<>>), Entry(WorkName, <<>>)>>])
    @@ (work :> [service |-> <<"b">>, domains |-> <<Entry(HomeName, <<<<"a">>>>)>>])
    @@ (lost :> [service |-> <<"b", "b">>, domains |-> <<Entry(LostName, <<>>)>>])

KeyAt(i, n) == Key(Settings[i], Settings[i].domains[n])

(* Of somebody who does without marks. *)
TheirKey == [domain |-> HomeName, type |-> "A", mark |-> <<>>]

AllKeys     == {KeyAt(home, 1), KeyAt(home, 2), KeyAt(work, 1), KeyAt(lost, 1), TheirKey}
AllSettings == ConfigOf(Settings)
ZonesEach   == [k \in AllKeys |-> ZonesFor(k.domain, Zones)]

IdSet == {r1, r2, r3}
Perms == Permutations(IdSet)

(* Somebody else's record, and one of home's with an address of old.       *)
Rec(k, ip) == [key |-> k, zone |-> <<"example">>, ip |-> ip]
FromTheirs == {(r1 :> Rec(TheirKey, 1)) @@ (r2 :> Rec(KeyAt(home, 1), 2)) @@ (r3 :> Unused)}

(* The address is found in the end. *)
Appears == {<<NoIP, 1>>}

(* What the theorems of NamingProofs take for granted. *)
ASSUME SettingsFit == EntriesDiffer(Settings) /\ ZonesFromNames /\ InitialInZone
=============================================================================
