------------------------------- MODULE Naming -------------------------------
(***************************************************************************)
(* How the configuration tells records apart: the mark, which is put       *)
(* together from the names of the program, of the instance and of the      *)
(* entry, and the zone, which is found by the end of the domain's name.    *)
(* Publisher takes the result as the constants Config, ZonesOf and Zones.  *)
(*                                                                         *)
(* A text is a sequence of its parts.  What may be left out is a sequence  *)
(* of one text, or of none.                                                *)
(***************************************************************************)
EXTENDS Naturals, Sequences

CONSTANTS
  Parts,   \* what texts are made of
  Texts,   \* the texts that the properties below are about
  Program  \* the name of the program

Dash == "-"

ASSUME NamingAssumption == Texts \subseteq Seq(Parts) /\ Program \in Seq(Parts) /\ Dash \in Parts

Marks == {<<>>} \cup {<<m>> : m \in Texts}

(* cfddns.DefaultMark, after main has added the name of the service. *)
DefaultMark(service) ==
  IF service = <<>> THEN Program ELSE Program \o <<Dash>> \o service

(* Mutant of Mark: the parts are joined without anything between them. *)
MarkJoined(service, mark) ==
  IF mark = <<>> THEN DefaultMark(service) ELSE DefaultMark(service) \o mark[1]

Mark(service, mark) ==
  IF mark = <<>> THEN DefaultMark(service) ELSE DefaultMark(service) \o <<Dash>> \o mark[1]

(* What FindRecord looks for on behalf of an entry d of the configuration  *)
(* of the instance s.                                                      *)
Key(s, d) == [domain |-> d.domain, type |-> d.type, mark |-> Mark(s.service, d.mark)]

(* recordPublisher.init up to FindRecord, for all entries of all instances. *)
ConfigOf(settings) ==
  [i \in DOMAIN settings |->
     [n \in DOMAIN settings[i].domains |->
        LET d == settings[i].domains[n] IN [key |-> Key(settings[i], d), address |-> d.address]]]

(* Mutant of HasSuffix: the zone may be anywhere in the name. *)
Contains(t, s) ==
  \E k \in 0..Len(t) : k + Len(s) <= Len(t) /\ SubSeq(t, k + 1, k + Len(s)) = s

(* strings.HasSuffix: t ends in s. *)
HasSuffix(t, s) == Len(s) <= Len(t) /\ SubSeq(t, Len(t) - Len(s) + 1, Len(t)) = s

(* getZoneResource returns any of these, or fails: whichever zone the loop *)
(* over the map meets first.                                               *)
ZonesFor(domain, zones) == {z \in zones : HasSuffix(domain, z)}

-----------------------------------------------------------------------------
Plain(t) == t # <<>> /\ \A n \in DOMAIN t : t[n] # Dash

(* Instances that are given names, without a dash, never have a mark in    *)
(* common, whatever the marks of their entries are.  (Names with a dash    *)
(* do: "a" with mark "b-c" and "a-b" with mark "c"; and an instance        *)
(* without a name with mark "a" has that of "a" without.)                  *)
MarksTellApart ==
  \A s, t \in {u \in Texts : Plain(u)} : \A m, n \in Marks :
     Mark(s, m) = Mark(t, n) => s = t /\ m = n

(* Go's map order chooses between zones only where they are nested, or     *)
(* one merely ends like another: of two that a name ends in, one ends in   *)
(* the other.                                                              *)
ZonesNest ==
  \A d \in Texts : \A z1, z2 \in ZonesFor(d, Texts) : HasSuffix(z1, z2) \/ HasSuffix(z2, z1)

-----------------------------------------------------------------------------
(* Conditions on a configuration, from which UniqueKeys and OneZone of     *)
(* Publisher follow.                                                       *)
EntriesDiffer(settings) ==
  \A i, j \in DOMAIN settings :
     /\ Plain(settings[i].service)
     /\ settings[i].service = settings[j].service => i = j
     /\ \A m, n \in DOMAIN settings[i].domains :
          LET d == settings[i].domains[m]
              e == settings[i].domains[n]
          IN  <<d.domain, d.type, d.mark>> = <<e.domain, e.type, e.mark>> => m = n

NotNested(zones) == \A z1, z2 \in zones : HasSuffix(z1, z2) => z1 = z2
=============================================================================
