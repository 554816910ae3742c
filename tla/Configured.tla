----------------------------- MODULE Configured -----------------------------
(* Publisher with keys and zones as Naming makes them from the settings.   *)
EXTENDS Publisher, Naming

(* Domains and zones are texts, and a domain's zones are found by its end. *)
ZonesFromNames ==
  /\ Zones \subseteq Seq(Parts)
  /\ \A k \in Keys : k.domain \in Seq(Parts)
  /\ ZonesOf = [k \in Keys |-> ZonesFor(k.domain, Zones)]

(* The service only has records in zones that their names end in.          *)
InitialInZone ==
  \A rs \in Initial : \A id \in Ids :
     rs[id] \in Record => rs[id].zone \in ZonesOf[rs[id].key]

(* A record is in a zone that its name ends in, where it can be looked up, *)
(* and not in one whose name merely occurs in it: in the one its creator   *)
(* chose, or that of the record it found (cloudflare.go:51).               *)
InNamedZone ==
  \A id \in Ids : Live(id) =>
     LET name == records[id].key.domain IN
     \E k \in 1 .. Len(name) + 1 : SubSeq(name, k, Len(name)) = records[id].zone
=============================================================================
