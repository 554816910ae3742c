---------------------------- MODULE MCHttpSource ----------------------------
(* Finite instances of HttpSource. *)
EXTENDS HttpSource, FiniteSets

CONSTANTS a4, b4, a6, b6

Text == {Own, Junk, Empty, Garbled}

UpTo(n, S) == UNION {[1 .. m -> S] : m \in 0 .. n}

(* Pages of up to two items; of three, the last is cut off. *)
AllPages == UpTo(2, Text \cup {b4, b6}) \cup {<<Junk, Junk, Own>>}

(* Of an address cut off at the limit nothing may be left, or what is no   *)
(* address, or the other one of its family.                                *)
AllPieces == [ip \in IPs |-> {Junk, Garbled} \cup (Of(Family(ip)) \ {ip})]

(* Every source but the simple one for IPv4, which finds no address; of    *)
(* those whose type is no family's number, the ones with no address given. *)
Others ==
  {c \in Config :
     /\ c.source = "simple" => c.type # "IPv4"
     /\ c.type = "unknown" => c.host = "name" /\ c.force = "none" /\ ~c.ip_host}

(* What ShownIsFound of HttpSourceProofs takes for granted. *)
ASSUME SourcesFit == NoSimple4
=============================================================================
