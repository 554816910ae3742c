----------------------------- MODULE MCService ------------------------------
(* A finite instance of Service: two addresses, and two instances of the   *)
(* program, one of them one-shot, that share a domain.                     *)
EXTENDS Service, TLC

CONSTANTS a, b, ghost, own, slow, ip1, ip2, home, work, forA, forB, forGhost, zone, r1, r2

Entry(k, n) == [key |-> k, address |-> n]

Domains ==
  (home :> <<Entry(forA, a), Entry(forB, b)>>)
    @@ (work :> <<Entry(forGhost, ghost), Entry(forA, a)>>)

AllKeys   == {forA, forB, forGhost}
ZonesEach == [k \in AllKeys |-> {zone}]
FromEmpty == {[id \in {r1, r2} |-> Unused]}

(* Every address has a probe of its own, which has its name; that of slow  *)
(* need not return.                                                        *)
SourceOf(n, s) ==
  IF s \in {own, slow} THEN [type |-> "probe", source |-> IF s = own THEN n ELSE slow]
  ELSE [type |-> "reference", source |-> s]

EntryOf(n, shape, ts) ==
  [sources |-> [k \in DOMAIN shape |-> SourceOf(n, shape[k])], transformers |-> ts]

Flip == (ip1 :> ip2) @@ (ip2 :> ip1) @@ (NoIP :> NoIP)

Plain(sa, sb) == (a :> EntryOf(a, sa, <<>>)) @@ (b :> EntryOf(b, sb, <<>>))

(* A transformed address with another to fall back to; a cycle of two that *)
(* one probe may break; and one of one, beside a name that is not          *)
(* configured and a probe that may hang.                                   *)
Tables ==
  {(a :> EntryOf(a, <<own, b>>, <<Flip>>)) @@ (b :> EntryOf(b, <<own>>, <<>>)),
   Plain(<<b, own>>, <<a>>), Plain(<<a, own>>, <<ghost, slow>>)}

Answers ==
  {(a :> ip1) @@ (b :> ip2) @@ (slow :> ip2), (a :> NoIP) @@ (b :> ip1) @@ (slow :> ip1)}
=============================================================================
