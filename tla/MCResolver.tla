----------------------------- MODULE MCResolver -----------------------------
(* Finite instances of Resolver.  Every address has one probe of its own,  *)
(* which has the name of the address.                                      *)
EXTENDS ResolverOracle, TLC

CONSTANTS a, b, c, d, own, ip1, ip2

Probe(p) == [type |-> "probe", source |-> p]
Ref(t)   == [type |-> "reference", source |-> t]

ABC   == {a, b, c}
ABCD  == {a, b, c, d}
Perms == Permutations(ABC)

(* One thing of S, or two different ones in either order. *)
OneOrTwo(S) == [1 .. 1 -> S] \cup {q \in [1 .. 2 -> S] : q[1] # q[2]}

(* The entry with these sources, where own stands for the probe of n. *)
EntryOf(n, shape, ts) ==
  [sources |-> [i \in DOMAIN shape |->
                  IF shape[i] = own THEN Probe(n) ELSE Ref(shape[i])],
   transformers |-> ts]

Plain(shapes) == [n \in DOMAIN shapes |-> EntryOf(n, shapes[n], <<>>)]

(* All tables over three addresses, cycles and self references included. *)
GraphConfigs == {Plain(s) : s \in [ABC -> OneOrTwo({own} \cup ABC)]}

(* A transformer that changes the address, one that is of the wrong family *)
(* for ip2.                                                                *)
Flip  == (ip1 :> ip2) @@ (ip2 :> ip1) @@ (NoIP :> NoIP)
Only1 == (ip1 :> ip1) @@ (ip2 :> NoIP) @@ (NoIP :> NoIP)

(* Acyclic tables: x may refer to y and z, and y to z; each address has    *)
(* the transformers ts gives it.                                           *)
Ranked(x, y, z, ts) ==
  {(x :> EntryOf(x, sx, ts[x])) @@ (y :> EntryOf(y, sy, ts[y])) @@ (z :> EntryOf(z, <<own>>, ts[z])) :
     sx \in OneOrTwo({own, y, z}), sy \in OneOrTwo({own, z})}

(* x and y may have transformers; all ways to name the three.              *)
TransformerConfigs ==
  UNION {UNION {Ranked(p[a], p[b], p[c], (p[a] :> tx) @@ (p[b] :> ty) @@ (p[c] :> <<>>)) :
                  tx \in {<<>>, <<Flip, Only1>>}, ty \in {<<Flip>>, <<Only1>>}} : p \in Perms}

(* Three in a row, of which the first and the last have a transformer. *)
DriftConfigs ==
  {(p[a] :> EntryOf(p[a], <<p[b], own>>, <<Flip>>)) @@ (p[b] :> EntryOf(p[b], <<p[c], own>>, <<>>))
     @@ (p[c] :> EntryOf(p[c], <<own>>, <<Flip>>)) : p \in Perms}

PassConfigs == GraphConfigs \cup TransformerConfigs \cup DriftConfigs

(* c is referred to by a both directly and through b, below a reference    *)
(* from d; b rejects the address c has.                                    *)
DiamondConfigs ==
  {(d :> EntryOf(d, <<a>>, <<>>)) @@ (a :> EntryOf(a, <<b, c>>, <<>>))
     @@ (b :> EntryOf(b, <<c>>, <<Only1>>)) @@ (c :> EntryOf(c, <<own>>, <<>>))}

(* a and b both prefer c and fall back to their own probe. *)
FallbackConfigs ==
  {Plain((a :> <<c, own>>) @@ (b :> <<c, own>>) @@ (c :> <<own>>))}

OneIPWorlds  == [ABC -> {ip1, NoIP}]
MixedWorlds  == OneIPWorlds \cup {[n \in ABC |-> IF n = m THEN ip2 ELSE ip1] : m \in ABC}
SteadyWorlds == {[n \in ABCD |-> ip2]}
COut         == {[n \in ABC |-> IF n = c THEN NoIP ELSE ip1]}
=============================================================================
