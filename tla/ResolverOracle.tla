--------------------------- MODULE ResolverOracle ---------------------------
(***************************************************************************)
(* What a pass ought to yield, computed from the configuration and the     *)
(* answers of the probes alone, and where Resolver yields exactly that.    *)
(***************************************************************************)
EXTENDS Resolver

(* What becomes of ip under the first transformers of n, by their number.  *)
Transformed(n, ip) ==
  LET ts == list[n].transformers
      T[k \in 0 .. Len(ts)] == IF k = 0 THEN ip ELSE ts[k][T[k - 1]]
  IN  T

(* What source i of n answers, if e has the addresses of the others, ...   *)
Raw(n, i, e) ==
  LET s == list[n].sources[i] IN
  IF s.type = "probe" THEN world[s.source]
  ELSE IF s.source \in Names THEN e[s.source] ELSE NoIP

(* ... what comes of it, and the sources from which something does.        *)
Yield(n, i, e) == Transformed(n, Raw(n, i, e))[Len(list[n].transformers)]

Yielding(n, e) == {i \in DOMAIN list[n].sources : Yield(n, i, e) # NoIP}

(* The first source that has an address which passes the transformers.     *)
FirstYield(n, e) ==
  IF Yielding(n, e) = {} THEN NoIP
  ELSE Yield(n, CHOOSE i \in Yielding(n, e) : \A j \in Yielding(n, e) : i <= j, e)

(* Only defined where Acyclic holds.                                       *)
Expected ==
  LET E[n \in Names] == FirstYield(n, E)
  IN  E

(* No address has a source behind a reference to fall back to. *)
ReferencesLast ==
  \A n \in Names : \A i \in DOMAIN list[n].sources :
     list[n].sources[i].type = "reference" => i = Len(list[n].sources)

(* Where references come last and form no cycle, and the network is        *)
(* steady, what the pass records does not depend on the order in which the *)
(* loop of Resolve visits the names, nor on which addresses were resolved  *)
(* as a reference before: it is what the sources and transformers say.     *)
(* The pass fails exactly when it should: because an address has no value, *)
(* and never while one that no other refers to has none.                   *)
MatchesOracle ==
  list \notin Drifting /\ ReferencesLast /\ Acyclic =>
     /\ \A n \in Names : table[n] \in {Unset, Expected[n]}
     /\ phase = "failed" => \E n \in Names : Expected[n] = NoIP
     /\ phase = "resolved" =>
          \A n \in Names : (\A m \in Names : n \notin References(m))
                              => Expected[n] # NoIP
=============================================================================
