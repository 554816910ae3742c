------------------------- MODULE MaskRewriteProofs --------------------------
(* Proofs about MaskRewrite, for addresses of any length, any hosts and    *)
(* chains of transformers of any length.                                   *)
EXTENDS MaskRewrite, SequenceTheorems, TLAPS

(* The lengths of addresses, which tell the families and no address apart. *)
LEMMA Lengths ==
  /\ Len4 \in Nat \ {0} /\ Len6 \in Nat /\ Len4 < Len6
  /\ \A a \in V4 : a \in Seq({0, 1}) /\ Len(a) = Len4 /\ a # NoAddress
  /\ \A a \in V6 : a \in Seq({0, 1}) /\ Len(a) = Len6 /\ a # NoAddress
  /\ Len(NoAddress) = 0
<1>1. Len(MappedPrefix) \in Nat \ {0}
  BY NetIPAssumption, EmptySeq
<1>2. Len4 \in Nat \ {0} /\ Len6 \in Nat /\ Len4 < Len6
  BY <1>1, NetIPAssumption DEF Len6
<1>3. ASSUME NEW n \in Nat \ {0}, NEW a \in [1 .. n -> {0, 1}]
      PROVE  a \in Seq({0, 1}) /\ Len(a) = n /\ a # NoAddress
  <2>1. a \in Seq({0, 1})
    BY <1>3, SeqDef
  <2>2. Len(a) = n
    BY <1>3, <2>1, LenProperties
  <2> QED
    BY <2>1, <2>2, EmptySeq DEF NoAddress
<1> QED
  BY <1>2, <1>3, EmptySeq DEF V4, V6, NoAddress

(* An address is known by its length. *)
LEMMA ByLength ==
  ASSUME NEW a \in NetIPs
  PROVE  /\ Len(a) = Len4 => a \in V4
         /\ Len(a) = Len6 => a \in V6
         /\ Len(a) \in {0, Len4, Len6}
         /\ a \in [1 .. Len(a) -> {0, 1}]
<1>1. NoAddress \in [1 .. 0 -> {0, 1}]
  BY EmptySeq, LenProperties DEF NoAddress
<1> QED
  BY <1>1, Lengths DEF NetIPs, V4, V6

(* net.IPv4 and As16 yield an address in the longer form. *)
LEMMA MappedIsLong ==
  ASSUME NEW a \in V4
  PROVE  Mapped(a) \in V6
<1>1. a \in Seq({0, 1}) /\ Len(a) = Len4
  BY Lengths
<1>2. Mapped(a) \in Seq({0, 1}) /\ Len(Mapped(a)) = Len6
  BY <1>1, NetIPAssumption, ConcatProperties DEF Mapped, Len6
<1> QED
  BY <1>2, LenProperties DEF V6

(* A mask that newMaskRewrite accepts has a bit for each of the overwrite, *)
(* and the bits it says.                                                   *)
LEMMA BitsAreKept ==
  ASSUME NEW c \in Conf, Valid(c)
  PROVE  /\ Bits(c) \in NetIPs
         /\ Len(Bits(c)) = Len(c.overwrite)
         /\ \A b \in 1 .. Len(c.overwrite) : Bits(c)[b] = 1 <=> Keeps(c, b)
<1> DEFINE n == Len(c.overwrite)
<1>1. c.overwrite \in NetIPs /\ c.mask \in Mask
  BY DEF Conf, NetIPs
<1>2. n \in {0, Len4, Len6}
  BY <1>1, ByLength
<1>3. CASE c.mask.kind = "number"
  <2> DEFINE m == [b \in 1 .. n |-> IF b <= c.mask.ones THEN 1 ELSE 0]
  <2>1. CASE n \in {Len4, Len6}
    <3>1. Bits(c) = m
      BY <1>3, <2>1 DEF Bits, CIDRMask
    <3>2. m \in V4 \cup V6
      BY <2>1 DEF V4, V6
    <3>3. Len(m) = n
      BY <2>1, <3>2, Lengths DEF V4, V6
    <3>4. \A b \in 1 .. n : m[b] = 1 <=> Keeps(c, b)
      BY <1>3 DEF Keeps
    <3> QED
      BY <3>1, <3>2, <3>3, <3>4 DEF NetIPs
  <2>2. CASE n = 0
    <3>1. Bits(c) = NoAddress
      BY <1>3, <2>2, Lengths DEF Bits, CIDRMask
    <3> QED
      BY <2>2, <3>1, Lengths DEF NetIPs
  <2> QED
    BY <1>2, <2>1, <2>2
<1>4. CASE c.mask.kind = "address"
  <2>1. c.mask.bits \in V4 \cup V6
    BY <1>1, <1>4 DEF Mask
  <2> QED
    BY <1>4, <2>1 DEF Valid, Bits, Keeps, NetIPs
<1> QED
  BY <1>3, <1>4 DEF Valid

-----------------------------------------------------------------------------
(* What newMaskRewrite makes of a transformer of the configuration. *)
Made(c) == [mask |-> Bits(c), overwrite |-> c.overwrite]

(* The transformers are those of the configuration, all of them once the   *)
(* program has started.                                                    *)
BuiltOK ==
  /\ Len(built) <= Len(chain)
  /\ \A j \in 1 .. Len(built) : Valid(chain[j]) /\ built[j] = Made(chain[j])
  /\ phase \in {"build", "rejected"} => at = Len(built) + 1
  /\ phase \in {"lookup", "apply", "done", "mismatch"} => Len(built) = Len(chain)
  /\ phase \in {"rejected", "mismatch"} => at <= Len(chain)
  /\ phase = "lookup" => at = 1

(* A transformed address has the form of the one that the source yielded. *)
IPOK ==
  phase \in {"apply", "done", "mismatch"} =>
    /\ ip \in V4 \cup V6 /\ source \in V4 \cup V6
    /\ Len(ip) = Len(source)

Inv == TypeOK /\ BuiltOK /\ IPOK

(* What a transformer whose overwrite fits does to an address. *)
LEMMA RewrittenBits ==
  ASSUME TypeOK, BuiltOK, ip \in V4 \cup V6, NEW j \in 1 .. Len(built), Fits(built[j])
  PROVE  /\ chain[j] \in Conf /\ Valid(chain[j])
         /\ Len(built[j].mask) = Len(ip) /\ Len(chain[j].overwrite) = Len(ip)
         /\ Rewritten(built[j]) \in V4 \cup V6
         /\ Len(Rewritten(built[j])) = Len(ip)
         /\ \A b \in 1 .. Len(ip) :
              Rewritten(built[j])[b] =
                IF Keeps(chain[j], b) THEN ip[b] ELSE chain[j].overwrite[b]
<1>1. chain \in Seq(Conf) /\ built \in Seq([mask : NetIPs, overwrite : NetIPs])
  BY MaskRewriteAssumption DEF TypeOK
<1>2. Len(built) \in Nat /\ Len(chain) \in Nat /\ j \in 1 .. Len(chain)
  BY <1>1, LenProperties DEF BuiltOK
<1>3. chain[j] \in Conf /\ Valid(chain[j]) /\ built[j] = Made(chain[j])
  BY <1>1, <1>2, ElementOfSeq DEF BuiltOK
<1>4. Len(chain[j].overwrite) = Len(ip) /\ Len(built[j].mask) = Len(ip)
  BY <1>3, BitsAreKept DEF Made, Fits
<1>5. \A b \in 1 .. Len(ip) : built[j].mask[b] = 1 <=> Keeps(chain[j], b)
  BY <1>3, <1>4, BitsAreKept DEF Made
<1>6. ip \in [1 .. Len(ip) -> {0, 1}] /\ Len(ip) \in {Len4, Len6}
  BY Lengths DEF V4, V6
<1>7. chain[j].overwrite \in [1 .. Len(ip) -> {0, 1}]
  <2>1. chain[j].overwrite \in NetIPs
    BY <1>3 DEF Conf, NetIPs
  <2> QED
    BY <1>4, <2>1, ByLength
<1>8. Rewritten(built[j]) \in [1 .. Len(ip) -> {0, 1}]
  BY <1>3, <1>6, <1>7 DEF Rewritten, Made
<1>9. Rewritten(built[j]) \in V4 \cup V6 /\ Len(Rewritten(built[j])) = Len(ip)
  BY <1>6, <1>8, Lengths DEF V4, V6
<1>10. \A b \in 1 .. Len(ip) :
         Rewritten(built[j])[b] =
           IF Keeps(chain[j], b) THEN ip[b] ELSE chain[j].overwrite[b]
  BY <1>3, <1>5 DEF Rewritten, Made
<1> QED
  BY <1>3, <1>4, <1>9, <1>10

(* At the start nothing is built and nothing has been rewritten.           *)
LEMMA InvInit == Init => Inv
<1> SUFFICES ASSUME Init PROVE Inv
  OBVIOUS
<1>1. chain \in Seq(Conf) /\ Len(chain) \in Nat
  BY MaskRewriteAssumption, LenProperties DEF Init
<1>2. TypeOK
  BY <1>1, EmptySeq DEF Init, TypeOK, NetIPs
<1>3. BuiltOK
  BY <1>1 DEF Init, BuiltOK
<1> QED
  BY <1>2, <1>3 DEF Init, Inv, IPOK

(* Neither the construction nor a transformation breaks the invariant.     *)
LEMMA InvStep == Inv /\ [Next]_vars => Inv'
<1> SUFFICES ASSUME Inv, [Next]_vars PROVE Inv'
  OBVIOUS
<1>a. TypeOK /\ BuiltOK /\ IPOK
  BY DEF Inv
<1>b. /\ chain \in Seq(Conf) /\ Len(chain) \in Nat
      /\ built \in Seq([mask : NetIPs, overwrite : NetIPs]) /\ Len(built) \in Nat
  BY <1>a, MaskRewriteAssumption, LenProperties DEF TypeOK
<1>c. at \in 1 .. Len(chain) + 1
  BY <1>a DEF TypeOK
<1>1. CASE Build
  <2>1. chain[at] \in Conf /\ Valid(chain[at])
    BY <1>1, <1>b, <1>c, ElementOfSeq DEF Build
  <2>2. Made(chain[at]) \in [mask : NetIPs, overwrite : NetIPs]
    BY <2>1, BitsAreKept DEF Made, Conf, NetIPs
  <2>3. built' = Append(built, Made(chain[at])) /\ at = Len(built) + 1
    BY <1>1, <1>a DEF Build, Made, BuiltOK
  <2>4. /\ built' \in Seq([mask : NetIPs, overwrite : NetIPs])
        /\ Len(built') = Len(built) + 1
        /\ \A j \in 1 .. Len(built') : built'[j] = IF j <= Len(built) THEN built[j] ELSE Made(chain[at])
    BY <1>b, <2>2, <2>3
  <2>5. TypeOK'
    BY <1>1, <1>a, <1>b, <1>c, <2>4 DEF Build, TypeOK
  <2>6. BuiltOK'
    BY <1>1, <1>a, <1>b, <1>c, <2>1, <2>3, <2>4 DEF Build, BuiltOK
  <2> QED
    BY <1>1, <2>5, <2>6 DEF Build, Inv, IPOK
<1>2. CASE Reject
  BY <1>2, <1>a, <1>b DEF Reject, Inv, TypeOK, BuiltOK, IPOK
<1>3. CASE Started
  BY <1>3, <1>a, <1>b DEF Started, Inv, TypeOK, BuiltOK, IPOK
<1>4. CASE Lookup
  <2>1. host \in V4 \cup V6
    BY <1>a, MaskRewriteAssumption DEF TypeOK
  <2>2. Yield(host) \in V4 \cup V6
    BY <2>1, MappedIsLong, Lengths DEF Yield
  <2> QED
    BY <1>4, <1>a, <1>b, <2>2 DEF Lookup, Inv, TypeOK, BuiltOK, IPOK, NetIPs
<1>5. CASE Transform
  <2>1. at \in 1 .. Len(built) /\ ip \in V4 \cup V6 /\ Fits(built[at])
    BY <1>5, <1>a, <1>b, <1>c DEF Transform, BuiltOK, IPOK
  <2>2. ip' \in V4 \cup V6 /\ Len(ip') = Len(ip)
    BY <1>5, <1>a, <2>1, RewrittenBits DEF Transform
  <2> QED
    BY <1>5, <1>a, <1>b, <1>c, <2>2 DEF Transform, Inv, TypeOK, BuiltOK, IPOK, NetIPs
<1>6. CASE Mismatch
  BY <1>6, <1>a, <1>b DEF Mismatch, Inv, TypeOK, BuiltOK, IPOK
<1>7. CASE Transformed
  BY <1>7, <1>a, <1>b DEF Transformed, Inv, TypeOK, BuiltOK, IPOK
<1>8. CASE NextPass
  BY <1>8, <1>a, <1>b DEF NextPass, Inv, TypeOK, BuiltOK, IPOK
<1>9. CASE UNCHANGED vars
  BY <1>9, <1>a DEF vars, Inv, TypeOK, BuiltOK, IPOK
<1> QED
  BY <1>1, <1>2, <1>3, <1>4, <1>5, <1>6, <1>7, <1>8, <1>9 DEF Next

(* So the invariant always holds.                                          *)
LEMMA AlwaysInv == Spec => []Inv
<1> QED
  BY InvInit, InvStep, PTL DEF Spec

(* The configuration of transformers, the values newMaskRewrite makes of   *)
(* it and the addresses between them keep their types.                     *)
THEOREM TypeCorrect == Spec => []TypeOK
<1>1. Inv => TypeOK
  BY DEF Inv
<1> QED
  BY <1>1, AlwaysInv, PTL

(* Transform never indexes mask or overwrite past its end, whatever chain  *)
(* newMaskRewrite has accepted.                                            *)
THEOREM IndexesInRange == Spec => []InRange
<1>1. Inv => InRange
  <2> SUFFICES ASSUME Inv, phase = "apply", at <= Len(chain), Fits(built[at])
               PROVE  Len(built[at].mask) = Len(ip)
    BY DEF InRange
  <2>1. Len(chain) \in Nat
    BY MaskRewriteAssumption, LenProperties DEF Inv, TypeOK
  <2>2. at \in 1 .. Len(built) /\ ip \in V4 \cup V6
    BY <2>1 DEF Inv, TypeOK, BuiltOK, IPOK
  <2> QED
    BY <2>2, RewrittenBits DEF Inv
<1> QED
  BY <1>1, AlwaysInv, PTL

-----------------------------------------------------------------------------
(* The overwrites before the next transformer that do not keep a bit. *)
Over(b) == {j \in 1 .. at - 1 : ~Keeps(chain[j], b)}

(* LastOverwriteWins is inductive together with Inv: a transformer keeps a *)
(* bit, or becomes the last overwrite that does not.                       *)
THEOREM LastWins == Spec => []LastOverwriteWins
<1>1. Init => LastOverwriteWins
  BY DEF Init, LastOverwriteWins
<1>2. Inv /\ LastOverwriteWins /\ [Next]_vars => LastOverwriteWins'
  <2> SUFFICES ASSUME Inv, LastOverwriteWins, [Next]_vars PROVE LastOverwriteWins'
    OBVIOUS
  <2>a. Len(chain) \in Nat /\ at \in 1 .. Len(chain) + 1
    BY MaskRewriteAssumption, LenProperties DEF Inv, TypeOK
  <2>1. CASE Build \/ Reject \/ Started \/ Mismatch \/ NextPass
    BY <2>1 DEF Build, Reject, Started, Mismatch, NextPass, LastOverwriteWins
  <2>2. CASE Lookup
    <3>1. at = 1
      BY <2>2 DEF Lookup, Inv, BuiltOK
    <3> QED
      BY <2>2, <3>1 DEF Lookup, LastOverwriteWins
  <2>3. CASE Transform
    <3>1. at \in 1 .. Len(built) /\ ip \in V4 \cup V6 /\ Len(ip) = Len(source)
      BY <2>3, <2>a DEF Transform, Inv, BuiltOK, IPOK
    <3>2. \A b \in 1 .. Len(source) :
            ip'[b] = IF Keeps(chain[at], b) THEN ip[b] ELSE chain[at].overwrite[b]
      BY <2>3, <3>1, RewrittenBits DEF Transform, Inv
    <3> SUFFICES ASSUME NEW b \in 1 .. Len(source)
                 PROVE  IF Over(b)' = {} THEN ip'[b] = source[b]
                        ELSE \E j \in Over(b)' : /\ \A k \in Over(b)' : k <= j
                                                 /\ ip'[b] = chain[j].overwrite[b]
      BY <2>3 DEF Transform, LastOverwriteWins, Over
    <3>3. IF Over(b) = {} THEN ip[b] = source[b]
          ELSE \E j \in Over(b) : /\ \A k \in Over(b) : k <= j
                                  /\ ip[b] = chain[j].overwrite[b]
      BY <2>3 DEF Transform, LastOverwriteWins, Over
    <3>4. at' = at + 1 /\ chain' = chain
      BY <2>3 DEF Transform
    <3>5. CASE Keeps(chain[at], b)
      <4>1. Over(b)' = Over(b)
        BY <2>a, <3>4, <3>5 DEF Over, Keeps
      <4> QED
        BY <3>2, <3>3, <3>5, <4>1
    <3>6. CASE ~Keeps(chain[at], b)
      <4>1. Over(b)' = Over(b) \cup {at} /\ \A k \in Over(b) : k <= at
        BY <2>a, <3>4, <3>6 DEF Over, Keeps
      <4> QED
        BY <2>a, <3>2, <3>6, <4>1
    <3> QED
      BY <3>5, <3>6
  <2>4. CASE Transformed
    BY <2>4 DEF Transformed, LastOverwriteWins, Keeps
  <2>5. CASE UNCHANGED vars
    BY <2>5 DEF vars, LastOverwriteWins, Keeps
  <2> QED
    BY <2>1, <2>2, <2>3, <2>4, <2>5 DEF Next
<1> QED
  BY <1>1, <1>2, AlwaysInv, PTL DEF Spec

-----------------------------------------------------------------------------
(* The comparison in Transform lets an address pass that has the length of *)
(* the overwrite, and no other; and a source of the exact form yields the  *)
(* address of the host as it is.                                           *)
PassedOK ==
  /\ phase \in {"apply", "done"} =>
       \A j \in 1 .. at - 1 : Len(chain[j].overwrite) = Len(source)
  /\ phase = "mismatch" => Len(chain[at].overwrite) # Len(source)
  /\ phase \in {"apply", "done", "mismatch"} /\ form = "exact" => OwnLength(source)

(* Where addresses have their own length, the length tells the family. *)
LEMMA FamilyByLength ==
  ASSUME NEW a \in V4 \cup V6, NEW b \in V4 \cup V6, OwnLength(a), OwnLength(b)
  PROVE  Is4(a) = Is4(b) <=> Len(a) = Len(b)
<1>1. \A c \in V4 \cup V6 : Len(c) \in {Len4, Len6} /\ (Len(c) = Len4 => Is4(c))
  BY Lengths DEF Is4, To4
<1>2. Is4(a) \in BOOLEAN /\ Is4(b) \in BOOLEAN
  BY DEF Is4
<1> QED
  BY <1>1, <1>2 DEF OwnLength

(* An address of the other family never passes a transformer, and one of   *)
(* its own is never rejected, where both are written in their own length.  *)
THEOREM FamiliesAreTold == Spec => []FamilyGuard
<1>1. Init => PassedOK
  BY DEF Init, PassedOK
<1>2. Inv /\ PassedOK /\ [Next]_vars => PassedOK'
  <2> SUFFICES ASSUME Inv, PassedOK, [Next]_vars PROVE PassedOK'
    OBVIOUS
  <2>a. Len(chain) \in Nat /\ at \in 1 .. Len(chain) + 1
    BY MaskRewriteAssumption, LenProperties DEF Inv, TypeOK
  <2>1. CASE Build \/ Reject \/ Started \/ NextPass
    BY <2>1 DEF Build, Reject, Started, NextPass, PassedOK
  <2>2. CASE Lookup
    <3>1. at = 1 /\ phase' = "apply" /\ UNCHANGED <<at, form>>
      BY <2>2 DEF Lookup, Inv, BuiltOK
    <3>2. form = "exact" => source' = host
      BY <2>2 DEF Lookup, Yield
    <3>3. host \in V4 \/ ~Is4(host)
      BY MaskRewriteAssumption DEF Inv, TypeOK
    <3>4. form = "exact" => OwnLength(source)'
      BY <3>2, <3>3, Lengths DEF OwnLength, Is4, To4
    <3> QED
      BY <3>1, <3>4 DEF PassedOK
  <2>3. CASE Transform
    <3>1. at \in 1 .. Len(built) /\ ip \in V4 \cup V6 /\ Len(ip) = Len(source)
      BY <2>3, <2>a DEF Transform, Inv, BuiltOK, IPOK
    <3>2. Len(chain[at].overwrite) = Len(source)
      BY <2>3, <3>1, RewrittenBits DEF Transform, Inv
    <3> QED
      BY <2>3, <2>a, <3>2 DEF Transform, PassedOK, OwnLength
  <2>4. CASE Mismatch
    <3>1. at \in 1 .. Len(built) /\ Len(ip) = Len(source)
      BY <2>4, <2>a DEF Mismatch, Inv, BuiltOK, IPOK
    <3>2. built[at].overwrite = chain[at].overwrite
      <4>1. built[at] = Made(chain[at])
        BY <3>1 DEF Inv, BuiltOK
      <4> QED
        BY <4>1 DEF Made
    <3> QED
      BY <2>4, <3>1, <3>2 DEF Mismatch, Fits, PassedOK, OwnLength
  <2>5. CASE Transformed
    BY <2>5 DEF Transformed, PassedOK, OwnLength
  <2>6. CASE UNCHANGED vars
    BY <2>6 DEF vars, PassedOK, OwnLength
  <2> QED
    BY <2>1, <2>2, <2>3, <2>4, <2>5, <2>6 DEF Next
<1>3. Inv /\ PassedOK => FamilyGuard
  <2> SUFFICES ASSUME Inv, PassedOK, form = "exact",
                      phase \in {"apply", "done", "mismatch"}
               PROVE  FamilyGuard
    BY DEF FamilyGuard
  <2>1. source \in V4 \cup V6 /\ OwnLength(source)
    BY DEF Inv, IPOK, PassedOK
  <2>2. /\ chain \in Seq(Conf) /\ Len(chain) \in Nat
        /\ at \in 1 .. Len(chain) + 1
    BY MaskRewriteAssumption, LenProperties DEF Inv, TypeOK
  <2>3. \A j \in 1 .. Len(chain) : chain[j].overwrite \in V4 \cup V6 \cup {NoAddress}
    <3> SUFFICES ASSUME NEW j \in 1 .. Len(chain)
                 PROVE  chain[j].overwrite \in V4 \cup V6 \cup {NoAddress}
      OBVIOUS
    <3>1. chain[j] \in Conf
      BY <2>2, ElementOfSeq
    <3> QED
      BY <3>1 DEF Conf
  <2>4. ASSUME phase = "mismatch", OwnLength(chain[at].overwrite),
               chain[at].overwrite # NoAddress
        PROVE  Is4(source) # Is4(chain[at].overwrite)
    <3>1. at \in 1 .. Len(chain)
      BY <2>2, <2>4 DEF Inv, BuiltOK
    <3>2. chain[at].overwrite \in V4 \cup V6
      BY <2>3, <2>4, <3>1
    <3> QED
      BY <2>1, <2>4, <3>2, FamilyByLength DEF PassedOK
  <2>5. ASSUME phase \in {"apply", "done"}, NEW j \in 1 .. at - 1,
               OwnLength(chain[j].overwrite)
        PROVE  Is4(source) = Is4(chain[j].overwrite)
    <3>1. j \in 1 .. Len(chain) /\ Len(chain[j].overwrite) = Len(source)
      BY <2>2, <2>5 DEF PassedOK
    <3>2. chain[j].overwrite \in V4 \cup V6
      BY <2>1, <2>3, <3>1, Lengths
    <3> QED
      BY <2>1, <2>5, <3>1, <3>2, FamilyByLength
  <2> QED
    BY <2>4, <2>5 DEF FamilyGuard
<1> QED
  BY <1>1, <1>2, <1>3, AlwaysInv, PTL DEF Spec
=============================================================================
