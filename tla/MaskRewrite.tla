---------------------------- MODULE MaskRewrite -----------------------------
(***************************************************************************)
(* The mask_rewrite transformer (transformers/mask_rewrite.go): how it is  *)
(* built when the program starts, and what the chain of transformers of an *)
(* address makes of the net.IP that a source yields.                       *)
(***************************************************************************)
EXTENDS NetIP

CONSTANTS
  Hosts,   \* the addresses the host may have
  Forms,   \* the sources: "exact" ones, which yield an address in its own
           \* length, the "interface" source, and the "untyped" cf_trace
  Chains   \* the transformers an address may be configured with

(* A mask is given as a number, as an address, or as neither. *)
Mask ==
  [kind : {"number"}, ones : 0 .. 255] \cup [kind : {"address"}, bits : V4 \cup V6]
    \cup {[kind |-> "bad"]}

Conf == [overwrite : V4 \cup V6 \cup {NoAddress}, mask : Mask]

ASSUME MaskRewriteAssumption ==
  /\ Hosts \subseteq V4 \cup {a \in V6 : ~Is4(a)}
  /\ Forms \subseteq {"exact", "interface", "untyped"}
  /\ Chains \subseteq Seq(Conf)

VARIABLES
  host,   \* the address of the host
  form,   \* the source it is taken from
  chain,  \* the configuration
  built,  \* the maskRewrite values made of it
  phase,  \* "build", "rejected", "lookup", "apply", "done", "mismatch"
  at,     \* the transformer of the chain that is next
  source, \* the net.IP the source yielded
  ip      \* what the transformers made of it so far

vars == <<host, form, chain, built, phase, at, source, ip>>

NetIPs == V4 \cup V6 \cup {NoAddress}

TypeOK ==
  /\ host \in Hosts
  /\ form \in Forms
  /\ chain \in Chains
  /\ built \in Seq([mask : NetIPs, overwrite : NetIPs])
  /\ phase \in {"build", "rejected", "lookup", "apply", "done", "mismatch"}
  /\ at \in 1 .. Len(chain) + 1
  /\ source \in NetIPs /\ ip \in NetIPs

Init ==
  /\ host \in Hosts
  /\ form \in Forms
  /\ chain \in Chains
  /\ built = <<>>
  /\ phase = "build"
  /\ at = 1
  /\ source = NoAddress
  /\ ip = NoAddress

-----------------------------------------------------------------------------
(* Mutants of Valid and Bits: the lengths of mask and overwrite are not    *)
(* compared; one bit more is kept.                                         *)
ValidAnyLength(c) ==
  \/ c.mask.kind = "number" /\ c.mask.ones <= Len(c.overwrite)
  \/ c.mask.kind = "address"

BitsPlusOne(c) ==
  IF c.mask.kind = "number" THEN CIDRMask(c.mask.ones + 1, Len(c.overwrite)) ELSE c.mask.bits

(* newMaskRewrite: whether a mask is valid for the overwrite, ... *)
Valid(c) ==
  \/ c.mask.kind = "number" /\ c.mask.ones <= Len(c.overwrite)
  \/ c.mask.kind = "address" /\ Len(c.mask.bits) = Len(c.overwrite)

(* ... and its bits. *)
Bits(c) ==
  IF c.mask.kind = "number" THEN CIDRMask(c.mask.ones, Len(c.overwrite)) ELSE c.mask.bits

Build ==
  /\ phase = "build" /\ at <= Len(chain)
  /\ Valid(chain[at])
  /\ built' = Append(built, [mask |-> Bits(chain[at]), overwrite |-> chain[at].overwrite])
  /\ at' = at + 1
  /\ UNCHANGED <<host, form, chain, phase, source, ip>>

(* The configuration is refused, and the program does not start. *)
Reject ==
  /\ phase = "build" /\ at <= Len(chain)
  /\ ~Valid(chain[at])
  /\ phase' = "rejected"
  /\ UNCHANGED <<host, form, chain, built, at, source, ip>>

Started ==
  /\ phase = "build" /\ at > Len(chain)
  /\ phase' = "lookup"
  /\ at' = 1
  /\ UNCHANGED <<host, form, chain, built, source, ip>>

-----------------------------------------------------------------------------
(* The net.IP for address a: the interface source makes every IPv4 address *)
(* with net.IPv4, and cf_trace takes As16 of any address unless a type is  *)
(* configured.                                                             *)
Yield(a) == IF form # "exact" /\ Len(a) = Len4 THEN Mapped(a) ELSE a

Lookup ==
  /\ phase = "lookup"
  /\ source' = Yield(host)
  /\ ip' = source'
  /\ phase' = "apply"
  /\ UNCHANGED <<host, form, chain, built, at>>

(* Mutant of Fits: only an address that is too long is rejected. *)
FitsInto(t) == Len(ip) <= Len(t.overwrite)

Fits(t) == Len(ip) = Len(t.overwrite)

Rewritten(t) ==
  [b \in 1 .. Len(ip) |-> IF t.mask[b] = 1 THEN ip[b] ELSE t.overwrite[b]]

Transform ==
  /\ phase = "apply" /\ at <= Len(chain)
  /\ Fits(built[at])
  /\ ip' = Rewritten(built[at])
  /\ at' = at + 1
  /\ UNCHANGED <<host, form, chain, built, phase, source>>

(* "mismatched IP family" *)
Mismatch ==
  /\ phase = "apply" /\ at <= Len(chain)
  /\ ~Fits(built[at])
  /\ phase' = "mismatch"
  /\ UNCHANGED <<host, form, chain, built, at, source, ip>>

(* Mutant of Transformed: the index is counted on once more. *)
TransformedPastEnd ==
  /\ phase = "apply" /\ at > Len(chain)
  /\ phase' = "done"
  /\ at' = at + 1
  /\ UNCHANGED <<host, form, chain, built, source, ip>>

Transformed ==
  /\ phase = "apply" /\ at > Len(chain)
  /\ phase' = "done"
  /\ UNCHANGED <<host, form, chain, built, at, source, ip>>

(* The next pass; the host may have been given another address. *)
NextPass ==
  /\ phase \in {"done", "mismatch"}
  /\ host' \in Hosts
  /\ phase' = "lookup"
  /\ at' = 1
  /\ UNCHANGED <<form, chain, built, source, ip>>

Next ==
  Build \/ Reject \/ Started \/ Lookup \/ Transform \/ Mismatch \/ Transformed \/ NextPass

Spec == Init /\ [][Next]_vars

-----------------------------------------------------------------------------
(* The loop of Transform indexes mask and overwrite by the bytes of the    *)
(* address, and would panic if one of them were shorter: newMaskRewrite    *)
(* and the comparison of lengths in Transform rule that out between them.  *)
InRange ==
  phase = "apply" /\ at <= Len(chain) /\ Fits(built[at])
    => Len(built[at].mask) = Len(ip)

(* Whether transformer c keeps bit b. *)
Keeps(c, b) ==
  IF c.mask.kind = "number" THEN b <= c.mask.ones ELSE c.mask.bits[b] = 1

(* example.toml:135: the first "mask" bits are kept, or the bits that are  *)
(* set in the mask, and the rest is replaced with corresponding bits in    *)
(* overwrite.  Over a whole chain: a bit is that of the last overwrite     *)
(* that does not keep it, and the source's where all of them do.           *)
LastOverwriteWins ==
  phase \in {"apply", "done"} =>
     \A b \in 1 .. Len(source) :
        LET over == {j \in 1 .. at - 1 : ~Keeps(chain[j], b)} IN
        IF over = {} THEN ip[b] = source[b]
        ELSE \E j \in over : /\ \A k \in over : k <= j
                             /\ ip[b] = chain[j].overwrite[b]

(* An IPv4 address may be written as IPv6, "::ffff:192.0.2.1".             *)
OwnLength(a) == Is4(a) => Len(a) = Len4

(* mask_rewrite.go:25: "mismatched IP family".  A transformer rejects the  *)
(* addresses of the other family than its overwrite, and only them, where  *)
(* the source yields addresses in their own length and the overwrite is    *)
(* written in its own.  Neither holds of every configuration: an IPv4      *)
(* address of the interface source is rejected by an IPv4 overwrite, and   *)
(* passes one of IPv6.                                                     *)
FamilyGuard ==
  form = "exact" =>
    /\ phase = "mismatch" /\ OwnLength(chain[at].overwrite) /\ chain[at].overwrite # NoAddress
         => Is4(source) # Is4(chain[at].overwrite)
    /\ phase \in {"apply", "done"} =>
         \A j \in 1 .. at - 1 :
            OwnLength(chain[j].overwrite) => Is4(source) = Is4(chain[j].overwrite)
=============================================================================
