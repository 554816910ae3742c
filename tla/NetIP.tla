------------------------------- MODULE NetIP --------------------------------
(***************************************************************************)
(* The values of Go's net.IP, as this program uses them: sequences of      *)
(* bits, of the length of an IPv4 or of an IPv6 address.  An IPv4 address  *)
(* has two such values, its own bits and the same bits behind a prefix.    *)
(***************************************************************************)
EXTENDS Naturals, Sequences

CONSTANTS
  Len4,         \* the bits of an IPv4 address (32)
  MappedPrefix  \* what precedes them in the longer form (80 zeros, 16 ones)

ASSUME NetIPAssumption ==
  /\ Len4 \in Nat \ {0}
  /\ MappedPrefix \in Seq({0, 1}) /\ MappedPrefix # <<>>

Len6 == Len(MappedPrefix) + Len4

V4 == [1 .. Len4 -> {0, 1}]
V6 == [1 .. Len6 -> {0, 1}]

NoAddress == <<>>

(* net.IPv4, and netip.Addr.As16 of an IPv4 address. *)
Mapped(ip) == MappedPrefix \o ip

(* IP.To4: nil for what is no IPv4 address in either form. *)
To4(ip) ==
  IF Len(ip) = Len4 THEN ip
  ELSE IF Len(ip) = Len6 /\ SubSeq(ip, 1, Len(MappedPrefix)) = MappedPrefix
  THEN SubSeq(ip, Len(MappedPrefix) + 1, Len6)
  ELSE NoAddress

Is4(ip) == To4(ip) # NoAddress

(* net.CIDRMask, which knows the two lengths only. *)
CIDRMask(ones, bits) ==
  IF bits \in {Len4, Len6}
  THEN [b \in 1 .. bits |-> IF b <= ones THEN 1 ELSE 0]
  ELSE NoAddress
=============================================================================
