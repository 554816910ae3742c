--------------------------- MODULE MCMaskRewrite ----------------------------
(* Finite instances of MaskRewrite: IPv4 addresses of two bits, IPv6 ones  *)
(* of four, those that begin with 01 standing for IPv4-mapped ones.        *)
EXTENDS MaskRewrite

Prefix01 == <<0, 1>>

AllHosts == V4 \cup {a \in V6 : ~Is4(a)}

Number(n)  == [kind |-> "number", ones |-> n]
Literal(a) == [kind |-> "address", bits |-> a]

Overwrites ==
  {NoAddress, <<0, 1>>, <<1, 0>>, <<0, 0, 0, 1>>, <<1, 0, 1, 0>>, <<0, 1, 1, 0>>}

Masks ==
  {Number(n) : n \in {0, 1, 2, 3, 5}}
    \cup {Literal(a) : a \in {<<1, 0>>, <<0, 1>>, <<1, 0, 0, 1>>}} \cup {[kind |-> "bad"]}

Confs == [overwrite : Overwrites, mask : Masks]

UpToTwo == {<<>>} \cup [1 .. 1 -> Confs] \cup [1 .. 2 -> Confs]
=============================================================================
