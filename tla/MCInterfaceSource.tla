------------------------- MODULE MCInterfaceSource --------------------------
(* Finite instances of InterfaceSource: two links, of which one is asked   *)
(* for, and tables of up to two addresses, with one of three.              *)
EXTENDS InterfaceSource, TLC

CONSTANTS eth0, eth1, global, eui, private, local, public4, peer4, wide, narrow

AllIPs == {global, eui, private, local, public4, peer4}

Is(type, isGlobal, isPrivate, isEui, size, nets) ==
  [type |-> type, global |-> isGlobal, private |-> isPrivate, eui64 |-> isEui,
   size |-> size, nets |-> nets]

IPTraits ==
  (global :> Is("IPv6", TRUE, FALSE, FALSE, 12, {wide, narrow}))
    @@ (eui :> Is("IPv6", TRUE, FALSE, TRUE, 20, {wide}))
    @@ (private :> Is("IPv6", TRUE, TRUE, FALSE, 8, {}))
    @@ (local :> Is("IPv6", FALSE, FALSE, TRUE, 20, {}))
    @@ (public4 :> Is("IPv4", TRUE, FALSE, FALSE, 12, {}))
    @@ (peer4 :> Is("IPv4", TRUE, FALSE, FALSE, 8, {}))

Msg(i, ip, raw) == [index |-> i, inet |-> TRUE, local |-> NoIP, address |-> ip, raw |-> raw]

OnPointToPoint(i) ==
  [index |-> i, inet |-> TRUE, local |-> public4, address |-> peer4, raw |-> {}]

NotInet(i) == [Msg(i, global, {}) EXCEPT !.inet = FALSE]

Messages ==
  {Msg(1, global, {}), Msg(1, global, {"tentative"}), Msg(1, eui, {}),
   Msg(1, eui, {"dadfailed", "deprecated"}), Msg(1, private, {"secondary"}), Msg(1, local, {"nodad"}),
   OnPointToPoint(1), NotInet(1), Msg(2, global, {"optimistic"})}

LinuxTables ==
  {<<>>} \cup [1 .. 1 -> Messages] \cup [1 .. 2 -> Messages]
    \cup {<<Msg(1, eui, {}), Msg(1, private, {}), Msg(1, local, {})>>}

Uni(i, ip, raw) == [index |-> i, anycast |-> FALSE, ip |-> ip, raw |-> raw]

AnyCast(i, ip) == [index |-> i, anycast |-> TRUE, ip |-> ip, raw |-> {}]

Entries ==
  {AnyCast(1, global), Uni(1, global, {"DnsEligible", "Preferred"}),
   Uni(1, eui, {"Deprecated"}), Uni(1, private, {"DnsEligible", "Duplicate"}),
   Uni(1, local, {"DnsEligible", "Invalid"}), Uni(1, public4, {"Preferred"}),
   Uni(2, private, {"DnsEligible", "Tentative"})}

WindowsTables ==
  {<<>>} \cup [1 .. 1 -> Entries] \cup [1 .. 2 -> Entries]
    \cup {<<AnyCast(1, eui), Uni(1, private, {"DnsEligible", "Tentative"}), Uni(1, global, {"Preferred"})>>}

AllTables == [linux |-> LinuxTables, windows |-> WindowsTables]

Source(type, select, flags, exclude, include) ==
  [link |-> eth0, type |-> type, select |-> select, flags |-> flags,
   exclude |-> exclude, include |-> include]

IPv6(select, flags, exclude, include) ==
  Source(Text("ipv6"), select, [k \in DOMAIN flags |-> Text(flags[k])], exclude, include)

SomePrivate == <<"allow-private", "no-eui64", "allow-temporary">>

FlagLists ==
  {<<>>, <<"allow-private">>, <<"allow-non-global-unicast", "no-eui64">>, <<"allow-bad-dad">>,
   <<"allow-private", "allow-non-global-unicast">>,
   <<"allow-deprecated", "allow-bad-dad", "allow-temporary", "allow-private", "allow-non-global-unicast">>}

Documented ==
  {IPv6(Text("shortest"), f, {}, <<>>) : f \in FlagLists}
    \cup {IPv6(s, SomePrivate, {}, <<>>) : s \in {Absent, Text("shortest"), Text("last")}}
    \cup {IPv6(Text("first"), SomePrivate, x[1], x[2]) :
             x \in {<<{narrow}, <<>>>>, <<{}, <<{wide}>>>>, <<{narrow}, <<{wide}>>>>, <<{}, <<{}>>>>}}
    \cup {Source(Text("ipv4"), Absent, <<>>, {}, <<>>)}

(* Other spellings, numbers that are constants and numbers that are none,  *)
(* what cannot be decoded, and no name.                                    *)
Odd ==
  {Source(Text("v4"), Text("last"), <<Text("allowtemporary"), Number(10)>>, {}, <<>>),
   Source(Number(4), Number(1), <<Number(63)>>, {}, <<>>),
   Source(Absent, Number(3), <<>>, {}, <<>>),
   Source(Text("ipv5"), Absent, <<>>, {}, <<>>),
   Source(Text("ipv6"), Text("longest"), <<>>, {}, <<>>),
   Source(Text("ipv6"), Absent, <<Text("allow-all")>>, {}, <<>>),
   Source(Text("ipv6"), Absent, <<>>, {NoNet}, <<>>),
   Source(Text("ipv6"), Absent, <<>>, {}, <<{wide, NoNet}>>),
   [Source(Text("ipv6"), Absent, <<>>, {}, <<>>) EXCEPT !.link = NoLink]}

AllSettings == Documented \cup Odd
=============================================================================
