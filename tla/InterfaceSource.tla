-------------------------- MODULE InterfaceSource ---------------------------
(***************************************************************************)
(* The "interface" source (sources/interface.go), from its options to the  *)
(* address it picks from the kernel's tables of links and addresses, as    *)
(* netif reads them on Linux and on Windows.  The two tables are read one  *)
(* after the other, and the kernel changes them meanwhile.                 *)
(***************************************************************************)
EXTENDS Naturals, Sequences, FiniteSets, Decoding

CONSTANTS
  Indexes,  \* of links
  Links,    \* names of links
  NoLink,
  IPs,
  NoIP,
  Traits,   \* Traits[ip]: what the code asks of an address, see Trait
  Nets,     \* the prefixes that are configured somewhere
  NoNet,    \* a text that is no prefix
  Tables,   \* Tables[s]: the tables of addresses that a kernel of system s may hold
  Settings, \* the sources as they are written in the configuration
  Room,     \* the addresses that fit into the buffer first offered to Windows
  Changes   \* how often the kernel's tables may change during a lookup

Systems == {"linux", "windows"}

(* The kernel's flags (linux/if_addr.h), and on Windows the state of the   *)
(* duplicate address detection, of which there is one, with IpAdapter-     *)
(* AddressDnsEligible ...                                                  *)
RawFlags == {"dadfailed", "deprecated", "nodad", "optimistic", "secondary", "tentative"}

DadStates == {"Invalid", "Tentative", "Duplicate", "Deprecated", "Preferred"}

(* ... those of netif ... *)
AddrFlags == {"duplicated", "tentative", "nodad", "deprecated", "temporary"}

(* ... and the options of the source. *)
FilterFlags == {IPFilterFlag[k] : k \in DOMAIN IPFilterFlag}

(* size is the length of the address as text; eui64 is what bytes 11 and   *)
(* 12 of its 16 byte form say, be it an IPv4 address or not.               *)
Trait ==
  [type : {"IPv4", "IPv6"}, global : BOOLEAN, private : BOOLEAN, eui64 : BOOLEAN,
   size : Nat, nets : SUBSET Nets]

(* RTM_NEWADDR with its attributes IFA_LOCAL, IFA_ADDRESS and IFA_FLAGS,   *)
(* any of which may be missing; the family may be one that is not IP.      *)
Message ==
  [index : Indexes, inet : BOOLEAN, local : IPs \cup {NoIP}, address : IPs \cup {NoIP},
   raw : SUBSET RawFlags]

(* An address in the list of an adapter, a unicast one in one of the       *)
(* states, or an anycast one.                                              *)
Entry ==
  [index : Indexes, anycast : {FALSE}, ip : IPs,
   raw : {{s} : s \in DadStates} \cup {{s, "DnsEligible"} : s \in DadStates}]
  \cup [index : Indexes, anycast : {TRUE}, ip : IPs, raw : {{}}]

(* The options as they are written. *)
Option == {Absent} \cup ({"text"} \X STRING) \cup ({"number"} \X Nat)

Setting ==
  [link : Links \cup {NoLink}, type : Option, select : Option,
   flags : Seq(Option \ {Absent}), exclude : SUBSET (Nets \cup {NoNet}),
   include : {<<>>} \cup {<<s>> : s \in SUBSET (Nets \cup {NoNet})}]

(* include is empty where it is not configured; an empty list is not.      *)
Config ==
  [link : Links \cup {NoLink}, type : {"IPv4", "IPv6", Unknown},
   select : {"first", "shortest", "last", Unknown}, flag : SUBSET FilterFlags,
   exclude : SUBSET Nets, include : {<<>>} \cup {<<s>> : s \in SUBSET Nets}]

Errors ==
  {"find interface failed", "get address failed", "no eligible IP found", "unexpected select mode"}

ASSUME InterfaceSourceAssumption ==
  /\ NoLink \notin Links
  /\ NoIP \notin IPs /\ Errors \cap (IPs \cup {NoIP}) = {}
  /\ NoNet \notin Nets
  /\ Settings \subseteq Setting
  /\ Traits \in [IPs -> Trait]
  /\ Tables["linux"] \subseteq Seq(Message)
  /\ Tables["windows"] \subseteq Seq(Entry)
  /\ Room \in Nat
  /\ Changes \in Nat

VARIABLES
  system,    \* what the program runs on
  setting,   \* the source, as it is written
  config,    \* the source, as it is decoded
  links,     \* the kernel's links by index
  table,     \* the kernel's addresses
  changes,   \* how often the kernel has changed something in this lookup
  named,     \* history: the links that have had the name since the lookup began
  held,      \* history: the addresses of their own that such links have had since
  pc,        \* "new", "refused", or "idle", "find", "read", "filter", "choose"
  room,      \* the addresses that the buffer of adapterAddresses has room for
  index,     \* the link that was found
  addrs,     \* what Addrs returned
  at,        \* the index of the loop over it
  candidate, \* candidate
  result     \* of the last lookup: an address, or why there is none

kernel == <<links, table, changes, named, held>>
source == <<system, setting, config>>
vars   == <<source, kernel, pc, room, index, addrs, at, candidate, result>>

Addr ==
  [ip : IPs, flags : SUBSET AddrFlags, raw : SUBSET (RawFlags \cup DadStates \cup {"DnsEligible"})]

NoConfig ==
  [link |-> NoLink, type |-> "IPv4", select |-> "first", flag |-> {}, exclude |-> {}, include |-> <<>>]

TypeOK ==
  /\ system \in Systems
  /\ setting \in Settings
  /\ config \in Config
  /\ links \in [Indexes -> Links \cup {NoLink}]
  /\ table \in Tables[system]
  /\ changes \in 0 .. Changes
  /\ named \subseteq Indexes /\ held \subseteq IPs
  /\ pc \in {"new", "refused", "idle", "find", "read", "filter", "choose"}
  /\ room \in Nat
  /\ index \in Indexes \cup {0}
  /\ addrs \in Seq(Addr)
  /\ at \in Nat \ {0}
  /\ candidate \in Seq(IPs)
  /\ result \in IPs \cup {NoIP} \cup Errors

DistinctNames ==
  \A i, j \in Indexes : links[i] = links[j] /\ links[i] # NoLink => i = j

Init ==
  /\ system \in Systems
  /\ setting \in Settings
  /\ config = NoConfig
  /\ links \in [Indexes -> Links \cup {NoLink}] /\ DistinctNames
  /\ table \in Tables[system]
  /\ changes = 0
  /\ named = {} /\ held = {}
  /\ pc = "new"
  /\ room = Room
  /\ index = 0
  /\ addrs = <<>>
  /\ at = 1
  /\ candidate = <<>>
  /\ result = NoIP

-----------------------------------------------------------------------------
(* newInterface *)
Type   == Decode(setting.type, Family, FamilyTexts)
Select == Decode(setting.select, IPSelectMode, SelectTexts)
Flags  == UNION {DecodeFlag(setting.flags[k]) : k \in DOMAIN setting.flags}

Decodes ==
  /\ Invalid \notin {Type, Select} \cup Flags
  /\ NoNet \notin setting.exclude \cup UNION {setting.include[k] : k \in DOMAIN setting.include}

New ==
  /\ pc = "new"
  /\ Decodes
  /\ config' = [link |-> setting.link, type |-> Type, select |-> Select, flag |-> Flags,
                exclude |-> setting.exclude, include |-> setting.include]
  /\ pc' = "idle"
  /\ UNCHANGED <<system, setting, kernel, room, index, addrs, at, candidate, result>>

(* The program does not start. *)
BadConfig ==
  /\ pc = "new"
  /\ ~Decodes
  /\ pc' = "refused"
  /\ UNCHANGED <<source, kernel, room, index, addrs, at, candidate, result>>

-----------------------------------------------------------------------------
(* The links that have the configured name. *)
Named(ls) == {i \in Indexes : ls[i] # NoLink /\ ls[i] = config.link}

(* The addresses that links of S have in a table, as linux/if_addr.h has   *)
(* it: IFA_LOCAL is a link's own address, and on a point-to-point link     *)
(* IFA_ADDRESS is the one of the other end; elsewhere the two are the same *)
(* or the former is missing.                                               *)
OwnOf(t, S) ==
  {ip \in IPs : \E k \in DOMAIN t :
     /\ t[k].index \in S
     /\ IF system = "linux" THEN t[k].inet /\ ip = IF t[k].local = NoIP THEN t[k].address ELSE t[k].local
        ELSE ip = t[k].ip}

Begin ==
  /\ pc = "idle"
  /\ pc' = "find"
  /\ changes' = 0
  /\ named' = Named(links)
  /\ held' = OwnOf(table, named')
  /\ room' = Room
  /\ index' = 0
  /\ addrs' = <<>>
  /\ at' = 1
  /\ candidate' = <<>>
  /\ result' = NoIP
  /\ UNCHANGED <<source, links, table>>

(* adapterAddresses on Windows: the buffer is too small, and is made as    *)
(* large as the table was that did not fit.                                *)
Fits == system = "windows" => Len(table) <= room

(* Mutant of Enlarge: the size is not taken over. *)
EnlargeNot ==
  /\ pc \in {"find", "read"} /\ ~Fits
  /\ UNCHANGED vars

Enlarge ==
  /\ pc \in {"find", "read"} /\ ~Fits
  /\ room' = Len(table)
  /\ UNCHANGED <<source, kernel, pc, index, addrs, at, candidate, result>>

(* interfaceTable, of which only the index and the name of a link matter.  *)
NewLink(i) == [index |-> i, name |-> links[i]]
Adapter(i) == [index |-> i, name |-> links[i]]

InterfaceTable ==
  {IF system = "linux" THEN NewLink(i) ELSE Adapter(i) : i \in {j \in Indexes : links[j] # NoLink}}

(* InterfaceByName *)
FindInterface ==
  /\ pc = "find" /\ Fits
  /\ \E ifi \in InterfaceTable :
       /\ ifi.name = config.link
       /\ index' = ifi.index
  /\ pc' = "read"
  /\ room' = Room
  /\ UNCHANGED <<source, kernel, addrs, at, candidate, result>>

Return(r) ==
  /\ pc' = "idle"
  /\ result' = r
  /\ UNCHANGED <<source, kernel, room, index, addrs, at, candidate>>

(* There is no such link, or no name is configured.                        *)
NotFound ==
  /\ pc = "find" /\ Fits
  /\ \A ifi \in InterfaceTable : ifi.name # config.link
  /\ Return("find interface failed")

(* The request for the links or for the addresses fails.                   *)
FindFails ==
  /\ pc = "find"
  /\ Return("find interface failed")

ReadFails ==
  /\ pc = "read"
  /\ Return("get address failed")

(* newAddr: the address is IFA_LOCAL, or IFA_ADDRESS where that is missing *)
(* (on a point-to-point link IFA_ADDRESS is the other end).                *)
AddressOf(m) ==
  IF ~m.inet THEN NoIP ELSE IF m.local # NoIP THEN m.local ELSE m.address

FlagsOf(raw) ==
  {f \in AddrFlags :
     \/ f = "duplicated" /\ "dadfailed" \in raw
     \/ f = "deprecated" /\ "deprecated" \in raw
     \/ f = "nodad" /\ "nodad" \in raw
     \/ f = "tentative" /\ raw \cap {"optimistic", "tentative"} # {}
     \/ f = "temporary" /\ "secondary" \in raw}

(* Mutant of Usable: of whichever link the address is (netif takes that to *)
(* be asked for where it is given no link).                                *)
UsableAnywhere(m) == AddressOf(m) # NoIP

Usable(m) == m.index = index /\ AddressOf(m) # NoIP

(* The elements of S in their order: there is one such sequence.           *)
Ascending(S) ==
  {f \in [1 .. Cardinality(S) -> S] : \A i, j \in DOMAIN f : i < j => f[i] < f[j]}

NewAddr(m) == [ip |-> AddressOf(m), flags |-> FlagsOf(m.raw), raw |-> m.raw]

(* Addrs on Linux: addrTable over the messages of the kernel.  Where the   *)
(* link has gone in the meantime there are no addresses, which is no error. *)
ReadAddrs ==
  /\ pc = "read" /\ system = "linux"
  /\ \E mine \in Ascending({k \in DOMAIN table : Usable(table[k])}) :
       addrs' = [k \in DOMAIN mine |-> NewAddr(table[mine[k]])]
  /\ pc' = "filter"
  /\ UNCHANGED <<source, kernel, room, index, at, candidate, result>>

(* On Windows a unicast address is temporary unless it may be in DNS. *)
FlagsOfUnicast(raw) ==
  {f \in AddrFlags :
     \/ f = "temporary" /\ "DnsEligible" \notin raw
     \/ f = "nodad" /\ "Invalid" \in raw
     \/ f = "tentative" /\ "Tentative" \in raw
     \/ f = "deprecated" /\ "Deprecated" \in raw
     \/ f = "duplicated" /\ "Duplicate" \in raw}

NewUnicast(e) == [ip |-> e.ip, flags |-> FlagsOfUnicast(e.raw), raw |-> e.raw]

(* Addrs on Windows: of an adapter's addresses the unicast ones come       *)
(* first, and then the anycast ones, of which nothing more is recorded.    *)
ReadAdapters ==
  /\ pc = "read" /\ system = "windows" /\ Fits
  /\ LET mine == {k \in DOMAIN table : table[k].index = index}
         any  == {k \in mine : table[k].anycast}
     IN  \E u \in Ascending(mine \ any), y \in Ascending(any) :
           addrs' = [k \in DOMAIN u |-> NewUnicast(table[u[k]])]
                      \o [k \in DOMAIN y |-> [ip |-> table[y[k]].ip, flags |-> {}, raw |-> {}]]
  /\ pc' = "filter"
  /\ UNCHANGED <<source, kernel, room, index, at, candidate, result>>

Match(f) == f \in config.flag

(* Mutant of Discarded: only duplicates count as a bad state, and an empty *)
(* list of prefixes to include is taken for none.                          *)
DiscardedLess(a) ==
  LET t == Traits[a.ip] IN
  \/ (config.type = "IPv4") # (t.type = "IPv4")
  \/ ~Match("nonglobalunicast") /\ ~t.global
  \/ ~Match("private") /\ t.private
  \/ Match("noeui64") /\ t.eui64
  \/ ~Match("temporary") /\ "temporary" \in a.flags
  \/ ~Match("baddad") /\ "duplicated" \in a.flags
  \/ ~Match("deprecated") /\ "deprecated" \in a.flags
  \/ config.exclude \cap t.nets # {}
  \/ config.include \notin {<<>>, <<{}>>} /\ config.include[1] \cap t.nets = {}

(* The reasons for which the loop of Lookup discards an address.           *)
Discarded(a) ==
  LET t == Traits[a.ip] IN
  \/ (config.type = "IPv4") # (t.type = "IPv4")
  \/ ~Match("nonglobalunicast") /\ ~t.global
  \/ ~Match("private") /\ t.private
  \/ Match("noeui64") /\ t.eui64
  \/ ~Match("temporary") /\ "temporary" \in a.flags
  \/ ~Match("baddad") /\ a.flags \cap {"duplicated", "tentative"} # {}
  \/ ~Match("deprecated") /\ "deprecated" \in a.flags
  \/ config.exclude \cap t.nets # {}
  \/ config.include # <<>> /\ config.include[1] \cap t.nets = {}

Discard ==
  /\ pc = "filter" /\ at <= Len(addrs)
  /\ Discarded(addrs[at])
  /\ at' = at + 1
  /\ UNCHANGED <<source, kernel, pc, room, index, addrs, candidate, result>>

AddCandidate ==
  /\ pc = "filter" /\ at <= Len(addrs)
  /\ ~Discarded(addrs[at])
  /\ candidate' = Append(candidate, addrs[at].ip)
  /\ at' = at + 1
  /\ UNCHANGED <<source, kernel, pc, room, index, addrs, result>>

(* Mutant of EndFilter: the index is reset, to what Go starts with. *)
EndFilterAtZero ==
  /\ pc = "filter" /\ at > Len(addrs)
  /\ pc' = "choose"
  /\ at' = 0
  /\ UNCHANGED <<source, kernel, room, index, addrs, candidate, result>>

EndFilter ==
  /\ pc = "filter" /\ at > Len(addrs)
  /\ pc' = "choose"
  /\ UNCHANGED <<source, kernel, room, index, addrs, at, candidate, result>>

NoEligible ==
  /\ pc = "choose"
  /\ candidate = <<>>
  /\ Return("no eligible IP found")

(* The candidate that a stable sort by length puts first. *)
Shorter(i, j) ==
  LET s == Traits[candidate[i]].size
      t == Traits[candidate[j]].size
  IN  s < t \/ (s = t /\ i <= j)

Pick ==
  /\ pc = "choose"
  /\ \E i \in DOMAIN candidate :
       /\ config.select = "first" => i = 1
       /\ config.select = "last" => i = Len(candidate)
       /\ config.select = "shortest" => \A j \in DOMAIN candidate : Shorter(i, j)
       /\ config.select # Unknown
       /\ Return(candidate[i])

UnexpectedSelect ==
  /\ pc = "choose"
  /\ candidate # <<>> /\ config.select = Unknown
  /\ Return("unexpected select mode")

-----------------------------------------------------------------------------
(* The kernel: external.  Before either request of a lookup a link may be  *)
(* renamed or removed, and addresses come, go, or change their state; what *)
(* happens after them the lookup does not see.                             *)
KernelMay ==
  /\ pc \in {"find", "read"} /\ changes < Changes
  /\ changes' = changes + 1
  /\ UNCHANGED <<source, pc, room, index, addrs, at, candidate, result>>

(* The histories, which no step looks at. *)
Record ==
  /\ named' = named \cup Named(links')
  /\ held' = held \cup OwnOf(table', named')

LinkChanges ==
  /\ KernelMay
  /\ \E i \in Indexes, n \in Links \cup {NoLink} : links' = [links EXCEPT ![i] = n]
  /\ DistinctNames'
  /\ table' = table
  /\ Record

AddressesChange ==
  /\ KernelMay
  /\ table' \in Tables[system]
  /\ links' = links
  /\ Record

(* What the program does by itself, once a lookup has begun. *)
Work ==
  \/ Enlarge \/ FindInterface \/ NotFound \/ ReadAddrs \/ ReadAdapters
  \/ Discard \/ AddCandidate \/ EndFilter \/ NoEligible \/ Pick \/ UnexpectedSelect

Next ==
  \/ New \/ BadConfig \/ Begin \/ Work \/ FindFails \/ ReadFails
  \/ LinkChanges \/ AddressesChange

Spec == Init /\ [][Next]_vars

(* The goroutine keeps running; nothing makes a request fail, the kernel   *)
(* change anything, or another lookup begin.                               *)
FairSpec == Spec /\ WF_vars(Work)

-----------------------------------------------------------------------------
(* The spellings of example.toml:96. *)
Spelled ==
  [nonglobalunicast |-> "allow-non-global-unicast", private |-> "allow-private",
   noeui64 |-> "no-eui64", temporary |-> "allow-temporary", baddad |-> "allow-bad-dad",
   deprecated |-> "allow-deprecated"]

SpelledAsDocumented ==
  /\ setting.type \in {Text("ipv4"), Text("ipv6")}
  /\ setting.select \in {Absent, Text("first"), Text("shortest"), Text("last")}
  /\ \A k \in DOMAIN setting.flags : \E f \in FilterFlags : setting.flags[k] = Text(Spelled[f])

Asks(f) == \E k \in DOMAIN setting.flags : setting.flags[k] = Text(Spelled[f])

(* What an address needs a flag for, going by what the kernel says of it.  *)
(* Windows says whether a unicast address may be in DNS, not whether it is *)
(* temporary, and nothing of an anycast address.                           *)
Objections(a) ==
  LET t == Traits[a.ip]
      temporary == IF system = "linux" THEN "secondary" \in a.raw
                   ELSE a.raw # {} /\ "DnsEligible" \notin a.raw
  IN {f \in FilterFlags :
        \/ f = "nonglobalunicast" /\ ~t.global
        \/ f = "private" /\ t.private
        \/ f = "temporary" /\ temporary
        \/ f = "baddad" /\ a.raw \cap {"dadfailed", "Duplicate", "tentative", "optimistic", "Tentative"} # {}
        \/ f = "deprecated" /\ a.raw \cap {"deprecated", "Deprecated"} # {}}

Eligible(a) ==
  LET t == Traits[a.ip] IN
  /\ t.type = IF setting.type = Text("ipv4") THEN "IPv4" ELSE "IPv6"
  /\ \A f \in Objections(a) : Asks(f)
  /\ ~(Asks("noeui64") /\ t.eui64)
  /\ \A net \in setting.exclude : net \notin t.nets
  /\ \A k \in DOMAIN setting.include : \E net \in setting.include[k] : net \in t.nets

EligibleAt == {k \in DOMAIN addrs : Eligible(addrs[k])}

Size(k) == Traits[addrs[k].ip].size

(* The address that is picked is the first, the last, or the first of the  *)
(* shortest of those in the table that was read which the configuration,   *)
(* as it is written, allows for the state in which the kernel says they    *)
(* are; and there is none only if no address is allowed: from the texts    *)
(* and the kernel's flags through decoding, filtering, sorting and the     *)
(* fall from one way of selecting to the next.                             *)
PicksAsDocumented ==
  pc = "idle" /\ SpelledAsDocumented =>
    /\ result = "no eligible IP found" => EligibleAt = {}
    /\ result \in IPs =>
         \E k \in EligibleAt :
            /\ result = addrs[k].ip
            /\ setting.select \in {Absent, Text("first")} => \A j \in EligibleAt : k <= j
            /\ setting.select = Text("last") => \A j \in EligibleAt : j <= k
            /\ setting.select = Text("shortest") =>
                 \A j \in EligibleAt : Size(k) < Size(j) \/ (Size(k) = Size(j) /\ k <= j)

(* Though the links and the addresses are read one after the other, and a  *)
(* link may lose its name, go, or come back as another between the two,    *)
(* the address that is picked was at a moment of the lookup one of its own *)
(* (and never the other end's) of a link that by then had had the name     *)
(* that is configured: none is taken from another link, none is left over  *)
(* from before the lookup.                                                 *)
AddressOfLink == result \in IPs => result \in held

(* A lookup ends, though no request for the tables need fail: however the  *)
(* table of addresses grows between two requests, the buffer for it is     *)
(* large enough at last, unless the table never stops growing.             *)
LookupReturns == pc \in {"find", "read"} ~> pc = "idle"
=============================================================================
