----------------------------- MODULE HttpSource -----------------------------
(***************************************************************************)
(* The sources that ask a web server which address it sees: "simple"       *)
(* (sources/simple.go), which searches the answer for something like an    *)
(* address, and "cf_trace" (sources/cf_trace.go), which takes the value of *)
(* the first line that begins with "ip=".                                  *)
(***************************************************************************)
EXTENDS Naturals, Sequences

CONSTANTS
  V4, V6,  \* addresses of the two families
  NoIP,
  Own,     \* in a page: the address the server sees
  Junk,    \* ... text that is no address, or a line that is not "ip="
  Empty,   \* ... a line that is "ip=" and nothing else
  Garbled, \* ... what looks like an address and cannot be parsed as one
  Pages,   \* what servers answer, as sequences of these and of addresses
  Limit,   \* how many items of a page are read in full
  Pieces,  \* Pieces[ip]: what is left of ip where the reading stops inside it
  Configs  \* the configured sources

Families == {"IPv4", "IPv6"}

(* A simple source has a type, IPv4 by default; a cf_trace source may have *)
(* none ("any").  A number for a type is taken unread, be it a constant    *)
(* of the families' or not ("unknown": WeakDecodeMap, util.go:27).  host   *)
(* is that of the URL: a name, or an address of a family.                  *)
Config ==
  [source : {"simple"}, type : Families \cup {"unknown"}, host : {"name"}, force : {"none"},
   ip_host : {FALSE}, timeout : BOOLEAN]
  \cup
  [source : {"cf_trace"}, type : Families \cup {"any", "unknown"}, host : {"name"} \cup Families,
   force : {"none"} \cup Families, ip_host : BOOLEAN, timeout : BOOLEAN]

IPs == V4 \cup V6

(* An item as it is read: an IPv4 address may be written as IPv6 ("mapped": *)
(* ::ffff:1.2.3.4), and the last item may be the begin of a longer one.    *)
Item == [form : {"plain", "mapped", "piece"}, is : IPs \cup {Junk, Empty, Garbled}]

Plain(x)  == [form |-> "plain", is |-> x]
Mapped(x) == [form |-> "mapped", is |-> x]
Piece(x)  == [form |-> "piece", is |-> x]

Errors == {"connection failed", "no IP found", "found bad IP", "mismatched IP family"}

ASSUME HttpSourceAssumption ==
  /\ V4 \cap V6 = {}
  /\ Errors \cap (IPs \cup {NoIP}) = {}
  /\ {NoIP, Own, Junk, Empty, Garbled} \cap IPs = {}
  /\ Garbled \notin {NoIP, Own, Junk, Empty} /\ Empty \notin {Own, Junk}
  /\ Pages \subseteq Seq(IPs \cup {Own, Junk, Empty, Garbled})
  /\ Limit \in Nat
  /\ Pieces \in [IPs -> SUBSET (IPs \cup {Junk, Garbled})]
  /\ \A ip \in IPs : Pieces[ip] # {} /\ (Pieces[ip] \cap V4 = {} \/ Pieces[ip] \cap V6 = {})
  /\ Configs \subseteq Config

VARIABLES
  config, \* the source
  host,   \* the host's address of each family
  honest, \* whether servers show no address but the one they see
  held,   \* all the addresses it has had since the lookup began
  pc,     \* where in Lookup: "idle", "dial", "wait", "parse", or "panicked"
  peer,   \* the host's end of the connection
  idle,   \* the host's end of a connection that was kept for reuse
  body,   \* the answer, as far as it is read
  result  \* of the last lookup: an address, or why there is none

vars == <<config, host, honest, held, pc, peer, idle, body, result>>

TypeOK ==
  /\ config \in Configs
  /\ host \in [Families -> IPs \cup {NoIP}]
  /\ honest \in BOOLEAN
  /\ held \subseteq IPs
  /\ pc \in {"idle", "dial", "wait", "parse", "panicked"}
  /\ peer \in IPs \cup {NoIP} /\ idle \in IPs \cup {NoIP}
  /\ body \in Seq(Item)
  /\ result \in IPs \cup {NoIP} \cup Errors

Family(ip) == IF ip \in V4 THEN "IPv4" ELSE "IPv6"
Of(f)      == IF f = "IPv4" THEN V4 ELSE V6

Init ==
  /\ config \in Configs
  /\ host \in [Families -> IPs \cup {NoIP}]
  /\ \A f \in Families : host[f] \in Of(f) \cup {NoIP}
  /\ honest \in BOOLEAN
  /\ held = {}
  /\ pc = "idle"
  /\ peer = NoIP
  /\ idle = NoIP
  /\ body = <<>>
  /\ result = NoIP

-----------------------------------------------------------------------------
Begin ==
  /\ pc = "idle"
  /\ pc' = "dial"
  /\ held' = {host[f] : f \in Families} \ {NoIP}
  /\ result' = NoIP
  /\ UNCHANGED <<config, host, honest, peer, idle, body>>

(* newCloudflareTrace: where the host is an address, that is connected to, *)
(* and the usual host is asked for there, unless ip_host says otherwise.   *)
Target ==
  IF config.host \in Families /\ ~config.ip_host THEN config.host
  ELSE IF config.force # "none" THEN config.force
  ELSE config.host

(* wrapDialer: a type that is a family restricts the network, and          *)
(* force_address replaces the address that is dialled; an address is       *)
(* reached in its own family only.                                         *)
Dialled(f) ==
  /\ config.type \in Families => f = config.type
  /\ Target \in Families => f = Target

(* Mutant of Shared: all lookups use the transport of the default client.  *)
SharedByAll == config \in Config

(* A lookup that needs a dialer of its own clones the transport, and with  *)
(* it gets an empty pool of connections; any other uses the default client *)
(* and the connections that were kept there.                               *)
Shared ==
  /\ config.source = "cf_trace" /\ config.type = "any"
  /\ config.force = "none"
  /\ config.host \in Families => config.ip_host

Dial(f) ==
  /\ pc = "dial"
  /\ ~Shared \/ idle = NoIP
  /\ Dialled(f)
  /\ host[f] # NoIP
  /\ peer' = host[f]
  /\ pc' = "wait"
  /\ UNCHANGED <<config, host, honest, held, idle, body, result>>

Reuse ==
  /\ pc = "dial"
  /\ Shared /\ idle # NoIP
  /\ peer' = idle
  /\ pc' = "wait"
  /\ UNCHANGED <<config, host, honest, held, idle, body, result>>

(* A connection that is kept ends after a while, or because the server     *)
(* closes it; that the host prefers another address now does not end it.   *)
IdleCloses ==
  /\ idle # NoIP
  /\ idle' = NoIP
  /\ UNCHANGED <<config, host, honest, held, pc, peer, body, result>>

Return(r) ==
  /\ pc' = "idle"
  /\ peer' = NoIP
  /\ body' = <<>>
  /\ result' = r
  /\ UNCHANGED <<config, host, honest, held, idle>>

(* The connection cannot be made, is closed, or yields only half an answer. *)
ConnectionFails ==
  /\ pc \in {"dial", "wait"}
  /\ Return("connection failed")

(* Mutant of Timeout: the deadline covers the connecting only. *)
TimeoutOfDial ==
  /\ config.timeout
  /\ pc = "dial"
  /\ Return("connection failed")

(* The deadline of the context, where a timeout is configured; it covers   *)
(* the reading of the answer, too.                                         *)
Timeout ==
  /\ config.timeout
  /\ pc \in {"dial", "wait"}
  /\ Return("connection failed")

HonestPages == {page \in Pages : \A k \in DOMAIN page : page[k] \notin IPs}

(* What stands for x in the page; servers show an IPv4 address either way. *)
Shown(x) ==
  LET ip == IF x = Own THEN peer ELSE x IN
  IF ip \in V4 THEN {Plain(ip), Mapped(ip)} ELSE {Plain(ip)}

(* What is read of x, if the reading stops inside it.  (Where no more than *)
(* "ip=" is left, there is no line after it, and it is as good as junk.)   *)
Rest(x) ==
  LET ip == IF x = Own THEN peer ELSE x IN
  {Piece(y) : y \in IF ip \in IPs THEN Pieces[ip] ELSE {Junk}}

(* What is read of a page: some items, and a piece of the one after them.  *)
Readings(page) ==
  LET read == IF Len(page) <= Limit THEN Len(page) ELSE Limit + 1
      may  == [k \in 1 .. read |-> IF k <= Limit THEN Shown(page[k]) ELSE Rest(page[k])]
  IN  {b \in [1 .. read -> UNION {may[k] : k \in 1 .. read}] : \A k \in 1 .. read : b[k] \in may[k]}

Respond ==
  /\ pc = "wait"
  /\ \E page \in IF honest THEN HonestPages ELSE Pages : body' \in Readings(page)
  /\ idle' = IF Shared THEN peer ELSE idle
  /\ pc' = "parse"
  /\ UNCHANGED <<config, host, honest, held, peer, result>>

(* Mutant of Candidate: only the first line, or the begin of the text. *)
CandidateAtStart(x) ==
  \/ x.is = Garbled
  \/ x.is \in IPs /\ x = body[1]

(* What the source takes for an address: for cf_trace whatever follows the *)
(* first "ip=", be it nothing; for simple what matches a regular expression, and the one for    *)
(* IPv4 wants a backslash before every dot, so that no address matches it. *)
Candidate(x) ==
  \/ x.is = Garbled
  \/ config.source = "cf_trace" /\ x.is \in IPs \cup {Empty}
  \/ config.source = "simple" /\ config.type = "IPv6" /\ (x.is \in V6 \/ x.form = "mapped")

Candidates == {k \in DOMAIN body : Candidate(body[k])}

First(k) == k \in Candidates /\ \A j \in Candidates : k <= j

(* A simple source looks up the expression of its type, in a list of two.  *)
OutOfRange == config.source = "simple" /\ config.type = "unknown"

Parsing == pc = "parse" /\ ~OutOfRange

(* The index is out of range, and the process comes to its end.            *)
Panic ==
  /\ pc = "parse" /\ OutOfRange
  /\ pc' = "panicked"
  /\ UNCHANGED <<config, host, honest, held, peer, idle, body, result>>

(* Nothing is found, or what is found is empty. *)
NotFound ==
  /\ Parsing
  /\ Candidates = {} \/ \E k \in DOMAIN body : First(k) /\ body[k].is = Empty
  /\ Return("no IP found")

(* Mutant of BadIP: the error of ParseAddr is ignored. *)
BadIPUnchecked ==
  /\ Parsing
  /\ \E k \in DOMAIN body : First(k) /\ body[k].is = Garbled /\ Return(Garbled)

BadIP ==
  /\ Parsing
  /\ \E k \in DOMAIN body : First(k) /\ body[k].is = Garbled
  /\ Return("found bad IP")

(* Mutant of Agrees: the type is not looked at. *)
AgreesAlways(x) == x.is \in IPs

(* A mapped address is one of IPv6 for netip.Addr.Is6, and one of IPv4 for *)
(* Is4In6.  No address is of a family that there is not.                   *)
Agrees(x) ==
  \/ config.type \in {"any", Family(x.is)}
  \/ config.type \in Families /\ x.form = "mapped"

OtherFamily ==
  /\ Parsing
  /\ \E k \in DOMAIN body : First(k) /\ body[k].is \in IPs /\ ~Agrees(body[k])
  /\ Return("mismatched IP family")

(* The expression for IPv6 ends a mapped address before its first dot, and *)
(* what precedes it is some other address.                                 *)
Read(x) == IF config.source = "simple" /\ x.form = "mapped" THEN V6 ELSE {x.is}

Yield ==
  /\ Parsing
  /\ \E k \in DOMAIN body :
       /\ First(k) /\ body[k].is \in IPs /\ Agrees(body[k])
       /\ \E ip \in Read(body[k]) : Return(ip)

(* The host gets another address of a family, or loses it. *)
HostChanges(f) ==
  /\ \E ip \in Of(f) \cup {NoIP} :
       /\ host' = [host EXCEPT ![f] = ip]
       /\ held' = IF pc = "idle" \/ ip = NoIP THEN held ELSE held \cup {ip}
  /\ UNCHANGED <<config, honest, pc, peer, idle, body, result>>

Parse == Panic \/ NotFound \/ BadIP \/ OtherFamily \/ Yield

Next ==
  \/ Begin \/ Reuse \/ ConnectionFails \/ Timeout \/ Respond \/ Parse
  \/ \E f \in Families : Dial(f) \/ HostChanges(f)
  \/ IdleCloses

Spec == Init /\ [][Next]_vars

(* The goroutine runs, and the timer of the context fires.  No server has  *)
(* to answer, and no connection to fail.                                   *)
FairSpec == Spec /\ WF_vars(Parse) /\ WF_vars(Timeout)

-----------------------------------------------------------------------------
(* Where servers show no address but the one they see, a source that has   *)
(* a type yields an address of the host, and one it has had since the      *)
(* lookup began: as its transport is a clone (util.go:31), no connection   *)
(* made from an address the host has no more answers for it.  The one      *)
(* exception is an answer that is cut off at the limit inside an address.  *)
OwnAddress ==
  [][pc = "parse" /\ honest /\ result' \in IPs /\ config.type # "any" =>
       result' \in held \/ \E k \in DOMAIN body : body[k] = Piece(result')]_vars

(* A source that has a type yields addresses of that family only, whatever *)
(* the server shows: the publisher puts them into records of that type.    *)
(* (So it yields none where a number for a type is not that of a family.)  *)
(* The one exception is a server that shows an IPv4 address in the form of *)
(* IPv6 to a cf_trace source of that type, which an honest one never does. *)
AskedFamily ==
  [][pc = "parse" /\ result' \in IPs /\ config.type # "any" =>
       \/ Family(result') = config.type
       \/ ~honest /\ \E k \in DOMAIN body : body[k] = Mapped(result')]_vars

(* The expression of the simple source for IPv4 matches no address.        *)
NoSimple4 == \A c \in Configs : ~(c.source = "simple" /\ c.type = "IPv4")

(* Whether a line in front of k ends the search of a cf_trace source. *)
EmptyBefore(k) ==
  config.source = "cf_trace" /\ \E j \in DOMAIN body : j < k /\ body[j].is = Empty

(* example.toml:47: a source searches for an IP address in the response    *)
(* body.  So it does not report that it found none, or, if it has a type   *)
(* or needs none, one of the other family, in a body that shows the        *)
(* address of the connection, in whatever form.  (Where servers are not    *)
(* honest, another address may be in front.)  The one exception is a line  *)
(* "ip=" with nothing behind it, after which cf_trace searches no further. *)
FoundIfThere ==
  [][/\ pc = "parse"
     /\ \/ result' = "no IP found"
        \/ honest /\ config.type # "unknown" /\ result' = "mismatched IP family"
     => ~\E k \in DOMAIN body : body[k] \in {Plain(peer), Mapped(peer)} /\ ~EmptyBefore(k)]_vars

(* A lookup with a timeout ends, whatever becomes of the connection: what  *)
(* a pass of the resolver needs of its sources in order to end.  Where its *)
(* type is a number out of range, the whole process may end with it.       *)
LookupEnds ==
  config.timeout /\ pc \in {"dial", "wait", "parse"} ~>
    pc = "idle" \/ (OutOfRange /\ pc = "panicked")
=============================================================================
