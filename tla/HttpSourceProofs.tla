-------------------------- MODULE HttpSourceProofs --------------------------
(* Proofs about HttpSource, for any pages, addresses and configurations.   *)
EXTENDS HttpSource, SequenceTheorems, TLAPS

(* What a server may put into a page, and what x stands for in one. *)
Content == IPs \cup {Own, Junk, Empty, Garbled}

Meant(x) == IF x = Own THEN peer ELSE x

(* What is read of a page: item by item what is shown for it, or, of the   *)
(* last one, a piece.                                                      *)
LEMMA ReadingsByItem ==
  ASSUME peer \in IPs, NEW page \in Pages, NEW b \in Readings(page)
  PROVE  /\ b \in Seq(Item)
         /\ \A k \in DOMAIN b :
              /\ k \in DOMAIN page /\ page[k] \in Content
              /\ b[k] \in Shown(page[k]) \/ (b[k] \in Rest(page[k]) /\ k = Len(b))
<1> DEFINE read == IF Len(page) <= Limit THEN Len(page) ELSE Limit + 1
           may  == [k \in 1 .. read |-> IF k <= Limit THEN Shown(page[k]) ELSE Rest(page[k])]
<1>1. page \in Seq(Content) /\ Len(page) \in Nat /\ DOMAIN page = 1 .. Len(page) /\ Limit \in Nat
  BY HttpSourceAssumption, LenProperties DEF Content
<1>2. read \in Nat /\ read <= Limit + 1 /\ read <= Len(page)
  BY <1>1
<1>3. /\ b \in [1 .. read -> UNION {may[k] : k \in 1 .. read}]
      /\ \A k \in 1 .. read : b[k] \in may[k]
  BY DEF Readings
<1>4. ASSUME NEW x \in Content
      PROVE  Shown(x) \subseteq Item /\ Rest(x) \subseteq Item
  <2>1. Meant(x) \in IPs \cup {Junk, Empty, Garbled}
    BY <1>4 DEF Content, Meant
  <2>2. Shown(x) \subseteq Item
    BY <2>1 DEF Shown, Meant, Plain, Mapped, Item, IPs
  <2>3. ASSUME NEW z \in Rest(x) PROVE z \in Item
    <3>1. PICK y \in IF Meant(x) \in IPs THEN Pieces[Meant(x)] ELSE {Junk} : z = Piece(y)
      BY <2>3 DEF Rest, Meant
    <3>2. y \in IPs \cup {Junk, Garbled}
      BY <3>1, HttpSourceAssumption
    <3> QED
      BY <3>1, <3>2 DEF Piece, Item
  <2> QED
    BY <2>2, <2>3
<1>5. ASSUME NEW k \in 1 .. read
      PROVE  k \in DOMAIN page /\ page[k] \in Content
  <2>1. k \in 1 .. Len(page)
    BY <1>1, <1>2
  <2> QED
    BY <1>1, <2>1, ElementOfSeq
<1>6. \A k \in 1 .. read : b[k] \in Item
  BY <1>2, <1>3, <1>4, <1>5
<1>7. b \in [1 .. read -> Item]
  BY <1>3, <1>6
<1>8. b \in Seq(Item)
  BY <1>2, <1>7, SeqDef
<1>9. Len(b) = read /\ DOMAIN b = 1 .. read
  BY <1>2, <1>7, <1>8, LenProperties
<1>10. ASSUME NEW k \in 1 .. read
       PROVE  b[k] \in Shown(page[k]) \/ (b[k] \in Rest(page[k]) /\ k = read)
  <2>1. b[k] \in may[k]
    BY <1>3
  <2>2. k <= Limit \/ k = read
    <3> HIDE DEF read
    <3> QED
      BY <1>1, <1>2
  <2> QED
    BY <2>1, <2>2
<1> QED
  BY <1>5, <1>8, <1>9, <1>10

-----------------------------------------------------------------------------
(* What the host's addresses, and those it has had, say of a connection.   *)
HostOK ==
  /\ \A f \in Families : host[f] \in Of(f) \cup {NoIP}
  /\ pc # "idle" => \A f \in Families : host[f] \in held \cup {NoIP}

(* A source that has a type uses a transport of its own (wrapDialer), and  *)
(* with it a connection that was made in this lookup, in its family if the *)
(* type is one.                                                            *)
PeerOK ==
  pc \in {"wait", "parse"} =>
    /\ peer \in IPs
    /\ config.type # "any" => peer \in held
    /\ config.type \in Families => peer \in Of(config.type)

(* What an item of the answer is: only the last one is a piece, an address *)
(* of IPv4 only is mapped, and an honest server shows the address of the   *)
(* connection.                                                             *)
ItemOK(k) ==
  /\ body[k].form = "piece" => k = Len(body)
  /\ body[k].form = "mapped" => body[k].is \in V4
  /\ honest /\ body[k].is \in IPs =>
       \/ body[k] = Plain(peer)
       \/ body[k] = Mapped(peer) /\ peer \in V4
       \/ body[k] = Piece(body[k].is)

BodyOK == pc = "parse" => \A k \in DOMAIN body : ItemOK(k)

ResultOK == pc # "idle" => result = NoIP

Inv == TypeOK /\ HostOK /\ PeerOK /\ BodyOK /\ ResultOK

(* A lookup starts out with nothing that could be wrong.                   *)
LEMMA InvInit == Init => Inv
  BY EmptySeq DEF Init, Inv, TypeOK, HostOK, PeerOK, BodyOK, ResultOK

(* No step of a lookup, of the server or of the network breaks it.         *)
LEMMA InvStep == Inv /\ [Next]_vars => Inv'
<1> SUFFICES ASSUME Inv, [Next]_vars PROVE Inv'
  OBVIOUS
<1>a. TypeOK /\ HostOK /\ PeerOK /\ BodyOK /\ ResultOK
  BY DEF Inv
<1>b. \A f \in Families : Of(f) \subseteq IPs
  BY DEF Of, IPs
<1>r. ASSUME NEW r \in IPs \cup {NoIP} \cup Errors, Return(r) PROVE Inv'
  BY <1>a, <1>r, EmptySeq DEF Return, Inv, TypeOK, HostOK, PeerOK, BodyOK, ResultOK
<1>1. CASE Begin
  BY <1>1, <1>a, <1>b DEF Begin, Inv, TypeOK, HostOK, PeerOK, BodyOK, ResultOK
<1>2. ASSUME NEW f \in Families, Dial(f) PROVE Inv'
  <2>1. host[f] \in Of(f) /\ host[f] \in held /\ host[f] \in IPs
    BY <1>2, <1>a, <1>b DEF Dial, HostOK
  <2>2. config.type \in Families => f = config.type
    BY <1>2 DEF Dial, Dialled
  <2> QED
    BY <1>2, <1>a, <2>1, <2>2 DEF Dial, Inv, TypeOK, HostOK, PeerOK, BodyOK, ResultOK
<1>3. CASE Reuse
  BY <1>3, <1>a DEF Reuse, Shared, Families, Inv, TypeOK, HostOK, PeerOK, BodyOK, ResultOK
<1>4. CASE ConnectionFails \/ Timeout
  BY <1>4, <1>r DEF ConnectionFails, Timeout, Errors
<1>5. CASE Respond
  <2>1. PICK page \in IF honest THEN HonestPages ELSE Pages : body' \in Readings(page)
    BY <1>5 DEF Respond
  <2>2. page \in Pages /\ peer \in IPs /\ peer' = peer /\ honest' = honest
    BY <1>5, <1>a, <2>1 DEF Respond, HonestPages, PeerOK
  <2>3. /\ body' \in Seq(Item)
        /\ \A k \in DOMAIN body' :
             /\ k \in DOMAIN page /\ page[k] \in Content
             /\ body'[k] \in Shown(page[k]) \/ (body'[k] \in Rest(page[k]) /\ k = Len(body'))
    BY <2>1, <2>2, ReadingsByItem
  <2>4. TypeOK'
    BY <1>5, <1>a, <2>2, <2>3 DEF Respond, TypeOK
  <2>5. ASSUME NEW k \in DOMAIN body' PROVE ItemOK(k)'
    <3>1. CASE body'[k] \in Shown(page[k])
      <4>1. body'[k].form # "piece" /\ body'[k].is = Meant(page[k])
        BY <3>1 DEF Shown, Meant, Plain, Mapped
      <4>2. ASSUME honest, body'[k].is \in IPs
            PROVE  body'[k] = Plain(peer) \/ (body'[k] = Mapped(peer) /\ peer \in V4)
        <5>1. page[k] \notin IPs
          BY <2>1, <2>3, <4>2 DEF HonestPages
        <5>2. page[k] = Own
          BY <5>1, <4>1, <4>2 DEF Meant
        <5> QED
          BY <5>2, <3>1 DEF Shown
      <4>3. body'[k].form = "mapped" => body'[k].is \in V4
        BY <3>1 DEF Shown, Plain, Mapped
      <4> QED
        BY <4>1, <4>2, <4>3, <2>2 DEF ItemOK
    <3>2. CASE body'[k] \in Rest(page[k]) /\ k = Len(body')
      <4>1. body'[k] = Piece(body'[k].is) /\ body'[k].form = "piece"
        BY <3>2 DEF Rest, Piece
      <4> QED
        BY <3>2, <4>1 DEF ItemOK
    <3> QED
      BY <2>3, <3>1, <3>2
  <2> QED
    BY <1>5, <1>a, <2>4, <2>5 DEF Respond, Inv, HostOK, PeerOK, BodyOK, ResultOK
<1>6. CASE NotFound \/ BadIP \/ OtherFamily
  BY <1>6, <1>r DEF NotFound, BadIP, OtherFamily, Errors
<1>7. CASE Yield
  <2>1. PICK k \in DOMAIN body :
          body[k].is \in IPs /\ \E ip \in Read(body[k]) : Return(ip)
    BY <1>7 DEF Yield
  <2>2. \E ip \in IPs : Return(ip)
    BY <2>1 DEF Read, IPs
  <2> QED
    BY <1>r, <2>2
<1>8. ASSUME NEW f \in Families, HostChanges(f) PROVE Inv'
  <2>1. PICK ip \in Of(f) \cup {NoIP} :
          /\ host' = [host EXCEPT ![f] = ip]
          /\ held' = IF pc = "idle" \/ ip = NoIP THEN held ELSE held \cup {ip}
    BY <1>8 DEF HostChanges
  <2> QED
    BY <1>8, <1>a, <1>b, <2>1
       DEF HostChanges, Inv, TypeOK, HostOK, PeerOK, BodyOK, ItemOK, ResultOK
<1>9. CASE IdleCloses
  BY <1>9, <1>a DEF IdleCloses, Inv, TypeOK, HostOK, PeerOK, BodyOK, ItemOK, ResultOK
<1>10. CASE Panic
  BY <1>10, <1>a DEF Panic, Inv, TypeOK, HostOK, PeerOK, BodyOK, ItemOK, ResultOK
<1>11. CASE UNCHANGED vars
  BY <1>11, <1>a DEF vars, Inv, TypeOK, HostOK, PeerOK, BodyOK, ItemOK, ResultOK
<1> QED
  BY <1>1, <1>2, <1>3, <1>4, <1>5, <1>6, <1>7, <1>8, <1>9, <1>10, <1>11 DEF Next, Parse

(* So the invariant always holds.                                          *)
LEMMA AlwaysInv == Spec => []Inv
<1> QED
  BY InvInit, InvStep, PTL DEF Spec

(* A source, its connection, the answer and the outcome of a lookup keep   *)
(* their types, whatever a server answers and wherever the reading stops.  *)
THEOREM TypeCorrect == Spec => []TypeOK
<1>1. Inv => TypeOK
  BY DEF Inv
<1> QED
  BY <1>1, AlwaysInv, PTL

-----------------------------------------------------------------------------
(* A result that is an address is that of Yield. *)
LEMMA YieldsOnly ==
  ASSUME Inv, [Next]_vars, pc = "parse", result' \in IPs
  PROVE  \E k \in DOMAIN body :
            /\ First(k) /\ body[k].is \in IPs /\ Agrees(body[k])
            /\ result' \in Read(body[k])
<1>1. result = NoIP
  BY DEF Inv, ResultOK
<1>2. NoIP \notin IPs /\ Errors \cap IPs = {}
  BY HttpSourceAssumption
<1>3. CASE Yield
  BY <1>3 DEF Yield, Return
<1>4. CASE NotFound \/ BadIP \/ OtherFamily
  BY <1>2, <1>4 DEF NotFound, BadIP, OtherFamily, Return, Errors
<1>5. CASE Begin \/ Reuse \/ ConnectionFails \/ Timeout \/ Respond \/ \E f \in Families : Dial(f)
  BY <1>5 DEF Begin, Reuse, ConnectionFails, Timeout, Respond, Dial
<1>6. CASE Panic \/ IdleCloses \/ \E f \in Families : HostChanges(f)
  BY <1>1, <1>2, <1>6 DEF Panic, IdleCloses, HostChanges
<1>7. CASE UNCHANGED vars
  BY <1>1, <1>2, <1>7 DEF vars
<1> QED
  BY <1>3, <1>4, <1>5, <1>6, <1>7 DEF Next, Parse

(* An IPv4 address in the longer form is read from the page as it is, or,  *)
(* by a simple source, which is one of IPv6 then, as some IPv6 address.    *)
LEMMA ReadIs ==
  ASSUME NEW k \in DOMAIN body, First(k), body[k].is \in IPs, NEW ip \in Read(body[k])
  PROVE  \/ ip = body[k].is
         \/ config.type = "IPv6" /\ body[k].form = "mapped" /\ ip \in V6
<1>1. Candidate(body[k])
  BY DEF First, Candidates
<1>2. config.source = "simple" /\ body[k].form = "mapped" => config.type = "IPv6"
  BY <1>1, HttpSourceAssumption DEF Candidate
<1> QED
  BY <1>2 DEF Read

(* Where servers are honest a source with a type yields an address the     *)
(* host has had during the lookup, or a piece of one at the limit: no      *)
(* connection kept from before answers for it (util.go:31).                *)
THEOREM YieldsOwn == Spec => OwnAddress
<1>1. ASSUME Inv, [Next]_vars, pc = "parse", honest, result' \in IPs, config.type # "any"
      PROVE  result' \in held \/ \E k \in DOMAIN body : body[k] = Piece(result')
  <2>1. PICK k \in DOMAIN body :
          /\ First(k) /\ body[k].is \in IPs /\ result' \in Read(body[k])
    BY <1>1, YieldsOnly
  <2>2. ItemOK(k) /\ peer \in held /\ (config.type = "IPv6" => peer \in V6)
    BY <1>1 DEF Inv, BodyOK, PeerOK, Families, Of
  <2>3. body[k].form = "mapped" => peer \in V4
    BY <1>1, <2>1, <2>2 DEF ItemOK, Plain, Mapped, Piece
  <2>4. result' = body[k].is
    BY <2>1, <2>2, <2>3, ReadIs, HttpSourceAssumption
  <2> QED
    BY <1>1, <2>1, <2>2, <2>4 DEF ItemOK, Plain, Mapped
<1>2. Inv /\ [Next]_vars =>
        [pc = "parse" /\ honest /\ result' \in IPs /\ config.type # "any" =>
           result' \in held \/ \E k \in DOMAIN body : body[k] = Piece(result')]_vars
  BY <1>1
<1> QED
  BY <1>2, AlwaysInv, PTL DEF Spec, OwnAddress

(* A source with a type yields addresses of that family only, but for an   *)
(* IPv4 address that a server that is not honest shows as one of IPv6.     *)
THEOREM YieldsFamily == Spec => AskedFamily
<1>1. ASSUME Inv, [Next]_vars, pc = "parse", result' \in IPs, config.type # "any"
      PROVE  \/ Family(result') = config.type
             \/ ~honest /\ \E k \in DOMAIN body : body[k] = Mapped(result')
  <2>1. PICK k \in DOMAIN body :
          /\ First(k) /\ body[k].is \in IPs /\ Agrees(body[k])
          /\ result' \in Read(body[k])
    BY <1>1, YieldsOnly
  <2>2. CASE result' # body[k].is
    BY <2>1, <2>2, ReadIs, HttpSourceAssumption DEF Family
  <2>3. CASE result' = body[k].is /\ Family(body[k].is) = config.type
    BY <2>3
  <2>4. CASE result' = body[k].is /\ Family(body[k].is) # config.type
    <3>1. body[k].form = "mapped" /\ config.type \in Families
      BY <1>1, <2>1, <2>4 DEF Agrees
    <3>2. body \in Seq(Item) /\ body[k] \in Item
      BY <1>1, ElementOfSeq, LenProperties DEF Inv, TypeOK
    <3>3. body[k] = Mapped(result')
      BY <2>4, <3>1, <3>2 DEF Item, Mapped
    <3>4. ItemOK(k) /\ peer \in Of(config.type)
      BY <1>1, <3>1 DEF Inv, BodyOK, PeerOK
    <3>5. ~honest
      <4> SUFFICES ASSUME honest PROVE FALSE
        OBVIOUS
      <4>1. peer \in V4 /\ body[k].is = peer
        BY <2>1, <3>1, <3>4 DEF ItemOK, Plain, Mapped, Piece
      <4>2. config.type = "IPv4"
        BY <3>1, <3>4, <4>1, HttpSourceAssumption DEF Of, Families
      <4> QED
        BY <2>4, <4>1, <4>2 DEF Family
    <3> QED
      BY <3>3, <3>5
  <2> QED
    BY <2>2, <2>3, <2>4
<1>2. Inv /\ [Next]_vars =>
        [pc = "parse" /\ result' \in IPs /\ config.type # "any" =>
           \/ Family(result') = config.type
           \/ ~honest /\ \E k \in DOMAIN body : body[k] = Mapped(result')]_vars
  BY <1>1
<1> QED
  BY <1>2, AlwaysInv, PTL DEF Spec, AskedFamily

-----------------------------------------------------------------------------
(* The address of the connection, in whatever form, is found where it is   *)
(* shown in full: it is a candidate, and no piece is in front of it, nor   *)
(* an empty line, unless it is where the search stops.                     *)
THEOREM ShownIsFound == NoSimple4 /\ Spec => FoundIfThere
<1> DEFINE Shows(k) == body[k] \in {Plain(peer), Mapped(peer)}
           Mismatch == honest /\ config.type # "unknown" /\ result' = "mismatched IP family"
<1> SUFFICES ASSUME NoSimple4 PROVE Spec => FoundIfThere
  OBVIOUS
<1>1. ASSUME Inv, pc = "parse", ~OutOfRange, NEW k \in DOMAIN body, Shows(k)
      PROVE  Candidate(body[k])
  <2>1. peer \in IPs /\ body[k].is = peer /\ config \in Config
    BY <1>1, HttpSourceAssumption DEF Inv, PeerOK, TypeOK, Plain, Mapped
  <2>2. CASE config.source = "cf_trace"
    BY <2>1, <2>2 DEF Candidate
  <2>3. CASE config.source = "simple"
    <3>1. config.type = "IPv6"
      BY <1>1, <2>1, <2>3 DEF NoSimple4, OutOfRange, Inv, TypeOK, Config, Families
    <3>2. peer \in V6
      BY <1>1, <3>1 DEF Inv, PeerOK, Of, Families
    <3> QED
      BY <2>1, <2>3, <3>1, <3>2 DEF Candidate
  <2> QED
    BY <2>1, <2>2, <2>3 DEF Config
<1>2. ASSUME Inv, [Next]_vars, pc = "parse",
             result' = "no IP found" \/ Mismatch
      PROVE  NotFound \/ (honest /\ config.type # "unknown" /\ OtherFamily)
  <2>1. result = NoIP /\ NoIP \notin Errors /\ Errors \cap IPs = {}
    BY <1>2, HttpSourceAssumption DEF Inv, ResultOK
  <2>2. CASE Parse
    <3>1. CASE Yield
      <4>1. result' \in IPs
        BY <3>1 DEF Yield, Return, Read, IPs
      <4> QED
        BY <1>2, <2>1, <4>1 DEF Errors
    <3> QED
      BY <1>2, <2>1, <2>2, <3>1 DEF Parse, Panic, NotFound, BadIP, OtherFamily, Return, Errors
  <2>3. CASE Begin \/ Reuse \/ ConnectionFails \/ Timeout \/ Respond \/ \E f \in Families : Dial(f)
    BY <1>2, <2>3 DEF Begin, Reuse, ConnectionFails, Timeout, Respond, Dial
  <2>4. CASE IdleCloses \/ (\E f \in Families : HostChanges(f)) \/ UNCHANGED vars
    BY <1>2, <2>1, <2>4 DEF IdleCloses, HostChanges, vars, Errors
  <2> QED
    BY <1>2, <2>2, <2>3, <2>4 DEF Next
<1>3. ASSUME Inv, NotFound, NEW k \in DOMAIN body, Shows(k), ~EmptyBefore(k)
      PROVE  FALSE
  <2>1. k \in Candidates /\ pc = "parse"
    BY <1>1, <1>3 DEF NotFound, Parsing, Candidates
  <2>2. PICK j \in DOMAIN body : First(j) /\ body[j].is = Empty
    BY <1>3, <2>1 DEF NotFound
  <2>3. j \in Candidates /\ j <= k
    BY <2>1, <2>2 DEF First
  <2>4. body[k].is \in IPs /\ Empty \notin IPs /\ Empty # Garbled
    BY <1>3, <2>1, HttpSourceAssumption DEF Inv, PeerOK, Plain, Mapped
  <2>5. config.source = "cf_trace"
    <3>1. body[j].form # "mapped" /\ body[j].is \notin V6
      BY <1>3, <2>1, <2>2, <2>4 DEF Inv, BodyOK, ItemOK, IPs
    <3> QED
      BY <2>2, <2>3, <2>4, <3>1 DEF Candidates, Candidate
  <2>6. j \in Nat /\ k \in Nat /\ j # k
    BY <1>3, <2>2, <2>4, LenProperties DEF Inv, TypeOK
  <2>7. j < k
    BY <2>3, <2>6
  <2> QED
    BY <1>3, <2>5, <2>2, <2>7 DEF EmptyBefore
<1>4. ASSUME Inv, honest, config.type # "unknown", OtherFamily, NEW k \in DOMAIN body, Shows(k)
      PROVE  FALSE
  <2>1. PICK j \in DOMAIN body : First(j) /\ body[j].is \in IPs /\ ~Agrees(body[j])
    BY <1>4 DEF OtherFamily
  <2>2. k \in Candidates /\ j \in Candidates /\ j <= k
    BY <1>1, <1>4, <2>1 DEF OtherFamily, Parsing, First, Candidates
  <2>3. ItemOK(j) /\ peer \in Of(config.type) /\ config.type \in Families
    <3>1. config \in Config /\ config.type # "any"
      BY <1>4, <2>1, HttpSourceAssumption DEF Inv, TypeOK, Agrees
    <3> QED
      BY <1>4, <3>1 DEF OtherFamily, Parsing, Inv, BodyOK, PeerOK, Config, Families
  <2>4. body[j].form = "piece" /\ j = Len(body)
    <3>1. Family(peer) = config.type
      BY <2>3, HttpSourceAssumption DEF Of, Family, Families
    <3> QED
      BY <1>4, <2>1, <2>3, <3>1 DEF ItemOK, Agrees, Plain, Mapped, Piece
  <2>5. k = j
    BY <1>4, <2>2, <2>4, LenProperties DEF Inv, TypeOK
  <2> QED
    BY <1>4, <2>4, <2>5 DEF Plain, Mapped
<1>5. Inv /\ [Next]_vars =>
        [/\ pc = "parse"
         /\ result' = "no IP found" \/ Mismatch
         => ~\E k \in DOMAIN body : body[k] \in {Plain(peer), Mapped(peer)} /\ ~EmptyBefore(k)]_vars
  BY <1>2, <1>3, <1>4
<1> QED
  BY <1>5, AlwaysInv, PTL DEF Spec, FoundIfThere
=============================================================================
