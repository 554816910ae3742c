----------------------- MODULE InterfaceSourceProofs ------------------------
(* Proofs about InterfaceSource, for any links, addresses, traits, tables  *)
(* and configurations.                                                     *)
EXTENDS InterfaceSource, SequenceTheorems, FiniteSetTheorems, TLAPS

(* A text is read as a constant of the type, or not at all.                *)
LEMMA Unmarshalled ==
  ASSUME NEW t, NEW texts
  PROVE  /\ Unmarshal(t, texts) \in DOMAIN texts \cup {Invalid}
         /\ \A c \in DOMAIN texts :
              t \in texts[c] => /\ Unmarshal(t, texts) \in DOMAIN texts
                                /\ t \in texts[Unmarshal(t, texts)]
  BY DEF Unmarshal

(* What is decoded, if it is, is a configuration of the source.            *)
LEMMA DecodedType ==
  ASSUME NEW o \in Option
  PROVE  /\ Decode(o, Family, FamilyTexts) \in {"IPv4", "IPv6", Unknown, Invalid}
         /\ Decode(o, IPSelectMode, SelectTexts) \in {"first", "shortest", "last", Unknown, Invalid}
<1>1. CASE o = Absent
  BY <1>1 DEF Decode, Family, IPSelectMode
<1>2. CASE o \in {"text"} \X STRING
  <2>1. /\ Unmarshal(o[2], FamilyTexts) \in {"IPv4", "IPv6", Invalid}
        /\ Unmarshal(o[2], SelectTexts) \in {"first", "shortest", "last", Invalid}
    <3>1. DOMAIN FamilyTexts = {"IPv4", "IPv6"} /\ DOMAIN SelectTexts = {"first", "shortest", "last"}
      BY DEF FamilyTexts, SelectTexts
    <3> QED
      BY <3>1, Unmarshalled
  <2> QED
    BY <1>2, <2>1 DEF Decode, Absent, Family, IPSelectMode
<1>3. CASE o \in {"number"} \X Nat
  <2>1. o[1] = "number" /\ o[2] \in Nat /\ o # Absent
    BY <1>3 DEF Absent
  <2>2. Len(Family) = 2 /\ Len(IPSelectMode) = 3
    BY DEF Family, IPSelectMode
  <2>3. o[2] < 2 => o[2] + 1 \in {1, 2}
    BY <2>1
  <2>4. o[2] < 3 => o[2] + 1 \in {1, 2, 3}
    BY <2>1
  <2>5. \A k \in {1, 2} : Family[k] \in {"IPv4", "IPv6"}
    BY DEF Family
  <2>6. \A k \in {1, 2, 3} : IPSelectMode[k] \in {"first", "shortest", "last"}
    BY DEF IPSelectMode
  <2> QED
    BY <2>1, <2>2, <2>3, <2>4, <2>5, <2>6 DEF Decode
<1> QED
  BY <1>1, <1>2, <1>3 DEF Option

(* A flag is decoded to flags of the filter, or refused.                   *)
LEMMA DecodedFlag ==
  ASSUME NEW o \in Option \ {Absent}
  PROVE  DecodeFlag(o) \subseteq FilterFlags \cup {Invalid}
<1>1. DOMAIN FlagTexts = FilterFlags
  BY DEF FlagTexts, FilterFlags, IPFilterFlag
<1>2. CASE o[1] = "text"
  BY <1>1, <1>2, Unmarshalled DEF DecodeFlag
<1>3. CASE o[1] # "text"
  BY <1>3 DEF DecodeFlag, Bits, FilterFlags
<1> QED
  BY <1>2, <1>3

(* What is decoded without an error is a configuration of the right type.  *)
LEMMA DecodedConfig ==
  ASSUME setting \in Settings, Decodes
  PROVE  [link |-> setting.link, type |-> Type, select |-> Select, flag |-> Flags,
          exclude |-> setting.exclude, include |-> setting.include] \in Config
<1>1. setting \in Setting
  BY InterfaceSourceAssumption
<1>2. Type \in {"IPv4", "IPv6", Unknown} /\ Select \in {"first", "shortest", "last", Unknown}
  BY <1>1, DecodedType DEF Setting, Decodes, Type, Select
<1>3. Flags \subseteq FilterFlags
  <2>1. setting.flags \in Seq(Option \ {Absent}) /\ DOMAIN setting.flags = 1 .. Len(setting.flags)
    BY <1>1, LenProperties DEF Setting
  <2>2. \A k \in DOMAIN setting.flags : DecodeFlag(setting.flags[k]) \subseteq FilterFlags \cup {Invalid}
    BY <2>1, ElementOfSeq, DecodedFlag
  <2> QED
    BY <2>2 DEF Flags, Decodes
<1>4. setting.exclude \subseteq Nets
  BY <1>1 DEF Setting, Decodes
<1>5. setting.include \in {<<>>} \cup {<<s>> : s \in SUBSET Nets}
  <2>1. CASE setting.include = <<>>
    BY <2>1
  <2>2. ASSUME NEW s \in SUBSET (Nets \cup {NoNet}), setting.include = <<s>>
        PROVE  setting.include \in {<<t>> : t \in SUBSET Nets}
    <3>1. DOMAIN setting.include = {1} /\ setting.include[1] = s
      BY <2>2
    <3>2. NoNet \notin s
      BY <3>1 DEF Decodes
    <3> QED
      BY <2>2, <3>2
  <2> QED
    BY <1>1, <2>1, <2>2 DEF Setting
<1> QED
  BY <1>1, <1>2, <1>3, <1>4, <1>5 DEF Config, Setting

(* The elements of a set of indexes of a sequence, in their order.         *)
LEMMA AscendingIndexes ==
  ASSUME NEW T, NEW s \in Seq(T), NEW S \in SUBSET DOMAIN s, NEW f \in Ascending(S)
  PROVE  /\ f \in Seq(S)
         /\ DOMAIN f = 1 .. Len(f)
         /\ \A k \in DOMAIN f : f[k] \in S /\ s[f[k]] \in T
<1>1. DOMAIN s = 1 .. Len(s) /\ Len(s) \in Nat
  BY LenProperties
<1>2. IsFiniteSet(S)
  <2>1. IsFiniteSet(1 .. Len(s))
    BY <1>1, FS_Interval
  <2> QED
    BY <1>1, <2>1, FS_Subset
<1>3. Cardinality(S) \in Nat
  BY <1>2, FS_CardinalityType
<1>4. f \in [1 .. Cardinality(S) -> S]
  BY DEF Ascending
<1>5. f \in Seq(S)
  BY <1>3, <1>4, SeqDef
<1> QED
  BY <1>1, <1>4, <1>5, LenProperties, ElementOfSeq

-----------------------------------------------------------------------------
(* What has been decoded is what the texts say, where they are documented. *)
ConfigOK ==
  pc \notin {"new", "refused"} /\ SpelledAsDocumented =>
    /\ config.type = IF setting.type = Text("ipv4") THEN "IPv4" ELSE "IPv6"
    /\ setting.select \in {Absent, Text("first")} => config.select = "first"
    /\ setting.select = Text("shortest") => config.select = "shortest"
    /\ setting.select = Text("last") => config.select = "last"
    /\ \A f \in FilterFlags : f \in config.flag <=> Asks(f)
    /\ config.exclude = setting.exclude
    /\ config.include = setting.include

(* An address is one of those held, and its flags say what the kernel says *)
(* of it.                                                                  *)
AddrOK(a) ==
  /\ a.ip \in held
  /\ "temporary" \in a.flags <=> IF system = "linux" THEN "secondary" \in a.raw
                                 ELSE a.raw # {} /\ "DnsEligible" \notin a.raw
  /\ a.flags \cap {"duplicated", "tentative"} # {} <=>
       a.raw \cap {"dadfailed", "Duplicate", "tentative", "optimistic", "Tentative"} # {}
  /\ "deprecated" \in a.flags <=> a.raw \cap {"deprecated", "Deprecated"} # {}

AddrsOK == \A k \in DOMAIN addrs : AddrOK(addrs[k])

(* Where the candidates come from: idx holds, in their order, the indexes  *)
(* before n of the addresses that are not discarded.                       *)
Kept(idx, n) ==
  /\ idx \in [1 .. Len(candidate) -> 1 .. n - 1]
  /\ \A i, j \in 1 .. Len(candidate) : i < j => idx[i] < idx[j]
  /\ \A i \in 1 .. Len(candidate) : candidate[i] = addrs[idx[i]].ip /\ ~Discarded(addrs[idx[i]])
  /\ \A k \in 1 .. n - 1 : ~Discarded(addrs[k]) => \E i \in 1 .. Len(candidate) : idx[i] = k

CandidateOK ==
  /\ pc \in {"find", "read"} => at = 1 /\ candidate = <<>>
  /\ pc \in {"filter", "choose"} =>
       /\ at <= Len(addrs) + 1
       /\ \E idx \in [1 .. Len(candidate) -> 1 .. at - 1] : Kept(idx, at)
  /\ pc = "choose" => at = Len(addrs) + 1

ResultOK ==
  /\ pc # "idle" => result = NoIP
  /\ result \in IPs => result \in held

(* While the kernel is asked the histories hold what is so now, and the    *)
(* link that was found has had the name.                                   *)
HeldOK ==
  /\ pc \in {"find", "read"} => Named(links) \subseteq named /\ OwnOf(table, named) \subseteq held
  /\ pc = "read" => index \in named

Inv == TypeOK /\ ConfigOK /\ AddrsOK /\ CandidateOK /\ ResultOK /\ HeldOK /\ PicksAsDocumented

(* Before the source is built there is nothing that could be wrong.        *)
LEMMA InvInit == Init => Inv
<1> SUFFICES ASSUME Init PROVE Inv
  OBVIOUS
<1>1. DOMAIN addrs = {}
  BY DEF Init
<1>2. TypeOK
  BY InterfaceSourceAssumption, EmptySeq DEF Init, TypeOK, Config, NoConfig
<1> QED
  BY <1>1, <1>2, InterfaceSourceAssumption
  DEF Init, Inv, ConfigOK, AddrsOK, CandidateOK, ResultOK, HeldOK, PicksAsDocumented

(* A documented spelling of a flag is read as that flag.                   *)
LEMMA SpelledFlag ==
  \A f \in FilterFlags : DecodeFlag(Text(Spelled[f])) = {f}
<1>1. DOMAIN FlagTexts = FilterFlags
  BY DEF FlagTexts, FilterFlags, IPFilterFlag
<1>2. ASSUME NEW f \in FilterFlags
      PROVE  Unmarshal(Spelled[f], FlagTexts) = f
  <2>1. f \in {"nonglobalunicast", "private", "noeui64", "temporary", "baddad", "deprecated"}
    BY <1>1 DEF FlagTexts
  <2>2. Spelled[f] \in FlagTexts[f]
    BY <2>1 DEF Spelled, FlagTexts
  <2>3. \A g \in FilterFlags : Spelled[f] \in FlagTexts[g] => g = f
    BY <1>1, <2>1 DEF Spelled, FlagTexts
  <2> QED
    BY <1>1, <2>2, <2>3, Unmarshalled
<1> QED
  BY <1>2 DEF DecodeFlag, Text

(* The texts of example.toml are decoded to what they should mean.         *)
LEMMA DecodedAsDocumented ==
  ASSUME setting \in Settings, SpelledAsDocumented
  PROVE  /\ Type = IF setting.type = Text("ipv4") THEN "IPv4" ELSE "IPv6"
         /\ setting.select \in {Absent, Text("first")} => Select = "first"
         /\ setting.select = Text("shortest") => Select = "shortest"
         /\ setting.select = Text("last") => Select = "last"
         /\ \A f \in FilterFlags : f \in Flags <=> Asks(f)
<1>1. \A t : Text(t) # Absent /\ Text(t)[1] = "text" /\ Text(t)[2] = t
  BY DEF Text, Absent
<1>2. /\ Unmarshal("ipv4", FamilyTexts) = "IPv4"
      /\ Unmarshal("ipv6", FamilyTexts) = "IPv6"
  BY Unmarshalled DEF FamilyTexts
<1>3. /\ Unmarshal("first", SelectTexts) = "first"
      /\ Unmarshal("shortest", SelectTexts) = "shortest"
      /\ Unmarshal("last", SelectTexts) = "last"
  BY Unmarshalled DEF SelectTexts
<1>4. Type = IF setting.type = Text("ipv4") THEN "IPv4" ELSE "IPv6"
  BY <1>1, <1>2 DEF SpelledAsDocumented, Type, Decode
<1>5. /\ setting.select = Text("first") => Select = "first"
      /\ setting.select = Text("shortest") => Select = "shortest"
      /\ setting.select = Text("last") => Select = "last"
  BY <1>1, <1>3 DEF Select, Decode
<1>6. setting.select = Absent => Select = "first"
  BY DEF Select, Decode, IPSelectMode
<1>7. ASSUME NEW f \in FilterFlags
      PROVE  f \in Flags <=> Asks(f)
  <2>1. ASSUME f \in Flags PROVE Asks(f)
    <3>1. PICK k \in DOMAIN setting.flags : f \in DecodeFlag(setting.flags[k])
      BY <2>1 DEF Flags
    <3>2. PICK g \in FilterFlags : setting.flags[k] = Text(Spelled[g])
      BY DEF SpelledAsDocumented
    <3> QED
      BY <3>1, <3>2, SpelledFlag DEF Asks
  <2>2. ASSUME Asks(f) PROVE f \in Flags
    BY <2>2, SpelledFlag DEF Asks, Flags
  <2> QED
    BY <2>1, <2>2
<1> QED
  BY <1>4, <1>5, <1>6, <1>7

(* The loop discards what the configuration, as it is written, forbids.    *)
LEMMA DiscardedIffNotEligible ==
  ASSUME Inv, SpelledAsDocumented, pc \notin {"new", "refused"},
         NEW a \in Addr, AddrOK(a)
  PROVE  Discarded(a) <=> ~Eligible(a)
<1> DEFINE t == Traits[a.ip]
<1>1. t \in Trait
  BY InterfaceSourceAssumption DEF Addr
<1>2. ConfigOK /\ setting \in Setting /\ config \in Config
  BY InterfaceSourceAssumption DEF Inv, TypeOK
<1>3. (config.type = "IPv4") # (t.type = "IPv4") <=>
        t.type # IF setting.type = Text("ipv4") THEN "IPv4" ELSE "IPv6"
  BY <1>1, <1>2 DEF ConfigOK, Trait
<1>4. FilterFlags = {"nonglobalunicast", "private", "noeui64", "temporary", "baddad", "deprecated"}
  BY DEF FilterFlags, IPFilterFlag
<1>5. \A f \in FilterFlags : Match(f) <=> Asks(f)
  BY <1>2 DEF ConfigOK, Match
<1>6. (\E f \in Objections(a) : ~Asks(f)) <=>
        \/ ~Match("nonglobalunicast") /\ ~t.global
        \/ ~Match("private") /\ t.private
        \/ ~Match("temporary") /\ "temporary" \in a.flags
        \/ ~Match("baddad") /\ a.flags \cap {"duplicated", "tentative"} # {}
        \/ ~Match("deprecated") /\ "deprecated" \in a.flags
  BY <1>4, <1>5 DEF Objections, AddrOK
<1>7. (Asks("noeui64") /\ t.eui64) <=> (Match("noeui64") /\ t.eui64)
  BY <1>4, <1>5
<1>8. (\A net \in setting.exclude : net \notin t.nets) <=> config.exclude \cap t.nets = {}
  BY <1>2 DEF ConfigOK
<1>9. (\A k \in DOMAIN setting.include : \E net \in setting.include[k] : net \in t.nets) <=>
        ~(config.include # <<>> /\ config.include[1] \cap t.nets = {})
  <2>1. CASE setting.include = <<>>
    BY <2>1, <1>2 DEF ConfigOK
  <2>2. CASE setting.include # <<>>
    <3>1. PICK s \in SUBSET (Nets \cup {NoNet}) : setting.include = <<s>>
      BY <2>2, <1>2 DEF Setting
    <3>2. DOMAIN setting.include = {1} /\ setting.include[1] = s
      BY <3>1
    <3>3. config.include = setting.include
      BY <1>2 DEF ConfigOK
    <3> QED
      BY <2>2, <3>2, <3>3
  <2> QED
    BY <2>1, <2>2
<1> HIDE DEF t
<1>10. Discarded(a) <=>
        \/ (config.type = "IPv4") # (t.type = "IPv4")
        \/ \E f \in Objections(a) : ~Asks(f)
        \/ Match("noeui64") /\ t.eui64
        \/ config.exclude \cap t.nets # {}
        \/ config.include # <<>> /\ config.include[1] \cap t.nets = {}
  BY <1>6 DEF Discarded, t
<1>11. Eligible(a) <=>
        /\ t.type = IF setting.type = Text("ipv4") THEN "IPv4" ELSE "IPv6"
        /\ \A f \in Objections(a) : Asks(f)
        /\ ~(Asks("noeui64") /\ t.eui64)
        /\ \A net \in setting.exclude : net \notin t.nets
        /\ \A k \in DOMAIN setting.include : \E net \in setting.include[k] : net \in t.nets
  BY DEF Eligible, t
<1> QED
  BY <1>3, <1>7, <1>8, <1>9, <1>10, <1>11

(* A return leaves everything in order that it is not the result of.       *)
LEMMA ReturnStep ==
  ASSUME Inv, NEW r \in IPs \cup {NoIP} \cup Errors, Return(r), pc \notin {"new", "refused"},
         r \in IPs => r \in held,
         PicksAsDocumented'
  PROVE  Inv'
<1>1. TypeOK' /\ ConfigOK' /\ AddrsOK' /\ CandidateOK' /\ ResultOK' /\ HeldOK'
  BY DEF Return, source, kernel, Inv, TypeOK, ConfigOK, SpelledAsDocumented, Asks, AddrsOK, AddrOK,
         CandidateOK, ResultOK, HeldOK
<1> QED
  BY <1>1 DEF Inv

(* Of an error that says nothing of the addresses nothing is documented.   *)
LEMMA ErrorStep ==
  ASSUME Inv, NEW r \in Errors \ {"no eligible IP found"}, Return(r), pc \notin {"new", "refused"}
  PROVE  Inv'
<1>1. r \notin IPs
  BY InterfaceSourceAssumption
<1>2. PicksAsDocumented'
  BY <1>1 DEF Return, PicksAsDocumented
<1> QED
  BY <1>1, <1>2, ReturnStep

(* The indexes of the candidates, at the end of the loop, are those of the *)
(* eligible addresses.                                                     *)
LEMMA EligibleKept ==
  ASSUME Inv, pc = "choose"
  PROVE  \E idx \in [1 .. Len(candidate) -> 1 .. Len(addrs)] :
           /\ \A i, j \in 1 .. Len(candidate) : i < j => idx[i] < idx[j]
           /\ \A i \in 1 .. Len(candidate) : candidate[i] = addrs[idx[i]].ip
           /\ SpelledAsDocumented =>
                /\ \A i \in 1 .. Len(candidate) : idx[i] \in EligibleAt
                /\ \A k \in EligibleAt : \E i \in 1 .. Len(candidate) : idx[i] = k
<1>1. at = Len(addrs) + 1 /\ Len(addrs) \in Nat /\ DOMAIN addrs = 1 .. Len(addrs) /\ at - 1 = Len(addrs)
  BY LenProperties DEF Inv, TypeOK, CandidateOK
<1>2. PICK idx \in [1 .. Len(candidate) -> 1 .. at - 1] : Kept(idx, at)
  BY DEF Inv, CandidateOK
<1>3. ASSUME SpelledAsDocumented, NEW k \in 1 .. Len(addrs)
      PROVE  k \in EligibleAt <=> ~Discarded(addrs[k])
  <2>1. addrs[k] \in Addr
    BY ElementOfSeq DEF Inv, TypeOK
  <2>2. AddrOK(addrs[k])
    BY <1>1 DEF Inv, AddrsOK
  <2>3. Discarded(addrs[k]) <=> ~Eligible(addrs[k])
    BY <1>3, <2>1, <2>2, DiscardedIffNotEligible
  <2> QED
    BY <1>1, <2>3 DEF EligibleAt
<1>4. idx \in [1 .. Len(candidate) -> 1 .. Len(addrs)]
  BY <1>1, <1>2
<1>5. EligibleAt \subseteq 1 .. Len(addrs)
  BY <1>1 DEF EligibleAt
<1> QED
  BY <1>1, <1>2, <1>3, <1>4, <1>5 DEF Kept

(* The candidate picked is the eligible address that the mode asks for.    *)
LEMMA PickStep == Inv /\ Pick => Inv'
<1> SUFFICES ASSUME Inv, Pick PROVE Inv'
  OBVIOUS
<1>1. PICK i \in DOMAIN candidate :
        /\ config.select = "first" => i = 1
        /\ config.select = "last" => i = Len(candidate)
        /\ config.select = "shortest" => \A j \in DOMAIN candidate : Shorter(i, j)
        /\ Return(candidate[i])
  BY DEF Pick
<1>2. pc = "choose" /\ candidate \in Seq(IPs) /\ addrs \in Seq(Addr)
  BY DEF Pick, Inv, TypeOK
<1>3. DOMAIN candidate = 1 .. Len(candidate) /\ Len(candidate) \in Nat /\ DOMAIN addrs = 1 .. Len(addrs)
  BY <1>2, LenProperties
<1>4. PICK idx \in [1 .. Len(candidate) -> 1 .. Len(addrs)] :
        /\ \A h, j \in 1 .. Len(candidate) : h < j => idx[h] < idx[j]
        /\ \A h \in 1 .. Len(candidate) : candidate[h] = addrs[idx[h]].ip
        /\ SpelledAsDocumented =>
             /\ \A h \in 1 .. Len(candidate) : idx[h] \in EligibleAt
             /\ \A k \in EligibleAt : \E h \in 1 .. Len(candidate) : idx[h] = k
  BY <1>2, EligibleKept
<1> DEFINE k == idx[i]
<1>5. k \in 1 .. Len(addrs) /\ candidate[i] = addrs[k].ip
  BY <1>1, <1>3, <1>4
<1>6. candidate[i] \in IPs /\ candidate[i] \in held
  <2>1. candidate[i] \in IPs
    BY <1>1, <1>2, <1>3, ElementOfSeq
  <2> QED
    BY <1>3, <1>5, <2>1 DEF Inv, AddrsOK, AddrOK
<1>7. ASSUME SpelledAsDocumented, NEW j \in EligibleAt
      PROVE  /\ setting.select \in {Absent, Text("first")} => k <= j
             /\ setting.select = Text("last") => j <= k
             /\ setting.select = Text("shortest") => Size(k) < Size(j) \/ (Size(k) = Size(j) /\ k <= j)
  <2>1. PICK h \in 1 .. Len(candidate) : idx[h] = j
    BY <1>4, <1>7
  <2>2. h < i \/ h = i \/ i < h
    BY <1>1, <1>3
  <2>3. \A p, q \in 1 .. Len(candidate) : p <= q => idx[p] <= idx[q]
    <3> SUFFICES ASSUME NEW p \in 1 .. Len(candidate), NEW q \in 1 .. Len(candidate), p <= q
                 PROVE  idx[p] <= idx[q]
      OBVIOUS
    <3>1. idx[p] \in Nat /\ idx[q] \in Nat /\ (p < q => idx[p] < idx[q])
      BY <1>4
    <3>2. p < q \/ p = q
      OBVIOUS
    <3> QED
      BY <3>1, <3>2
  <2>4. ConfigOK
    BY DEF Inv
  <2>5. pc \notin {"new", "refused"}
    BY <1>2
  <2>6. ASSUME setting.select \in {Absent, Text("first")} PROVE k <= j
    <3>1. i = 1
      BY <1>1, <1>7, <2>4, <2>5, <2>6 DEF ConfigOK
    <3> QED
      BY <1>1, <1>3, <2>1, <2>3, <3>1
  <2>7. ASSUME setting.select = Text("last") PROVE j <= k
    <3>1. i = Len(candidate)
      BY <1>1, <1>7, <2>4, <2>5, <2>7 DEF ConfigOK
    <3> QED
      BY <1>1, <1>3, <2>1, <2>3, <3>1
  <2>8. ASSUME setting.select = Text("shortest")
        PROVE  Size(k) < Size(j) \/ (Size(k) = Size(j) /\ k <= j)
    <3>1. Shorter(i, h)
      BY <1>1, <1>3, <1>7, <2>1, <2>4, <2>5, <2>8 DEF ConfigOK
    <3>2. Traits[candidate[i]].size = Size(k) /\ Traits[candidate[h]].size = Size(j)
      BY <1>4, <1>5, <2>1 DEF Size
    <3>3. i <= h => k <= j
      BY <1>1, <1>3, <2>1, <2>3
    <3> QED
      BY <3>1, <3>2, <3>3 DEF Shorter
  <2> QED
    BY <2>6, <2>7, <2>8
<1>8. SpelledAsDocumented => k \in EligibleAt
  BY <1>1, <1>3, <1>4
<1> HIDE DEF k
<1>9. PicksAsDocumented'
  <2>1. /\ UNCHANGED <<system, setting, addrs>>
        /\ result' = candidate[i]
    BY <1>1 DEF Return, source
  <2>2. candidate[i] # "no eligible IP found"
    BY <1>6, InterfaceSourceAssumption DEF Errors
  <2>3. (SpelledAsDocumented' <=> SpelledAsDocumented) /\ EligibleAt' = EligibleAt
    BY <2>1 DEF SpelledAsDocumented, EligibleAt, Eligible, Objections, Asks
  <2>4. \A j : Size(j)' = Size(j)
    BY <2>1 DEF Size
  <2>5. SpelledAsDocumented =>
          /\ k \in EligibleAt
          /\ result' = addrs[k].ip
          /\ setting.select \in {Absent, Text("first")} => \A j \in EligibleAt : k <= j
          /\ setting.select = Text("last") => \A j \in EligibleAt : j <= k
          /\ setting.select = Text("shortest") =>
               \A j \in EligibleAt : Size(k) < Size(j) \/ (Size(k) = Size(j) /\ k <= j)
    BY <1>5, <1>7, <1>8, <2>1
  <2> QED
    BY <2>1, <2>2, <2>3, <2>4, <2>5 DEF PicksAsDocumented
<1> QED
  BY <1>1, <1>2, <1>6, <1>9, ReturnStep

(* What is said of an address remains so while held only grows.            *)
LEMMA AddrOKStays ==
  system' = system /\ held \subseteq held' => \A a : AddrOK(a) => AddrOK(a)'
  BY DEF AddrOK

(* What is read of a table has the type of an address, and its flags say   *)
(* what the kernel said.                                                   *)
LEMMA ReadAddrsStep ==
  ASSUME Inv, ReadAddrs
  PROVE  addrs' \in Seq(Addr) /\ AddrsOK'
<1>1. system = "linux" /\ table \in Tables["linux"] /\ table \in Seq(Message) /\ system' = system /\ held' = held
  BY InterfaceSourceAssumption DEF ReadAddrs, source, kernel, Inv, TypeOK
<1>2. PICK mine \in Ascending({k \in DOMAIN table : Usable(table[k])}) :
        addrs' = [k \in DOMAIN mine |-> NewAddr(table[mine[k]])]
  BY DEF ReadAddrs
<1>3. /\ mine \in Seq({k \in DOMAIN table : Usable(table[k])})
      /\ DOMAIN mine = 1 .. Len(mine)
      /\ \A k \in DOMAIN mine : mine[k] \in DOMAIN table /\ Usable(table[mine[k]]) /\ table[mine[k]] \in Message
  <2>1. {k \in DOMAIN table : Usable(table[k])} \in SUBSET DOMAIN table
    OBVIOUS
  <2> QED
    BY <1>1, <1>2, <2>1, AscendingIndexes
<1>4. ASSUME NEW k \in DOMAIN mine
      PROVE  NewAddr(table[mine[k]]) \in Addr /\ AddrOK(NewAddr(table[mine[k]]))
  <2> DEFINE m == table[mine[k]]
  <2>1. m \in Message /\ Usable(m)
    BY <1>3
  <2>2. AddressOf(m) \in IPs /\ AddressOf(m) \in held
    <3>1. AddressOf(m) = IF m.local # NoIP THEN m.local ELSE m.address
      BY <2>1 DEF AddressOf, Usable
    <3>2. AddressOf(m) \in IPs
      BY <2>1, <3>1 DEF Usable, Message
    <3>3. m.inet /\ m.index \in named
      BY <2>1 DEF Usable, AddressOf, ReadAddrs, Inv, HeldOK
    <3>4. AddressOf(m) \in OwnOf(table, named)
      BY <1>1, <1>3, <3>1, <3>2, <3>3 DEF OwnOf
    <3> QED
      BY <3>2, <3>4 DEF ReadAddrs, Inv, HeldOK
  <2>3. m.raw \subseteq RawFlags
    BY <2>1 DEF Message
  <2> HIDE DEF m
  <2>4. FlagsOf(m.raw) \subseteq AddrFlags
    BY DEF FlagsOf
  <2>5. NewAddr(m) \in Addr
    BY <2>2, <2>3, <2>4 DEF NewAddr, Addr
  <2>6. /\ "temporary" \in FlagsOf(m.raw) <=> "secondary" \in m.raw
        /\ FlagsOf(m.raw) \cap {"duplicated", "tentative"} # {} <=>
             m.raw \cap {"dadfailed", "Duplicate", "tentative", "optimistic", "Tentative"} # {}
        /\ "deprecated" \in FlagsOf(m.raw) <=> m.raw \cap {"deprecated", "Deprecated"} # {}
    <3>1. "Duplicate" \notin m.raw /\ "Tentative" \notin m.raw /\ "Deprecated" \notin m.raw
      BY <2>3 DEF RawFlags
    <3> QED
      BY <3>1 DEF FlagsOf, AddrFlags
  <2>7. AddrOK(NewAddr(m))
    BY <1>1, <2>2, <2>6 DEF AddrOK, NewAddr
  <2> QED
    BY <2>5, <2>7 DEF m
<1>5. DOMAIN addrs' = DOMAIN mine
  BY <1>2
<1>6. AddrsOK'
  <2>1. \A k \in DOMAIN addrs' : AddrOK(addrs'[k])
    BY <1>2, <1>4, <1>5
  <2> QED
    BY <1>1, <2>1, AddrOKStays DEF AddrsOK
<1>7. addrs' \in [1 .. Len(mine) -> Addr]
  BY <1>2, <1>3, <1>4
<1> QED
  BY <1>3, <1>6, <1>7, LenProperties, SeqDef

(* On Windows addresses have the flags of their state, anycast ones none.  *)
LEMMA ReadAdaptersStep ==
  ASSUME Inv, ReadAdapters
  PROVE  addrs' \in Seq(Addr) /\ AddrsOK'
<1> DEFINE mine == {k \in DOMAIN table : table[k].index = index}
           any  == {k \in mine : table[k].anycast}
<1>1. system = "windows" /\ table \in Tables["windows"] /\ table \in Seq(Entry) /\ system' = system /\ held' = held
  BY InterfaceSourceAssumption DEF ReadAdapters, source, kernel, Inv, TypeOK
<1>2. PICK u \in Ascending(mine \ any) : \E y \in Ascending(any) :
        addrs' = [k \in DOMAIN u |-> NewUnicast(table[u[k]])]
                   \o [k \in DOMAIN y |-> [ip |-> table[y[k]].ip, flags |-> {}, raw |-> {}]]
  BY DEF ReadAdapters
<1>3. PICK y \in Ascending(any) :
        addrs' = [k \in DOMAIN u |-> NewUnicast(table[u[k]])]
                   \o [k \in DOMAIN y |-> [ip |-> table[y[k]].ip, flags |-> {}, raw |-> {}]]
  BY <1>2
<1>4. any \in SUBSET DOMAIN table /\ mine \ any \in SUBSET DOMAIN table
  OBVIOUS
<1>5. /\ u \in Seq(mine \ any) /\ DOMAIN u = 1 .. Len(u)
      /\ \A k \in DOMAIN u : u[k] \in mine \ any /\ table[u[k]] \in Entry
  BY <1>1, <1>4, AscendingIndexes
<1>6. /\ y \in Seq(any) /\ DOMAIN y = 1 .. Len(y)
      /\ \A k \in DOMAIN y : y[k] \in any /\ table[y[k]] \in Entry
  BY <1>1, <1>4, AscendingIndexes
<1> DEFINE Good == {a \in Addr : AddrOK(a)}
<1>7. ASSUME NEW k \in mine, table[k] \in Entry
      PROVE  table[k].ip \in IPs /\ table[k].ip \in held
  <2>1. table[k].ip \in IPs
    BY <1>7 DEF Entry
  <2>2. table[k].index \in named /\ k \in DOMAIN table
    BY <1>7 DEF ReadAdapters, Inv, HeldOK
  <2>3. table[k].ip \in OwnOf(table, named)
    BY <1>1, <2>1, <2>2 DEF OwnOf
  <2> QED
    BY <2>1, <2>3 DEF ReadAdapters, Inv, HeldOK
<1>8. ASSUME NEW k \in DOMAIN u
      PROVE  NewUnicast(table[u[k]]) \in Good
  <2> DEFINE e == table[u[k]]
  <2>1. e \in Entry /\ ~e.anycast /\ e.ip \in IPs /\ e.ip \in held
    BY <1>5, <1>7
  <2> HIDE DEF e
  <2>2. PICK st \in DadStates : e.raw = {st} \/ e.raw = {st, "DnsEligible"}
    BY <2>1 DEF Entry
  <2>3. FlagsOfUnicast(e.raw) \subseteq AddrFlags
    BY DEF FlagsOfUnicast
  <2>4. NewUnicast(e) \in Addr
    BY <2>1, <2>2, <2>3 DEF NewUnicast, Addr
  <2>5. /\ "temporary" \in FlagsOfUnicast(e.raw) <=> "DnsEligible" \notin e.raw
        /\ FlagsOfUnicast(e.raw) \cap {"duplicated", "tentative"} # {} <=>
             e.raw \cap {"dadfailed", "Duplicate", "tentative", "optimistic", "Tentative"} # {}
        /\ "deprecated" \in FlagsOfUnicast(e.raw) <=> e.raw \cap {"deprecated", "Deprecated"} # {}
    <3>1. /\ "dadfailed" \notin e.raw /\ "tentative" \notin e.raw /\ "optimistic" \notin e.raw
          /\ "deprecated" \notin e.raw
      BY <2>2 DEF DadStates
    <3> QED
      BY <3>1 DEF FlagsOfUnicast, AddrFlags
  <2>6. AddrOK(NewUnicast(e))
    <3>1. e.raw # {}
      BY <2>2
    <3> HIDE DEF mine, any
    <3> QED
      BY <1>1, <2>1, <2>5, <3>1 DEF AddrOK, NewUnicast
  <2> QED
    BY <2>4, <2>6 DEF e
<1>9. ASSUME NEW k \in DOMAIN y
      PROVE  [ip |-> table[y[k]].ip, flags |-> {}, raw |-> {}] \in Good
  <2>1. table[y[k]].ip \in IPs /\ table[y[k]].ip \in held
    BY <1>6, <1>7
  <2> QED
    BY <1>1, <2>1 DEF AddrOK, Addr
<1> DEFINE v == [k \in DOMAIN u |-> NewUnicast(table[u[k]])]
           w == [k \in DOMAIN y |-> [ip |-> table[y[k]].ip, flags |-> {}, raw |-> {}]]
<1>10. v \in [1 .. Len(u) -> Good] /\ w \in [1 .. Len(y) -> Good]
  BY <1>5, <1>6, <1>8, <1>9
<1>11. v \in Seq(Good) /\ w \in Seq(Good)
  <2>1. Len(u) \in Nat /\ Len(y) \in Nat
    BY <1>5, <1>6, LenProperties
  <2> HIDE DEF v, w, Good
  <2> QED
    BY <1>10, <2>1, SeqDef
<1>12. addrs' = v \o w
  BY <1>3
<1> HIDE DEF v, w
<1>13. addrs' \in Seq(Good)
  BY <1>11, <1>12, ConcatProperties
<1>14. \A k \in DOMAIN addrs' : AddrOK(addrs'[k])
  BY <1>13, LenProperties, ElementOfSeq
<1>15. addrs' \in Seq(Addr)
  BY <1>13, SeqMonotonic
<1> QED
  BY <1>1, <1>14, <1>15, AddrOKStays DEF AddrsOK

(* So reading the addresses keeps the invariant, on either system.         *)
LEMMA ReadStep == Inv /\ (ReadAddrs \/ ReadAdapters) => Inv'
<1> SUFFICES ASSUME Inv, ReadAddrs \/ ReadAdapters PROVE Inv'
  OBVIOUS
<1>1. addrs' \in Seq(Addr) /\ AddrsOK'
  BY ReadAddrsStep, ReadAdaptersStep
<1>2. /\ pc = "read" /\ pc' = "filter"
      /\ UNCHANGED <<source, kernel, room, index, at, candidate, result>>
  BY DEF ReadAddrs, ReadAdapters
<1>3. TypeOK' /\ ConfigOK' /\ ResultOK' /\ HeldOK' /\ PicksAsDocumented'
  BY <1>1, <1>2
  DEF source, kernel, Inv, TypeOK, ConfigOK, SpelledAsDocumented, Asks, ResultOK, HeldOK, PicksAsDocumented
<1>4. at' = 1 /\ candidate' = <<>>
  BY <1>2 DEF Inv, CandidateOK
<1>5. Len(addrs') \in Nat
  BY <1>1, LenProperties
<1>6. Len(candidate') = 0
  BY <1>4
<1>7. (\E idx \in [1 .. Len(candidate) -> 1 .. at - 1] : Kept(idx, at))'
  <2> DEFINE none == [i \in 1 .. 0 |-> 1]
  <2>1. none \in [1 .. Len(candidate') -> 1 .. at' - 1]
    BY <1>4, <1>6
  <2>2. 1 .. Len(candidate') = {} /\ 1 .. at' - 1 = {}
    BY <1>4, <1>6
  <2>3. Kept(none, at)'
    BY <2>1, <2>2 DEF Kept
  <2> QED
    BY <2>1, <2>3
<1>8. CandidateOK'
  <2>1. at' <= Len(addrs') + 1
    BY <1>4, <1>5
  <2>2. pc' = "filter"
    BY <1>2
  <2> QED
    BY <1>7, <2>1, <2>2 DEF CandidateOK
<1> QED
  BY <1>1, <1>3, <1>8 DEF Inv

(* The loop over the addresses keeps the eligible ones, in their order.    *)
LEMMA FilterStep == Inv /\ (Discard \/ AddCandidate \/ EndFilter) => Inv'
<1> SUFFICES ASSUME Inv, Discard \/ AddCandidate \/ EndFilter PROVE Inv'
  OBVIOUS
<1>1. /\ pc = "filter" /\ pc' \in {"filter", "choose"}
      /\ UNCHANGED <<source, kernel, room, index, addrs, result>>
  BY DEF Discard, AddCandidate, EndFilter
<1>2. at \in Nat \ {0} /\ addrs \in Seq(Addr) /\ candidate \in Seq(IPs) /\ at <= Len(addrs) + 1
  BY <1>1 DEF Inv, TypeOK, CandidateOK
<1>3. Len(addrs) \in Nat /\ DOMAIN addrs = 1 .. Len(addrs) /\ Len(candidate) \in Nat
  BY <1>2, LenProperties
<1>4. /\ ConfigOK' /\ AddrsOK' /\ ResultOK' /\ HeldOK' /\ PicksAsDocumented'
      /\ at' \in Nat \ {0} /\ candidate' \in Seq(IPs) => TypeOK'
  BY <1>1 DEF source, kernel, Inv, TypeOK, ConfigOK, SpelledAsDocumented, Asks, AddrsOK, AddrOK,
              ResultOK, HeldOK, PicksAsDocumented
<1>5. \A k : Discarded(addrs[k])' <=> Discarded(addrs[k])
  BY <1>1 DEF source, Discarded, Match
<1>6. PICK idx \in [1 .. Len(candidate) -> 1 .. at - 1] : Kept(idx, at)
  BY <1>1 DEF Inv, CandidateOK
<1>7. CASE Discard
  <2>1. at' = at + 1 /\ at <= Len(addrs) /\ Discarded(addrs[at]) /\ UNCHANGED <<pc, candidate, addrs>>
    BY <1>7 DEF Discard
  <2>2. idx \in [1 .. Len(candidate) -> 1 .. at' - 1]
    BY <1>2, <1>3, <1>6, <2>1
  <2>3. Kept(idx, at)'
    <3>1. ASSUME NEW k \in 1 .. at' - 1, ~Discarded(addrs[k])
          PROVE  \E i \in 1 .. Len(candidate) : idx[i] = k
      <4>1. k \in 1 .. at - 1
        BY <1>2, <2>1, <3>1
      <4> QED
        BY <1>6, <3>1, <4>1 DEF Kept
    <3>2. \A i, j \in 1 .. Len(candidate) : i < j => idx[i] < idx[j]
      BY <1>6 DEF Kept
    <3>3. \A i \in 1 .. Len(candidate) : candidate[i] = addrs[idx[i]].ip /\ ~Discarded(addrs[idx[i]])
      BY <1>6 DEF Kept
    <3> QED
      BY <1>5, <2>1, <2>2, <3>1, <3>2, <3>3 DEF Kept
  <2>4. CandidateOK'
    <3>1. at' <= Len(addrs') + 1
      BY <1>2, <1>3, <2>1
    <3>2. pc' = "filter"
      BY <1>1, <2>1
    <3>3. (\E f \in [1 .. Len(candidate) -> 1 .. at - 1] : Kept(f, at))'
      BY <2>1, <2>2, <2>3
    <3> QED
      BY <3>1, <3>2, <3>3 DEF CandidateOK
  <2> QED
    BY <1>2, <1>4, <2>1, <2>4 DEF Inv
<1>8. CASE AddCandidate
  <2>1. /\ at' = at + 1 /\ at <= Len(addrs) /\ ~Discarded(addrs[at]) /\ UNCHANGED <<pc, addrs>>
        /\ candidate' = Append(candidate, addrs[at].ip)
    BY <1>8 DEF AddCandidate
  <2> DEFINE n == Len(candidate)
             f == [i \in 1 .. n + 1 |-> IF i = n + 1 THEN at ELSE idx[i]]
  <2>2. addrs[at].ip \in IPs
    <3>1. addrs[at] \in Addr
      BY <1>2, <1>3, <2>1, ElementOfSeq
    <3> QED
      BY <3>1 DEF Addr
  <2>3. /\ candidate' \in Seq(IPs) /\ Len(candidate') = n + 1
        /\ \A i \in 1 .. n : candidate'[i] = candidate[i]
        /\ candidate'[n + 1] = addrs[at].ip
    BY <1>2, <2>1, <2>2, AppendProperties
  <2>4. \A i \in 1 .. n + 1 : i \in 1 .. n \/ i = n + 1
    BY <1>3
  <2>5. \A i \in 1 .. n : f[i] = idx[i] /\ idx[i] \in 1 .. at - 1
    BY <1>3, <1>6
  <2>6. f[n + 1] = at
    BY <1>3
  <2>7. f \in [1 .. n + 1 -> 1 .. at' - 1]
    <3>1. \A i \in 1 .. n + 1 : f[i] \in 1 .. at' - 1
      BY <1>2, <2>1, <2>4, <2>5, <2>6
    <3> QED
      BY <3>1
  <2>8. PICK jdx \in [1 .. n + 1 -> 1 .. at' - 1] :
          (\A i \in 1 .. n : jdx[i] = idx[i] /\ idx[i] \in 1 .. at - 1) /\ jdx[n + 1] = at
    BY <2>5, <2>6, <2>7
  <2> HIDE DEF f
  <2>9. Kept(jdx, at)'
    <3>1. \A i, j \in 1 .. n + 1 : i < j => jdx[i] < jdx[j]
      <4> SUFFICES ASSUME NEW i \in 1 .. n + 1, NEW j \in 1 .. n + 1, i < j
                   PROVE  jdx[i] < jdx[j]
        OBVIOUS
      <4>1. i \in 1 .. n
        BY <1>3
      <4>2. CASE j \in 1 .. n
        BY <1>6, <2>8, <4>1, <4>2 DEF Kept
      <4>3. CASE j = n + 1
        BY <1>2, <2>8, <4>1, <4>3
      <4> QED
        BY <2>4, <4>2, <4>3
    <3>2. \A i \in 1 .. n + 1 : candidate'[i] = addrs[jdx[i]].ip /\ ~Discarded(addrs[jdx[i]])
      <4>1. \A i \in 1 .. n : candidate[i] = addrs[idx[i]].ip /\ ~Discarded(addrs[idx[i]])
        BY <1>6 DEF Kept
      <4> QED
        BY <2>1, <2>3, <2>4, <2>8, <4>1
    <3>3. ASSUME NEW k \in 1 .. at' - 1, ~Discarded(addrs[k])
          PROVE  \E i \in 1 .. n + 1 : jdx[i] = k
      <4>1. CASE k = at
        <5>1. n + 1 \in 1 .. n + 1
          BY <1>3
        <5> QED
          BY <2>8, <4>1, <5>1
      <4>2. CASE k # at
        <5>1. k \in 1 .. at - 1
          BY <1>2, <2>1, <4>2
        <5>2. PICK i \in 1 .. n : idx[i] = k
          BY <1>6, <3>3, <5>1 DEF Kept
        <5>3. i \in 1 .. n + 1
          BY <1>3
        <5> QED
          BY <2>8, <5>2, <5>3
      <4> QED
        BY <4>1, <4>2
    <3>4. \A i \in 1 .. n + 1 : ~(Discarded(addrs[jdx[i]])')
      BY <1>5, <2>1, <3>2
    <3>5. \A k \in 1 .. at' - 1 : ~(Discarded(addrs[k])') => \E i \in 1 .. n + 1 : jdx[i] = k
      BY <1>5, <2>1, <3>3
    <3> HIDE DEF n
    <3> QED
      BY <2>1, <2>3, <2>8, <3>1, <3>2, <3>4, <3>5 DEF Kept
  <2>10. CandidateOK'
    <3>1. at' <= Len(addrs') + 1
      BY <1>2, <1>3, <2>1
    <3>2. pc' = "filter"
      BY <1>1, <2>1
    <3>3. (\E g \in [1 .. Len(candidate) -> 1 .. at - 1] : Kept(g, at))'
      <4>1. jdx \in [1 .. Len(candidate') -> 1 .. at' - 1]
        BY <2>3, <2>8
      <4> QED
        BY <2>9, <4>1
    <3> QED
      BY <3>1, <3>2, <3>3 DEF CandidateOK
  <2> QED
    BY <1>2, <1>4, <2>1, <2>3, <2>10 DEF Inv
<1>9. CASE EndFilter
  <2>1. pc' = "choose" /\ at > Len(addrs) /\ UNCHANGED <<at, candidate, addrs>>
    BY <1>9 DEF EndFilter
  <2>2. at = Len(addrs) + 1
    BY <1>2, <1>3, <2>1
  <2>3. Kept(idx, at)'
    BY <1>5, <1>6, <2>1 DEF Kept
  <2>4. CandidateOK'
    <3>1. (\E f \in [1 .. Len(candidate) -> 1 .. at - 1] : Kept(f, at))'
      BY <1>6, <2>1, <2>3
    <3> QED
      BY <1>2, <2>1, <2>2, <3>1 DEF CandidateOK
  <2> QED
    BY <1>2, <1>4, <2>1, <2>4 DEF Inv
<1> QED
  BY <1>7, <1>8, <1>9

(* Where the loop kept nothing, nothing is eligible.                       *)
LEMMA NoEligibleStep == Inv /\ NoEligible => Inv'
<1> SUFFICES ASSUME Inv, NoEligible PROVE Inv'
  OBVIOUS
<1>1. pc = "choose" /\ candidate = <<>> /\ Return("no eligible IP found")
  BY DEF NoEligible
<1>2. "no eligible IP found" \notin IPs
  BY InterfaceSourceAssumption DEF Errors
<1>3. SpelledAsDocumented => EligibleAt = {}
  <2>1. Len(candidate) = 0
    BY <1>1
  <2>2. PICK idx \in [1 .. Len(candidate) -> 1 .. Len(addrs)] :
          SpelledAsDocumented => \A k \in EligibleAt : \E i \in 1 .. Len(candidate) : idx[i] = k
    BY <1>1, EligibleKept
  <2> QED
    BY <2>1, <2>2
<1>4. (SpelledAsDocumented' <=> SpelledAsDocumented) /\ EligibleAt' = EligibleAt
  BY <1>1 DEF Return, source, SpelledAsDocumented, EligibleAt, Eligible, Objections, Asks
<1>5. PicksAsDocumented'
  BY <1>1, <1>2, <1>3, <1>4 DEF Return, PicksAsDocumented
<1> QED
  BY <1>1, <1>2, <1>5, ReturnStep DEF Errors

(* No step of the source or of the kernel breaks the invariant.            *)
LEMMA InvStep == Inv /\ [Next]_vars => Inv'
<1> SUFFICES ASSUME Inv, [Next]_vars PROVE Inv'
  OBVIOUS
<1>1. CASE New
  <2>1. config' \in Config /\ setting \in Settings
    BY <1>1, DecodedConfig DEF New, Inv, TypeOK
  <2>2. ConfigOK'
    <3>1. UNCHANGED setting /\ pc' = "idle"
      BY <1>1 DEF New
    <3>2. SpelledAsDocumented' <=> SpelledAsDocumented
      BY <3>1 DEF SpelledAsDocumented
    <3>3. \A f : Asks(f)' <=> Asks(f)
      BY <3>1 DEF Asks
    <3>4. /\ config'.type = Type /\ config'.select = Select /\ config'.flag = Flags
          /\ config'.exclude = setting.exclude /\ config'.include = setting.include
      BY <1>1 DEF New
    <3> QED
      BY <2>1, <3>1, <3>2, <3>3, <3>4, DecodedAsDocumented DEF ConfigOK
  <2>3. TypeOK'
    BY <1>1, <2>1 DEF New, kernel, Inv, TypeOK
  <2>4. AddrsOK' /\ CandidateOK' /\ ResultOK' /\ HeldOK'
    BY <1>1 DEF New, kernel, Inv, AddrsOK, AddrOK, CandidateOK, ResultOK, HeldOK
  <2>5. PicksAsDocumented'
    <3>1. result' = NoIP
      BY <1>1 DEF New, Inv, ResultOK
    <3> QED
      BY <3>1, InterfaceSourceAssumption DEF PicksAsDocumented, Errors
  <2> QED
    BY <2>2, <2>3, <2>4, <2>5 DEF Inv
<1>2. CASE BadConfig
  BY <1>2 DEF BadConfig, source, kernel, Inv, TypeOK, ConfigOK, AddrsOK, AddrOK, CandidateOK, ResultOK,
              HeldOK, PicksAsDocumented
<1>3. CASE Begin
  <2>1. DOMAIN addrs' = {}
    BY <1>3 DEF Begin
  <2>2. TypeOK'
    <3>1. named' \subseteq Indexes /\ held' \subseteq IPs
      BY <1>3 DEF Begin, Named, OwnOf
    <3> QED
      BY <1>3, <3>1, InterfaceSourceAssumption, EmptySeq DEF Begin, source, Inv, TypeOK
  <2>3. HeldOK'
    BY <1>3 DEF Begin, source, HeldOK, Named, OwnOf
  <2> QED
    BY <1>3, <2>1, <2>2, <2>3, InterfaceSourceAssumption
    DEF Begin, source, Inv, ConfigOK, SpelledAsDocumented, Asks, AddrsOK, CandidateOK, ResultOK, PicksAsDocumented
<1>4. CASE Enlarge \/ FindInterface
  <2>1. room' \in Nat
    <3>1. table \in Seq(Message) \/ table \in Seq(Entry)
      BY InterfaceSourceAssumption DEF Inv, TypeOK, Systems
    <3>2. Len(table) \in Nat
      BY <3>1, LenProperties
    <3> QED
      BY <1>4, <3>2, InterfaceSourceAssumption DEF Enlarge, FindInterface
  <2>2. index' \in Indexes \cup {0}
    <3>1. CASE Enlarge
      BY <3>1 DEF Enlarge, Inv, TypeOK
    <3>2. CASE FindInterface
      BY <3>2 DEF FindInterface, InterfaceTable, NewLink, Adapter
    <3> QED
      BY <1>4, <3>1, <3>2
  <2>3. /\ pc \in {"find", "read"} /\ pc' \in {"find", "read"}
        /\ UNCHANGED <<source, kernel, addrs, at, candidate, result>>
    BY <1>4 DEF Enlarge, FindInterface
  <2>4. HeldOK'
    <3>1. Named(links)' = Named(links) /\ OwnOf(table, named)' = OwnOf(table, named)
      BY <2>3 DEF source, kernel, Named, OwnOf
    <3>2. CASE Enlarge
      BY <2>3, <3>1, <3>2 DEF Enlarge, kernel, Inv, HeldOK
    <3>3. CASE FindInterface
      <4>1. index' \in Named(links)
        BY <3>3 DEF FindInterface, InterfaceTable, NewLink, Adapter, Named
      <4> QED
        BY <2>3, <3>1, <3>3, <4>1 DEF FindInterface, kernel, Inv, HeldOK
    <3> QED
      BY <1>4, <3>2, <3>3
  <2> QED
    BY <2>1, <2>2, <2>3, <2>4
    DEF source, kernel, Inv, TypeOK, ConfigOK, SpelledAsDocumented, Asks, AddrsOK, AddrOK, CandidateOK, ResultOK,
        PicksAsDocumented
<1>5. CASE NotFound \/ FindFails \/ ReadFails \/ UnexpectedSelect
  BY <1>5, ErrorStep DEF NotFound, FindFails, ReadFails, UnexpectedSelect, Errors
<1>6. CASE LinkChanges \/ AddressesChange
  <2>1. /\ pc \in {"find", "read"} /\ changes' \in 0 .. Changes
        /\ UNCHANGED <<source, pc, room, index, addrs, at, candidate, result>>
    BY <1>6, InterfaceSourceAssumption DEF LinkChanges, AddressesChange, KernelMay, Inv, TypeOK
  <2>2. links' \in [Indexes -> Links \cup {NoLink}] /\ table' \in Tables[system]
    BY <1>6 DEF LinkChanges, AddressesChange, Inv, TypeOK
  <2>3. named' = named \cup Named(links') /\ held' = held \cup OwnOf(table', named')
    BY <1>6 DEF LinkChanges, AddressesChange, Record
  <2>4. Named(links)' = Named(links') /\ OwnOf(table, named)' = OwnOf(table', named')
    BY <2>1 DEF source, Named, OwnOf
  <2>5. HeldOK'
    BY <2>1, <2>3, <2>4 DEF Inv, HeldOK
  <2>6. TypeOK'
    <3>1. named' \subseteq Indexes /\ held' \subseteq IPs
      BY <2>3 DEF Named, OwnOf, Inv, TypeOK
    <3> QED
      BY <2>1, <2>2, <3>1 DEF source, Inv, TypeOK
  <2>7. AddrsOK'
    BY <2>1, <2>3, AddrOKStays DEF source, Inv, AddrsOK
  <2> QED
    BY <2>1, <2>3, <2>5, <2>6, <2>7
    DEF source, Inv, ConfigOK, SpelledAsDocumented, Asks, CandidateOK, ResultOK, PicksAsDocumented
<1>7. CASE UNCHANGED vars
  <2>1. TypeOK' /\ ConfigOK' /\ AddrsOK' /\ ResultOK' /\ HeldOK'
    BY <1>7
    DEF vars, source, kernel, Inv, TypeOK, ConfigOK, SpelledAsDocumented, Asks, AddrsOK, AddrOK, ResultOK,
        HeldOK, Named, OwnOf
  <2>2. CandidateOK'
    <3>1. UNCHANGED <<config, pc, addrs, at, candidate>>
      BY <1>7 DEF vars, source
    <3>2. \A a : Discarded(a)' <=> Discarded(a)
      BY <3>1 DEF Discarded, Match
    <3>3. \A idx : Kept(idx, at)' <=> Kept(idx, at)
      BY <3>1, <3>2 DEF Kept
    <3> QED
      BY <3>1, <3>3 DEF Inv, CandidateOK
  <2>3. PicksAsDocumented'
    <3>1. UNCHANGED <<system, setting, pc, addrs, result>>
      BY <1>7 DEF vars, source
    <3>2. (SpelledAsDocumented' <=> SpelledAsDocumented) /\ EligibleAt' = EligibleAt
      BY <3>1 DEF SpelledAsDocumented, EligibleAt, Eligible, Objections, Asks
    <3>3. \A k : Size(k)' = Size(k)
      BY <3>1 DEF Size
    <3> QED
      BY <3>1, <3>2, <3>3 DEF Inv, PicksAsDocumented
  <2> QED
    BY <2>1, <2>2, <2>3 DEF Inv
<1> QED
  BY <1>1, <1>2, <1>3, <1>4, <1>5, <1>6, <1>7, ReadStep, FilterStep, NoEligibleStep, PickStep DEF Next, Work

(* So the invariant always holds.                                          *)
LEMMA Invariant == Spec => []Inv
<1> QED
  BY InvInit, InvStep, PTL DEF Spec

-----------------------------------------------------------------------------
(* The state has its type: what is decoded is a configuration, what is     *)
(* read of a table are addresses.                                          *)
THEOREM TypeCorrect == Spec => []TypeOK
<1>1. Inv => TypeOK
  BY DEF Inv
<1> QED
  BY <1>1, Invariant, PTL

(* The address that is picked is the one that the configuration, as it is  *)
(* written, asks for.                                                      *)
THEOREM Documented == Spec => []PicksAsDocumented
<1>1. Inv => PicksAsDocumented
  BY DEF Inv
<1> QED
  BY <1>1, Invariant, PTL

(* However links and addresses change between the two requests, the        *)
(* address picked was, at a moment of the lookup, an own one of a link     *)
(* that by then had had the name.                                          *)
THEOREM OfTheLink == Spec => []AddressOfLink
<1>1. Inv => AddressOfLink
  BY DEF Inv, ResultOK, AddressOfLink
<1> QED
  BY <1>1, Invariant, PTL
=============================================================================
