---------------------------- MODULE NamingProofs ----------------------------
(***************************************************************************)
(* MarksTellApart and ZonesNest for all texts, and what follows from them  *)
(* for Publisher: the assumptions UniqueKeys and OneZone, under which      *)
(* PublisherProofs shows that records are never duplicated, hold for every *)
(* configuration that meets two conditions an operator can check.          *)
(***************************************************************************)
EXTENDS Configured, PublisherProofs

Option == {<<>>} \cup {<<m>> : m \in Seq(Parts)}

(* A configured mark is a text, or there is none.                          *)
LEMMA MarksAreOptions == ASSUME NEW m \in Marks PROVE m \in Option
<1>1. CASE m = <<>>
  BY <1>1 DEF Option
<1>2. CASE \E t \in Texts : m = <<t>>
  BY <1>2, NamingAssumption DEF Option
<1> QED
  BY <1>1, <1>2 DEF Marks

(* What a concatenation is at each position.                               *)
LEMMA Concatenation ==
  ASSUME NEW a \in Seq(Parts), NEW b \in Seq(Parts)
  PROVE  /\ a \o b \in Seq(Parts) /\ Len(a \o b) = Len(a) + Len(b)
         /\ \A n \in 1..Len(a) : (a \o b)[n] = a[n]
         /\ \A n \in 1..Len(b) : (a \o b)[Len(a) + n] = b[n]
OBVIOUS

(* What the mark is at each position, for a service with a name. *)
LEMMA MarkAt ==
  ASSUME NEW s \in Seq(Parts), s # <<>>, NEW m \in Option
  PROVE  /\ Mark(s, m) \in Seq(Parts)
         /\ \A n \in 1..Len(s) : Mark(s, m)[Len(Program) + 1 + n] = s[n]
         /\ m = <<>> => Len(Mark(s, m)) = Len(Program) + 1 + Len(s)
         /\ m # <<>> =>
              /\ m = <<m[1]>> /\ m[1] \in Seq(Parts)
              /\ Len(Mark(s, m)) = Len(Program) + 2 + Len(s) + Len(m[1])
              /\ Mark(s, m)[Len(Program) + 2 + Len(s)] = Dash
              /\ \A n \in 1..Len(m[1]) : Mark(s, m)[Len(Program) + 2 + Len(s) + n] = m[1][n]
<1> DEFINE p == Program \o <<Dash>>
<1>1. /\ Program \in Seq(Parts) /\ <<Dash>> \in Seq(Parts)
      /\ p \in Seq(Parts) /\ Len(p) = Len(Program) + 1
  BY NamingAssumption
<1> DEFINE q == p \o s
<1> HIDE DEF p
<1>2. /\ q \in Seq(Parts) /\ Len(q) = Len(Program) + 1 + Len(s)
      /\ \A n \in 1..Len(s) : q[Len(Program) + 1 + n] = s[n]
  BY <1>1
<1>3. DefaultMark(s) = q
  BY DEF DefaultMark, p
<1> HIDE DEF q
<1>4. CASE m = <<>>
  BY <1>2, <1>3, <1>4 DEF Mark
<1>5. CASE m # <<>>
  <2>1. m = <<m[1]>> /\ m[1] \in Seq(Parts)
    BY <1>5 DEF Option
  <2> DEFINE t == m[1]
             r == q \o <<Dash>>
  <2>2. t \in Seq(Parts)
    BY <2>1
  <2> HIDE DEF t
  <2>3. /\ r \in Seq(Parts) /\ Len(r) = Len(q) + 1 /\ r[Len(q) + 1] = Dash
        /\ \A n \in 1..Len(q) : r[n] = q[n]
    <3>1. <<Dash>> \in Seq(Parts) /\ Len(<<Dash>>) = 1 /\ <<Dash>>[1] = Dash
      BY <1>1
    <3>2. /\ r \in Seq(Parts) /\ Len(r) = Len(q) + 1
          /\ \A n \in 1..1 : r[Len(q) + n] = <<Dash>>[n]
          /\ \A n \in 1..Len(q) : r[n] = q[n]
      BY <1>2, <3>1, Concatenation
    <3> QED
      BY <3>1, <3>2
  <2>4. Mark(s, m) = r \o t
    BY <1>3, <1>5 DEF Mark, t
  <2> HIDE DEF r
  <2>5. /\ r \o t \in Seq(Parts) /\ Len(r \o t) = Len(r) + Len(t)
        /\ \A n \in 1..Len(r) : (r \o t)[n] = r[n]
        /\ \A n \in 1..Len(t) : (r \o t)[Len(r) + n] = t[n]
    BY <2>2, <2>3, Concatenation
  <2>6. \A n \in 1..Len(s) : (r \o t)[Len(Program) + 1 + n] = s[n]
    <3> TAKE n \in 1..Len(s)
    <3>1. Len(Program) + 1 + n \in 1..Len(q)
      BY <1>1, <1>2
    <3>2. Len(Program) + 1 + n \in 1..Len(r)
      BY <3>1, <2>3, <1>2
    <3> QED
      BY <3>1, <3>2, <1>2, <2>3, <2>5
  <2>7. (r \o t)[Len(q) + 1] = Dash
    BY <1>2, <2>3, <2>5
  <2>8. /\ Len(r) = Len(Program) + 2 + Len(s) /\ Len(q) + 1 = Len(Program) + 2 + Len(s)
    BY <1>1, <1>2, <2>3
  <2>9. /\ Len(r \o t) = Len(Program) + 2 + Len(s) + Len(t)
        /\ (r \o t)[Len(Program) + 2 + Len(s)] = Dash
        /\ \A n \in 1..Len(t) : (r \o t)[Len(Program) + 2 + Len(s) + n] = t[n]
    BY <2>5, <2>7, <2>8
  <2> QED
    BY <1>5, <2>1, <2>4, <2>5, <2>6, <2>9 DEF t
<1> QED
  BY <1>4, <1>5

(* A plain service name is read off the mark: it ends at the first dash or *)
(* where the mark ends.                                                    *)
LEMMA NoLonger ==
  ASSUME NEW s \in Seq(Parts), NEW t \in Seq(Parts), Plain(s), Plain(t),
         NEW m \in Option, NEW n \in Option, Mark(s, m) = Mark(t, n)
  PROVE  ~(Len(s) < Len(t))
<1> SUFFICES ASSUME Len(s) < Len(t) PROVE FALSE
  OBVIOUS
<1> DEFINE l == Len(Program)
<1>1. l \in Nat /\ Len(s) \in Nat /\ Len(t) \in Nat
  BY NamingAssumption
<1>2. s # <<>> /\ t # <<>>
  BY DEF Plain
<1>3. Len(s) + 1 \in 1..Len(t)
  BY <1>1
<1>4. Mark(t, n)[l + 1 + (Len(s) + 1)] = t[Len(s) + 1]
  BY <1>2, <1>3, MarkAt
<1>5. t[Len(s) + 1] # Dash
  BY <1>3 DEF Plain
<1>6. Len(Mark(t, n)) >= l + 1 + Len(t)
  <2>1. CASE n = <<>>
    <3>1. Len(Mark(t, n)) = l + 1 + Len(t)
      BY <2>1, <1>2, MarkAt
    <3> QED
      BY <3>1, <1>1
  <2>2. CASE n # <<>>
    <3>1. Len(Mark(t, n)) = l + 2 + Len(t) + Len(n[1]) /\ n[1] \in Seq(Parts)
      BY <2>2, <1>2, MarkAt
    <3> DEFINE k == Len(n[1])
    <3>2. k \in Nat /\ Len(Mark(t, n)) = l + 2 + Len(t) + k
      BY <3>1
    <3> HIDE DEF k, l
    <3> QED
      BY <3>2, <1>1
  <2> QED
    BY <2>1, <2>2
<1>7. CASE m = <<>>
  <2>1. Len(Mark(s, m)) = l + 1 + Len(s)
    BY <1>7, <1>2, MarkAt
  <2> QED
    BY <2>1, <1>1, <1>6
<1>8. CASE m # <<>>
  <2>1. Mark(s, m)[l + 2 + Len(s)] = Dash
    BY <1>8, <1>2, MarkAt
  <2>2. l + 2 + Len(s) = l + 1 + (Len(s) + 1)
    BY <1>1
  <2> QED
    BY <2>1, <2>2, <1>4, <1>5
<1> QED
  BY <1>7, <1>8

(* Texts that are the same at every position are equal.                    *)
LEMMA SameElements ==
  ASSUME NEW s \in Seq(Parts), NEW t \in Seq(Parts), Len(s) = Len(t),
         \A n \in 1..Len(s) : s[n] = t[n]
  PROVE  s = t
OBVIOUS

(* The mark tells two services apart by name, and their configured marks.  *)
LEMMA TellApart ==
  ASSUME NEW s \in Seq(Parts), NEW t \in Seq(Parts), Plain(s), Plain(t),
         NEW m \in Option, NEW n \in Option, Mark(s, m) = Mark(t, n)
  PROVE  s = t /\ m = n
<1> DEFINE l == Len(Program)
<1>1. l \in Nat /\ Len(s) \in Nat /\ Len(t) \in Nat /\ s # <<>> /\ t # <<>>
  BY NamingAssumption DEF Plain
<1>2. Len(s) = Len(t)
  <2>1. ~(Len(s) < Len(t))
    BY NoLonger
  <2>2. ~(Len(t) < Len(s))
    BY NoLonger
  <2> QED
    BY <2>1, <2>2, <1>1
<1>3. s = t
  <2>1. \A k \in 1..Len(s) : s[k] = t[k]
    <3> TAKE k \in 1..Len(s)
    <3>1. Mark(s, m)[l + 1 + k] = s[k]
      BY <1>1, MarkAt
    <3>2. k \in 1..Len(t)
      BY <1>2
    <3>3. Mark(t, n)[l + 1 + k] = t[k]
      BY <1>1, <3>2, MarkAt
    <3> QED
      BY <3>1, <3>3
  <2> QED
    BY <1>2, <2>1, SameElements
<1>4. m = <<>> <=> n = <<>>
  <2>1. ASSUME NEW a \in Option, NEW b \in Option, Mark(s, a) = Mark(s, b), a = <<>>
        PROVE  b = <<>>
    <3> SUFFICES ASSUME b # <<>> PROVE FALSE
      OBVIOUS
    <3>1. Len(Mark(s, a)) = l + 1 + Len(s)
      BY <1>1, <2>1, MarkAt
    <3>2. Len(Mark(s, b)) = l + 2 + Len(s) + Len(b[1]) /\ b[1] \in Seq(Parts)
      BY <1>1, MarkAt
    <3> DEFINE k == Len(b[1])
    <3>3. k \in Nat /\ Len(Mark(s, b)) = l + 2 + Len(s) + k
      BY <3>2
    <3> HIDE DEF k, l
    <3> QED
      BY <1>1, <2>1, <3>1, <3>3
  <2> QED
    BY <1>3, <2>1
<1>5. m = n
  <2>1. CASE m = <<>>
    BY <1>4, <2>1
  <2>2. CASE m # <<>>
    <3> DEFINE a == m[1]
               b == n[1]
    <3>1. m = <<a>> /\ n = <<b>> /\ a \in Seq(Parts) /\ b \in Seq(Parts)
      BY <1>1, <1>4, <2>2, MarkAt
    <3>2. Len(Mark(s, m)) = l + 2 + Len(s) + Len(a) /\ Len(Mark(t, n)) = l + 2 + Len(t) + Len(b)
      BY <1>1, <1>4, <2>2, MarkAt
    <3>3. /\ \A k \in 1..Len(a) : Mark(s, m)[l + 2 + Len(s) + k] = a[k]
          /\ \A k \in 1..Len(b) : Mark(t, n)[l + 2 + Len(t) + k] = b[k]
      BY <1>1, <1>4, <2>2, MarkAt
    <3> HIDE DEF a, b
    <3>4. Len(a) = Len(b)
      BY <1>1, <1>2, <3>1, <3>2
    <3>5. \A k \in 1..Len(a) : a[k] = b[k]
      BY <1>2, <3>3, <3>4
    <3>6. a = b
      BY <3>1, <3>4, <3>5, SameElements
    <3> QED
      BY <3>1, <3>6
  <2> QED
    BY <2>1, <2>2
<1> QED
  BY <1>3, <1>5

(* Named instances without dashes in their names have no mark in common,   *)
(* for texts of any length (publisher.go:27, main.go:153).                 *)
THEOREM MarksDiffer == MarksTellApart
<1> SUFFICES ASSUME NEW s \in {u \in Texts : Plain(u)}, NEW t \in {u \in Texts : Plain(u)},
                    NEW m \in Marks, NEW n \in Marks, Mark(s, m) = Mark(t, n)
             PROVE  s = t /\ m = n
  BY DEF MarksTellApart
<1>1. s \in Seq(Parts) /\ t \in Seq(Parts) /\ Plain(s) /\ Plain(t)
  BY NamingAssumption
<1>2. m \in Option /\ n \in Option
  BY MarksAreOptions
<1> QED
  BY <1>1, <1>2, TellApart

-----------------------------------------------------------------------------
(* What HasSuffix means, position by position.                             *)
LEMMA SuffixAt ==
  ASSUME NEW t \in Seq(Parts), NEW s \in Seq(Parts)
  PROVE  HasSuffix(t, s) <=> /\ Len(s) <= Len(t)
                             /\ \A k \in 1..Len(s) : t[Len(t) - Len(s) + k] = s[k]
<1> DEFINE o == Len(t) - Len(s)
<1> SUFFICES ASSUME Len(s) <= Len(t)
             PROVE  HasSuffix(t, s) <=> \A k \in 1..Len(s) : t[o + k] = s[k]
  BY DEF HasSuffix
<1>1. o \in Nat /\ o + Len(s) = Len(t) /\ Len(s) \in Nat /\ Len(t) \in Nat
  OBVIOUS
<1> DEFINE u == SubSeq(t, o + 1, Len(t))
<1>2. /\ u \in Seq(Parts) /\ Len(u) = Len(s)
      /\ \A k \in 1..Len(s) : u[k] = t[o + k]
  BY <1>1
<1>3. HasSuffix(t, s) <=> u = s
  BY DEF HasSuffix
<1> HIDE DEF u, o
<1>4. ASSUME \A k \in 1..Len(s) : t[o + k] = s[k] PROVE u = s
  BY <1>2, <1>4, SameElements
<1> QED
  BY <1>2, <1>3, <1>4

(* Of two ends of a text the shorter is an end of the longer.              *)
LEMMA Nest ==
  ASSUME NEW d \in Seq(Parts), NEW y \in Seq(Parts), NEW z \in Seq(Parts),
         HasSuffix(d, y), HasSuffix(d, z), Len(z) <= Len(y)
  PROVE  HasSuffix(y, z)
<1>1. Len(d) \in Nat /\ Len(y) \in Nat /\ Len(z) \in Nat /\ Len(y) <= Len(d)
  BY SuffixAt
<1>2. \A k \in 1..Len(z) : y[Len(y) - Len(z) + k] = z[k]
  <2> TAKE k \in 1..Len(z)
  <2>1. d[Len(d) - Len(z) + k] = z[k]
    BY SuffixAt
  <2>2. Len(y) - Len(z) + k \in 1..Len(y)
    BY <1>1
  <2>3. d[Len(d) - Len(y) + (Len(y) - Len(z) + k)] = y[Len(y) - Len(z) + k]
    BY <2>2, SuffixAt
  <2>4. Len(d) - Len(y) + (Len(y) - Len(z) + k) = Len(d) - Len(z) + k
    BY <1>1
  <2> QED
    BY <2>1, <2>3, <2>4
<1> QED
  BY <1>2, SuffixAt

(* Two zones that a name ends in are nested, whatever the texts are        *)
(* (cloudflare.go:53).                                                     *)
THEOREM ZonesAreNested == ZonesNest
<1> SUFFICES ASSUME NEW d \in Texts, NEW z1 \in ZonesFor(d, Texts), NEW z2 \in ZonesFor(d, Texts)
             PROVE  HasSuffix(z1, z2) \/ HasSuffix(z2, z1)
  BY DEF ZonesNest
<1>1. /\ d \in Seq(Parts) /\ z1 \in Seq(Parts) /\ z2 \in Seq(Parts)
      /\ HasSuffix(d, z1) /\ HasSuffix(d, z2)
  BY NamingAssumption DEF ZonesFor
<1>2. Len(z1) <= Len(z2) \/ Len(z2) <= Len(z1)
  BY <1>1
<1> QED
  BY <1>1, <1>2, Nest

-----------------------------------------------------------------------------
(* What a configuration file can say, for the instances of Publisher. *)
EntryOf ==
  [domain : Seq(Parts), type : {"A", "AAAA"}, mark : Option, address : Addresses]

Settings == [Instances -> [service : Seq(Parts), domains : Seq(EntryOf)]]

(* The instances have names of their own, without dashes, and none of them *)
(* lists a domain twice with one type and mark: then no two entries look   *)
(* for the same record, which Publisher's SingleRecord rests on.           *)
THEOREM KeysAreUnique ==
  ASSUME NEW settings \in Settings, EntriesDiffer(settings), Config = ConfigOf(settings)
  PROVE  UniqueKeys
<1> SUFFICES ASSUME NEW i \in Instances, NEW j \in Instances,
                    NEW m \in Domains(i), NEW n \in Domains(j),
                    Config[i][m].key = Config[j][n].key
             PROVE  i = j /\ m = n
  BY DEF UniqueKeys
<1>1. DOMAIN settings = Instances
  BY DEF Settings
<1> DEFINE d == settings[i].domains[m]
           e == settings[j].domains[n]
           s == settings[i].service
           t == settings[j].service
<1>2. m \in DOMAIN settings[i].domains /\ n \in DOMAIN settings[j].domains
  BY <1>1 DEF Domains, ConfigOf
<1>3. /\ s \in Seq(Parts) /\ t \in Seq(Parts) /\ d.mark \in Option /\ e.mark \in Option
  <2>1. settings[i] \in [service : Seq(Parts), domains : Seq(EntryOf)]
        /\ settings[j] \in [service : Seq(Parts), domains : Seq(EntryOf)]
    BY DEF Settings
  <2>2. d \in EntryOf /\ e \in EntryOf
    BY <1>2, <2>1
  <2> QED
    BY <2>1, <2>2 DEF EntryOf
<1>4. /\ Config[i][m].key = Key(settings[i], d)
      /\ Config[j][n].key = Key(settings[j], e)
  BY <1>1, <1>2 DEF ConfigOf
<1>5. d.domain = e.domain /\ d.type = e.type /\ Mark(s, d.mark) = Mark(t, e.mark)
  <2>1. Key(settings[i], d) = Key(settings[j], e)
    BY <1>4
  <2> QED
    BY <2>1 DEF Key
<1>6. Plain(s) /\ Plain(t)
  BY <1>1 DEF EntriesDiffer
<1>7. s = t /\ d.mark = e.mark
  BY <1>3, <1>5, <1>6, TellApart
<1>8. i = j
  BY <1>1, <1>7 DEF EntriesDiffer
<1>9. m = n
  BY <1>1, <1>2, <1>5, <1>7, <1>8 DEF EntriesDiffer
<1> QED
  BY <1>8, <1>9

(* Configured zones none of which ends in another leave no choice of zone. *)
THEOREM ZoneIsDetermined ==
  ASSUME ZonesFromNames, NotNested(Zones)
  PROVE  OneZone
<1> SUFFICES ASSUME NEW k \in Keys, NEW z1 \in ZonesOf[k], NEW z2 \in ZonesOf[k]
             PROVE  z1 = z2
  BY DEF OneZone
<1>1. /\ z1 \in Zones /\ z2 \in Zones
      /\ HasSuffix(k.domain, z1) /\ HasSuffix(k.domain, z2)
  BY DEF ZonesFromNames, ZonesFor
<1>2. k.domain \in Seq(Parts) /\ z1 \in Seq(Parts) /\ z2 \in Seq(Parts)
  BY <1>1 DEF ZonesFromNames
<1>3. Len(z1) <= Len(z2) \/ Len(z2) <= Len(z1)
  BY <1>2
<1>4. HasSuffix(z1, z2) \/ HasSuffix(z2, z1)
  BY <1>1, <1>2, <1>3, Nest
<1> QED
  BY <1>1, <1>4 DEF NotNested

(* So where the instances have plain names of their own, no two entries    *)
(* ever remember one record, under every fault (publisher.go:27).          *)
THEOREM RecordsApart ==
  ASSUME NEW settings \in Settings, EntriesDiffer(settings), Config = ConfigOf(settings)
  PROVE  Spec => []OneOwner
BY KeysAreUnique, OwnersDiffer

(* And a configuration whose instances have plain names of their own and   *)
(* whose zones are not nested never gets a second record for an entry,     *)
(* over crashes and restarts, as long as the service answers.              *)
THEOREM ConfiguredApart ==
  ASSUME NEW settings \in Settings, EntriesDiffer(settings), Config = ConfigOf(settings),
         ZonesFromNames, NotNested(Zones),
         {"lose", "late"} \cap Faults = {}, InitialFits
  PROVE  Spec => []SingleRecord
<1>1. UniqueKeys
  BY KeysAreUnique
<1>2. OneZone
  BY ZoneIsDetermined
<1> QED
  BY <1>1, <1>2, NeverDuplicate DEF Reliable

-----------------------------------------------------------------------------
(* Every record, and every write that is asked for or still to come, is in *)
(* a zone where FindRecord may look for it.                                *)
InZone ==
  /\ \A id \in Ids : Live(id) => records[id].zone \in ZonesOf[records[id].key]
  /\ \A i \in Instances : pc[i] = "await" => request[i].zone \in ZonesOf[request[i].key]
  /\ \A r \in late : r.zone \in ZonesOf[r.key]

(* A write that names a zone of its key leaves all records in such zones.   *)
LEMMA ApplyInZone ==
  ASSUME Inv, InZone, NEW r \in Request, r.zone \in ZonesOf[r.key], NEW id \in Ids, Apply(r, id)
  PROVE  \A id2 \in Ids : Live(id2)' => records'[id2].zone \in ZonesOf[records'[id2].key]
<1>1. /\ records'[id].key = r.key /\ records'[id].zone = r.zone
      /\ \A other \in Ids : other # id => records'[other] = records[other]
  BY Applied, TypeParts DEF Inv
<1> QED
  BY <1>1 DEF InZone, Live

(* Every step keeps records, requests and late requests in their zones.     *)
LEMMA InZoneNext == Inv /\ InZone /\ [Next]_vars => InZone'
<1> SUFFICES ASSUME Inv, InZone, [Next]_vars PROVE InZone'
  OBVIOUS
<1>1. ASSUME NEW id2 \in Ids, Live(id2)'
      PROVE  records'[id2].zone \in ZonesOf[records'[id2].key]
  <2>1. CASE records'[id2] \in {records[id2], Deleted}
    BY <1>1, <2>1 DEF InZone, Live
  <2>2. ASSUME NEW i \in Instances, Serve(i)
        PROVE  records'[id2].zone \in ZonesOf[records'[id2].key]
    <3>1. pc[i] = "await" /\ request[i] \in Request
      BY <2>2, WaitingRequest DEF Serve, Waiting
    <3>2. PICK id \in Ids : Apply(request[i], id)
      BY <2>2 DEF Serve
    <3> QED
      BY <1>1, <3>1, <3>2, ApplyInZone DEF InZone
  <2>3. ASSUME NEW r \in late, ServeLate(r)
        PROVE  records'[id2].zone \in ZonesOf[records'[id2].key]
    <3>1. r \in Request /\ r.zone \in ZonesOf[r.key]
      BY DEF Inv, TypeOK, InZone
    <3>2. CASE records' = records
      BY <2>1, <3>2
    <3>3. CASE \E id \in Ids : Apply(r, id)
      BY <1>1, <3>1, <3>3, ApplyInZone
    <3> QED
      BY <2>3, <3>2, <3>3 DEF ServeLate
  <2>4. ASSUME NEW i \in Instances, Own(i) \/ Refuse(i) \/ LoseReply(i) \/ Crash(i)
        PROVE  records' = records
    BY <2>4, OwnOK DEF Refuse, LoseReply, Crash, service
  <2>5. ASSUME NEW id \in Ids, ForeignDelete(id) PROVE records'[id2] \in {records[id2], Deleted}
    BY <2>5 DEF ForeignDelete, Inv, TypeOK
  <2>6. ASSUME (\E a \in Addresses : AddressChanges(a)) \/ UNCHANGED vars
        PROVE  records' = records
    BY <2>6 DEF AddressChanges, vars, service
  <2> QED
    BY <2>1, <2>2, <2>3, <2>4, <2>5, <2>6, StepActors DEF Outside
<1>2. ASSUME NEW j \in Instances, pc'[j] = "await"
      PROVE  request'[j].zone \in ZonesOf[request'[j].key]
  <2>1. CASE Update(j)
    <3>1. PICK z \in ZonesOf[Here(j).key] :
            request' = [request EXCEPT ![j] =
              [id |-> Memory(j).handle, key |-> Here(j).key, zone |-> z, ip |-> Target(j)]]
      BY <2>1 DEF Update
    <3>2. request'[j].zone = z /\ request'[j].key = Here(j).key
      BY <3>1 DEF Inv, TypeOK
    <3> QED
      BY <3>2
  <2>2. CASE pc[j] = "await" /\ request'[j] = request[j]
    BY <2>2 DEF InZone
  <2>3. CASE Own(j) /\ ~ Update(j)
    <3>1. ~ Gone(j)
      BY <1>2 DEF Gone, Inv, TypeOK
    <3> QED
      BY <1>2, <2>3, <3>1
         DEF Own, Work, Start, FindRecord, InitFails, Ready, SkipPass, SkipUnresolved,
             SkipUnchanged, EndPublish, Receive, Publish, Inv, TypeOK
  <2>4. CASE Crash(j)
    BY <1>2, <2>4 DEF Crash, Gone, Inv, TypeOK
  <2> QED
    BY <1>2, <2>1, <2>2, <2>3, <2>4, StepActors, OthersUnmoved, OutsideUnmoved
       DEF Unmoved, Serve, Refuse, LoseReply
<1>3. ASSUME NEW r \in late' PROVE r.zone \in ZonesOf[r.key]
  <2>1. CASE r \in late
    BY <2>1 DEF InZone
  <2>2. ASSUME r \notin late, NEW i \in Instances, Abandon(i)
        PROVE  r.zone \in ZonesOf[r.key]
    <3>1. pc[i] = "await" /\ r = request[i]
      BY <2>2, AbandonTyped
    <3> QED
      BY <3>1 DEF InZone
  <2>3. ASSUME NEW i \in Instances, Own(i) \/ Serve(i) \/ Refuse(i)
        PROVE  late' = late
    BY <2>3, OwnOK DEF Serve, Refuse, service
  <2> QED
    BY <2>1, <2>2, <2>3, StepActors, OutsideUnmoved DEF LoseReply, Crash
<1> QED
  BY <1>1, <1>2, <1>3 DEF InZone

(* Under every fault, and with zones nested in any way, no record comes to *)
(* be in a zone that its name does not end in (cloudflare.go:51): neither  *)
(* is one created there, nor is one moved there by an update whose zone is *)
(* that of a record found earlier.                                         *)
THEOREM ZonesAreNamed ==
  ASSUME ZonesFromNames, InitialInZone
  PROVE  Spec => []InNamedZone
<1>1. Init => InZone
  <2>1. Init => \A id \in Ids : Live(id) => records[id] \in Record /\ records \in Initial
    BY PublisherAssumption DEF Init, Live
  <2> QED
    BY <2>1 DEF Init, InZone, InitialInZone
<1>2. Inv /\ InZone => InNamedZone
  <2> SUFFICES ASSUME Inv, InZone, NEW id \in Ids, Live(id)
               PROVE  \E k \in 1 .. Len(records[id].key.domain) + 1 :
                        SubSeq(records[id].key.domain, k, Len(records[id].key.domain))
                          = records[id].zone
    BY DEF InNamedZone
  <2>1. records[id].key \in Keys /\ records[id].zone \in ZonesOf[records[id].key]
    BY DEF Inv, TypeOK, Live, Record, InZone
  <2>2. PICK name \in Seq(Parts) : name = records[id].key.domain
    BY <2>1 DEF ZonesFromNames
  <2>3. PICK z \in Seq(Parts) : z = records[id].zone /\ HasSuffix(name, z)
    BY <2>1, <2>2 DEF ZonesFromNames, ZonesFor
  <2>4. Len(z) <= Len(name) /\ SubSeq(name, Len(name) - Len(z) + 1, Len(name)) = z
    BY <2>3, Zenon DEF HasSuffix
  <2>5. Len(z) \in Nat /\ Len(name) \in Nat
    OBVIOUS
  <2>6. Len(name) - Len(z) + 1 \in 1 .. Len(name) + 1
    BY <2>4, <2>5
  <2> QED
    BY <2>2, <2>3, <2>4, <2>6
<1> QED
  BY <1>1, <1>2, InZoneNext, InvCorrect, PTL DEF Spec
=============================================================================
