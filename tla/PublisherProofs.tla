-------------------------- MODULE PublisherProofs ---------------------------
(***************************************************************************)
(* Proofs about Publisher, for any instances, configurations, records and  *)
(* moves of the addresses.                                                 *)
(***************************************************************************)
EXTENDS Publisher, TLAPS, SequenceTheorems

-----------------------------------------------------------------------------
(* Where the loops over the domains stand, in NewPublisher (pc "init") and *)
(* in Publish, and what a call of WriteRecord that is under way is about.  *)
LoopOK(i) ==
  /\ pos[i] <= Len(Config[i]) + 1
  /\ pc[i] = "down" => pos[i] = 1 /\ domains[i] = <<>>
  /\ pc[i] = "init" => Len(domains[i]) = pos[i] - 1
  /\ pc[i] \in {"idle", "publish", "await"} => Len(domains[i]) = Len(Config[i])
  /\ pc[i] = "await" =>
       /\ pos[i] <= Len(Config[i])
       /\ request[i] \in Request
       /\ request[i].id = Memory(i).handle
       /\ request[i].key = Here(i).key
       /\ request[i].ip = Target(i)
       /\ Memory(i).ip = Target(i)
  /\ pc[i] # "await" => reply[i] = "none"

LoopsOK == \A i \in Instances : LoopOK(i)

(* The domains configured for an instance, and their fields.                *)
LEMMA ConfigType ==
  ASSUME NEW i \in Instances
  PROVE  /\ Config[i] \in Seq(Domain)
         /\ Len(Config[i]) \in Nat
         /\ DOMAIN Config[i] = 1 .. Len(Config[i])
         /\ \A n \in 1 .. Len(Config[i]) :
              Config[i][n] \in Domain /\ Config[i][n].key \in Keys
                /\ Config[i][n].address \in Addresses
<1>1. Config[i] \in Seq(Domain)
  BY PublisherAssumption
<1>2. Len(Config[i]) \in Nat /\ DOMAIN Config[i] = 1 .. Len(Config[i])
  BY <1>1, LenProperties
<1>3. \A n \in 1 .. Len(Config[i]) : Config[i][n] \in Domain
  BY <1>1, ElementOfSeq
<1> QED
  BY <1>1, <1>2, <1>3 DEF Domain

(* The domain in turn, its key, its address and the address to publish.     *)
LEMMA HereType ==
  ASSUME TypeOK, NEW i \in Instances, ~AtEnd(i)
  PROVE  /\ pos[i] \in 1 .. Len(Config[i])
         /\ Here(i).key \in Keys
         /\ Here(i).address \in Addresses
         /\ Target(i) \in IPs \cup {NoIP}
<1>1. pos[i] \in 1 .. Len(Config[i])
  BY ConfigType DEF TypeOK, AtEnd
<1>2. Here(i).key \in Keys /\ Here(i).address \in Addresses
  BY <1>1, ConfigType DEF Here
<1> QED
  BY <1>1, <1>2 DEF TypeOK, Target

(* What recordPublisher keeps for a domain has its type.                    *)
LEMMA MemoryType ==
  ASSUME TypeOK, NEW i \in Instances, NEW n \in 1 .. Len(domains[i])
  PROVE  /\ domains[i][n] \in Cached
         /\ domains[i][n].handle \in Ids \cup {NoId}
         /\ domains[i][n].ip \in IPs \cup {NoIP}
<1>1. domains[i][n] \in Cached
  BY ElementOfSeq DEF TypeOK
<1> QED
  BY <1>1 DEF Cached

(* Moving to the next domain changes the position of one instance only.     *)
LEMMA Advanced ==
  ASSUME TypeOK, NEW i \in Instances, pos' = [pos EXCEPT ![i] = @ + 1]
  PROVE  /\ pos' \in [Instances -> Nat \ {0}]
         /\ pos'[i] = pos[i] + 1
         /\ \A j \in Instances : j # i => pos'[j] = pos[j]
<1>1. pos \in [Instances -> Nat \ {0}] /\ pos[i] + 1 \in Nat \ {0}
  BY DEF TypeOK
<1> QED
  BY <1>1

(* A new entry at the end of the memory of i, written by FindRecord.       *)
LEMMA Appended ==
  ASSUME TypeOK, NEW i \in Instances, NEW m \in Cached,
         domains' = [domains EXCEPT ![i] = Append(@, m)]
  PROVE  /\ domains' \in [Instances -> Seq(Cached)]
         /\ Len(domains'[i]) = Len(domains[i]) + 1
         /\ \A n \in 1 .. Len(domains[i]) : domains'[i][n] = domains[i][n]
         /\ domains'[i][Len(domains[i]) + 1] = m
         /\ \A j \in Instances : j # i => domains'[j] = domains[j]
<1>1. domains[i] \in Seq(Cached)
  BY DEF TypeOK
<1>2. domains'[i] = Append(domains[i], m) /\ \A j \in Instances : j # i => domains'[j] = domains[j]
  BY DEF TypeOK
<1>3. /\ Append(domains[i], m) \in Seq(Cached)
      /\ Len(Append(domains[i], m)) = Len(domains[i]) + 1
      /\ \A n \in 1 .. Len(domains[i]) : Append(domains[i], m)[n] = domains[i][n]
      /\ Append(domains[i], m)[Len(domains[i]) + 1] = m
  BY <1>1, AppendProperties
<1> QED
  BY <1>2, <1>3 DEF TypeOK

(* The entry of the domain at hand is replaced, by update.                 *)
LEMMA Remembered ==
  ASSUME TypeOK, NEW i \in Instances, NEW m \in Cached, Remember(i, m),
         pos[i] \in 1 .. Len(domains[i])
  PROVE  /\ domains' \in [Instances -> Seq(Cached)]
         /\ Len(domains'[i]) = Len(domains[i])
         /\ \A n \in 1 .. Len(domains[i]) :
              domains'[i][n] = IF n = pos[i] THEN m ELSE domains[i][n]
         /\ \A j \in Instances : j # i => domains'[j] = domains[j]
<1>1. domains[i] \in Seq(Cached)
  BY DEF TypeOK
<1>2. /\ domains'[i] = [domains[i] EXCEPT ![pos[i]] = m]
      /\ \A j \in Instances : j # i => domains'[j] = domains[j]
  BY DEF TypeOK, Remember
<1>3. /\ [domains[i] EXCEPT ![pos[i]] = m] \in Seq(Cached)
      /\ Len([domains[i] EXCEPT ![pos[i]] = m]) = Len(domains[i])
      /\ \A n \in 1 .. Len(domains[i]) :
           [domains[i] EXCEPT ![pos[i]] = m][n] = IF n = pos[i] THEN m ELSE domains[i][n]
  BY <1>1, ExceptSeq
<1> QED
  BY <1>2, <1>3 DEF TypeOK, Remember

-----------------------------------------------------------------------------
Unmoved(j) ==
  /\ pc'[j] = pc[j] /\ pos'[j] = pos[j] /\ domains'[j] = domains[j]
  /\ wanted'[j] = wanted[j] /\ request'[j] = request[j] /\ reply'[j] = reply[j]

(* The invariant of the loop of an instance survives the steps of others.   *)
LEMMA UnmovedOK ==
  ASSUME NEW j \in Instances, Unmoved(j), LoopOK(j)
  PROVE  LoopOK(j)'
  BY DEF Unmoved, LoopOK, Memory, Here, Target

(* The types of the variables that belong to the instances.                *)
InstancesTyped ==
  /\ pc \in [Instances -> {"down", "init", "idle", "publish", "await"}]
  /\ pos \in [Instances -> Nat \ {0}]
  /\ domains \in [Instances -> Seq(Cached)]
  /\ wanted \in [Instances -> [Addresses -> IPs \cup {NoIP}]]
  /\ request \in [Instances -> Request \cup {NoRequest}]
  /\ reply \in [Instances -> Ids \cup {"none", "refused"}]

ServiceTyped ==
  /\ current \in [Addresses -> IPs \cup {NoIP}]
  /\ records \in [Ids -> Record \cup {Unused, Deleted}]
  /\ late \subseteq Request

(* The type invariant is that of the instances and that of the service.     *)
LEMMA TypeParts == TypeOK <=> InstancesTyped /\ ServiceTyped
  BY DEF TypeOK, InstancesTyped, ServiceTyped

Inv == TypeOK /\ LoopsOK

(* The end of a process keeps the types and the loops.                      *)
LEMMA GoneOK ==
  ASSUME Inv, NEW i \in Instances, Gone(i)
  PROVE  InstancesTyped' /\ LoopsOK'
<1>1. InstancesTyped'
  BY EmptySeq DEF Inv, TypeOK, Gone, InstancesTyped, Nothing
<1>2. LoopOK(i)'
  <2>1. Len(Config[i]) \in Nat
    BY ConfigType
  <2> QED
    BY <2>1 DEF Inv, TypeOK, Gone, LoopOK
<1>3. \A j \in Instances \ {i} : Unmoved(j)
  BY DEF Inv, TypeOK, Gone, Unmoved
<1> QED
  BY <1>1, <1>2, <1>3, UnmovedOK DEF Inv, LoopsOK

(* The start of main keeps the types and the loops.                         *)
LEMMA StartOK ==
  ASSUME Inv, NEW i \in Instances, Start(i)
  PROVE  InstancesTyped' /\ LoopsOK'
<1>1. InstancesTyped'
  BY DEF Inv, TypeOK, Start, InstancesTyped
<1>2. LoopOK(i)'
  BY EmptySeq DEF Inv, LoopsOK, TypeOK, Start, LoopOK
<1>3. \A j \in Instances \ {i} : Unmoved(j)
  BY DEF Inv, TypeOK, Start, Unmoved
<1> QED
  BY <1>1, <1>2, <1>3, UnmovedOK DEF Inv, LoopsOK

(* What recordPublisher.init keeps: no record, or one found for the name.   *)
LEMMA FindRecordMemory ==
  ASSUME Inv, NEW i \in Instances, FindRecord(i)
  PROVE  \E m \in Cached :
           /\ domains' = [domains EXCEPT ![i] = Append(@, m)]
           /\ \/ /\ m.handle = NoId /\ m.ip = NoIP
                 /\ \E z \in ZonesOf[Here(i).key] : Found(Here(i).key, z) = {}
              \/ /\ m.handle \in Ids /\ records[m.handle] \in Record
                 /\ records[m.handle].key = Here(i).key
                 /\ m.ip = records[m.handle].ip
<1>1. PICK z \in ZonesOf[Here(i).key] :
        \/ /\ Found(Here(i).key, z) = {}
           /\ domains' = [domains EXCEPT ![i] = Append(@, [handle |-> NoId, ip |-> NoIP])]
        \/ \E id \in Found(Here(i).key, z) :
             /\ Found(Here(i).key, z) = {id}
             /\ domains' = [domains EXCEPT ![i] =
                              Append(@, [handle |-> id, ip |-> records[id].ip])]
  BY DEF FindRecord
<1>2. CASE /\ Found(Here(i).key, z) = {}
           /\ domains' = [domains EXCEPT ![i] = Append(@, [handle |-> NoId, ip |-> NoIP])]
  <2>1. [handle |-> NoId, ip |-> NoIP] \in Cached
    BY DEF Cached
  <2> QED
    BY <1>2, <2>1
<1>3. ASSUME NEW id \in Found(Here(i).key, z),
             domains' = [domains EXCEPT ![i] =
                           Append(@, [handle |-> id, ip |-> records[id].ip])]
      PROVE  \E m \in Cached :
               /\ domains' = [domains EXCEPT ![i] = Append(@, m)]
               /\ m.handle \in Ids /\ records[m.handle] \in Record
               /\ records[m.handle].key = Here(i).key
               /\ m.ip = records[m.handle].ip
  <2>1. id \in Ids /\ records[id] \in Record /\ records[id].key = Here(i).key
    BY DEF Found, Live, Inv, TypeOK
  <2>2. [handle |-> id, ip |-> records[id].ip] \in Cached
    BY <2>1 DEF Cached, Record
  <2> QED
    BY <1>3, <2>1, <2>2
<1> QED
  BY <1>1, <1>2, <1>3

(* recordPublisher.init keeps the types and the loops.                      *)
LEMMA FindRecordOK ==
  ASSUME Inv, NEW i \in Instances, FindRecord(i)
  PROVE  InstancesTyped' /\ LoopsOK'
<1>1. PICK m \in Cached : domains' = [domains EXCEPT ![i] = Append(@, m)]
  BY FindRecordMemory
<1>2. /\ domains' \in [Instances -> Seq(Cached)]
      /\ Len(domains'[i]) = Len(domains[i]) + 1
      /\ \A j \in Instances : j # i => domains'[j] = domains[j]
  BY <1>1, Appended DEF Inv
<1>3. InstancesTyped'
  <2>1. pos' \in [Instances -> Nat \ {0}]
    BY Advanced DEF FindRecord, Inv
  <2> QED
    BY <1>2, <2>1 DEF Inv, TypeOK, FindRecord, InstancesTyped
<1>4. pos[i] \in 1 .. Len(Config[i]) /\ Len(Config[i]) \in Nat
  BY HereType, ConfigType DEF FindRecord, Inv
<1>5. LoopOK(i)'
  BY <1>2, <1>4 DEF Inv, LoopsOK, TypeOK, FindRecord, LoopOK
<1>6. \A j \in Instances \ {i} : Unmoved(j)
  BY <1>2 DEF Inv, TypeOK, FindRecord, Unmoved
<1> QED
  BY <1>3, <1>5, <1>6, UnmovedOK DEF Inv, LoopsOK

(* The end of NewPublisher keeps the types and the loops.                   *)
LEMMA ReadyOK ==
  ASSUME Inv, NEW i \in Instances, Ready(i)
  PROVE  InstancesTyped' /\ LoopsOK'
<1>1. InstancesTyped'
  BY DEF Inv, TypeOK, Ready, InstancesTyped
<1>2. Len(Config[i]) \in Nat
  BY ConfigType
<1>3. LoopOK(i)'
  BY <1>2 DEF Inv, LoopsOK, TypeOK, Ready, LoopOK, AtEnd
<1>4. \A j \in Instances \ {i} : Unmoved(j)
  BY DEF Inv, TypeOK, Ready, Unmoved
<1> QED
  BY <1>1, <1>3, <1>4, UnmovedOK DEF Inv, LoopsOK

(* Entering Publisher.Publish keeps the types and the loops.                *)
LEMMA PublishOK ==
  ASSUME Inv, NEW i \in Instances, Publish(i)
  PROVE  InstancesTyped' /\ LoopsOK'
<1>1. InstancesTyped'
  BY DEF Inv, TypeOK, Publish, InstancesTyped
<1>2. Len(Config[i]) \in Nat
  BY ConfigType
<1>3. LoopOK(i)'
  BY <1>2 DEF Inv, LoopsOK, TypeOK, Publish, LoopOK
<1>4. \A j \in Instances \ {i} : Unmoved(j)
  BY DEF Inv, TypeOK, Publish, Unmoved
<1> QED
  BY <1>1, <1>3, <1>4, UnmovedOK DEF Inv, LoopsOK

(* Passing over a domain keeps the types and the loops.                     *)
LEMMA SkipOK ==
  ASSUME Inv, NEW i \in Instances, SkipUnresolved(i) \/ SkipUnchanged(i)
  PROVE  InstancesTyped' /\ LoopsOK'
<1>1. InstancesTyped'
  <2>1. pos' \in [Instances -> Nat \ {0}]
    BY Advanced DEF SkipUnresolved, SkipUnchanged, Inv
  <2> QED
    BY <2>1 DEF Inv, TypeOK, SkipUnresolved, SkipUnchanged, InstancesTyped
<1>2. pos[i] \in 1 .. Len(Config[i]) /\ Len(Config[i]) \in Nat
  BY HereType, ConfigType DEF SkipUnresolved, SkipUnchanged, Inv
<1>3. LoopOK(i)'
  BY <1>2 DEF Inv, LoopsOK, TypeOK, SkipUnresolved, SkipUnchanged, LoopOK
<1>4. \A j \in Instances \ {i} : Unmoved(j)
  BY DEF Inv, TypeOK, SkipUnresolved, SkipUnchanged, Unmoved
<1> QED
  BY <1>1, <1>3, <1>4, UnmovedOK DEF Inv, LoopsOK

(* What Update remembers, and what it asks for.                            *)
LEMMA UpdateEffect ==
  ASSUME Inv, NEW i \in Instances, Update(i)
  PROVE  /\ pos[i] \in 1 .. Len(domains[i]) /\ pos[i] \in 1 .. Len(Config[i])
         /\ domains' \in [Instances -> Seq(Cached)]
         /\ Len(domains'[i]) = Len(domains[i])
         /\ \A n \in 1 .. Len(domains[i]) : n # pos[i] => domains'[i][n] = domains[i][n]
         /\ domains'[i][pos[i]].handle = Memory(i).handle
         /\ domains'[i][pos[i]].ip = Target(i)
         /\ \A j \in Instances : j # i => domains'[j] = domains[j]
         /\ request' \in [Instances -> Request \cup {NoRequest}]
         /\ request'[i] \in Request
         /\ request'[i].id = Memory(i).handle
         /\ request'[i].key = Here(i).key
         /\ request'[i].ip = Target(i)
         /\ \A j \in Instances : j # i => request'[j] = request[j]
<1> DEFINE m == [Memory(i) EXCEPT !.ip = Target(i)]
<1>1. /\ pos[i] \in 1 .. Len(domains[i]) /\ pos[i] \in 1 .. Len(Config[i])
      /\ Here(i).key \in Keys /\ Target(i) \in IPs
  BY HereType DEF Update, Inv, LoopsOK, LoopOK
<1>2. Memory(i) \in Cached
  BY <1>1, MemoryType DEF Memory, Inv
<1>3. m \in Cached /\ m.handle = Memory(i).handle /\ m.ip = Target(i)
  BY <1>1, <1>2 DEF Cached
<1>4. Remember(i, m)
  BY DEF Update
<1> HIDE DEF m
<1>5. /\ domains' \in [Instances -> Seq(Cached)]
      /\ Len(domains'[i]) = Len(domains[i])
      /\ \A n \in 1 .. Len(domains[i]) :
           domains'[i][n] = IF n = pos[i] THEN m ELSE domains[i][n]
      /\ \A j \in Instances : j # i => domains'[j] = domains[j]
  BY <1>1, <1>3, <1>4, Remembered DEF Inv
<1>6. PICK z \in ZonesOf[Here(i).key] :
        request' = [request EXCEPT ![i] =
          [id |-> Memory(i).handle, key |-> Here(i).key, zone |-> z, ip |-> Target(i)]]
  BY DEF Update
<1>7. z \in Zones /\ Memory(i).handle \in Ids \cup {NoId}
  BY <1>1, <1>2, PublisherAssumption DEF Cached
<1>8. [id |-> Memory(i).handle, key |-> Here(i).key, zone |-> z, ip |-> Target(i)] \in Request
  BY <1>1, <1>7 DEF Request
<1>9. /\ request' \in [Instances -> Request \cup {NoRequest}]
      /\ request'[i] = [id |-> Memory(i).handle, key |-> Here(i).key, zone |-> z, ip |-> Target(i)]
      /\ \A j \in Instances : j # i => request'[j] = request[j]
  BY <1>6, <1>8 DEF Inv, TypeOK
<1> QED
  BY <1>1, <1>3, <1>5, <1>8, <1>9

(* Asking the service for a write keeps the types and the loops.            *)
LEMMA UpdateOK ==
  ASSUME Inv, NEW i \in Instances, Update(i)
  PROVE  InstancesTyped' /\ LoopsOK'
<1>1. InstancesTyped'
  BY UpdateEffect DEF Inv, TypeOK, Update, InstancesTyped
<1>2. pos'[i] = pos[i] /\ wanted'[i] = wanted[i] /\ pc'[i] = "await"
  BY DEF Inv, TypeOK, Update
<1>3. Len(domains[i]) = Len(Config[i]) /\ Len(Config[i]) \in Nat
  BY ConfigType DEF Inv, LoopsOK, LoopOK, Update
<1>4. LoopOK(i)'
  BY <1>2, <1>3, UpdateEffect DEF LoopOK, Memory, Here, Target
<1>5. \A j \in Instances \ {i} : Unmoved(j)
  BY UpdateEffect DEF Inv, TypeOK, Update, Unmoved
<1> QED
  BY <1>1, <1>4, <1>5, UnmovedOK DEF Inv, LoopsOK

(* The end of Publisher.Publish keeps the types and the loops.              *)
LEMMA EndPublishOK ==
  ASSUME Inv, NEW i \in Instances, EndPublish(i)
  PROVE  InstancesTyped' /\ LoopsOK'
<1>1. CASE Gone(i)
  BY <1>1, GoneOK
<1>2. CASE pc' = [pc EXCEPT ![i] = "idle"] /\ UNCHANGED <<pos, domains, wanted, request, reply>>
  <2>1. InstancesTyped'
    BY <1>2 DEF Inv, TypeOK, InstancesTyped
  <2>2. LoopOK(i)'
    BY <1>2 DEF Inv, LoopsOK, TypeOK, EndPublish, LoopOK
  <2>3. \A j \in Instances \ {i} : Unmoved(j)
    BY <1>2 DEF Inv, TypeOK, Unmoved
  <2> QED
    BY <2>1, <2>2, <2>3, UnmovedOK DEF Inv, LoopsOK
<1> QED
  BY <1>1, <1>2 DEF EndPublish

(* What Receive remembers.                                                 *)
LEMMA ReceiveEffect ==
  ASSUME Inv, NEW i \in Instances, Receive(i)
  PROVE  /\ pos[i] \in 1 .. Len(domains[i])
         /\ domains' \in [Instances -> Seq(Cached)]
         /\ Len(domains'[i]) = Len(domains[i])
         /\ \A n \in 1 .. Len(domains[i]) : n # pos[i] => domains'[i][n] = domains[i][n]
         /\ domains'[i][pos[i]].ip = Target(i)
         /\ domains'[i][pos[i]].handle = IF reply[i] \in Ids THEN reply[i] ELSE Memory(i).handle
         /\ \A j \in Instances : j # i => domains'[j] = domains[j]
<1>1. /\ pos[i] \in 1 .. Len(domains[i]) /\ Memory(i).ip = Target(i)
      /\ request[i] \in Request /\ request[i].ip = Target(i)
  <2>1. LoopOK(i) /\ pc[i] = "await"
    BY DEF Inv, LoopsOK, Receive
  <2>2. Len(Config[i]) \in Nat /\ pos[i] \in Nat \ {0}
    BY ConfigType DEF Inv, TypeOK
  <2> QED
    BY <2>1, <2>2 DEF LoopOK
<1>2. CASE reply[i] \in Ids
  <2> DEFINE m == [handle |-> reply[i], ip |-> request[i].ip]
  <2>1. m \in Cached /\ m.handle = reply[i] /\ m.ip = Target(i)
    BY <1>1, <1>2 DEF Cached, Request
  <2>2. Remember(i, m)
    BY <1>2, PublisherAssumption DEF Receive
  <2> HIDE DEF m
  <2> QED
    BY <1>1, <1>2, <2>1, <2>2, Remembered DEF Inv
<1>3. CASE reply[i] \notin Ids
  <2>1. domains' = domains
    BY <1>3 DEF Receive
  <2> QED
    BY <1>1, <1>3, <2>1 DEF Inv, TypeOK, Memory
<1> QED
  BY <1>2, <1>3

(* Taking the answer of a write keeps the types and the loops.              *)
LEMMA ReceiveOK ==
  ASSUME Inv, NEW i \in Instances, Receive(i)
  PROVE  InstancesTyped' /\ LoopsOK'
<1>1. InstancesTyped'
  <2>1. pos' \in [Instances -> Nat \ {0}]
    BY Advanced DEF Receive, Inv
  <2>2. domains' \in [Instances -> Seq(Cached)]
    BY ReceiveEffect
  <2> QED
    BY <2>1, <2>2 DEF Inv, TypeOK, Receive, InstancesTyped
<1>2. /\ pos'[i] = pos[i] + 1 /\ pos[i] <= Len(Config[i]) /\ pc'[i] = "publish"
      /\ reply'[i] = "none" /\ Len(domains[i]) = Len(Config[i])
  BY DEF Inv, TypeOK, LoopsOK, LoopOK, Receive
<1>3. LoopOK(i)'
  <2>1. Len(Config[i]) \in Nat /\ pos[i] \in Nat
    BY ConfigType DEF Inv, TypeOK
  <2> QED
    BY <1>2, <2>1, ReceiveEffect DEF LoopOK
<1>4. \A j \in Instances \ {i} : Unmoved(j)
  BY ReceiveEffect DEF Inv, TypeOK, Receive, Unmoved
<1> QED
  BY <1>1, <1>3, <1>4, UnmovedOK DEF Inv, LoopsOK

(* The answers to a request that is waited for.                            *)
LEMMA AnswerOK ==
  ASSUME Inv, NEW i \in Instances, Serve(i) \/ Refuse(i) \/ LoseReply(i)
  PROVE  InstancesTyped' /\ LoopsOK'
<1>1. /\ reply' \in [Instances -> Ids \cup {"none", "refused"}]
      /\ \A j \in Instances : j # i => reply'[j] = reply[j]
      /\ pc[i] = "await"
      /\ UNCHANGED <<pc, pos, domains, wanted, request>>
  BY DEF Inv, TypeOK, Serve, Refuse, LoseReply, Waiting
<1>2. InstancesTyped'
  BY <1>1 DEF Inv, TypeOK, InstancesTyped
<1>3. LoopOK(i)'
  BY <1>1 DEF Inv, LoopsOK, LoopOK, Memory, Here, Target
<1>4. \A j \in Instances \ {i} : Unmoved(j)
  BY <1>1 DEF Inv, TypeOK, Unmoved
<1> QED
  BY <1>2, <1>3, <1>4, UnmovedOK DEF Inv, LoopsOK

-----------------------------------------------------------------------------
(* The service writes what the request says, to the record it names or, if *)
(* it names none, to an id that was never used.                            *)
LEMMA Applied ==
  ASSUME ServiceTyped, NEW r \in Request, NEW id \in Ids, Apply(r, id)
  PROVE  /\ records' \in [Ids -> Record \cup {Unused, Deleted}]
         /\ records'[id] \in Record
         /\ records'[id].key = r.key /\ records'[id].zone = r.zone /\ records'[id].ip = r.ip
         /\ \A other \in Ids : other # id => records'[other] = records[other]
         /\ \/ r.id = NoId /\ records[id] = Unused
            \/ r.id # NoId /\ id = r.id /\ Live(id)
<1> DEFINE new == [key |-> r.key, zone |-> r.zone, ip |-> r.ip]
<1>1. new \in Record /\ new.key = r.key /\ new.zone = r.zone /\ new.ip = r.ip
  BY DEF Request, Record
<1>2. records' = [records EXCEPT ![id] = new]
  BY DEF Apply
<1> HIDE DEF new
<1>3. records'[id] = new /\ \A other \in Ids : other # id => records'[other] = records[other]
  BY <1>2 DEF ServiceTyped
<1>4. records' \in [Ids -> Record \cup {Unused, Deleted}]
  BY <1>1, <1>2 DEF ServiceTyped
<1>5. IF r.id = NoId THEN records[id] = Unused ELSE id = r.id /\ Live(id)
  BY DEF Apply
<1> QED
  BY <1>1, <1>3, <1>4, <1>5

(* A pending request is for the domain in turn and its remembered record.   *)
LEMMA WaitingRequest ==
  ASSUME Inv, NEW i \in Instances, pc[i] = "await"
  PROVE  /\ request[i] \in Request
         /\ pos[i] \in 1 .. Len(Config[i]) /\ pos[i] \in 1 .. Len(domains[i])
         /\ request[i].id = Memory(i).handle
         /\ request[i].key = Here(i).key
         /\ request[i].ip = Target(i)
<1>1. LoopOK(i)
  BY DEF Inv, LoopsOK
<1>2. Len(Config[i]) \in Nat /\ pos[i] \in Nat \ {0}
  BY ConfigType DEF Inv, TypeOK
<1> QED
  BY <1>1, <1>2 DEF LoopOK

(* Only a request that was pending can be carried out late.                 *)
LEMMA AbandonTyped ==
  ASSUME Inv, NEW i \in Instances, Abandon(i)
  PROVE  /\ late' \subseteq Request
         /\ "late" \notin Faults => late' = late
         /\ \A r \in late' \ late : pc[i] = "await" /\ r = request[i]
  BY WaitingRequest DEF Abandon, Waiting, Inv, TypeOK

(* The steps by instance, and the others. *)
Own(i) ==
  \/ Start(i) \/ Work(i) \/ Publish(i)

(* Every step of an instance's own code keeps the types and the loops.      *)
LEMMA OwnOK ==
  ASSUME Inv, NEW i \in Instances, Own(i)
  PROVE  InstancesTyped' /\ LoopsOK' /\ UNCHANGED <<current, records, late>>
<1>1. UNCHANGED <<current, records, late>>
  BY DEF Own, Work, Start, FindRecord, InitFails, Ready, SkipPass, SkipUnresolved,
         SkipUnchanged, Update, EndPublish, Receive, Publish, service
<1> SUFFICES InstancesTyped' /\ LoopsOK'
  BY <1>1
<1>2. CASE Start(i)
  BY <1>2, StartOK
<1>3. CASE FindRecord(i)
  BY <1>3, FindRecordOK
<1>4. CASE InitFails(i) \/ SkipPass(i)
  BY <1>4, GoneOK DEF InitFails, SkipPass
<1>5. CASE Ready(i)
  BY <1>5, ReadyOK
<1>6. CASE SkipUnresolved(i) \/ SkipUnchanged(i)
  BY <1>6, SkipOK
<1>7. CASE Update(i)
  BY <1>7, UpdateOK
<1>8. CASE EndPublish(i)
  BY <1>8, EndPublishOK
<1>9. CASE Receive(i)
  BY <1>9, ReceiveOK
<1>10. CASE Publish(i)
  BY <1>10, PublishOK
<1> QED
  BY <1>1, <1>2, <1>3, <1>4, <1>5, <1>6, <1>7, <1>8, <1>9, <1>10 DEF Own, Work

(* The types and the loops hold initially.                                  *)
LEMMA InvInit == Init => Inv
<1> SUFFICES ASSUME Init PROVE Inv
  OBVIOUS
<1>1. InstancesTyped
  BY EmptySeq DEF Init, InstancesTyped, Nothing
<1>2. ServiceTyped
  BY PublisherAssumption DEF Init, ServiceTyped, Nothing
<1>3. ASSUME NEW i \in Instances PROVE LoopOK(i)
  <2>1. Len(Config[i]) \in Nat
    BY ConfigType
  <2> QED
    BY <2>1 DEF Init, LoopOK
<1> QED
  BY <1>1, <1>2, <1>3, TypeParts DEF Inv, LoopsOK

(* Every step keeps the types and the loops.                                *)
LEMMA InvNext == Inv /\ [Next]_vars => Inv'
<1> SUFFICES ASSUME Inv, [Next]_vars PROVE Inv'
  OBVIOUS
<1> ServiceTyped /\ InstancesTyped
  BY TypeParts DEF Inv
<1> SUFFICES InstancesTyped' /\ ServiceTyped' /\ LoopsOK'
  BY TypeParts DEF Inv, TypeOK, InstancesTyped, ServiceTyped
<1>1. ASSUME UNCHANGED <<pc, pos, domains, wanted, request, reply>>
      PROVE  InstancesTyped' /\ LoopsOK'
  BY <1>1 DEF InstancesTyped, LoopsOK, LoopOK, Inv, Memory, Here, Target
<1>2. ASSUME NEW i \in Instances, Own(i) PROVE InstancesTyped' /\ ServiceTyped' /\ LoopsOK'
  BY <1>2, OwnOK DEF ServiceTyped
<1>3. ASSUME NEW i \in Instances, Serve(i)
      PROVE  InstancesTyped' /\ ServiceTyped' /\ LoopsOK'
  <2>1. PICK id \in Ids : Apply(request[i], id)
    BY <1>3 DEF Serve
  <2>2. request[i] \in Request
    BY <1>3, WaitingRequest DEF Serve, Waiting
  <2>3. ServiceTyped'
    BY <1>3, <2>1, <2>2, Applied DEF Serve, ServiceTyped
  <2> QED
    BY <1>3, <2>3, AnswerOK
<1>4. ASSUME NEW i \in Instances, Refuse(i)
      PROVE  InstancesTyped' /\ ServiceTyped' /\ LoopsOK'
  BY <1>4, AnswerOK DEF Refuse, service, ServiceTyped
<1>5. ASSUME NEW i \in Instances, LoseReply(i)
      PROVE  InstancesTyped' /\ ServiceTyped' /\ LoopsOK'
  BY <1>5, AnswerOK, AbandonTyped DEF LoseReply, ServiceTyped
<1>6. ASSUME NEW i \in Instances, Crash(i)
      PROVE  InstancesTyped' /\ ServiceTyped' /\ LoopsOK'
  BY <1>6, GoneOK, AbandonTyped DEF Crash, ServiceTyped
<1>7. ASSUME NEW r \in late, ServeLate(r)
      PROVE  InstancesTyped' /\ ServiceTyped' /\ LoopsOK'
  <2>1. r \in Request
    BY DEF ServiceTyped
  <2>2. records' \in [Ids -> Record \cup {Unused, Deleted}]
    BY <1>7, <2>1, Applied DEF ServeLate, ServiceTyped
  <2> QED
    BY <1>1, <1>7, <2>2 DEF ServeLate, ServiceTyped
<1>8. ASSUME NEW id \in Ids, ForeignDelete(id)
      PROVE  InstancesTyped' /\ ServiceTyped' /\ LoopsOK'
  BY <1>1, <1>8 DEF ForeignDelete, ServiceTyped
<1>9. ASSUME NEW a \in Addresses, AddressChanges(a)
      PROVE  InstancesTyped' /\ ServiceTyped' /\ LoopsOK'
  BY <1>1, <1>9 DEF AddressChanges, ServiceTyped, service
<1>10. CASE UNCHANGED vars
  BY <1>1, <1>10 DEF vars, service, ServiceTyped
<1> QED
  BY <1>2, <1>3, <1>4, <1>5, <1>6, <1>7, <1>8, <1>9, <1>10 DEF Next, Own

(* The types and the loops hold in every reachable state.                   *)
LEMMA InvCorrect == Spec => []Inv
  BY InvInit, InvNext, PTL DEF Spec

(* What the publishers remember, ask for and are told keeps its type, and  *)
(* so do the records of the service.                                       *)
THEOREM TypeCorrect == Spec => []TypeOK
<1>1. Inv => TypeOK
  BY DEF Inv
<1> QED
  BY <1>1, InvCorrect, PTL

-----------------------------------------------------------------------------
(* Record id was made for the entry with key k, whether or not it is still *)
(* there.                                                                  *)
IsOf(id, k) ==
  records[id] = Deleted \/ (records[id] \in Record /\ records[id].key = k)

MemoriesOurs ==
  \A i \in Instances : \A n \in 1 .. Len(domains[i]) :
     domains[i][n].handle # NoId => IsOf(domains[i][n].handle, Config[i][n].key)

RepliesOurs ==
  \A i \in Instances :
     pc[i] = "await" /\ reply[i] \in Ids => IsOf(reply[i], Here(i).key)

LateOurs ==
  \A r \in late : r.key \in Managed /\ (r.id # NoId => IsOf(r.id, r.key))

Ours == MemoriesOurs /\ RepliesOurs /\ LateOurs

(* A record keeps its key, if the request acted on names a record of its   *)
(* own key or none.                                                        *)
LEMMA ApplyKeeps ==
  ASSUME ServiceTyped, NEW r \in Request, NEW new \in Ids, Apply(r, new),
         r.id # NoId => IsOf(r.id, r.key)
  PROVE  /\ IsOf(new, r.key)'
         /\ \A id \in Ids : \A k : IsOf(id, k) => IsOf(id, k)'
         /\ \A id \in Ids : Live(id) /\ records'[id] # records[id]
              => records[id].key = r.key /\ records'[id].key = r.key
<1>1. /\ records'[new] \in Record /\ records'[new].key = r.key
      /\ \A other \in Ids : other # new => records'[other] = records[other]
      /\ \/ r.id = NoId /\ records[new] = Unused
         \/ r.id # NoId /\ new = r.id /\ Live(new)
  BY Applied
<1>2. IsOf(new, r.key)'
  BY <1>1 DEF IsOf
<1>3. Live(new) => records[new].key = r.key
  BY <1>1 DEF IsOf, Live
<1>4. ASSUME NEW k, IsOf(new, k) PROVE k = r.key
  <2>1. records[new] # Unused
    BY <1>4, PublisherAssumption DEF IsOf
  <2>2. Live(new) /\ records[new].key = r.key
    BY <1>1, <1>3, <2>1
  <2> QED
    BY <1>4, <2>2 DEF IsOf, Live
<1>5. ASSUME NEW id \in Ids, NEW k, IsOf(id, k) PROVE IsOf(id, k)'
  <2>1. CASE id = new
    BY <1>2, <1>4, <1>5, <2>1
  <2>2. CASE id # new
    BY <1>1, <1>5, <2>2 DEF IsOf
  <2> QED
    BY <2>1, <2>2
<1>6. ASSUME NEW id \in Ids, Live(id), records'[id] # records[id]
      PROVE  records[id].key = r.key /\ records'[id].key = r.key
  <2>1. id = new
    BY <1>1, <1>6
  <2> QED
    BY <1>1, <1>3, <1>6, <2>1
<1> QED
  BY <1>2, <1>5, <1>6

(* A pending request is for a configured name and a record of that name.    *)
LEMMA RequestOurs ==
  ASSUME Inv, Ours, NEW i \in Instances, pc[i] = "await"
  PROVE  /\ request[i].key \in Managed
         /\ request[i].id # NoId => IsOf(request[i].id, request[i].key)
<1>1. /\ pos[i] \in 1 .. Len(Config[i]) /\ pos[i] \in 1 .. Len(domains[i])
      /\ request[i].id = domains[i][pos[i]].handle
      /\ request[i].key = Config[i][pos[i]].key
  BY WaitingRequest DEF Memory, Here
<1>2. request[i].key \in Managed
  BY <1>1, ConfigType DEF Managed, ManagedBy, Domains
<1> QED
  BY <1>1, <1>2 DEF Ours, MemoriesOurs

(* How a step can change the records.                                      *)
RecordsKept ==
  \A id \in Ids : \A k : IsOf(id, k) => IsOf(id, k)'

(* No step changes the name of a record, and writes hit configured names.   *)
LEMMA StepKeeps ==
  ASSUME Inv, Ours, [Next]_vars
  PROVE  /\ RecordsKept
         /\ \A id \in Ids : Live(id) /\ records'[id] \notin {records[id], Deleted}
              => records[id].key \in Managed /\ records'[id].key = records[id].key
<1> ServiceTyped
  BY TypeParts DEF Inv
<1>1. ASSUME NEW i \in Instances, NEW id \in Ids, pc[i] = "await", Apply(request[i], id)
      PROVE  RecordsKept /\ \A id2 \in Ids : Live(id2) /\ records'[id2] # records[id2]
               => records[id2].key \in Managed /\ records'[id2].key = records[id2].key
  BY <1>1, WaitingRequest, RequestOurs, ApplyKeeps DEF RecordsKept
<1>2. ASSUME NEW r \in late, NEW id \in Ids, Apply(r, id)
      PROVE  RecordsKept /\ \A id2 \in Ids : Live(id2) /\ records'[id2] # records[id2]
               => records[id2].key \in Managed /\ records'[id2].key = records[id2].key
  <2>1. r \in Request /\ r.key \in Managed /\ (r.id # NoId => IsOf(r.id, r.key))
    BY DEF ServiceTyped, Ours, LateOurs
  <2> QED
    BY <1>2, <2>1, ApplyKeeps DEF RecordsKept
<1>3. ASSUME NEW id \in Ids, ForeignDelete(id)
      PROVE  RecordsKept /\ \A id2 \in Ids : records'[id2] \in {records[id2], Deleted}
  BY <1>3 DEF ForeignDelete, ServiceTyped, RecordsKept, IsOf
<1>4. ASSUME UNCHANGED records PROVE RecordsKept
  BY <1>4 DEF RecordsKept, IsOf
<1>5. ASSUME NEW i \in Instances, Serve(i)
      PROVE  \E id \in Ids : pc[i] = "await" /\ Apply(request[i], id)
  BY <1>5 DEF Serve, Waiting
<1>6. ASSUME NEW r \in late, ServeLate(r)
      PROVE  UNCHANGED records \/ \E id \in Ids : Apply(r, id)
  BY <1>6 DEF ServeLate
<1>7. ASSUME NEW i \in Instances, Own(i) \/ Refuse(i) \/ LoseReply(i) \/ Crash(i)
      PROVE  UNCHANGED records
  BY <1>7, OwnOK DEF Refuse, LoseReply, Crash, service
<1>8. ASSUME (\E a \in Addresses : AddressChanges(a)) \/ UNCHANGED vars
      PROVE  UNCHANGED records
  BY <1>8 DEF AddressChanges, vars, service
<1> QED
  BY <1>1, <1>2, <1>3, <1>4, <1>5, <1>6, <1>7, <1>8 DEF Next, Own

-----------------------------------------------------------------------------
(* The memory of instance j after a step, where the step is one of j.      *)
MemoryOurs(j) ==
  \A n \in 1 .. Len(domains[j]) :
     domains[j][n].handle # NoId => IsOf(domains[j][n].handle, Config[j][n].key)

ReplyOurs(j) == pc[j] = "await" /\ reply[j] \in Ids => IsOf(reply[j], Here(j).key)

(* A remembered record is one that the service may have.                    *)
LEMMA HandleType ==
  ASSUME Inv, NEW j \in Instances, NEW n \in 1 .. Len(domains[j]), domains[j][n].handle # NoId
  PROVE  domains[j][n].handle \in Ids
  BY MemoryType DEF Inv

(* An unchanged memory stays correct while records keep their names.        *)
LEMMA MemoryKept ==
  ASSUME Inv, Ours, RecordsKept, NEW j \in Instances, domains'[j] = domains[j]
  PROVE  MemoryOurs(j)'
<1> SUFFICES ASSUME NEW n \in 1 .. Len(domains[j]), domains[j][n].handle # NoId
             PROVE  IsOf(domains[j][n].handle, Config[j][n].key)'
  BY DEF MemoryOurs, IsOf
<1>1. IsOf(domains[j][n].handle, Config[j][n].key)
  BY DEF Ours, MemoriesOurs
<1>2. domains[j][n].handle \in Ids
  BY HandleType
<1> QED
  BY <1>1, <1>2 DEF RecordsKept, IsOf

(* What an instance's own step remembers is a record of the right name.     *)
LEMMA MemoryOwn ==
  ASSUME Inv, Ours, NEW i \in Instances, Own(i)
  PROVE  MemoryOurs(i)'
<1>1. records' = records
  BY OwnOK
<1> SUFFICES ASSUME NEW n \in 1 .. Len(domains'[i]), domains'[i][n].handle # NoId
             PROVE  IsOf(domains'[i][n].handle, Config[i][n].key)
  BY <1>1 DEF MemoryOurs, IsOf
<1>2. ASSUME n \in 1 .. Len(domains[i]), domains'[i][n].handle = domains[i][n].handle
      PROVE  IsOf(domains'[i][n].handle, Config[i][n].key)
  BY <1>2 DEF Ours, MemoriesOurs
<1>3. CASE FindRecord(i)
  <2>1. PICK m \in Cached :
          /\ domains' = [domains EXCEPT ![i] = Append(@, m)]
          /\ \/ m.handle = NoId
             \/ /\ m.handle \in Ids /\ records[m.handle] \in Record
                /\ records[m.handle].key = Here(i).key
    BY <1>3, FindRecordMemory
  <2>2. /\ Len(domains'[i]) = Len(domains[i]) + 1
        /\ \A k \in 1 .. Len(domains[i]) : domains'[i][k] = domains[i][k]
        /\ domains'[i][Len(domains[i]) + 1] = m
    BY <2>1, Appended DEF Inv
  <2>3. Len(domains[i]) = pos[i] - 1 /\ pos[i] \in Nat \ {0}
    BY <1>3 DEF FindRecord, Inv, LoopsOK, LoopOK, TypeOK
  <2>4. CASE n = pos[i]
    <3>1. domains'[i][n] = m
      BY <2>2, <2>3, <2>4
    <3>2. records[m.handle] \in Record /\ records[m.handle].key = Here(i).key
      BY <2>1, <3>1
    <3> QED
      BY <2>4, <3>1, <3>2 DEF IsOf, Here
  <2>5. CASE n # pos[i]
    <3>1. n \in 1 .. Len(domains[i])
      BY <2>2, <2>3, <2>5
    <3> QED
      BY <1>2, <2>2, <3>1
  <2> QED
    BY <2>4, <2>5
<1>4. CASE Update(i)
  <2>1. /\ Len(domains'[i]) = Len(domains[i])
        /\ \A k \in 1 .. Len(domains[i]) : k # pos[i] => domains'[i][k] = domains[i][k]
        /\ domains'[i][pos[i]].handle = domains[i][pos[i]].handle
    BY <1>4, UpdateEffect DEF Memory
  <2> QED
    BY <1>2, <2>1
<1>5. CASE Receive(i)
  <2>1. /\ Len(domains'[i]) = Len(domains[i])
        /\ \A k \in 1 .. Len(domains[i]) : k # pos[i] => domains'[i][k] = domains[i][k]
        /\ domains'[i][pos[i]].handle
             = IF reply[i] \in Ids THEN reply[i] ELSE domains[i][pos[i]].handle
    BY <1>5, ReceiveEffect DEF Memory
  <2>2. CASE n = pos[i] /\ reply[i] \in Ids
    <3>1. IsOf(reply[i], Config[i][pos[i]].key)
      BY <1>5, <2>2 DEF Ours, RepliesOurs, Receive, Here
    <3> QED
      BY <2>1, <2>2, <3>1
  <2>3. CASE n # pos[i] \/ reply[i] \notin Ids
    BY <1>2, <2>1, <2>3
  <2> QED
    BY <2>2, <2>3
<1>6. CASE Gone(i)
  BY <1>6 DEF Gone, Inv, TypeOK
<1>7. CASE domains' = domains
  BY <1>2, <1>7
<1> QED
  BY <1>3, <1>4, <1>5, <1>6, <1>7
     DEF Own, Work, Start, InitFails, Ready, SkipPass, SkipUnresolved, SkipUnchanged,
         EndPublish, Publish

(* A step of one instance leaves the variables of the others alone.         *)
LEMMA OthersUnmoved ==
  ASSUME Inv, NEW i \in Instances,
         Own(i) \/ Serve(i) \/ Refuse(i) \/ LoseReply(i) \/ Crash(i),
         NEW j \in Instances, j # i
  PROVE  Unmoved(j)
<1>1. CASE FindRecord(i) \/ Update(i) \/ Receive(i)
  <2>1. domains'[j] = domains[j]
    <3>1. CASE FindRecord(i)
      BY <3>1 DEF FindRecord, Inv, TypeOK
    <3>2. CASE Update(i) \/ Receive(i)
      BY <3>2, UpdateEffect, ReceiveEffect
    <3> QED
      BY <1>1, <3>1, <3>2
  <2> QED
    BY <1>1, <2>1 DEF Unmoved, Inv, TypeOK, FindRecord, Update, Receive
<1>2. CASE Gone(i)
  BY <1>2 DEF Gone, Unmoved, Inv, TypeOK
<1> QED
  BY <1>1, <1>2
     DEF Own, Work, Start, InitFails, Ready, SkipPass, SkipUnresolved, SkipUnchanged,
         EndPublish, Publish, Serve, Refuse, LoseReply, Crash, Unmoved, Inv, TypeOK

(* What changes neither the instances nor, but for a deletion, more than   *)
(* the records and late.                                                   *)
Outside ==
  \/ \E r \in late : ServeLate(r)
  \/ \E id \in Ids : ForeignDelete(id)
  \/ \E a \in Addresses : AddressChanges(a)
  \/ UNCHANGED vars

(* The steps of the outside leave the variables of every instance alone.    *)
LEMMA OutsideUnmoved ==
  Outside => (\A j \in Instances : Unmoved(j)) /\ late' \subseteq late
  BY DEF Outside, ServeLate, ForeignDelete, AddressChanges, vars, service, Unmoved

(* Every step is one of an instance or one of the outside.                  *)
LEMMA StepActors ==
  [Next]_vars => \/ Outside
                 \/ \E i \in Instances :
                      Own(i) \/ Serve(i) \/ Refuse(i) \/ LoseReply(i) \/ Crash(i)
  BY DEF Next, Own, Outside

(* Initially no record is remembered and no request pending.                *)
LEMMA OursInit == Init => Ours
  BY DEF Init, Ours, MemoriesOurs, RepliesOurs, LateOurs

(* Every step keeps remembered records of the configured names.             *)
LEMMA OursNext == Inv /\ Ours /\ [Next]_vars => Ours'
<1> SUFFICES ASSUME Inv, Ours, [Next]_vars PROVE Ours'
  OBVIOUS
<1>0. RecordsKept
  BY StepKeeps
<1>1. MemoriesOurs'
  <2> SUFFICES ASSUME NEW j \in Instances PROVE MemoryOurs(j)'
    BY DEF MemoriesOurs, MemoryOurs
  <2>1. CASE Own(j)
    BY <2>1, MemoryOwn
  <2>2. CASE Crash(j)
    BY <2>2 DEF Crash, Gone, Inv, TypeOK, MemoryOurs
  <2>3. CASE Unmoved(j) \/ Serve(j) \/ Refuse(j) \/ LoseReply(j)
    BY <1>0, <2>3, MemoryKept DEF Unmoved, Serve, Refuse, LoseReply
  <2> QED
    BY <2>1, <2>2, <2>3, StepActors, OthersUnmoved, OutsideUnmoved
<1>2. RepliesOurs'
  <2> SUFFICES ASSUME NEW j \in Instances, pc'[j] = "await", reply'[j] \in Ids
               PROVE  ReplyOurs(j)'
    BY DEF RepliesOurs, ReplyOurs
  <2>1. CASE Unmoved(j)
    <3>1. reply[j] \in Ids /\ IsOf(reply[j], Here(j).key)
      BY <2>1 DEF Ours, RepliesOurs, Unmoved
    <3>2. IsOf(reply[j], Here(j).key)'
      BY <1>0, <2>1, <3>1 DEF RecordsKept, Unmoved, IsOf, Here
    <3> QED
      BY <2>1, <3>2 DEF Unmoved, ReplyOurs, IsOf, Here
  <2>2. CASE Serve(j)
    <3>1. PICK id \in Ids : Apply(request[j], id) /\ reply' = [reply EXCEPT ![j] = id]
      BY <2>2 DEF Serve
    <3>2. pc[j] = "await" /\ pos' = pos /\ reply'[j] = id
      BY <2>2, <3>1 DEF Serve, Waiting, Inv, TypeOK
    <3>3. ServiceTyped
      BY TypeParts DEF Inv
    <3>4. request[j] \in Request /\ request[j].key = Here(j).key
      BY <3>2, WaitingRequest
    <3>5. records'[id] \in Record /\ records'[id].key = request[j].key
      BY <3>1, <3>3, <3>4, Applied
    <3> QED
      BY <3>2, <3>4, <3>5 DEF ReplyOurs, IsOf, Here
  <2>3. ~Own(j)
    <3>1. ~Update(j)
      BY PublisherAssumption DEF Update, Inv, LoopsOK, LoopOK
    <3>2. ~Gone(j)
      BY DEF Gone, Inv, TypeOK
    <3> QED
      BY <3>1, <3>2
         DEF Own, Work, Start, FindRecord, InitFails, Ready, SkipPass, SkipUnresolved,
             SkipUnchanged, EndPublish, Receive, Publish, Inv, TypeOK
  <2>4. ~Refuse(j) /\ ~LoseReply(j) /\ ~Crash(j)
    BY PublisherAssumption DEF Refuse, LoseReply, Crash, Gone, Inv, TypeOK
  <2> QED
    BY <2>1, <2>2, <2>3, <2>4, StepActors, OthersUnmoved, OutsideUnmoved
<1>3. LateOurs'
  <2> SUFFICES ASSUME NEW r \in late' PROVE r.key \in Managed /\ (r.id # NoId => IsOf(r.id, r.key)')
    BY DEF LateOurs, IsOf
  <2>1. r.key \in Managed /\ (r.id # NoId => IsOf(r.id, r.key)) /\ r \in Request
    <3>1. CASE r \in late
      BY <3>1 DEF Ours, LateOurs, Inv, TypeOK
    <3>2. ASSUME r \notin late, NEW i \in Instances, Abandon(i)
          PROVE  r.key \in Managed /\ (r.id # NoId => IsOf(r.id, r.key)) /\ r \in Request
      <4>1. pc[i] = "await" /\ r = request[i]
        BY <3>2, AbandonTyped
      <4> QED
        BY <4>1, RequestOurs, WaitingRequest
    <3>3. ASSUME NEW i \in Instances, Own(i) \/ Serve(i) \/ Refuse(i)
          PROVE  late' = late
      BY <3>3, OwnOK DEF Serve, Refuse, service
    <3> QED
      BY <3>1, <3>2, <3>3, StepActors, OutsideUnmoved DEF LoseReply, Crash
  <2> QED
    BY <1>0, <2>1 DEF RecordsKept, Request
<1> QED
  BY <1>1, <1>2, <1>3 DEF Ours

(* Remembered records are of the configured names in every reachable state. *)
LEMMA OursCorrect == Spec => [](Inv /\ Ours)
<1>1. Init => Inv /\ Ours
  BY InvInit, OursInit
<1>2. Inv /\ Ours /\ [Next]_vars => (Inv /\ Ours)'
  BY InvNext, OursNext
<1> QED
  BY <1>1, <1>2, PTL DEF Spec

(* recordPublisher.record.Handle: whatever fails and whoever else writes,  *)
(* the record it names is one that was made for this entry.                *)
THEOREM HandlesAreOurs == Spec => []HandleIsOurs
<1>1. Inv /\ Ours => HandleIsOurs
  <2> SUFFICES ASSUME Inv, Ours, NEW i \in Instances, NEW n \in DOMAIN domains[i],
                      domains[i][n].handle # NoId
               PROVE  IsOf(domains[i][n].handle, Config[i][n].key)
    BY DEF HandleIsOurs, IsOf
  <2>1. domains[i] \in Seq(Cached)
    BY DEF Inv, TypeOK
  <2>2. n \in 1 .. Len(domains[i])
    BY <2>1, LenProperties
  <2> QED
    BY <2>2 DEF Ours, MemoriesOurs
<1> QED
  BY <1>1, OursCorrect, PTL

(* With distinct keys no two entries remember one record (publisher.go:32, *)
(* cloudflare.go:97): the records two handles name differ in their keys.   *)
THEOREM OwnersDiffer ==
  ASSUME UniqueKeys
  PROVE  Spec => []OneOwner
<1>1. Inv /\ Ours => OneOwner
  <2> SUFFICES ASSUME Inv, Ours, NEW i \in Instances, NEW j \in Instances,
                      NEW m \in DOMAIN domains[i], NEW n \in DOMAIN domains[j],
                      domains[i][m].handle \in Ids, Live(domains[i][m].handle),
                      domains[i][m].handle = domains[j][n].handle
               PROVE  i = j /\ m = n
    BY DEF OneOwner
  <2>1. m \in 1 .. Len(domains[i]) /\ n \in 1 .. Len(domains[j])
    BY LenProperties DEF Inv, TypeOK
  <2>2. domains[i][m].handle # NoId
    BY PublisherAssumption
  <2>3. /\ records[domains[i][m].handle].key = Config[i][m].key
        /\ records[domains[j][n].handle].key = Config[j][n].key
    BY <2>1, <2>2 DEF Ours, MemoriesOurs, IsOf, Live
  <2>4. ASSUME NEW h \in Instances
        PROVE  1 .. Len(domains[h]) \subseteq Domains(h)
    <3>1. /\ Len(Config[h]) \in Nat /\ Domains(h) = 1 .. Len(Config[h])
      BY ConfigType DEF Domains
    <3>2. /\ Len(domains[h]) \in Nat /\ pos[h] \in Nat
          /\ pc[h] \in {"down", "init", "idle", "publish", "await"}
      BY LenProperties DEF Inv, TypeOK
    <3>3. /\ pos[h] <= Len(Config[h]) + 1
          /\ pc[h] = "down" => domains[h] = <<>>
          /\ pc[h] = "init" => Len(domains[h]) = pos[h] - 1
          /\ pc[h] \in {"idle", "publish", "await"} => Len(domains[h]) = Len(Config[h])
      BY DEF Inv, LoopsOK, LoopOK
    <3>4. domains[h] = <<>> => Len(domains[h]) = 0
      OBVIOUS
    <3>5. Len(domains[h]) <= Len(Config[h])
      BY <3>1, <3>2, <3>3, <3>4
    <3> QED
      BY <3>1, <3>2, <3>5
  <2>5. m \in Domains(i) /\ n \in Domains(j)
    BY <2>1, <2>4
  <2> QED
    BY <2>3, <2>5 DEF UniqueKeys
<1> QED
  BY <1>1, OursCorrect, PTL

(* What the marks are for: no step of Publish changes a record that no     *)
(* configured entry looks for, or takes one over for another entry.        *)
THEOREM InstancesDontInterfere == Spec => NoInterference
<1>1. Inv /\ Ours /\ [Next]_vars =>
        [\A id \in Ids : Live(id) /\ records'[id] \notin {records[id], Deleted}
           => records[id].key \in Managed /\ records'[id].key = records[id].key]_vars
  BY StepKeeps
<1> QED
  BY <1>1, OursCorrect, PTL DEF Spec, NoInterference

-----------------------------------------------------------------------------
(* Instance i gave each domain it has passed the address it should have.   *)
PassedOK(i) ==
  /\ pc[i] \in {"down", "init"} => wanted[i] = Nothing
  /\ pc[i] \in {"publish", "await", "idle"} =>
       \A n \in 1 .. Len(Config[i]) :
          n < pos[i] /\ wanted[i][Config[i][n].address] # NoIP
            => domains[i][n].ip = wanted[i][Config[i][n].address]

Passed == \A i \in Instances : PassedOK(i)

(* The domains passed over were failed, unresolved or up to date.           *)
LEMMA PassedOwn ==
  ASSUME Inv, NEW i \in Instances, Own(i), PassedOK(i)
  PROVE  PassedOK(i)'
<1>0. /\ pos[i] \in Nat \ {0} /\ Len(Config[i]) \in Nat
      /\ pc[i] \in {"idle", "publish", "await"} => Len(domains[i]) = Len(Config[i])
  BY ConfigType DEF Inv, TypeOK, LoopsOK, LoopOK
<1>1. CASE Gone(i)
  BY <1>1 DEF Gone, Inv, TypeOK, PassedOK
<1>2. CASE Start(i) \/ FindRecord(i)
  BY <1>2 DEF Start, FindRecord, Inv, TypeOK, PassedOK
<1>3. CASE Ready(i)
  <2>1. \A n \in 1 .. Len(Config[i]) : wanted'[i][Config[i][n].address] = NoIP
    BY <1>3, ConfigType DEF Ready, PassedOK, Nothing
  <2> QED
    BY <1>3, <2>1 DEF Ready, Inv, TypeOK, PassedOK
<1>4. CASE Publish(i)
  BY <1>0, <1>4 DEF Publish, Inv, TypeOK, PassedOK
<1>5. CASE SkipUnresolved(i) \/ SkipUnchanged(i)
  <2>1. /\ pos'[i] = pos[i] + 1 /\ pc[i] = "publish"
        /\ UNCHANGED <<pc, domains, wanted>>
    BY <1>5 DEF SkipUnresolved, SkipUnchanged, Inv, TypeOK
  <2>2. Target(i) # NoIP => Memory(i).ip = Target(i)
    BY <1>5 DEF SkipUnresolved, SkipUnchanged
  <2> SUFFICES ASSUME NEW n \in 1 .. Len(Config[i]), n < pos[i] + 1,
                      wanted[i][Config[i][n].address] # NoIP
               PROVE  domains[i][n].ip = wanted[i][Config[i][n].address]
    BY <2>1 DEF PassedOK
  <2>3. CASE n = pos[i]
    BY <2>2, <2>3 DEF Target, Memory, Here
  <2>4. CASE n # pos[i]
    <3>1. n < pos[i]
      BY <1>0, <2>4
    <3> QED
      BY <3>1, <2>1 DEF PassedOK
  <2> QED
    BY <2>3, <2>4
<1>6. CASE Update(i)
  <2>1. pos'[i] = pos[i] /\ wanted' = wanted /\ pc[i] = "publish" /\ pc'[i] = "await"
    BY <1>6 DEF Update, Inv, TypeOK
  <2>2. \A n \in 1 .. Len(domains[i]) : n # pos[i] => domains'[i][n] = domains[i][n]
    BY <1>6, UpdateEffect
  <2> QED
    BY <1>0, <2>1, <2>2 DEF PassedOK
<1>7. CASE Receive(i)
  <2>1. pos'[i] = pos[i] + 1 /\ wanted' = wanted /\ pc[i] = "await" /\ pc'[i] = "publish"
    BY <1>7 DEF Receive, Inv, TypeOK
  <2>2. /\ \A n \in 1 .. Len(domains[i]) : n # pos[i] => domains'[i][n] = domains[i][n]
        /\ domains'[i][pos[i]].ip = Target(i)
    BY <1>7, ReceiveEffect
  <2> SUFFICES ASSUME NEW n \in 1 .. Len(Config[i]), n < pos[i] + 1,
                      wanted[i][Config[i][n].address] # NoIP
               PROVE  domains'[i][n].ip = wanted[i][Config[i][n].address]
    BY <2>1 DEF PassedOK
  <2>3. CASE n = pos[i]
    BY <2>2, <2>3 DEF Target, Here
  <2>4. CASE n # pos[i]
    <3>1. n < pos[i] /\ n \in 1 .. Len(domains[i])
      BY <1>0, <2>1, <2>4
    <3>2. domains[i][n].ip = wanted[i][Config[i][n].address]
      BY <3>1, <2>1 DEF PassedOK
    <3> QED
      BY <3>1, <3>2, <2>2
  <2> QED
    BY <2>3, <2>4
<1>8. CASE EndPublish(i) /\ ~Gone(i)
  <2>1. UNCHANGED <<pos, domains, wanted>> /\ pc[i] = "publish" /\ pc'[i] = "idle"
    BY <1>8 DEF EndPublish, Inv, TypeOK
  <2> QED
    BY <2>1 DEF PassedOK
<1> QED
  BY <1>1, <1>2, <1>3, <1>4, <1>5, <1>6, <1>7, <1>8 DEF Own, Work, InitFails, SkipPass

(* Every step keeps the account of the domains passed in this Publish.      *)
LEMMA PassedNext == Inv /\ Passed /\ [Next]_vars => Passed'
<1> SUFFICES ASSUME Inv, Passed, [Next]_vars, NEW j \in Instances PROVE PassedOK(j)'
  BY DEF Passed
<1>1. PassedOK(j)
  BY DEF Passed
<1>2. CASE Own(j)
  BY <1>1, <1>2, PassedOwn
<1>3. CASE Unmoved(j)
  BY <1>1, <1>3 DEF Unmoved, PassedOK
<1>4. CASE Serve(j) \/ Refuse(j) \/ LoseReply(j)
  BY <1>1, <1>4 DEF Serve, Refuse, LoseReply, PassedOK
<1>5. CASE Crash(j)
  BY <1>5 DEF Crash, Gone, Inv, TypeOK, PassedOK
<1> QED
  BY <1>2, <1>3, <1>4, <1>5, StepActors, OthersUnmoved, OutsideUnmoved

(* publisher.go:85: a write that fails costs no other domain its address.  *)
THEOREM PartialSuccess == Spec => []FailuresDontStopOthers
<1>1. Init => Passed
  BY DEF Init, Passed, PassedOK
<1>2. Inv /\ Passed => FailuresDontStopOthers
  BY ConfigType DEF Passed, PassedOK, FailuresDontStopOthers, Domains
<1> QED
  BY <1>1, <1>2, PassedNext, InvCorrect, PTL DEF Spec

-----------------------------------------------------------------------------
(* Without requests that outlive their sender, only a waiting instance     *)
(* writes, and exactly what it waits for.                                  *)
LEMMA NoneLate ==
  ASSUME "late" \notin Faults
  PROVE  Spec => [](late = {})
<1>1. Init => late = {}
  BY DEF Init
<1>2. late = {} /\ Inv /\ [Next]_vars => (late = {})'
  <2> SUFFICES ASSUME late = {}, Inv, [Next]_vars PROVE late' = {}
    OBVIOUS
  <2>1. ASSUME NEW i \in Instances, Own(i) \/ Serve(i) \/ Refuse(i) PROVE late' = {}
    BY <2>1, OwnOK DEF Serve, Refuse, service
  <2>2. ASSUME NEW i \in Instances, LoseReply(i) \/ Crash(i) PROVE late' = {}
    BY <2>2 DEF LoseReply, Crash, Abandon
  <2> QED
    BY <2>1, <2>2, StepActors, OutsideUnmoved
<1> QED
  BY <1>1, <1>2, InvCorrect, PTL DEF Spec

(* Without late requests a record is written for a waiting instance only.   *)
LEMMA OnlyServeWrites ==
  ASSUME Inv, late = {}, [Next]_vars, NEW id \in Ids,
         records'[id] \notin {records[id], Deleted}
  PROVE  \E i \in Instances : Serve(i) /\ Apply(request[i], id)
<1>1. ~ Outside
  <2>1. ~ \E d \in Ids : ForeignDelete(d)
    BY DEF ForeignDelete, Inv, TypeOK
  <2> QED
    BY <2>1 DEF Outside, AddressChanges, vars, service
<1>2. PICK i \in Instances : Own(i) \/ Serve(i) \/ Refuse(i) \/ LoseReply(i) \/ Crash(i)
  BY <1>1, StepActors
<1>3. Serve(i)
  BY <1>2, OwnOK DEF Refuse, LoseReply, Crash, service
<1>4. PICK new \in Ids : Apply(request[i], new)
  BY <1>3 DEF Serve
<1>5. new = id
  BY <1>3, <1>4, WaitingRequest, TypeParts, Applied DEF Serve, Waiting, Inv
<1> QED
  BY <1>3, <1>4, <1>5

(* While no request outlives its sender, each write of a record is of the  *)
(* address resolved for the entry and the pass that are at hand.           *)
THEOREM WritesAreWanted ==
  ASSUME "late" \notin Faults
  PROVE  Spec => WrittenIsWanted
<1>1. Inv /\ late = {} /\ [Next]_vars =>
        [\A id \in Ids : records'[id] \notin {records[id], Deleted} =>
           \E i \in Instances : \E n \in Domains(i) :
              /\ pc[i] = "await" /\ pos[i] = n
              /\ records'[id].key = Config[i][n].key
              /\ records'[id].ip = wanted[i][Config[i][n].address]]_vars
  <2> SUFFICES ASSUME Inv, late = {}, [Next]_vars, NEW id \in Ids,
                      records'[id] \notin {records[id], Deleted}
               PROVE  \E i \in Instances : \E n \in Domains(i) :
                        /\ pc[i] = "await" /\ pos[i] = n
                        /\ records'[id].key = Config[i][n].key
                        /\ records'[id].ip = wanted[i][Config[i][n].address]
    OBVIOUS
  <2>1. PICK i \in Instances : Serve(i) /\ Apply(request[i], id)
    BY OnlyServeWrites
  <2>2. /\ pc[i] = "await" /\ pos[i] \in Domains(i)
        /\ request[i] \in Request
        /\ request[i].key = Config[i][pos[i]].key
        /\ request[i].ip = wanted[i][Config[i][pos[i]].address]
    BY <2>1, WaitingRequest, ConfigType DEF Serve, Waiting, Domains, Here, Target
  <2>3. records'[id].key = request[i].key /\ records'[id].ip = request[i].ip
    BY <2>1, <2>2, TypeParts, Applied DEF Inv
  <2> QED
    BY <2>2, <2>3
<1> QED
  BY <1>1, InvCorrect, NoneLate, PTL DEF Spec, WrittenIsWanted

-----------------------------------------------------------------------------
(* The address x is not newer than what a has, or is about to have.        *)
Behind(x, a) ==
  IF current[a] = NoIP
  THEN \A n \in Moves : n[1] = NoIP /\ n[2] \in IPs => x <= n[2]
  ELSE x <= current[a]

(* What a pass is about to write is what its address has or had before.    *)
AimsBehind ==
  \A i \in Instances : \A a \in Addresses :
     Publishing(i) /\ wanted[i][a] \in IPs => Behind(wanted[i][a], a)

(* What is in the record of an entry is what its address has or had, and   *)
(* no newer than what a running pass is about to write over it.            *)
RecordBehind(id, i, n) ==
  Live(id) /\ records[id].key = Config[i][n].key =>
     /\ Behind(records[id].ip, Config[i][n].address)
     /\ Publishing(i) /\ wanted[i][Config[i][n].address] \in IPs
          => records[id].ip <= wanted[i][Config[i][n].address]

RecordsBehind ==
  \A id \in Ids : \A i \in Instances : \A n \in Domains(i) : RecordBehind(id, i, n)

(* An address that moves on leaves behind whatever it had left behind.      *)
LEMMA StaysBehind ==
  ASSUME Forward, Inv, [Next]_vars, NEW x \in IPs, NEW a \in Addresses, Behind(x, a)
  PROVE  Behind(x, a)'
<1>1. CASE current' = current
  BY <1>1 DEF Behind
<1>2. ASSUME NEW b \in Addresses, AddressChanges(b) PROVE Behind(x, a)'
  <2>1. PICK ip \in IPs \cup {NoIP} :
          <<current[b], ip>> \in Moves /\ current' = [current EXCEPT ![b] = ip]
    BY <1>2 DEF AddressChanges
  <2>2. current[b] \in IPs \cup {NoIP}
    BY DEF Inv, TypeOK
  <2>3. /\ current'[b] = ip
        /\ a # b => current'[a] = current[a]
    BY <2>1 DEF Inv, TypeOK
  <2>4. CASE a # b
    BY <2>3, <2>4 DEF Behind
  <2>5. CASE a = b
    <3> DEFINE m == <<current[b], ip>>
    <3>1. m \in Moves /\ m[1] = current[b] /\ m[2] = ip
      BY <2>1
    <3> HIDE DEF m
    <3>2. x \in Nat /\ NoIP \notin IPs /\ IPs \subseteq Nat
      BY PublisherAssumption DEF Forward
    <3>3. CASE current[b] = NoIP
      BY <2>3, <2>5, <3>1, <3>2, <3>3 DEF Behind
    <3>4. CASE current[b] \in IPs /\ ip = NoIP
      <4>1. ASSUME NEW n \in Moves, n[1] = NoIP, n[2] \in IPs PROVE x <= n[2]
        <5>1. current[b] <= n[2]
          BY <3>1, <3>4, <4>1 DEF Forward
        <5>2. x <= current[b]
          BY <2>5, <3>2, <3>4 DEF Behind
        <5>3. x \in Nat /\ current[b] \in Nat /\ n[2] \in Nat
          BY <3>2, <3>4, <4>1
        <5> QED
          BY <5>1, <5>2, <5>3
      <4>2. current'[a] = NoIP
        BY <2>3, <2>5, <3>4
      <4> QED
        BY <4>1, <4>2, Zenon DEF Behind
    <3>5. CASE current[b] \in IPs /\ ip \in IPs
      <4>1. current[b] <= ip /\ x <= current[b]
        BY <2>5, <3>1, <3>2, <3>5 DEF Forward, Behind
      <4>2. current'[a] # NoIP /\ current'[a] = ip
        BY <2>3, <2>5, <3>2, <3>5
      <4>3. x \in Nat /\ ip \in Nat /\ current[b] \in Nat
        BY <3>2, <3>5
      <4>4. x <= ip
        BY <4>1, <4>3
      <4> QED
        BY <4>2, <4>4, Zenon DEF Behind
    <3>6. ip \in IPs \/ ip = NoIP
      BY <2>1
    <3> QED
      BY <2>2, <3>3, <3>4, <3>5, <3>6
  <2> QED
    BY <2>4, <2>5
<1>3. current' = current \/ \E b \in Addresses : AddressChanges(b)
  BY OwnOK DEF Next, Own, Serve, Refuse, LoseReply, Crash, ServeLate, ForeignDelete, vars
<1> QED
  BY <1>1, <1>2, <1>3

(* An instance takes up the addresses when a pass starts, and keeps them.   *)
LEMMA AimTaken ==
  ASSUME Inv, [Next]_vars, NEW i \in Instances, Publishing(i)'
  PROVE  \/ Publishing(i) /\ wanted'[i] = wanted[i]
         \/ wanted'[i] = current /\ UNCHANGED <<records, current>>
<1>1. CASE Unmoved(i)
  BY <1>1 DEF Unmoved, Publishing
<1>2. CASE Serve(i) \/ Refuse(i) \/ LoseReply(i)
  BY <1>2 DEF Serve, Refuse, LoseReply, Publishing
<1>3. CASE Publish(i)
  BY <1>3 DEF Publish, service, Inv, TypeOK
<1>4. ~ Gone(i) /\ ~ Crash(i)
  BY DEF Crash, Gone, Publishing, Inv, TypeOK
<1>5. CASE Own(i) /\ ~ Publish(i)
  BY <1>4, <1>5
     DEF Own, Work, Start, FindRecord, InitFails, Ready, SkipPass, SkipUnresolved,
         SkipUnchanged, Update, EndPublish, Receive, Publishing, Inv, TypeOK
<1> QED
  BY <1>1, <1>2, <1>3, <1>4, <1>5, StepActors, OthersUnmoved, OutsideUnmoved

(* What is about to be written is never ahead of its address.               *)
LEMMA AimsBehindNext ==
  ASSUME Forward
  PROVE  Inv /\ AimsBehind /\ [Next]_vars => AimsBehind'
<1> SUFFICES ASSUME Inv, AimsBehind, [Next]_vars, NEW i \in Instances, NEW a \in Addresses,
                    Publishing(i)', wanted'[i][a] \in IPs
             PROVE  Behind(wanted[i][a], a)'
  BY DEF AimsBehind
<1>1. CASE Publishing(i) /\ wanted'[i] = wanted[i]
  <2>1. PICK x \in IPs : x = wanted[i][a]
    BY <1>1
  <2>2. Behind(x, a)
    BY <1>1, <2>1 DEF AimsBehind
  <2>3. Behind(x, a)'
    BY <2>2, StaysBehind
  <2>4. wanted'[i][a] = x
    BY <1>1, <2>1
  <2> QED
    BY <2>3, <2>4 DEF Behind
<1>2. CASE wanted'[i] = current /\ UNCHANGED <<records, current>>
  <2>1. wanted'[i][a] = current'[a] /\ current'[a] # NoIP /\ current'[a] \in Nat
    BY <1>2, PublisherAssumption DEF Forward
  <2>2. wanted'[i][a] <= current'[a]
    BY <2>1
  <2> QED
    BY <2>1, <2>2 DEF Behind
<1> QED
  BY <1>1, <1>2, AimTaken

(* A record that is not written stays behind.                               *)
LEMMA KeptBehind ==
  ASSUME Forward, Inv, [Next]_vars, NEW id \in Ids, NEW i \in Instances, NEW n \in Domains(i),
         RecordBehind(id, i, n), records'[id] \in {records[id], Deleted}
  PROVE  RecordBehind(id, i, n)'
<1> SUFFICES ASSUME Live(id)', records'[id].key = Config[i][n].key
             PROVE  /\ Behind(records[id].ip, Config[i][n].address)'
                    /\ Publishing(i)' /\ wanted'[i][Config[i][n].address] \in IPs
                         => records'[id].ip <= wanted'[i][Config[i][n].address]
  BY DEF RecordBehind
<1>1. PICK a \in Addresses : a = Config[i][n].address
  BY ConfigType DEF Domains
<1>2. records'[id] = records[id] /\ Live(id) /\ records[id] \in Record
  BY DEF Live, Inv, TypeOK
<1>3. PICK x \in IPs : x = records[id].ip
  BY <1>2 DEF Record
<1>4. Behind(x, a)
  BY <1>1, <1>2, <1>3 DEF RecordBehind
<1>5. Behind(x, a)'
  BY <1>4, StaysBehind
<1>6. ASSUME Publishing(i)', wanted'[i][a] \in IPs PROVE x <= wanted'[i][a]
  <2>1. CASE Publishing(i) /\ wanted'[i] = wanted[i]
    BY <1>1, <1>2, <1>3, <1>6, <2>1 DEF RecordBehind
  <2>2. CASE wanted'[i] = current
    BY <1>4, <1>6, <2>2, PublisherAssumption DEF Behind
  <2> QED
    BY <1>6, <2>1, <2>2, AimTaken
<1>7. records'[id].ip = x
  BY <1>2, <1>3
<1> QED
  BY <1>1, <1>5, <1>6, <1>7 DEF Behind

(* A record that is written gets what the pass is about to write: no older *)
(* than what was there, and not ahead of its address.                       *)
LEMMA WrittenBehind ==
  ASSUME UniqueKeys, Forward, Inv, AimsBehind, NEW id \in Ids, NEW j \in Instances,
         Serve(j), Apply(request[j], id)
  PROVE  \A i \in Instances : \A n \in Domains(i) : RecordBehind(id, i, n)'
<1> SUFFICES ASSUME NEW i \in Instances, NEW n \in Domains(i),
                    records'[id].key = Config[i][n].key
             PROVE  /\ Behind(records[id].ip, Config[i][n].address)'
                    /\ Publishing(i)' /\ wanted'[i][Config[i][n].address] \in IPs
                         => records'[id].ip <= wanted'[i][Config[i][n].address]
  BY DEF RecordBehind
<1>1. /\ pc[j] = "await" /\ request[j] \in Request
      /\ pos[j] \in Domains(j)
      /\ request[j].key = Config[j][pos[j]].key
      /\ request[j].ip = wanted[j][Config[j][pos[j]].address]
  BY WaitingRequest, ConfigType DEF Serve, Waiting, Domains, Here, Target
<1>2. records'[id].key = request[j].key /\ records'[id].ip = request[j].ip
  BY <1>1, TypeParts, Applied DEF Inv
<1>3. i = j /\ n = pos[j]
  <2>1. PICK m \in Domains(j) : m = pos[j]
    BY <1>1
  <2>2. Config[i][n].key = Config[j][m].key
    BY <1>1, <1>2, <2>1
  <2> QED
    BY <2>1, <2>2 DEF UniqueKeys
<1>4. PICK a \in Addresses : a = Config[i][n].address
  BY ConfigType DEF Domains
<1>5. PICK x \in IPs : x = request[j].ip
  BY <1>1 DEF Request
<1>6. x = wanted[j][a] /\ UNCHANGED <<current, wanted>>
  BY <1>1, <1>3, <1>4, <1>5 DEF Serve
<1>7. Behind(x, a)
  BY <1>1, <1>6 DEF AimsBehind, Publishing
<1>8. Behind(x, a)'
  BY <1>6, <1>7 DEF Behind
<1>9. x <= wanted'[i][a]
  BY <1>3, <1>6 DEF Forward
<1> QED
  BY <1>2, <1>4, <1>5, <1>8, <1>9 DEF Behind

(* Every step keeps the records behind.                                     *)
LEMMA RecordsBehindNext ==
  ASSUME UniqueKeys, Forward
  PROVE  Inv /\ late = {} /\ AimsBehind /\ RecordsBehind /\ [Next]_vars => RecordsBehind'
<1> SUFFICES ASSUME Inv, late = {}, AimsBehind, RecordsBehind, [Next]_vars,
                    NEW id \in Ids, NEW i \in Instances, NEW n \in Domains(i)
             PROVE  RecordBehind(id, i, n)'
  BY DEF RecordsBehind
<1>1. CASE records'[id] \in {records[id], Deleted}
  BY <1>1, KeptBehind DEF RecordsBehind
<1>2. CASE records'[id] \notin {records[id], Deleted}
  <2>1. PICK j \in Instances : Serve(j) /\ Apply(request[j], id)
    BY <1>2, OnlyServeWrites
  <2> QED
    BY <2>1, WrittenBehind
<1> QED
  BY <1>1, <1>2

(* Where addresses only move on, no write of a pass whose addresses have   *)
(* become stale in the meantime, and none before or after a crash, brings  *)
(* back an address that the record's entry had before the one recorded.    *)
THEOREM NeverBack ==
  ASSUME UniqueKeys, Forward, "late" \notin Faults
  PROVE  Spec => NoRollback
<1>1. Init => AimsBehind /\ RecordsBehind
  <2> SUFFICES ASSUME Init PROVE RecordsBehind
    BY DEF Init, AimsBehind, Publishing
  <2> SUFFICES ASSUME NEW id \in Ids, NEW i \in Instances, NEW n \in Domains(i),
                      Live(id), records[id].key = Config[i][n].key
               PROVE  Behind(records[id].ip, Config[i][n].address)
    BY DEF RecordsBehind, RecordBehind, Init, Publishing
  <2>1. records[id] \in Record /\ records[id].key \in Managed /\ records \in Initial
    BY PublisherAssumption DEF Init, Live, Managed, ManagedBy
  <2>2. current[Config[i][n].address] = NoIP
    BY ConfigType DEF Init, Nothing, Domains
  <2> QED
    BY <2>1, <2>2 DEF Forward, Behind
<1>2. Inv /\ Ours /\ late = {} /\ RecordsBehind /\ [Next]_vars =>
        [\A id \in Ids : Live(id) /\ records'[id] \notin {Unused, Deleted}
           => records'[id].ip >= records[id].ip]_vars
  <2> SUFFICES ASSUME Inv, Ours, late = {}, RecordsBehind, [Next]_vars,
                      NEW id \in Ids, Live(id), records'[id] \notin {Unused, Deleted}
               PROVE  records'[id].ip >= records[id].ip
    OBVIOUS
  <2>1. records[id] \in Record /\ records[id].ip \in IPs /\ IPs \subseteq Nat
    BY DEF Live, Inv, TypeOK, Record, Forward
  <2>2. CASE records'[id] = records[id]
    <3>1. records'[id].ip = records[id].ip /\ records[id].ip \in Nat
      BY <2>1, <2>2
    <3> QED
      BY <3>1
  <2>3. CASE records'[id] # records[id]
    <3>1. PICK j \in Instances : Serve(j) /\ Apply(request[j], id)
      BY <2>3, OnlyServeWrites
    <3>2. /\ pc[j] = "await" /\ request[j] \in Request
          /\ pos[j] \in Domains(j)
          /\ request[j].key = Config[j][pos[j]].key
          /\ request[j].ip = wanted[j][Config[j][pos[j]].address]
      BY <3>1, WaitingRequest, ConfigType DEF Serve, Waiting, Domains, Here, Target
    <3>3. records'[id].key = request[j].key /\ records'[id].ip = request[j].ip
      BY <3>1, <3>2, TypeParts, Applied DEF Inv
    <3>4. records[id].key = Config[j][pos[j]].key
      BY <2>3, <3>2, <3>3, StepKeeps
    <3>5. request[j].ip \in IPs
      BY <3>2 DEF Request
    <3>6. records[id].ip <= request[j].ip
      BY <3>2, <3>4, <3>5 DEF RecordsBehind, RecordBehind, Publishing
    <3> QED
      BY <2>1, <3>3, <3>5, <3>6
  <2> QED
    BY <2>2, <2>3
<1> QED
  BY <1>1, <1>2, AimsBehindNext, RecordsBehindNext, OursCorrect, NoneLate, PTL
     DEF Spec, NoRollback

-----------------------------------------------------------------------------
(* No record has the key k. *)
Free(k) == \A id \in Ids : ~ (Live(id) /\ records[id].key = k)

(* A record of a configured entry is in a zone where FindRecord looks.     *)
ZonesFit ==
  \A id \in Ids : Live(id) /\ records[id].key \in Managed
    => records[id].zone \in ZonesOf[records[id].key]

(* An entry whose handle is empty has no record, but for the one that is   *)
(* just being reported; a request names a zone where FindRecord looks.     *)
KnownOrNone(i) ==
  /\ \A n \in 1 .. Len(domains[i]) :
       domains[i][n].handle = NoId /\ ~ (pc[i] = "await" /\ pos[i] = n /\ reply[i] \in Ids)
         => Free(Config[i][n].key)
  /\ pc[i] = "await" => request[i].zone \in ZonesOf[request[i].key]

(* The marks are well chosen, no zone is inside another, and no request is *)
(* acted on without the program hearing of it.                             *)
Reliable ==
  /\ UniqueKeys
  /\ OneZone
  /\ Faults \cap {"lose", "late"} = {}

(* The records the service starts with are as the program leaves them.     *)
InitialFits ==
  \A rs \in Initial : \A id \in Ids :
     rs[id] \notin {Unused, Deleted} /\ rs[id].key \in Managed
       => /\ rs[id].zone \in ZonesOf[rs[id].key]
          /\ \A other \in Ids :
               rs[other] \notin {Unused, Deleted} /\ rs[other].key = rs[id].key
                 => other = id

SingleInv == SingleRecord /\ ZonesFit /\ \A i \in Instances : KnownOrNone(i)

(* recordPublisher.init remembers the record if the name has one.           *)
LEMMA FindRecordKnown ==
  ASSUME Reliable, Inv, SingleInv, NEW i \in Instances, FindRecord(i)
  PROVE  KnownOrNone(i)'
<1>1. PICK m \in Cached :
        /\ domains' = [domains EXCEPT ![i] = Append(@, m)]
        /\ \/ \E z \in ZonesOf[Here(i).key] : Found(Here(i).key, z) = {}
           \/ m.handle \in Ids
  BY FindRecordMemory
<1>2. /\ Len(domains'[i]) = Len(domains[i]) + 1
      /\ \A k \in 1 .. Len(domains[i]) : domains'[i][k] = domains[i][k]
      /\ domains'[i][Len(domains[i]) + 1] = m
  BY <1>1, Appended DEF Inv
<1>3. /\ Len(domains[i]) = pos[i] - 1 /\ pos[i] \in 1 .. Len(Config[i])
      /\ Here(i).key \in Keys
  BY HereType DEF FindRecord, Inv, LoopsOK, LoopOK
<1>4. Here(i).key \in Managed
  BY <1>3, ConfigType DEF Managed, ManagedBy, Domains, Here
<1>5. ASSUME NEW z \in ZonesOf[Here(i).key], Found(Here(i).key, z) = {}
      PROVE  Free(Here(i).key)
  BY <1>3, <1>4, <1>5 DEF Free, SingleInv, ZonesFit, Found, Reliable, OneZone
<1>6. m.handle = NoId => Free(Here(i).key)
  BY <1>1, <1>5, PublisherAssumption
<1>7. pc[i] = "init" /\ pc' = pc /\ records' = records
  BY DEF FindRecord, service
<1>8. ASSUME NEW n \in 1 .. Len(domains'[i]), domains'[i][n].handle = NoId
      PROVE  Free(Config[i][n].key)
  <2>1. CASE n = pos[i]
    BY <1>2, <1>3, <1>6, <1>8, <2>1 DEF Here
  <2>2. CASE n # pos[i]
    <3>1. domains[i] \in Seq(Cached) /\ Len(domains[i]) \in Nat
      BY LenProperties DEF Inv, TypeOK
    <3>2. n \in 1 .. Len(domains[i]) /\ domains[i][n].handle = NoId
      BY <1>2, <1>3, <1>8, <2>2, <3>1
    <3> QED
      BY <1>7, <3>2 DEF SingleInv, KnownOrNone
  <2> QED
    BY <2>1, <2>2
<1> QED
  BY <1>7, <1>8 DEF KnownOrNone, Free, Live

(* An instance's own steps keep it aware of the record of each name.        *)
LEMMA OwnKnown ==
  ASSUME Reliable, Inv, SingleInv, NEW i \in Instances, Own(i)
  PROVE  KnownOrNone(i)'
<1>0. records' = records /\ KnownOrNone(i)
  BY OwnOK DEF SingleInv
<1>1. CASE FindRecord(i)
  BY <1>1, FindRecordKnown
<1>2. CASE Update(i)
  <2>1. /\ Len(domains'[i]) = Len(domains[i])
        /\ \A k \in 1 .. Len(domains[i]) : k # pos[i] => domains'[i][k] = domains[i][k]
        /\ domains'[i][pos[i]].handle = domains[i][pos[i]].handle
        /\ request'[i].key = Here(i).key
    BY <1>2, UpdateEffect DEF Memory
  <2>2. request'[i].zone \in ZonesOf[Here(i).key]
    BY <1>2 DEF Update, Inv, TypeOK
  <2>3. pc[i] = "publish"
    BY <1>2 DEF Update
  <2> QED
    BY <1>0, <2>1, <2>2, <2>3 DEF KnownOrNone, Free, Live
<1>3. CASE Receive(i)
  <2>1. /\ Len(domains'[i]) = Len(domains[i])
        /\ \A k \in 1 .. Len(domains[i]) : k # pos[i] => domains'[i][k] = domains[i][k]
        /\ domains'[i][pos[i]].handle
             = IF reply[i] \in Ids THEN reply[i] ELSE domains[i][pos[i]].handle
    BY <1>3, ReceiveEffect DEF Memory
  <2>2. pc'[i] = "publish"
    BY <1>3 DEF Receive, Inv, TypeOK
  <2> QED
    BY <1>0, <2>1, <2>2, PublisherAssumption DEF KnownOrNone, Free, Live
<1>4. CASE Gone(i)
  BY <1>4 DEF Gone, Inv, TypeOK, KnownOrNone
<1>5. CASE domains' = domains /\ pc[i] # "await" /\ pc'[i] # "await"
  BY <1>0, <1>5 DEF KnownOrNone, Free, Live
<1> QED
  BY <1>1, <1>2, <1>3, <1>4, <1>5
     DEF Own, Work, Start, InitFails, Ready, SkipPass, SkipUnresolved, SkipUnchanged,
         EndPublish, Publish, Inv, TypeOK

(* The keys of the records that there are after the service has acted: no  *)
(* others, when it rewrote one; one more, when it created one.             *)
LEMMA ServeKeys ==
  ASSUME Reliable, Inv, Ours, SingleInv, NEW i \in Instances, Serve(i)
  PROVE  /\ SingleRecord' /\ ZonesFit'
         /\ \A k : Free(k) /\ (request[i].id = NoId => k # Here(i).key) => Free(k)'
<1>1. PICK new \in Ids : Apply(request[i], new)
  BY DEF Serve
<1>2. /\ pc[i] = "await" /\ reply[i] = "none" /\ request[i] \in Request
      /\ request[i].key = Here(i).key /\ request[i].id = Memory(i).handle
      /\ pos[i] \in 1 .. Len(domains[i])
  BY WaitingRequest DEF Serve, Waiting
<1>3. ServiceTyped
  BY TypeParts DEF Inv
<1>4. /\ records'[new] \in Record
      /\ records'[new].key = Here(i).key /\ records'[new].zone = request[i].zone
      /\ \A other \in Ids : other # new => records'[other] = records[other]
  BY <1>1, <1>2, <1>3, Applied
<1>5. request[i].zone \in ZonesOf[Here(i).key]
  BY <1>2 DEF SingleInv, KnownOrNone
<1>6. ZonesFit'
  BY <1>4, <1>5 DEF ZonesFit, SingleInv, Live
<1>7. CASE request[i].id = NoId
  <2>1. Free(Here(i).key)
    BY <1>2, <1>7, PublisherAssumption DEF SingleInv, KnownOrNone, Memory, Here
  <2>2. SingleRecord'
    BY <1>4, <2>1 DEF SingleRecord, SingleInv, Free, Live
  <2>3. \A k : Free(k) /\ k # Here(i).key => Free(k)'
    BY <1>4 DEF Free, Live
  <2> QED
    BY <1>6, <1>7, <2>2, <2>3
<1>8. CASE request[i].id # NoId
  <2>1. Live(new) /\ records[new].key = Here(i).key
    <3>1. new = request[i].id /\ Live(new)
      BY <1>1, <1>8 DEF Apply
    <3>2. IsOf(new, Here(i).key)
      BY <1>2, <1>8, <3>1, RequestOurs
    <3> QED
      BY <3>1, <3>2 DEF IsOf, Live
  <2>2. \A id \in Ids : Live(id)' => Live(id) /\ records'[id].key = records[id].key
    BY <1>4, <2>1 DEF Live
  <2>3. SingleRecord'
    BY <2>2 DEF SingleRecord, SingleInv
  <2>4. \A k : Free(k) => Free(k)'
    BY <2>2 DEF Free
  <2> QED
    BY <1>6, <2>3, <2>4
<1> QED
  BY <1>7, <1>8

(* Serving a request keeps every instance aware of the record of each name. *)
LEMMA ServeKnown ==
  ASSUME Reliable, Inv, Ours, SingleInv, NEW i \in Instances, Serve(i), NEW j \in Instances
  PROVE  KnownOrNone(j)'
<1>1. /\ pc[i] = "await" /\ reply[i] = "none" /\ reply'[i] \in Ids
      /\ request[i].id = domains[i][pos[i]].handle
      /\ pos[i] \in 1 .. Len(Config[i])
  BY WaitingRequest DEF Serve, Waiting, Inv, TypeOK, Memory
<1>2. /\ UNCHANGED <<pc, pos, domains, request>>
      /\ j # i => reply'[j] = reply[j]
  BY DEF Serve, Inv, TypeOK
<1>3. KnownOrNone(j)
  BY DEF SingleInv
<1>4. Len(domains[j]) \in Nat /\ Len(domains[j]) <= Len(Config[j])
  <2>1. LoopOK(j) /\ pos[j] \in Nat \ {0} /\ Len(Config[j]) \in Nat /\ domains[j] \in Seq(Cached)
    BY ConfigType DEF Inv, LoopsOK, TypeOK
  <2>2. Len(domains[j]) \in Nat /\ Len(<<>>) = 0
    BY <2>1, LenProperties
  <2> QED
    BY <2>1, <2>2 DEF LoopOK, Inv, TypeOK
<1>5. ASSUME NEW n \in 1 .. Len(domains[j]), domains[j][n].handle = NoId,
             ~ (pc[j] = "await" /\ pos[j] = n /\ reply'[j] \in Ids)
      PROVE  Free(Config[j][n].key)'
  <2>1. Free(Config[j][n].key)
    BY <1>1, <1>2, <1>3, <1>5, PublisherAssumption DEF KnownOrNone
  <2>2. request[i].id = NoId => Config[j][n].key # Here(i).key
    <3>1. n \in DOMAIN Config[j] /\ pos[i] \in DOMAIN Config[i]
      BY <1>1, <1>4, ConfigType
    <3>2. ~ (j = i /\ n = pos[i])
      BY <1>1, <1>5
    <3> QED
      BY <3>1, <3>2 DEF Reliable, UniqueKeys, Domains, Here
  <2> QED
    BY <2>1, <2>2, ServeKeys
<1> QED
  BY <1>2, <1>3, <1>5 DEF KnownOrNone

(* Under reliable delivery every step keeps one record per name.            *)
LEMMA SingleNext ==
  ASSUME Reliable
  PROVE  Inv /\ Ours /\ late = {} /\ SingleInv /\ [Next]_vars => SingleInv'
<1> SUFFICES ASSUME Inv, Ours, late = {}, SingleInv, [Next]_vars PROVE SingleInv'
  OBVIOUS
<1>1. CASE \E i \in Instances : Serve(i)
  BY <1>1, ServeKeys, ServeKnown DEF SingleInv
<1>2. CASE ~ \E i \in Instances : Serve(i)
  <2>1. \A id \in Ids : records'[id] \in {records[id], Deleted}
    BY <1>2, OnlyServeWrites
  <2>2. \A id \in Ids : Live(id)' => Live(id) /\ records'[id] = records[id]
    BY <2>1 DEF Live
  <2>3. SingleRecord' /\ ZonesFit'
    BY <2>2 DEF SingleInv, SingleRecord, ZonesFit
  <2>4. \A k : Free(k) => Free(k)'
    BY <2>2 DEF Free
  <2>5. ASSUME NEW j \in Instances PROVE KnownOrNone(j)'
    <3>1. KnownOrNone(j)
      BY DEF SingleInv
    <3>2. CASE Own(j)
      BY <3>2, OwnKnown
    <3>3. CASE Unmoved(j)
      BY <2>4, <3>1, <3>3 DEF Unmoved, KnownOrNone
    <3>4. CASE Refuse(j)
      BY <2>4, <3>1, <3>4, PublisherAssumption DEF Refuse, Waiting, KnownOrNone
    <3>5. CASE Crash(j)
      BY <3>5 DEF Crash, Gone, Inv, TypeOK, KnownOrNone
    <3>6. ~ LoseReply(j)
      BY DEF LoseReply, Reliable
    <3> QED
      BY <1>2, <3>2, <3>3, <3>4, <3>5, <3>6, StepActors, OthersUnmoved, OutsideUnmoved
  <2> QED
    BY <2>3, <2>5 DEF SingleInv
<1> QED
  BY <1>1, <1>2

(* publisher.go:38: where the marks are well chosen, no zone is inside     *)
(* another and every write is heard of, no restart, crash or failure ever  *)
(* leaves two records for an entry, so that the program can always start.  *)
THEOREM NeverDuplicate ==
  ASSUME Reliable, InitialFits
  PROVE  Spec => []SingleRecord
<1>1. Init => SingleInv
  BY DEF Init, InitialFits, SingleInv, SingleRecord, ZonesFit, Live, KnownOrNone
<1>2. SingleInv => SingleRecord
  BY DEF SingleInv
<1>3. "late" \notin Faults
  BY DEF Reliable
<1> QED
  BY <1>1, <1>2, <1>3, SingleNext, OursCorrect, NoneLate, PTL DEF Spec

-----------------------------------------------------------------------------
(* Proof that Publisher implements ManagedDns where the service answers,   *)
(* and of the agreement of the instances' memory with the records, which   *)
(* that rests on.                                                          *)

(* The service hears every request and acts on it, nobody else writes to   *)
(* the records, and besides what makes a write Reliable, see there.        *)
Answering == Reliable /\ Faults \cap {"refuse", "foreign"} = {}

(* There is a record id left to hand out: the zone is not full.            *)
Room == \E id \in Ids : records[id] = Unused

(* The memory of domain n of instance j, and the reply j is about to take. *)
MemoryTrue(j, n) ==
  domains[j][n].ip # NoIP /\ ~(pc[j] = "await" /\ pos[j] = n)
    => /\ domains[j][n].handle # NoId
       /\ Live(domains[j][n].handle)
       /\ records[domains[j][n].handle].ip = domains[j][n].ip

ReplyTrue(j) ==
  pc[j] = "await" /\ reply[j] \in Ids
    => Live(reply[j]) /\ records[reply[j]].ip = Target(j)

Agree ==
  /\ \A id \in Ids : records[id] # Deleted
  /\ \A j \in Instances : \A n \in 1 .. Len(domains[j]) : MemoryTrue(j, n)
  /\ \A j \in Instances : ReplyTrue(j) /\ reply[j] # "refused"

All == Inv /\ Ours /\ late = {} /\ SingleInv /\ Agree

-----------------------------------------------------------------------------
(* Where nothing is deleted, a remembered record is there and is of the    *)
(* key it is remembered for.                                               *)
LEMMA HandleLive ==
  ASSUME Inv, Ours, Agree, NEW j \in Instances, NEW n \in 1 .. Len(domains[j]),
         domains[j][n].handle # NoId
  PROVE  /\ domains[j][n].handle \in Ids /\ Live(domains[j][n].handle)
         /\ records[domains[j][n].handle] \in Record
         /\ records[domains[j][n].handle].key = Config[j][n].key
<1>1. domains[j][n].handle \in Ids
  BY HandleType
<1>2. IsOf(domains[j][n].handle, Config[j][n].key)
  BY DEF Ours, MemoriesOurs
<1>3. records[domains[j][n].handle] \in Record /\ records[domains[j][n].handle].key = Config[j][n].key
  BY <1>1, <1>2 DEF Agree, IsOf
<1> QED
  BY <1>1, <1>3, PublisherAssumption DEF Live

(* The steps there are when the service answers.                           *)
LEMMA AnsweringSteps ==
  ASSUME Answering, All, Room, [Next]_vars
  PROVE  \/ \E i \in Instances : Own(i) \/ Serve(i) \/ Crash(i)
         \/ \E a \in Addresses : AddressChanges(a)
         \/ UNCHANGED vars
<1>1. ASSUME NEW i \in Instances, Refuse(i) PROVE FALSE
  <2>1. ~Applicable(request[i]) /\ pc[i] = "await"
    BY <1>1 DEF Refuse, Answering, Waiting
  <2>2. pos[i] \in 1 .. Len(domains[i]) /\ request[i].id = domains[i][pos[i]].handle
    BY <2>1, WaitingRequest DEF All, Memory
  <2>3. CASE request[i].id = NoId
    BY <2>1, <2>3 DEF Applicable, Room
  <2>4. CASE request[i].id # NoId
    BY <2>1, <2>2, <2>4, HandleLive DEF Applicable, All
  <2> QED
    BY <2>3, <2>4
<1>2. ASSUME NEW i \in Instances PROVE ~LoseReply(i)
  BY DEF LoseReply, Answering, Reliable
<1>3. ASSUME NEW id \in Ids PROVE ~ForeignDelete(id)
  BY DEF ForeignDelete, Answering
<1>4. ~\E r \in late : ServeLate(r)
  BY DEF All
<1> QED
  BY <1>1, <1>2, <1>3, <1>4, StepActors DEF Outside

(* What Serve does to the records: that of the domain whose turn it is has *)
(* its address from then on, and all the others stay.                      *)
LEMMA Served ==
  ASSUME Answering, All, NEW i \in Instances, Serve(i)
  PROVE  \E id \in Ids :
           /\ reply'[i] = id /\ records'[id] \in Record
           /\ records'[id].key = Here(i).key /\ records'[id].ip = Target(i)
           /\ \A other \in Ids : other # id => records'[other] = records[other]
           /\ Live(id) => records[id].key = Here(i).key
<1>1. PICK id \in Ids : Apply(request[i], id) /\ reply' = [reply EXCEPT ![i] = id]
  BY DEF Serve
<1>2. /\ pc[i] = "await" /\ request[i] \in Request
      /\ request[i].key = Here(i).key /\ request[i].ip = Target(i)
      /\ pos[i] \in 1 .. Len(domains[i]) /\ request[i].id = domains[i][pos[i]].handle
  BY WaitingRequest DEF Serve, Waiting, All, Memory
<1>3. /\ records'[id] \in Record
      /\ records'[id].key = Here(i).key /\ records'[id].ip = Target(i)
      /\ \A other \in Ids : other # id => records'[other] = records[other]
      /\ \/ request[i].id = NoId /\ records[id] = Unused
         \/ request[i].id # NoId /\ id = request[i].id /\ Live(id)
  BY <1>1, <1>2, Applied, TypeParts DEF All, Inv
<1>4. Live(id) => records[id].key = Here(i).key
  BY <1>2, <1>3, HandleLive DEF All, Live, Here
<1> QED
  BY <1>1, <1>3, <1>4 DEF All, Inv, TypeOK

-----------------------------------------------------------------------------
(* The domains that have had a handle or a reply keep what they agree on,  *)
(* while another domain is served: its record is another one.              *)
LEMMA ServeAgrees ==
  ASSUME Answering, All, NEW i \in Instances, Serve(i)
  PROVE  Agree'
<1>1. PICK id \in Ids :
        /\ reply'[i] = id /\ records'[id] \in Record
        /\ records'[id].key = Here(i).key /\ records'[id].ip = Target(i)
        /\ \A other \in Ids : other # id => records'[other] = records[other]
        /\ Live(id) => records[id].key = Here(i).key
  BY Served
<1>2. /\ UNCHANGED <<pc, pos, domains, wanted>> /\ pc[i] = "await"
      /\ \A j \in Instances : j # i => reply'[j] = reply[j]
  BY DEF Serve, Waiting, All, Inv, TypeOK
<1>3. pos[i] \in DOMAIN Config[i]
  BY <1>2, WaitingRequest, ConfigType DEF All
<1>4. ASSUME NEW other \in Ids PROVE records'[other] # Deleted
  BY <1>1, <1>4, PublisherAssumption DEF All, Agree
<1>5. ASSUME NEW j \in Instances, NEW n \in 1 .. Len(domains[j]) PROVE MemoryTrue(j, n)'
  <2> SUFFICES ASSUME domains[j][n].ip # NoIP, ~(pc[j] = "await" /\ pos[j] = n)
               PROVE  /\ domains[j][n].handle # NoId
                      /\ Live(domains[j][n].handle)'
                      /\ records'[domains[j][n].handle].ip = domains[j][n].ip
    BY <1>2 DEF MemoryTrue, Live
  <2> DEFINE h == domains[j][n].handle
  <2>1. h # NoId /\ Live(h) /\ records[h].ip = domains[j][n].ip
    BY DEF All, Agree, MemoryTrue
  <2>2. h \in Ids /\ records[h].key = Config[j][n].key
    BY <2>1, HandleLive DEF All
  <2>3. n \in DOMAIN Config[j]
    BY ConfigType DEF All, Inv, LoopsOK, LoopOK, TypeOK
  <2>4. Config[j][n].key # Here(i).key
    BY <1>2, <1>3, <2>3 DEF Answering, Reliable, UniqueKeys, Domains, Here
  <2> QED
    BY <1>1, <1>2, <2>1, <2>2, <2>4 DEF Live
<1>6. ASSUME NEW j \in Instances PROVE ReplyTrue(j)' /\ reply'[j] # "refused"
  <2>1. CASE j = i
    BY <1>1, <1>2, <2>1, PublisherAssumption DEF ReplyTrue, Live, Target, Here
  <2>2. CASE j # i
    <3> SUFFICES ASSUME pc[j] = "await", reply[j] \in Ids
                 PROVE  Live(reply[j])' /\ records'[reply[j]].ip = Target(j)
      BY <1>2, <2>2 DEF ReplyTrue, Live, Target, Here, All, Agree
    <3>1. Live(reply[j]) /\ records[reply[j]].ip = Target(j)
      BY DEF All, Agree, ReplyTrue
    <3>2. records[reply[j]].key = Here(j).key
      BY <3>1 DEF All, Ours, RepliesOurs, IsOf, Live
    <3>3. pos[j] \in DOMAIN Config[j]
      BY WaitingRequest, ConfigType DEF All
    <3>4. Here(j).key # Here(i).key
      BY <1>3, <2>2, <3>3 DEF Answering, Reliable, UniqueKeys, Domains, Here
    <3> QED
      BY <1>1, <1>2, <2>2, <3>1, <3>2, <3>4 DEF Live
  <2> QED
    BY <2>1, <2>2
<1> QED
  BY <1>2, <1>4, <1>5, <1>6 DEF Agree

(* What an instance remembers and is told stays true in its own steps: it  *)
(* takes over what it finds in the records and what it is answered.        *)
LEMMA OwnAgrees ==
  ASSUME Answering, All, NEW i \in Instances, Own(i)
  PROVE  (\A n \in 1 .. Len(domains[i]) : MemoryTrue(i, n))' /\ ReplyTrue(i)' /\ reply'[i] # "refused"
<1>0. records' = records
  BY OwnOK DEF All
<1>1. /\ \A n \in 1 .. Len(domains[i]) : MemoryTrue(i, n)
      /\ ReplyTrue(i) /\ reply[i] # "refused"
      /\ pc[i] # "await" => reply[i] = "none"
  BY DEF All, Agree, Inv, LoopsOK, LoopOK
<1>2. ASSUME pc'[i] # "await", reply'[i] = "none",
             NEW S, S = 1 .. Len(domains'[i]),
             \A n \in S : domains'[i][n].ip # NoIP =>
                /\ domains'[i][n].handle # NoId
                /\ Live(domains'[i][n].handle)
                /\ records[domains'[i][n].handle].ip = domains'[i][n].ip
      PROVE  (\A n \in 1 .. Len(domains[i]) : MemoryTrue(i, n))' /\ ReplyTrue(i)' /\ reply'[i] # "refused"
  BY <1>0, <1>2 DEF MemoryTrue, ReplyTrue, Live
<1>3. CASE Gone(i)
  <2>1. domains'[i] = <<>> /\ pc'[i] = "down" /\ reply'[i] = "none"
    BY <1>3 DEF Gone, All, Inv, TypeOK
  <2>2. Len(domains'[i]) = 0
    BY <2>1
  <2> QED
    BY <1>2, <2>1, <2>2
<1>4. CASE pc[i] # "await" /\ pc'[i] # "await" /\ UNCHANGED <<domains, reply>>
  BY <1>0, <1>1, <1>4 DEF MemoryTrue, ReplyTrue, Live
<1>5. CASE FindRecord(i)
  <2>1. PICK m \in Cached :
          /\ domains' = [domains EXCEPT ![i] = Append(@, m)]
          /\ \/ m.handle = NoId /\ m.ip = NoIP
             \/ m.handle \in Ids /\ records[m.handle] \in Record /\ m.ip = records[m.handle].ip
    BY <1>5, FindRecordMemory DEF All
  <2>2. /\ Len(domains'[i]) = Len(domains[i]) + 1
        /\ \A k \in 1 .. Len(domains[i]) : domains'[i][k] = domains[i][k]
        /\ domains'[i][Len(domains[i]) + 1] = m
        /\ Len(domains[i]) \in Nat
    BY <2>1, Appended, LenProperties DEF All, Inv, TypeOK
  <2>3. pc[i] = "init" /\ pc' = pc /\ reply' = reply
    BY <1>5 DEF FindRecord
  <2>4. m.ip # NoIP => m.handle # NoId /\ Live(m.handle) /\ records[m.handle].ip = m.ip
    BY <2>1, PublisherAssumption DEF Live
  <2>5. ASSUME NEW n \in 1 .. Len(domains'[i]), domains'[i][n].ip # NoIP
        PROVE  /\ domains'[i][n].handle # NoId
               /\ Live(domains'[i][n].handle)
               /\ records[domains'[i][n].handle].ip = domains'[i][n].ip
    <3>1. CASE n = Len(domains[i]) + 1
      BY <2>2, <2>4, <2>5, <3>1
    <3>2. CASE n \in 1 .. Len(domains[i])
      BY <1>1, <2>2, <2>3, <2>5, <3>2 DEF MemoryTrue
    <3> QED
      BY <2>2, <3>1, <3>2
  <2> QED
    BY <1>1, <1>2, <2>3, <2>5
<1>6. CASE Update(i)
  <2>1. /\ Len(domains'[i]) = Len(domains[i])
        /\ \A k \in 1 .. Len(domains[i]) : k # pos[i] => domains'[i][k] = domains[i][k]
    BY <1>6, UpdateEffect DEF All
  <2>2. pc[i] = "publish" /\ pc'[i] = "await" /\ UNCHANGED <<pos, reply>>
    BY <1>6 DEF Update, All, Inv, TypeOK
  <2>3. reply[i] = "none"
    BY <1>1, <2>2
  <2> QED
    BY <1>0, <1>1, <2>1, <2>2, <2>3, PublisherAssumption DEF MemoryTrue, ReplyTrue, Live
<1>7. CASE Receive(i)
  <2>1. reply[i] \in Ids /\ pc[i] = "await"
    BY <1>1, <1>7 DEF Receive, All, Inv, TypeOK
  <2>2. /\ Len(domains'[i]) = Len(domains[i])
        /\ \A k \in 1 .. Len(domains[i]) : k # pos[i] => domains'[i][k] = domains[i][k]
        /\ domains'[i][pos[i]].ip = Target(i) /\ domains'[i][pos[i]].handle = reply[i]
    BY <1>7, <2>1, ReceiveEffect DEF All
  <2>3. pc'[i] = "publish" /\ reply'[i] = "none"
    BY <1>7 DEF Receive, All, Inv, TypeOK
  <2>4. reply[i] # NoId /\ Live(reply[i]) /\ records[reply[i]].ip = Target(i)
    BY <1>1, <2>1, PublisherAssumption DEF ReplyTrue
  <2>5. ASSUME NEW n \in 1 .. Len(domains'[i]), domains'[i][n].ip # NoIP
        PROVE  /\ domains'[i][n].handle # NoId
               /\ Live(domains'[i][n].handle)
               /\ records[domains'[i][n].handle].ip = domains'[i][n].ip
    <3>1. CASE n = pos[i]
      BY <2>2, <2>4, <3>1
    <3>2. CASE n # pos[i]
      BY <1>1, <2>2, <2>5, <3>2 DEF MemoryTrue
    <3> QED
      BY <3>1, <3>2
  <2> QED
    BY <1>2, <2>3, <2>5
<1> QED
  BY <1>3, <1>4, <1>5, <1>6, <1>7
     DEF Own, Work, Start, InitFails, Ready, SkipPass, SkipUnresolved, SkipUnchanged,
         EndPublish, Publish, All, Inv, TypeOK

(* Whoever takes the step, all memories stay true.                         *)
LEMMA AgreeNext ==
  ASSUME Answering
  PROVE  All /\ Room /\ [Next]_vars => Agree'
<1> SUFFICES ASSUME All, Room, [Next]_vars PROVE Agree'
  OBVIOUS
<1>1. CASE \E i \in Instances : Serve(i)
  BY <1>1, ServeAgrees
<1>2. CASE ~\E i \in Instances : Serve(i)
  <2>1. \/ \E i \in Instances : Own(i) \/ Crash(i)
        \/ (\E a \in Addresses : AddressChanges(a)) \/ UNCHANGED vars
    BY <1>2, AnsweringSteps
  <2>2. records' = records
    BY <2>1, OwnOK DEF Crash, AddressChanges, vars, service, All
  <2>3. ASSUME NEW j \in Instances, Unmoved(j)
        PROVE  (\A n \in 1 .. Len(domains[j]) : MemoryTrue(j, n))' /\ ReplyTrue(j)' /\ reply'[j] # "refused"
    BY <2>2, <2>3 DEF All, Agree, Unmoved, MemoryTrue, ReplyTrue, Live, Target, Here
  <2>4. ASSUME NEW j \in Instances, Crash(j)
        PROVE  (\A n \in 1 .. Len(domains[j]) : MemoryTrue(j, n))' /\ ReplyTrue(j)' /\ reply'[j] # "refused"
    <3>1. domains'[j] = <<>> /\ pc'[j] = "down" /\ reply'[j] = "none"
      BY <2>4 DEF Crash, Gone, All, Inv, TypeOK
    <3>2. Len(domains'[j]) = 0
      BY <3>1
    <3> QED
      BY <3>1, <3>2 DEF MemoryTrue, ReplyTrue
  <2>5. ASSUME NEW j \in Instances
        PROVE  (\A n \in 1 .. Len(domains[j]) : MemoryTrue(j, n))' /\ ReplyTrue(j)' /\ reply'[j] # "refused"
    <3>1. Inv
      BY DEF All
    <3>2. Unmoved(j) \/ Own(j) \/ Crash(j)
      BY <2>1, <3>1, OthersUnmoved, OutsideUnmoved DEF Outside
    <3> QED
      BY <2>3, <2>4, <3>2, OwnAgrees
  <2> QED
    BY <2>2, <2>5 DEF Agree, All
<1> QED
  BY <1>1, <1>2

(* All of this holds in every state of a run whose zone is never full.     *)
LEMMA AllCorrect ==
  ASSUME Answering, InitialFits
  PROVE  Spec /\ []Room => []All
<1>1. Init => SingleInv
  BY DEF Init, InitialFits, SingleInv, SingleRecord, ZonesFit, Live, KnownOrNone
<1>2. Init => Agree
  <2> SUFFICES ASSUME Init PROVE Agree
    OBVIOUS
  <2>1. \A id \in Ids : records[id] # Deleted
    BY PublisherAssumption DEF Init
  <2>2. \A j \in Instances : Len(domains[j]) = 0
    BY DEF Init
  <2> QED
    BY <2>1, <2>2 DEF Init, Agree, MemoryTrue, ReplyTrue
<1>3. "late" \notin Faults /\ Reliable
  BY DEF Answering, Reliable
<1>4. All /\ Room /\ [Next]_vars => Agree'
  BY AgreeNext
<1>5. Inv /\ Ours /\ late = {} /\ SingleInv /\ [Next]_vars => SingleInv'
  BY <1>3, SingleNext
<1>6. Spec => [](late = {})
  BY <1>3, NoneLate
<1> QED
  BY <1>1, <1>2, <1>4, <1>5, <1>6, OursCorrect, PTL DEF Spec, All

(* publisher.go:54: where the service answers, what an instance remembers  *)
(* as published is what the record says, whenever it does not wait for the *)
(* service: it is right to skip an address that did not change.            *)
THEOREM MemoryAgrees ==
  ASSUME Answering, InitialFits
  PROVE  Spec /\ []Room => []CacheAgrees
<1>1. All => CacheAgrees
  <2> SUFFICES ASSUME All, NEW i \in Instances, NEW n \in DOMAIN domains[i],
                      domains[i][n].ip # NoIP, ~(pc[i] = "await" /\ pos[i] = n)
               PROVE  /\ domains[i][n].handle # NoId
                      /\ Live(domains[i][n].handle)
                      /\ records[domains[i][n].handle].ip = domains[i][n].ip
    BY DEF CacheAgrees
  <2>1. n \in 1 .. Len(domains[i])
    BY LenProperties DEF All, Inv, TypeOK
  <2> QED
    BY <2>1 DEF All, Agree, MemoryTrue
<1> QED
  BY <1>1, AllCorrect, PTL

-----------------------------------------------------------------------------
(* The variables of ManagedDns as functions of those of Publisher.         *)
Published == [k \in Managed |-> PublishedFor(k)]
Aims      == [i \in Instances |-> Aim(i)]
Turns     == [i \in Instances |-> Turn(i)]

(* A step of instance i is seen only at i.                                 *)
LEMMA SeenAt ==
  ASSUME NEW i \in Instances, \A j \in Instances : j # i => Unmoved(j)
  PROVE  /\ Aims' = [Aims EXCEPT ![i] = Aim(i)']
         /\ Turns' = [Turns EXCEPT ![i] = Turn(i)']
<1>1. ASSUME NEW j \in Instances, j # i PROVE Aim(j)' = Aim(j) /\ Turn(j)' = Turn(j)
  BY <1>1 DEF Unmoved, Aim, Turn, Publishing, Nothing
<1> QED
  BY <1>1 DEF Aims, Turns

(* Records that stay as they are publish what they published.              *)
LEMMA PublishedStays ==
  ASSUME records' = records
  PROVE  Published' = Published
  BY DEF Published, PublishedFor, Live

(* Where there is one record per key, it is all there is for that key.     *)
LEMMA OnePublished ==
  ASSUME SingleRecord, NEW id \in Ids, Live(id), records[id].key \in Managed
  PROVE  PublishedFor(records[id].key) = {records[id].ip}
  BY DEF SingleRecord, PublishedFor

(* The domain whose turn it is.                                            *)
LEMMA HereManaged ==
  ASSUME Inv, NEW i \in Instances, ~AtEnd(i)
  PROVE  pos[i] \in DOMAIN Config[i] /\ Here(i).key \in Managed
  BY HereType, ConfigType DEF Inv, Managed, ManagedBy, Domains, Here

(* Serving a request settles the domain whose turn it is.                  *)
LEMMA ServeSettles ==
  ASSUME Answering, All, SingleRecord', NEW i \in Instances, Serve(i)
  PROVE  Dns!Settle(i)
<1>1. PICK id \in Ids :
        /\ reply'[i] = id /\ records'[id] \in Record
        /\ records'[id].key = Here(i).key /\ records'[id].ip = Target(i)
        /\ \A other \in Ids : other # id => records'[other] = records[other]
        /\ Live(id) => records[id].key = Here(i).key
  BY Served
<1>2. /\ UNCHANGED <<current, pc, pos, domains, wanted>>
      /\ pc[i] = "await" /\ reply[i] = "none" /\ reply'[i] # "none"
  BY <1>1, PublisherAssumption DEF Serve, Waiting
<1>3. /\ pos[i] \in DOMAIN Config[i] /\ Here(i).key \in Managed
      /\ Target(i) # NoIP
  <2>1. pos[i] \in 1 .. Len(Config[i]) /\ request[i] \in Request /\ request[i].ip = Target(i)
    BY <1>2, WaitingRequest DEF All
  <2>2. Target(i) # NoIP
    BY <2>1, PublisherAssumption DEF Request
  <2> QED
    BY <2>1, <2>2, ConfigType DEF Managed, ManagedBy, Domains, Here
<1>4. Published' = [Published EXCEPT ![Here(i).key] = {Target(i)}]
  <2>1. Live(id)'
    BY <1>1, PublisherAssumption DEF Live
  <2>2. ASSUME NEW k \in Managed, k = Here(i).key PROVE PublishedFor(k)' = {Target(i)}
    <3>1. \A other \in Ids : Live(other)' /\ records'[other].key = k => other = id
      BY <1>1, <1>3, <2>1, <2>2 DEF SingleRecord
    <3> QED
      BY <1>1, <2>1, <2>2, <3>1 DEF PublishedFor
  <2>3. ASSUME NEW k \in Managed, k # Here(i).key PROVE PublishedFor(k)' = PublishedFor(k)
    BY <1>1, <2>3 DEF PublishedFor, Live
  <2> QED
    BY <1>3, <2>2, <2>3 DEF Published
<1>5. Aims' = [Aims EXCEPT ![i] = Aim(i)'] /\ Turns' = [Turns EXCEPT ![i] = Turn(i)']
  BY SeenAt, OthersUnmoved DEF All
<1>6. Turn(i) = pos[i] /\ Turn(i)' = pos[i] + 1 /\ Aim(i) = wanted[i] /\ Aim(i)' = Aim(i)
  BY <1>2 DEF Turn, Aim, Publishing
<1>7. Aims' = Aims /\ Turns' = [Turns EXCEPT ![i] = Turns[i] + 1]
      /\ Turns[i] = pos[i] /\ Aims[i] = wanted[i]
  BY <1>5, <1>6 DEF Aims, Turns
<1> QED
  BY <1>2, <1>3, <1>4, <1>7 DEF Dns!Settle, Published, Aims, Turns, Here, Target

(* Passing over a domain settles it: it has no value to publish, or has    *)
(* been given it.                                                          *)
LEMMA SkipSettles ==
  ASSUME Answering, All, NEW i \in Instances, SkipUnresolved(i) \/ SkipUnchanged(i)
  PROVE  Dns!Settle(i)
<1>1. /\ UNCHANGED <<current, records, pc, domains, wanted, reply>>
      /\ pc[i] = "publish" /\ pos'[i] = pos[i] + 1 /\ ~AtEnd(i)
      /\ Target(i) # NoIP => Memory(i).ip = Target(i)
  BY DEF SkipUnresolved, SkipUnchanged, service, All, Inv, TypeOK
<1>2. pos[i] \in DOMAIN Config[i] /\ Here(i).key \in Managed
  BY <1>1, HereManaged DEF All
<1>3. Published' = Published
  BY <1>1, PublishedStays
<1>4. Target(i) # NoIP => Published[Here(i).key] = {Target(i)}
  <2> SUFFICES ASSUME Target(i) # NoIP PROVE Published[Here(i).key] = {Target(i)}
    OBVIOUS
  <2>1. pos[i] \in 1 .. Len(domains[i])
    BY <1>1, <1>2, ConfigType DEF All, Inv, LoopsOK, LoopOK
  <2> DEFINE h == domains[i][pos[i]].handle
  <2>2. h # NoId /\ Live(h) /\ records[h].ip = Target(i)
    BY <1>1, <2>1 DEF All, Agree, MemoryTrue, Memory
  <2>3. h \in Ids /\ records[h].key = Here(i).key
    BY <2>1, <2>2, HandleLive DEF All, Here
  <2> HIDE DEF h
  <2> QED
    BY <1>2, <2>2, <2>3, OnePublished DEF Published, All, SingleInv
<1>5. Aims' = [Aims EXCEPT ![i] = Aim(i)'] /\ Turns' = [Turns EXCEPT ![i] = Turn(i)']
  BY SeenAt, OthersUnmoved DEF All, Own, Work
<1>6. Turn(i) = pos[i] /\ Turn(i)' = pos[i] + 1 /\ Aim(i) = wanted[i] /\ Aim(i)' = Aim(i)
  BY <1>1 DEF Turn, Aim, Publishing, All, Inv, LoopsOK, LoopOK
<1>7. Aims' = Aims /\ Turns' = [Turns EXCEPT ![i] = Turns[i] + 1]
      /\ Turns[i] = pos[i] /\ Aims[i] = wanted[i]
  BY <1>5, <1>6 DEF Aims, Turns
<1>8. Published' = IF Target(i) = NoIP THEN Published ELSE [Published EXCEPT ![Here(i).key] = {Target(i)}]
  BY <1>3, <1>4 DEF Published
<1> QED
  BY <1>1, <1>2, <1>7, <1>8 DEF Dns!Settle, Published, Aims, Turns, Here, Target

(* The beginning and the end of a pass.                                    *)
LEMMA PublishBegins ==
  ASSUME All, NEW i \in Instances, Publish(i)
  PROVE  Dns!Begin(i)
<1>1. /\ UNCHANGED <<current, records>> /\ pc[i] = "idle" /\ pc'[i] = "publish"
      /\ pos'[i] = 1 /\ wanted'[i] = current /\ reply'[i] = "none"
  BY DEF Publish, service, All, Inv, TypeOK, LoopsOK, LoopOK
<1>2. Published' = Published
  BY <1>1, PublishedStays
<1>3. Aims' = [Aims EXCEPT ![i] = current] /\ Turns' = [Turns EXCEPT ![i] = 1] /\ Turns[i] = 0
  BY <1>1, SeenAt, OthersUnmoved DEF All, Own, Aims, Turns, Aim, Turn, Publishing
<1> QED
  BY <1>1, <1>2, <1>3 DEF Dns!Begin, Published, Aims, Turns

(* An instance that leaves Publish, or dies in it, takes the step End.     *)
LEMMA LeavingEnds ==
  ASSUME All, NEW i \in Instances, \A j \in Instances : j # i => Unmoved(j),
         UNCHANGED <<current, records>>, Publishing(i), ~Publishing(i)'
  PROVE  Dns!End(i)
<1>1. Turn(i) # 0 /\ Turn(i)' = 0 /\ Aim(i)' = Nothing
  BY DEF Turn, Aim, All, Inv, TypeOK, Nothing
<1>2. Aims' = [Aims EXCEPT ![i] = Nothing] /\ Turns' = [Turns EXCEPT ![i] = 0] /\ Turns[i] # 0
  BY <1>1, SeenAt DEF Aims, Turns
<1> QED
  BY <1>2, PublishedStays DEF Dns!End, Published, Aims, Turns, Nothing, Dns!Nothing

(* A step of an instance that nobody sees.                                 *)
LEMMA Unseen ==
  ASSUME All, NEW i \in Instances, \A j \in Instances : j # i => Unmoved(j),
         UNCHANGED <<current, records>>, Aim(i)' = Aim(i), Turn(i)' = Turn(i)
  PROVE  UNCHANGED Dns!vars
<1>1. Aims' = Aims /\ Turns' = Turns
  BY SeenAt DEF Aims, Turns
<1> QED
  BY <1>1, PublishedStays DEF Dns!vars, Published, Aims, Turns

(* Every step of an instance's own code is one of ManagedDns or not seen.  *)
LEMMA OwnImplements ==
  ASSUME Answering, All, NEW i \in Instances, Own(i)
  PROVE  [Dns!Next]_(Dns!vars)
<1>1. UNCHANGED <<current, records>> /\ \A j \in Instances : j # i => Unmoved(j)
  BY OwnOK, OthersUnmoved DEF All
<1>2. pc[i] # "await" => reply[i] = "none"
  BY DEF All, Inv, LoopsOK, LoopOK
<1>3. CASE Publish(i)
  BY <1>3, PublishBegins DEF Dns!Next
<1>4. CASE SkipUnresolved(i) \/ SkipUnchanged(i)
  BY <1>4, SkipSettles DEF Dns!Next
<1>5. CASE EndPublish(i)
  <2>1. Publishing(i) /\ ~Publishing(i)'
    BY <1>5 DEF EndPublish, Gone, Publishing, All, Inv, TypeOK
  <2> QED
    BY <1>1, <2>1, LeavingEnds DEF Dns!Next
<1>6. CASE Start(i) \/ FindRecord(i) \/ InitFails(i) \/ Ready(i) \/ SkipPass(i)
  <2>1. ~Publishing(i) /\ ~Publishing(i)'
    BY <1>6 DEF Start, FindRecord, InitFails, Ready, SkipPass, Gone, Publishing, All, Inv, TypeOK
  <2>2. Aim(i)' = Aim(i) /\ Turn(i)' = Turn(i)
    BY <2>1 DEF Aim, Turn, Nothing
  <2> QED
    BY <1>1, <2>2, Unseen
<1>7. CASE Update(i) \/ Receive(i)
  <2>1. Publishing(i) /\ Publishing(i)' /\ wanted' = wanted
    BY <1>7 DEF Update, Receive, Publishing, All, Inv, TypeOK
  <2>2. Turn(i)' = Turn(i)
    <3>1. CASE Update(i)
      BY <1>2, <2>1, <3>1 DEF Update, Turn
    <3>2. CASE Receive(i)
      BY <2>1, <3>2 DEF Receive, Turn, All, Inv, TypeOK
    <3> QED
      BY <1>7, <3>1, <3>2
  <2> QED
    BY <1>1, <2>1, <2>2, Unseen DEF Aim
<1> QED
  BY <1>3, <1>4, <1>5, <1>6, <1>7 DEF Own, Work

(* Every step of the program and its surroundings.                         *)
LEMMA NextImplements ==
  ASSUME Answering
  PROVE  All /\ All' /\ Room /\ [Next]_vars => [Dns!Next]_(Dns!vars)
<1> SUFFICES ASSUME All, All', Room, [Next]_vars PROVE [Dns!Next]_(Dns!vars)
  OBVIOUS
<1>1. CASE \E i \in Instances : Own(i)
  BY <1>1, OwnImplements
<1>2. CASE \E i \in Instances : Serve(i)
  BY <1>2, ServeSettles DEF All, SingleInv, Dns!Next
<1>3. ASSUME NEW i \in Instances, Crash(i) PROVE [Dns!Next]_(Dns!vars)
  <2>1. UNCHANGED <<current, records>> /\ \A j \in Instances : j # i => Unmoved(j)
    BY <1>3, OthersUnmoved DEF Crash, All
  <2>2. ~Publishing(i)'
    BY <1>3 DEF Crash, Gone, Publishing, All, Inv, TypeOK
  <2>3. CASE Publishing(i)
    BY <2>1, <2>2, <2>3, LeavingEnds DEF Dns!Next
  <2>4. CASE ~Publishing(i)
    BY <2>1, <2>2, <2>4, Unseen DEF Aim, Turn, Nothing
  <2> QED
    BY <2>3, <2>4
<1>4. ASSUME NEW a \in Addresses, AddressChanges(a) PROVE [Dns!Next]_(Dns!vars)
  <2>1. UNCHANGED <<records, pc, pos, wanted, reply>>
    BY <1>4 DEF AddressChanges, service
  <2>2. Published' = Published /\ Aims' = Aims /\ Turns' = Turns
    BY <2>1, PublishedStays DEF Aims, Turns, Aim, Turn, Publishing, Nothing
  <2> QED
    BY <1>4, <2>2 DEF AddressChanges, Dns!Next, Dns!AddressChanges, Published, Aims, Turns
<1>5. CASE UNCHANGED vars
  BY <1>5 DEF vars, service, Dns!vars, PublishedFor, Live, Aim, Turn, Publishing, Nothing
<1> QED
  BY <1>1, <1>2, <1>3, <1>4, <1>5, AnsweringSteps

(* Where the service answers, whatever the program remembers, adopts and   *)
(* skips, and however often it crashes and starts again, all that is seen  *)
(* of it is that each record in its turn is set to the address it should   *)
(* have in the pass that is running.                                       *)
THEOREM Refinement ==
  ASSUME Answering, InitialFits
  PROVE  Spec /\ []Room => ImplementsManagedDns
<1>1. Init => Dns!Init
  <2> SUFFICES ASSUME Init PROVE Dns!Init
    OBVIOUS
  <2>1. Aims = [i \in Instances |-> Nothing] /\ Turns = [i \in Instances |-> 0]
    BY DEF Init, Aims, Turns, Aim, Turn, Publishing
  <2>2. ASSUME NEW k \in Managed
        PROVE  PublishedFor(k) \in {{}} \cup {{ip} : ip \in IPs}
    <3>1. ASSUME NEW id \in Ids, Live(id), records[id].key = k
          PROVE  records[id].ip \in IPs
      BY <3>1, PublisherAssumption DEF Init, Live, Record
    <3>2. SingleRecord
      BY DEF Init, InitialFits, SingleRecord, Live
    <3>3. CASE \E id \in Ids : Live(id) /\ records[id].key = k
      BY <3>1, <3>2, <3>3, OnePublished
    <3>4. CASE ~\E id \in Ids : Live(id) /\ records[id].key = k
      BY <3>4 DEF PublishedFor
    <3> QED
      BY <3>3, <3>4
  <2> QED
    BY <2>1, <2>2 DEF Init, Dns!Init, Nothing, Dns!Nothing, Aims, Turns, Published
<1>2. All /\ All' /\ Room /\ [Next]_vars => [Dns!Next]_(Dns!vars)
  BY NextImplements
<1> QED
  BY <1>1, <1>2, AllCorrect, PTL DEF Spec, ImplementsManagedDns, Dns!Spec
=============================================================================
