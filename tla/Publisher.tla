----------------------------- MODULE Publisher ------------------------------
(***************************************************************************)
(* The publishing half of cfddns: recordPublisher and Publisher            *)
(* (cfddns/publisher.go) over the cloudflare provider (ddns/cloudflare.go) *)
(* and the DNS records the service keeps for it.                           *)
(*                                                                         *)
(* Every instance (process) remembers for each configured domain the       *)
(* record it believes the service has.  The memory is filled when the      *)
(* process starts and afterwards only follows its own writes.  A write is  *)
(* split into the request, the service acting on it, and the reply, since  *)
(* the process may die, or the reply be lost, in between.                  *)
(***************************************************************************)
EXTENDS Naturals, Sequences

CONSTANTS
  Instances,  \* running copies of the program
  OneShot,    \* the instances configured without a refresh rate
  Keys,       \* what a record is looked up by: domain, type and mark
  Addresses,  \* names of configured addresses
  Config,     \* Config[i]: the domains of instance i, in order
  ZonesOf,    \* ZonesOf[k]: the configured zones whose name is a suffix of k's domain
  Zones,
  IPs, NoIP,
  Moves,      \* the changes an address may undergo, as pairs
  Ids, NoId,  \* record ids the service hands out, each one once
  Unused, Deleted,
  Initial,    \* the records the service may start with
  NoRequest,
  Faults      \* which of AllFaults happen

AllFaults == {"find", "refuse", "lose", "late", "crash", "foreign"}

Domain == [key : Keys, address : Addresses]

Record == [key : Keys, zone : Zones, ip : IPs]

(* recordPublisher.record, without the fields that never change. *)
Cached == [handle : Ids \cup {NoId}, ip : IPs \cup {NoIP}]

(* A call of WriteRecord: id is NoId for a creation. *)
Request == [id : Ids \cup {NoId}, key : Keys, zone : Zones, ip : IPs]

ASSUME PublisherAssumption ==
  /\ OneShot \subseteq Instances
  /\ Config \in [Instances -> Seq(Domain)]
  /\ ZonesOf \in [Keys -> SUBSET Zones]
  /\ NoIP \notin IPs
  /\ Moves \subseteq (IPs \cup {NoIP}) \X (IPs \cup {NoIP})
  /\ NoId \notin Ids
  /\ {"none", "refused"} \cap Ids = {}
  /\ {Unused, Deleted} \cap Record = {} /\ Unused # Deleted
  /\ Initial \subseteq [Ids -> Record \cup {Unused}]
  /\ NoRequest \notin Request
  /\ Faults \subseteq AllFaults

VARIABLES
  current,  \* what resolving each address yields now
  records,  \* the service's records, by id
  late,     \* requests whose sender no longer waits, still to be acted on
  pc,       \* what each instance is doing
  pos,      \* the index of the loop over the domains
  domains,  \* Publisher.domains: what the instance remembers
  wanted,   \* the argument of the Publish call
  request,  \* the request the instance waits for
  reply     \* what came of it

service == <<records, late>>
vars    == <<current, service, pc, pos, domains, wanted, request, reply>>

TypeOK ==
  /\ current \in [Addresses -> IPs \cup {NoIP}]
  /\ records \in [Ids -> Record \cup {Unused, Deleted}]
  /\ late \subseteq Request
  /\ pc \in [Instances -> {"down", "init", "idle", "publish", "await"}]
  /\ pos \in [Instances -> Nat \ {0}]
  /\ domains \in [Instances -> Seq(Cached)]
  /\ wanted \in [Instances -> [Addresses -> IPs \cup {NoIP}]]
  /\ request \in [Instances -> Request \cup {NoRequest}]
  /\ reply \in [Instances -> Ids \cup {"none", "refused"}]

-----------------------------------------------------------------------------
Live(id) == records[id] \notin {Unused, Deleted}

Nothing == [a \in Addresses |-> NoIP]

(* Mutant of Target: all domains get the address of the first. *)
TargetOfFirst(i) == wanted[i][Config[i][1].address]

Here(i)   == Config[i][pos[i]]
AtEnd(i)  == pos[i] > Len(Config[i])
Target(i) == wanted[i][Here(i).address]
Memory(i) == domains[i][pos[i]]

Remember(i, m) == domains' = [domains EXCEPT ![i] = [@ EXCEPT ![pos[i]] = m]]

Init ==
  /\ current = Nothing
  /\ records \in Initial
  /\ late = {}
  /\ pc = [i \in Instances |-> "down"]
  /\ pos = [i \in Instances |-> 1]
  /\ domains = [i \in Instances |-> <<>>]
  /\ wanted = [i \in Instances |-> Nothing]
  /\ request = [i \in Instances |-> NoRequest]
  /\ reply = [i \in Instances |-> "none"]

(* Mutant of Gone: the index restarts at 0. *)
GoneToZero(i) ==
  /\ pc' = [pc EXCEPT ![i] = "down"]
  /\ pos' = [pos EXCEPT ![i] = 0]
  /\ domains' = [domains EXCEPT ![i] = <<>>]
  /\ wanted' = [wanted EXCEPT ![i] = Nothing]
  /\ request' = [request EXCEPT ![i] = NoRequest]
  /\ reply' = [reply EXCEPT ![i] = "none"]

(* What is left of instance i when its process ends. *)
Gone(i) ==
  /\ pc' = [pc EXCEPT ![i] = "down"]
  /\ pos' = [pos EXCEPT ![i] = 1]
  /\ domains' = [domains EXCEPT ![i] = <<>>]
  /\ wanted' = [wanted EXCEPT ![i] = Nothing]
  /\ request' = [request EXCEPT ![i] = NoRequest]
  /\ reply' = [reply EXCEPT ![i] = "none"]

(* main calls NewPublisher. *)
Start(i) ==
  /\ pc[i] = "down"
  /\ pc' = [pc EXCEPT ![i] = "init"]
  /\ UNCHANGED <<current, service, pos, domains, wanted, request, reply>>

(* Mutant of Found: the list is not filtered by name, type and comment. *)
FoundAny(k, z) == {id \in Ids : Live(id) /\ records[id].zone = z}

(* The records FindRecord lists: those of the key, in one zone that the    *)
(* domain name ends in; Go does not say which when there are several.      *)
Found(k, z) == {id \in Ids : Live(id) /\ records[id].key = k /\ records[id].zone = z}

(* recordPublisher.init: adopt the record there is, or none. *)
FindRecord(i) ==
  /\ pc[i] = "init" /\ ~AtEnd(i)
  /\ \E z \in ZonesOf[Here(i).key] :
       \/ /\ Found(Here(i).key, z) = {}
          /\ domains' = [domains EXCEPT ![i] = Append(@, [handle |-> NoId, ip |-> NoIP])]
       \/ \E id \in Found(Here(i).key, z) :
            /\ Found(Here(i).key, z) = {id}
            /\ domains' = [domains EXCEPT ![i] =
                             Append(@, [handle |-> id, ip |-> records[id].ip])]
  /\ pos' = [pos EXCEPT ![i] = @ + 1]
  /\ UNCHANGED <<current, service, pc, wanted, request, reply>>

(* recordPublisher.init fails, and with it NewPublisher and main: several  *)
(* records are found, no zone matches, or the list request fails.          *)
InitFails(i) ==
  /\ pc[i] = "init" /\ ~AtEnd(i)
  /\ \/ \E z \in ZonesOf[Here(i).key] :
          \E id1, id2 \in Found(Here(i).key, z) : id1 # id2
     \/ ZonesOf[Here(i).key] = {}
     \/ "find" \in Faults
  /\ Gone(i)
  /\ UNCHANGED <<current, service>>

Ready(i) ==
  /\ pc[i] = "init" /\ AtEnd(i)
  /\ pc' = [pc EXCEPT ![i] = "idle"]
  /\ UNCHANGED <<current, service, pos, domains, wanted, request, reply>>

(* main resolved the addresses and calls Publish with the result.  Where   *)
(* an address has no value the result may hold a nil for it, see Resolver, *)
Publish(i) ==
  /\ pc[i] = "idle"
  /\ pc' = [pc EXCEPT ![i] = "publish"]
  /\ pos' = [pos EXCEPT ![i] = 1]
  /\ wanted' = [wanted EXCEPT ![i] = current]
  /\ UNCHANGED <<current, service, domains, request, reply>>

(* ... or Resolve fails as a whole, and main skips the update: it waits    *)
(* for the next tick, which changes nothing here, or is done.              *)
SkipPass(i) ==
  /\ pc[i] = "idle" /\ i \in OneShot
  /\ \E a \in Addresses : current[a] = NoIP
  /\ Gone(i)
  /\ UNCHANGED <<current, service>>

(* The domain's address was not resolved. *)
SkipUnresolved(i) ==
  /\ pc[i] = "publish" /\ ~AtEnd(i)
  /\ Target(i) = NoIP
  /\ pos' = [pos EXCEPT ![i] = @ + 1]
  /\ UNCHANGED <<current, service, pc, domains, wanted, request, reply>>

(* Mutant of SkipUnchanged: a domain that has any address is skipped. *)
SkipKnown(i) ==
  /\ pc[i] = "publish" /\ ~AtEnd(i)
  /\ Target(i) # NoIP
  /\ Memory(i).ip # NoIP
  /\ pos' = [pos EXCEPT ![i] = @ + 1]
  /\ UNCHANGED <<current, service, pc, domains, wanted, request, reply>>

(* update: "IP didn't change, skip update". *)
SkipUnchanged(i) ==
  /\ pc[i] = "publish" /\ ~AtEnd(i)
  /\ Target(i) # NoIP
  /\ Memory(i).ip = Target(i)
  /\ pos' = [pos EXCEPT ![i] = @ + 1]
  /\ UNCHANGED <<current, service, pc, domains, wanted, request, reply>>

(* update and WriteRecord up to the request.  The new address is written   *)
(* to the memory before the request is made.  An update goes to the zone   *)
(* the handle names, a creation to a zone that matches.                    *)
Update(i) ==
  /\ pc[i] = "publish" /\ ~AtEnd(i)
  /\ Target(i) # NoIP
  /\ Memory(i).ip # Target(i)
  /\ Remember(i, [Memory(i) EXCEPT !.ip = Target(i)])
  /\ \E z \in ZonesOf[Here(i).key] :
       /\ Memory(i).handle \in Ids /\ Live(Memory(i).handle)
            => z = records[Memory(i).handle].zone
       /\ request' = [request EXCEPT ![i] =
            [id |-> Memory(i).handle, key |-> Here(i).key, zone |-> z, ip |-> Target(i)]]
  /\ pc' = [pc EXCEPT ![i] = "await"]
  /\ UNCHANGED <<current, service, pos, wanted, reply>>

EndPublish(i) ==
  /\ pc[i] = "publish" /\ AtEnd(i)
  /\ IF i \in OneShot
     THEN Gone(i)
     ELSE /\ pc' = [pc EXCEPT ![i] = "idle"]
          /\ UNCHANGED <<pos, domains, wanted, request, reply>>
  /\ UNCHANGED <<current, service>>

(* Mutants of Receive: the handle of a record is not kept, or an error     *)
(* ends the pass.                                                          *)
ReceiveForgets(i) ==
  /\ pc[i] = "await" /\ reply[i] # "none"
  /\ Remember(i, [Memory(i) EXCEPT !.ip = request[i].ip])
  /\ pc' = [pc EXCEPT ![i] = "publish"]
  /\ pos' = [pos EXCEPT ![i] = @ + 1]
  /\ request' = [request EXCEPT ![i] = NoRequest]
  /\ reply' = [reply EXCEPT ![i] = "none"]
  /\ UNCHANGED <<current, service, wanted>>

ReceiveStops(i) ==
  /\ pc[i] = "await" /\ reply[i] # "none"
  /\ \/ /\ reply[i] \in Ids
        /\ Remember(i, [handle |-> reply[i], ip |-> request[i].ip])
        /\ pos' = [pos EXCEPT ![i] = @ + 1]
     \/ /\ reply[i] = "refused"
        /\ domains' = domains
        /\ pos' = [pos EXCEPT ![i] = Len(Config[i]) + 1]
  /\ pc' = [pc EXCEPT ![i] = "publish"]
  /\ request' = [request EXCEPT ![i] = NoRequest]
  /\ reply' = [reply EXCEPT ![i] = "none"]
  /\ UNCHANGED <<current, service, wanted>>

(* The reply arrives.  After an error the caller ignores it, and the       *)
(* record in memory keeps what update wrote into it.                       *)
Receive(i) ==
  /\ pc[i] = "await" /\ reply[i] # "none"
  /\ \/ /\ reply[i] \in Ids
        /\ Remember(i, [handle |-> reply[i], ip |-> request[i].ip])
     \/ /\ reply[i] = "refused"
        /\ domains' = domains
  /\ pc' = [pc EXCEPT ![i] = "publish"]
  /\ pos' = [pos EXCEPT ![i] = @ + 1]
  /\ request' = [request EXCEPT ![i] = NoRequest]
  /\ reply' = [reply EXCEPT ![i] = "none"]
  /\ UNCHANGED <<current, service, wanted>>

-----------------------------------------------------------------------------
(* The service: external, modelled from the calls made to it. *)

Applicable(r) ==
  IF r.id = NoId THEN \E id \in Ids : records[id] = Unused ELSE Live(r.id)

(* The service acts on r: id is the record it creates or rewrites. *)
Apply(r, id) ==
  /\ IF r.id = NoId THEN records[id] = Unused ELSE id = r.id /\ Live(id)
  /\ records' = [records EXCEPT ![id] = [key |-> r.key, zone |-> r.zone, ip |-> r.ip]]

Waiting(i) == pc[i] = "await" /\ reply[i] = "none"

Serve(i) ==
  /\ Waiting(i)
  /\ \E id \in Ids :
       /\ Apply(request[i], id)
       /\ reply' = [reply EXCEPT ![i] = id]
  /\ UNCHANGED <<current, late, pc, pos, domains, wanted, request>>

(* The record is gone, the zone is full, or the service is out of order. *)
Refuse(i) ==
  /\ Waiting(i)
  /\ "refuse" \in Faults \/ ~Applicable(request[i])
  /\ reply' = [reply EXCEPT ![i] = "refused"]
  /\ UNCHANGED <<current, service, pc, pos, domains, wanted, request>>

(* A request that was sent may reach the service after all. *)
Abandon(i) ==
  \/ late' = late
  \/ /\ "late" \in Faults
     /\ Waiting(i)
     /\ late' = late \cup {request[i]}

(* The connection breaks: for the program the same as a refusal, whether   *)
(* the service has acted, never will, or is going to.                      *)
LoseReply(i) ==
  /\ "lose" \in Faults
  /\ pc[i] = "await" /\ reply[i] # "refused"
  /\ Abandon(i)
  /\ reply' = [reply EXCEPT ![i] = "refused"]
  /\ UNCHANGED <<current, records, pc, pos, domains, wanted, request>>

ServeLate(r) ==
  /\ r \in late
  /\ late' = late \ {r}
  /\ \/ \E id \in Ids : Apply(r, id)
     \/ ~Applicable(r) /\ records' = records
  /\ UNCHANGED <<current, pc, pos, domains, wanted, request, reply>>

(* The process is killed, or interrupted (main.go, handlePidFile). *)
Crash(i) ==
  /\ "crash" \in Faults
  /\ pc[i] # "down"
  /\ Abandon(i)
  /\ Gone(i)
  /\ UNCHANGED <<current, records>>

(* Someone else removes a record. *)
ForeignDelete(id) ==
  /\ "foreign" \in Faults
  /\ Live(id)
  /\ records' = [records EXCEPT ![id] = Deleted]
  /\ UNCHANGED <<current, late, pc, pos, domains, wanted, request, reply>>

AddressChanges(a) ==
  /\ \E ip \in IPs \cup {NoIP} :
       /\ <<current[a], ip>> \in Moves
       /\ current' = [current EXCEPT ![a] = ip]
  /\ UNCHANGED <<service, pc, pos, domains, wanted, request, reply>>

-----------------------------------------------------------------------------
(* What instance i does by itself once it has been started. *)
Work(i) ==
  \/ FindRecord(i) \/ InitFails(i) \/ Ready(i)
  \/ SkipPass(i) \/ SkipUnresolved(i) \/ SkipUnchanged(i) \/ Update(i) \/ EndPublish(i)
  \/ Receive(i)

Next ==
  \/ \E i \in Instances :
       Start(i) \/ Work(i) \/ Publish(i) \/ Serve(i) \/ Refuse(i) \/ LoseReply(i) \/ Crash(i)
  \/ \E r \in late : ServeLate(r)
  \/ \E id \in Ids : ForeignDelete(id)
  \/ \E a \in Addresses : AddressChanges(a)

Spec == Init /\ [][Next]_vars

AllResolved == \A a \in Addresses : current[a] # NoIP

(* A process that ended is started again; a running one keeps running, and *)
(* ticks keep coming; a request is acted on or refused.  A pass is sure to *)
(* reach the publisher only while every address has a value.               *)
Fairness ==
  \A i \in Instances :
     /\ WF_vars(Start(i))
     /\ WF_vars(Work(i))
     /\ WF_vars(AllResolved /\ Publish(i))
     /\ WF_vars(Serve(i) \/ Refuse(i))

FairSpec == Spec /\ Fairness

-----------------------------------------------------------------------------
Domains(i)   == DOMAIN Config[i]
ManagedBy(i) == {Config[i][n].key : n \in Domains(i)}
Managed      == UNION {ManagedBy(i) : i \in Instances}

(* No two domain entries look for the same record: what the marks are for. *)
UniqueKeys ==
  \A i, j \in Instances : \A m \in Domains(i), n \in Domains(j) :
     Config[i][m].key = Config[j][n].key => i = j /\ m = n

(* No domain name ends in the names of two configured zones. *)
OneZone == \A k \in Keys : \A z1, z2 \in ZonesOf[k] : z1 = z2

(* A record an instance remembers is one with the domain, type and mark of *)
(* the entry it remembers it for, or was, until somebody deleted it.       *)
HandleIsOurs ==
  \A i \in Instances : \A n \in DOMAIN domains[i] :
     LET id == domains[i][n].handle IN
     id # NoId => records[id] = Deleted
                    \/ (records[id] \in Record /\ records[id].key = Config[i][n].key)

(* No two entries, of one instance or of two, remember the same record,    *)
(* which each would give its own address in turn: neither by adopting what *)
(* they find at the start nor by what a reply says.                        *)
OneOwner ==
  \A i, j \in Instances : \A m \in DOMAIN domains[i], n \in DOMAIN domains[j] :
     domains[i][m].handle \in Ids /\ Live(domains[i][m].handle)
       /\ domains[i][m].handle = domains[j][n].handle => i = j /\ m = n

(* example.toml:2: the marks are there so that different instances of the  *)
(* program do not interfere.  Whatever fails, a record no entry looks for  *)
(* is never written, and one that is written keeps its domain, type and    *)
(* mark, so that it stays out of the reach of all other entries.           *)
NoInterference ==
  [][\A id \in Ids : Live(id) /\ records'[id] \notin {records[id], Deleted}
       => records[id].key \in Managed /\ records'[id].key = records[id].key]_vars

(* publisher.go:38: there is at most one record for a configured entry.    *)
(* So after a crash or a restart the program can always start again.       *)
SingleRecord ==
  \A id1, id2 \in Ids :
     Live(id1) /\ Live(id2) /\ records[id1].key \in Managed
       /\ records[id1].key = records[id2].key => id1 = id2

(* The service holds what an instance remembers, whenever it does not wait *)
(* for the service: what makes it right to skip an unchanged address.      *)
CacheAgrees ==
  \A i \in Instances : \A n \in DOMAIN domains[i] :
     domains[i][n].ip # NoIP /\ ~(pc[i] = "await" /\ pos[i] = n)
       => /\ domains[i][n].handle # NoId
          /\ Live(domains[i][n].handle)
          /\ records[domains[i][n].handle].ip = domains[i][n].ip

(* publisher.go:85: partial success is better than all fail.  A pass over  *)
(* the domains leaves none out, whichever of the writes before fail: each  *)
(* one passed whose address was resolved has been given that address.      *)
FailuresDontStopOthers ==
  \A i \in Instances : pc[i] \in {"publish", "await", "idle"} =>
     \A n \in Domains(i) :
        n < pos[i] /\ wanted[i][Config[i][n].address] # NoIP
          => domains[i][n].ip = wanted[i][Config[i][n].address]

(* A record is only ever given the address that the entry looking for it   *)
(* names, and as it was resolved for the pass that is running.             *)
WrittenIsWanted ==
  [][\A id \in Ids : records'[id] \notin {records[id], Deleted} =>
       \E i \in Instances : \E n \in Domains(i) :
          /\ pc[i] = "await" /\ pos[i] = n
          /\ records'[id].key = Config[i][n].key
          /\ records'[id].ip = wanted[i][Config[i][n].address]]_vars

(* Where IPs are numbered in the order in which the addresses take them,   *)
(* see Forward, and nothing that was given up on is acted on later: the    *)
(* address in a record is never replaced by one the address had before.    *)
NoRollback ==
  [][\A id \in Ids : Live(id) /\ records'[id] \notin {Unused, Deleted}
       => records'[id].ip >= records[id].ip]_vars

(* IPs are numbered in the order in which the addresses take them, whether *)
(* or not an address is without a value in between; and the records that   *)
(* the service starts with have addresses from before.                     *)
Forward ==
  /\ IPs \subseteq Nat
  /\ \A m \in Moves : m[1] \in IPs /\ m[2] \in IPs => m[1] <= m[2]
  /\ \A m, n \in Moves :
       m[1] \in IPs /\ m[2] = NoIP /\ n[1] = NoIP /\ n[2] \in IPs => m[1] <= n[2]
  /\ \A rs \in Initial : \A id \in Ids : \A n \in Moves :
       rs[id] \in Record /\ rs[id].key \in Managed /\ n[1] = NoIP /\ n[2] \in IPs
         => rs[id].ip <= n[2]

(* Once the addresses have settled and the instance stays up, the record   *)
(* of each of its domains gets the address it should have, and keeps it.   *)
Converges ==
  \A i \in Instances \ OneShot : \A n \in Domains(i) : \A ip \in IPs :
     <>[](AllResolved /\ pc[i] # "down" /\ current[Config[i][n].address] = ip)
       => <>[](\E id \in Ids : /\ Live(id)
                               /\ records[id].key = Config[i][n].key
                               /\ records[id].ip = ip)

-----------------------------------------------------------------------------
(* What all this comes to, see ManagedDns.  A domain has had its turn once *)
(* it is passed over, or the service has acted on the request for it.      *)
PublishedFor(k) ==
  {records[id].ip : id \in {id \in Ids : Live(id) /\ records[id].key = k}}

Publishing(i) == pc[i] \in {"publish", "await"}

Aim(i) == IF Publishing(i) THEN wanted[i] ELSE Nothing

Turn(i) ==
  IF ~Publishing(i) THEN 0 ELSE IF reply[i] = "none" THEN pos[i] ELSE pos[i] + 1

Dns == INSTANCE ManagedDns WITH
  Keys      <- Managed,
  published <- [k \in Managed |-> PublishedFor(k)],
  aim       <- [i \in Instances |-> Aim(i)],
  turn      <- [i \in Instances |-> Turn(i)]

(* While the service answers, the program cannot be told from one that     *)
(* sets each record in turn: an address remembered as published is in the  *)
(* record, so that skipping it leaves nothing undone, and no record is     *)
(* doubled or lost, however often instances crash and adopt their own.     *)
ImplementsManagedDns == Dns!Spec

-----------------------------------------------------------------------------
(* What a log message says and the code does not live up to. *)

(* publisher.go:55: "IP didn't change, skip update".  So an entry that is  *)
(* skipped for that reason has a record with the address.                  *)
SkipMeansPublished ==
  [][\A i \in Instances : SkipUnchanged(i) =>
       \E id \in Ids : Live(id) /\ records[id].key = Here(i).key
                         /\ records[id].ip = Target(i)]_vars
=============================================================================
