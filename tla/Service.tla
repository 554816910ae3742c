------------------------------ MODULE Service -------------------------------
(***************************************************************************)
(* The main loop (cmd/cfddns/main.go): a pass of Resolver, then Publish of *)
(* Publisher with the table it yields, and so on at every tick, or once.   *)
(*                                                                         *)
(* The components' steps are those of the two modules; this one adds what  *)
(* main does between them.  One process runs at a time, of any of the      *)
(* instances, all of which are configured with the same addresses.         *)
(***************************************************************************)
EXTENDS Naturals, Sequences, FiniteSets

CONSTANTS
  Names, Refs, Probes, Bounded, IPs, NoIP, Unset, Configs, Worlds, Drifting,
  Instances, OneShot, Keys, Config, ZonesOf, Zones, Ids, NoId, Unused, Deleted,
  Initial, NoRequest, Faults

VARIABLES
  list, world, phase, left, table, stack, chain, ret,
  records, late, pc, pos, domains, wanted, request, reply,
  stage,  \* of the main loop: "update", or "wait" for the ticker
  tick,   \* whether the channel of the ticker holds a tick
  known   \* history: how the last attempt to resolve each address came out

resolver  == <<list, world, phase, left, table, stack, chain, ret>>
publisher == <<records, late, pc, pos, domains, wanted, request, reply>>
vars      == <<resolver, publisher, stage, tick, known>>

R == INSTANCE ResolverOracle

(* A domain may be given the name of an address that is not configured.    *)
(* What the publisher takes an address to be is what the resolver made of  *)
(* it last, and may change to anything.                                    *)
P == INSTANCE Publisher WITH
       Addresses <- Refs,
       current   <- known,
       Moves     <- (IPs \cup {NoIP}) \X (IPs \cup {NoIP})

ASSUME ServiceAssumption == R!ResolverAssumption /\ P!PublisherAssumption

TypeOK ==
  /\ R!TypeOK
  /\ P!TypeOK
  /\ stage \in {"update", "wait"}
  /\ tick \in BOOLEAN

Init ==
  /\ R!Init
  /\ P!Init
  /\ stage = "update"
  /\ tick = FALSE

-----------------------------------------------------------------------------
(* NewResolver, after the configuration has been read. *)
Start(i) ==
  /\ \A j \in Instances : pc[j] = "down"
  /\ P!Start(i)
  /\ phase' = "resolving"
  /\ left' = Names
  /\ table' = [n \in Names |-> Unset]
  /\ ret' = R!Pending
  /\ UNCHANGED <<list, world, stack, chain, stage, tick>>

(* What is left of the resolver and the main loop when the process ends. *)
Gone ==
  /\ phase' = "failed"
  /\ stack' = <<>>
  /\ chain' = {}
  /\ stage' = "update"
  /\ tick' = FALSE
  /\ UNCHANGED <<list, world, left, table, ret>>

(* NewPublisher, which makes main give up if it fails. *)
Initialise(i) ==
  \/ /\ P!FindRecord(i) \/ P!Ready(i)
     /\ UNCHANGED <<resolver, stage, tick>>
  \/ /\ P!InitFails(i)
     /\ Gone

Updating(i) == pc[i] = "idle" /\ stage = "update"

(* Resolve *)
Resolve(i) ==
  /\ Updating(i)
  /\ \/ \E n \in Names : R!PickName(n)
     \/ \E t \in Refs : R!LookupReference(t)
     \/ R!ApplyTransformer \/ R!NextSource \/ R!NextName \/ R!Abort \/ R!Complete
  /\ UNCHANGED <<publisher, stage, tick, known>>

LookupProbe(i, p) ==
  /\ Updating(i)
  /\ R!LookupProbe(p)
  /\ UNCHANGED <<publisher, stage, tick, known>>

FinishEntry(i) ==
  /\ Updating(i)
  /\ R!FinishEntry
  /\ known' = [known EXCEPT ![R!Top.name] = ret.ip]
  /\ UNCHANGED <<publisher, stage, tick>>

(* Mutant of Result: the table is taken as it is. *)
ResultRaw == table

(* What Publish finds in the map that Resolve returns. *)
Result == [a \in Refs |-> IF a \in Names /\ table[a] # Unset THEN table[a] ELSE NoIP]

(* Mutant of Publish: that Resolve failed is only logged. *)
PublishAnyway(i) ==
  /\ Updating(i)
  /\ phase # "resolving"
  /\ pc' = [pc EXCEPT ![i] = "publish"]
  /\ pos' = [pos EXCEPT ![i] = 1]
  /\ wanted' = [wanted EXCEPT ![i] = Result]
  /\ UNCHANGED <<resolver, records, late, domains, request, reply, stage, tick, known>>

Publish(i) ==
  /\ Updating(i)
  /\ phase = "resolved"
  /\ pc' = [pc EXCEPT ![i] = "publish"]
  /\ pos' = [pos EXCEPT ![i] = 1]
  /\ wanted' = [wanted EXCEPT ![i] = Result]
  /\ UNCHANGED <<resolver, records, late, domains, request, reply, stage, tick, known>>

PublishDomain(i) ==
  /\ P!SkipUnresolved(i) \/ P!SkipUnchanged(i) \/ P!Update(i) \/ P!Receive(i)
  /\ UNCHANGED <<resolver, stage, tick>>

(* The end of an update, after which main is done or waits for a tick. *)
EndUpdate(i) ==
  /\ P!EndPublish(i)
  /\ IF i \in OneShot THEN Gone
     ELSE stage' = "wait" /\ UNCHANGED <<resolver, tick>>

(* Mutant of SkipUpdate: it tries again at once. *)
SkipAndRetry(i) ==
  /\ Updating(i)
  /\ phase = "failed"
  /\ IF i \in OneShot THEN P!Gone(i) /\ Gone
     ELSE R!NewPass /\ UNCHANGED <<pc, pos, domains, wanted, request, reply, stage, tick>>
  /\ UNCHANGED <<records, late, known>>

(* "resolve failed, skip update" *)
SkipUpdate(i) ==
  /\ Updating(i)
  /\ phase = "failed"
  /\ IF i \in OneShot THEN P!Gone(i) /\ Gone
     ELSE stage' = "wait" /\ UNCHANGED <<resolver, pc, pos, domains, wanted, request, reply, tick>>
  /\ UNCHANGED <<records, late, known>>

(* A tick is received from the channel, and the next pass begins. *)
NextPass(i) ==
  /\ pc[i] = "idle" /\ stage = "wait"
  /\ tick
  /\ tick' = FALSE
  /\ stage' = "update"
  /\ R!NewPass
  /\ UNCHANGED <<publisher, known>>

-----------------------------------------------------------------------------
(* The ticker, from when it is made until the process ends.  Its channel   *)
(* has room for one tick, and one that finds it full is dropped.           *)
Tick(i) ==
  /\ i \notin OneShot
  /\ pc[i] \notin {"down", "init"}
  /\ tick' = TRUE
  /\ UNCHANGED <<resolver, publisher, stage, known>>

Crash(i) ==
  /\ P!Crash(i)
  /\ Gone

Answer(i) ==
  /\ P!Serve(i) \/ P!Refuse(i)
  /\ UNCHANGED <<resolver, stage, tick>>

LoseReply(i) ==
  /\ P!LoseReply(i)
  /\ UNCHANGED <<resolver, stage, tick>>

NetworkChanges ==
  /\ R!NetworkChanges
  /\ UNCHANGED <<publisher, stage, tick, known>>

(* The steps of the program that wait for nobody but a bounded probe. *)
Work(i) ==
  \/ Initialise(i)
  \/ Resolve(i) \/ FinishEntry(i) \/ \E p \in Bounded : LookupProbe(i, p)
  \/ Publish(i) \/ PublishDomain(i) \/ EndUpdate(i) \/ SkipUpdate(i)
  \/ NextPass(i)

Next ==
  \/ \E i \in Instances :
       Start(i) \/ Work(i) \/ Tick(i) \/ Crash(i) \/ Answer(i) \/ LoseReply(i)
  \/ \E i \in Instances, p \in Probes : LookupProbe(i, p)
  \/ NetworkChanges

Spec == Init /\ [][Next]_vars

(* A process that ended is started again, one that runs keeps running, the *)
(* ticker ticks, and the service acts on a request or refuses it.          *)
Fairness ==
  /\ WF_vars(\E i \in Instances : Start(i))
  /\ \A i \in Instances : WF_vars(Work(i)) /\ WF_vars(Tick(i)) /\ WF_vars(Answer(i))

FairSpec == Spec /\ Fairness

-----------------------------------------------------------------------------
(* A pass ends where its probes are bounded, be there cycles of references *)
(* or none, and whatever the network does meanwhile.                       *)
PassEnds == R!PassEnds

(* The publisher is given what Resolver says of the addresses, no more and *)
(* no less, and one-shot instances skip a publication only where one of    *)
(* them has no value: the composition behaves as Publisher says it may.    *)
ImplementsPublisher == P!Spec

(* Every tick is answered by a pass that begins after it, also when it     *)
(* comes in the middle of a long pass, provided the probes are bounded:    *)
(* resolving ends, with or without cycles of references, and so does       *)
(* publishing, whatever either of them meets.                              *)
TickIsServed == (tick /\ R!UsedProbes \subseteq Bounded) ~> ~tick

(* The address that the configuration makes of what the probes answer, or  *)
(* NoIP where a probe may hang or the order of the names matters.          *)
Due(a) ==
  IF /\ a \in Names
     /\ R!UsedProbes \subseteq Bounded
     /\ R!Acyclic /\ R!ReferencesLast
     /\ \A n \in Names : R!Expected[n] # NoIP
  THEN R!Expected[a] ELSE NoIP

Holds(id, k, ip) == P!Live(id) /\ records[id].key = k /\ records[id].ip = ip

(* A write to the record of domain n that failed is taken for one that was *)
(* made, see SkipMeansPublished of Publisher.                              *)
Forgotten(i, n) ==
  /\ n \in DOMAIN domains[i]
  /\ domains[i][n].ip # NoIP /\ ~(pc[i] = "await" /\ pos[i] = n)
  /\ ~\E id \in Ids : Holds(id, Config[i][n].key, domains[i][n].ip)

(* From the probes to the service: once the network has settled so that    *)
(* all addresses resolve, and the instance stays up and has no failed      *)
(* write to make up for, the record of each of its domains gets the        *)
(* address that is due.                                                    *)
Delivered ==
  \A i \in Instances \ OneShot : \A n \in DOMAIN Config[i] : \A w \in Worlds :
     LET d == Config[i][n] IN
     <>[](world = w /\ pc[i] # "down" /\ ~Forgotten(i, n) /\ Due(d.address) # NoIP)
       => <>[](\E id \in Ids : Holds(id, d.key, Due(d.address)))
=============================================================================
