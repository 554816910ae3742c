---------------------------- MODULE ServiceProofs ----------------------------
(***************************************************************************)
(* Proofs about Service: the main loop gives the publisher what the        *)
(* resolver says, so that Service implements Publisher, and what is proved *)
(* of Publisher is true of the whole program.                              *)
(***************************************************************************)
EXTENDS Service, TLAPS, SequenceTheorems

(* The proofs about the components, over the variables of Service. *)
RP == INSTANCE ResolverProofs

PP == INSTANCE PublisherProofs WITH
        Addresses <- Refs,
        current   <- known,
        Moves     <- (IPs \cup {NoIP}) \X (IPs \cup {NoIP})

-----------------------------------------------------------------------------
(* What the proofs of the components assume is what Service assumes.       *)
LEMMA ResolverFits == RP!ResolverAssumption
  BY ServiceAssumption
     DEF R!ResolverAssumption, RP!ResolverAssumption, R!IsFiniteSet, RP!IsFiniteSet,
         R!Entry, RP!Entry, R!Source, RP!Source, R!Transformer, RP!Transformer

(* What Publisher assumes is what Service assumes.                         *)
LEMMA PublisherFits == PP!PublisherAssumption
  BY ServiceAssumption
     DEF P!PublisherAssumption, PP!PublisherAssumption, P!Domain, PP!Domain,
         P!Record, PP!Record, P!Request, PP!Request, P!AllFaults, PP!AllFaults

(* Their types are those of the components.                                *)
LEMMA ResolverTypes == RP!TypeOK <=> R!TypeOK
  BY DEF RP!TypeOK, R!TypeOK, RP!Entry, R!Entry, RP!Frame, R!Frame, RP!Result, R!Result,
         RP!Source, R!Source, RP!Transformer, R!Transformer

(* The types of the publisher's state are the same as well.                *)
LEMMA PublisherTypes == PP!TypeOK <=> P!TypeOK
  BY DEF PP!TypeOK, P!TypeOK, PP!Record, P!Record, PP!Cached, P!Cached, PP!Request, P!Request

(* And their steps.                                                        *)
LEMMA SameOwn ==
  ASSUME NEW i
  PROVE  /\ PP!Start(i) <=> P!Start(i)
         /\ PP!Work(i) <=> P!Work(i)
         /\ PP!Publish(i) <=> P!Publish(i)
<1>1. PP!Gone(i) <=> P!Gone(i)
  BY DEF PP!Gone, P!Gone, PP!Nothing, P!Nothing
<1>2. (PP!Start(i) <=> P!Start(i)) /\ (PP!Publish(i) <=> P!Publish(i))
  BY DEF PP!Start, P!Start, PP!Publish, P!Publish, PP!service, P!service
<1>3. \A k, z : PP!Found(k, z) = P!Found(k, z)
  BY DEF PP!Found, P!Found, PP!Live, P!Live
<1>4. PP!FindRecord(i) <=> P!FindRecord(i)
  BY <1>3 DEF PP!FindRecord, P!FindRecord, PP!AtEnd, P!AtEnd, PP!Here, P!Here,
         PP!service, P!service
<1>5. PP!InitFails(i) <=> P!InitFails(i)
  BY <1>1, <1>3 DEF PP!InitFails, P!InitFails, PP!AtEnd, P!AtEnd, PP!Here, P!Here,
         PP!service, P!service
<1>6. PP!Ready(i) <=> P!Ready(i)
  BY DEF PP!Ready, P!Ready, PP!AtEnd, P!AtEnd, PP!service, P!service
<1>7. PP!SkipPass(i) <=> P!SkipPass(i)
  BY <1>1 DEF PP!SkipPass, P!SkipPass, PP!service, P!service
<1>8. PP!SkipUnresolved(i) <=> P!SkipUnresolved(i)
  BY DEF PP!SkipUnresolved, P!SkipUnresolved, PP!AtEnd, P!AtEnd, PP!Target,
         P!Target, PP!Here, P!Here, PP!service, P!service
<1>9. PP!SkipUnchanged(i) <=> P!SkipUnchanged(i)
  BY DEF PP!SkipUnchanged, P!SkipUnchanged, PP!AtEnd, P!AtEnd, PP!Target,
         P!Target, PP!Here, P!Here, PP!Memory, P!Memory, PP!service, P!service
<1>10. PP!Update(i) <=> P!Update(i)
  BY DEF PP!Update, P!Update, PP!AtEnd, P!AtEnd, PP!Target, P!Target, PP!Here,
         P!Here, PP!Memory, P!Memory, PP!Remember, P!Remember, PP!Live, P!Live,
         PP!service, P!service
<1>11. PP!EndPublish(i) <=> P!EndPublish(i)
  BY <1>1 DEF PP!EndPublish, P!EndPublish, PP!AtEnd, P!AtEnd, PP!service, P!service
<1>12. PP!Receive(i) <=> P!Receive(i)
  BY DEF PP!Receive, P!Receive, PP!Memory, P!Memory, PP!Remember, P!Remember,
         PP!service, P!service
<1> QED
  BY <1>2, <1>4, <1>5, <1>6, <1>7, <1>8, <1>9, <1>10, <1>11, <1>12 DEF PP!Work, P!Work

(* The steps of the service and of the network are the same.               *)
LEMMA SameService ==
  ASSUME NEW i
  PROVE  /\ PP!Serve(i) <=> P!Serve(i)
         /\ PP!Refuse(i) <=> P!Refuse(i)
         /\ PP!LoseReply(i) <=> P!LoseReply(i)
         /\ PP!Crash(i) <=> P!Crash(i)
<1>1. PP!Gone(i) <=> P!Gone(i)
  BY DEF PP!Gone, P!Gone, PP!Nothing, P!Nothing
<1>2. PP!Serve(i) <=> P!Serve(i)
  BY DEF PP!Serve, P!Serve, PP!Waiting, P!Waiting, PP!Apply, P!Apply, PP!Live,
         P!Live
<1>3. PP!Refuse(i) <=> P!Refuse(i)
  BY DEF PP!Refuse, P!Refuse, PP!Waiting, P!Waiting, PP!Applicable,
         P!Applicable, PP!Live, P!Live, PP!service, P!service
<1>4. PP!LoseReply(i) <=> P!LoseReply(i)
  BY DEF PP!LoseReply, P!LoseReply, PP!Abandon, P!Abandon, PP!Waiting,
         P!Waiting
<1>5. PP!Crash(i) <=> P!Crash(i)
  BY <1>1 DEF PP!Crash, P!Crash, PP!Abandon, P!Abandon, PP!Waiting, P!Waiting
<1> QED
  BY <1>2, <1>3, <1>4, <1>5

(* And those of late requests, of others and of the addresses.             *)
LEMMA SameOutside ==
  /\ \A r : PP!ServeLate(r) <=> P!ServeLate(r)
  /\ \A id : PP!ForeignDelete(id) <=> P!ForeignDelete(id)
  /\ \A a : PP!AddressChanges(a) <=> P!AddressChanges(a)
  BY DEF PP!ServeLate, P!ServeLate, PP!Apply, P!Apply, PP!Applicable, P!Applicable,
         PP!ForeignDelete, P!ForeignDelete, PP!Live, P!Live,
         PP!AddressChanges, P!AddressChanges, PP!service, P!service

(* So the publisher's next-state relation is the same.                     *)
LEMMA PublisherSteps == PP!Next <=> P!Next
  BY SameOwn, SameService, SameOutside DEF PP!Next, P!Next

(* Its initial states are the same.                                        *)
LEMMA PublisherStarts == PP!Init <=> P!Init
  BY DEF PP!Init, P!Init, PP!Nothing, P!Nothing

(* So a theorem about Publisher is one about what Service calls P.         *)
LEMMA PublisherSpecs == PP!Spec <=> P!Spec
<1>1. [PP!Next]_(PP!vars) <=> [P!Next]_(P!vars)
  BY PublisherSteps DEF PP!vars, P!vars, PP!service, P!service
<1> QED
  BY <1>1, PublisherStarts, PTL DEF PP!Spec, P!Spec

(* TypeCorrect of PublisherProofs, of the instance in Service.             *)
LEMMA PublisherTyped == P!Spec => []P!TypeOK
<1>1. PP!Spec => []PP!TypeOK
  BY PublisherFits, PP!TypeCorrect DEF PP!TypeCorrect
<1>2. PP!Spec <=> P!Spec
  BY PublisherSpecs
<1>3. PP!TypeOK <=> P!TypeOK
  BY PublisherTypes
<1> QED
  BY <1>1, <1>2, <1>3, PTL

(* The steps of the resolver.                                              *)
LEMMA SameLookup ==
  ASSUME NEW x
  PROVE  /\ RP!PickName(x) <=> R!PickName(x)
         /\ RP!LookupProbe(x) <=> R!LookupProbe(x)
         /\ RP!LookupReference(x) <=> R!LookupReference(x)
<1>1. RP!PickName(x) <=> R!PickName(x)
  BY DEF RP!PickName, R!PickName, RP!ResolveOne, R!ResolveOne, RP!Ok, R!Ok,
         RP!Failed, R!Failed, RP!Resolving, R!Resolving, RP!Pending, R!Pending
<1>2. RP!LookupProbe(x) <=> R!LookupProbe(x)
  BY DEF RP!LookupProbe, R!LookupProbe, RP!InCall, R!InCall, RP!Resolving,
         R!Resolving, RP!Top, R!Top, RP!Depth, R!Depth, RP!Sources, R!Sources,
         RP!AtSource, R!AtSource, RP!Pending, R!Pending, RP!Answer, R!Answer,
         RP!Ok, R!Ok, RP!Failed, R!Failed
<1>3. RP!StartChain(x) <=> R!StartChain(x)
  BY DEF RP!StartChain, R!StartChain, RP!InCall, R!InCall, RP!Resolving,
         R!Resolving, RP!Top, R!Top, RP!Depth, R!Depth, RP!Sources, R!Sources,
         RP!AtSource, R!AtSource, RP!Pending, R!Pending, RP!ResolveOne,
         R!ResolveOne, RP!Ok, R!Ok, RP!Failed, R!Failed
<1>4. RP!ExtendChain(x) <=> R!ExtendChain(x)
  BY DEF RP!ExtendChain, R!ExtendChain, RP!InCall, R!InCall, RP!Resolving,
         R!Resolving, RP!Top, R!Top, RP!Depth, R!Depth, RP!Sources, R!Sources,
         RP!AtSource, R!AtSource, RP!Pending, R!Pending, RP!ResolveOne,
         R!ResolveOne, RP!Ok, R!Ok, RP!Failed, R!Failed
<1>5. RP!ReportLoop(x) <=> R!ReportLoop(x)
  BY DEF RP!ReportLoop, R!ReportLoop, RP!InCall, R!InCall, RP!Resolving,
         R!Resolving, RP!Top, R!Top, RP!Depth, R!Depth, RP!Sources, R!Sources,
         RP!AtSource, R!AtSource, RP!Pending, R!Pending, RP!Failed, R!Failed
<1> QED
  BY <1>1, <1>2, <1>3, <1>4, <1>5 DEF RP!LookupReference, R!LookupReference

(* So the resolver's next-state relation is the same.                      *)
LEMMA ResolverSteps ==
  /\ RP!FinishEntry <=> R!FinishEntry
  /\ RP!NewPass <=> R!NewPass
  /\ [RP!Next]_(RP!vars) <=> [R!Next]_(R!vars)
<1>1. RP!ApplyTransformer <=> R!ApplyTransformer
  BY DEF RP!ApplyTransformer, R!ApplyTransformer, RP!InCall, R!InCall,
         RP!Resolving, R!Resolving, RP!Top, R!Top, RP!Depth, R!Depth,
         RP!Sources, R!Sources, RP!Transformers, R!Transformers, RP!Pending,
         R!Pending, RP!Answer, R!Answer, RP!Failed, R!Failed, RP!Ok, R!Ok
<1>2. RP!NextSource <=> R!NextSource
  BY DEF RP!NextSource, R!NextSource, RP!InCall, R!InCall, RP!Resolving,
         R!Resolving, RP!Depth, R!Depth, RP!Pending, R!Pending
<1>3. RP!FinishEntry <=> R!FinishEntry
  BY DEF RP!FinishEntry, R!FinishEntry, RP!InCall, R!InCall, RP!Resolving,
         R!Resolving, RP!Top, R!Top, RP!Depth, R!Depth, RP!Sources, R!Sources,
         RP!Transformers, R!Transformers, RP!Pending, R!Pending, RP!Answer,
         R!Answer, RP!Failed, R!Failed, RP!Ok, R!Ok
<1>4. RP!NextName <=> R!NextName
  BY DEF RP!NextName, R!NextName, RP!Resolving, R!Resolving, RP!Pending,
         R!Pending
<1>5. RP!Abort <=> R!Abort
  BY DEF RP!Abort, R!Abort, RP!Resolving, R!Resolving
<1>6. RP!Complete <=> R!Complete
  BY DEF RP!Complete, R!Complete, RP!Resolving, R!Resolving, RP!Pending,
         R!Pending
<1>7. RP!NewPass <=> R!NewPass
  BY DEF RP!NewPass, R!NewPass, RP!Resolving, R!Resolving, RP!Pending,
         R!Pending
<1>8. RP!NetworkChanges <=> R!NetworkChanges
  BY DEF RP!NetworkChanges, R!NetworkChanges, RP!Resolving, R!Resolving
<1>9. RP!Next <=> R!Next
  BY <1>1, <1>2, <1>3, <1>4, <1>5, <1>6, <1>7, <1>8, SameLookup
     DEF RP!Next, R!Next, RP!Internal, R!Internal
<1> QED
  BY <1>3, <1>7, <1>9 DEF RP!vars, R!vars

(* What ResolverProofs shows of its steps, of the instance in Service.     *)
LEMMA ResolverTyped == R!TypeOK /\ [R!Next]_(R!vars) => R!TypeOK'
<1>1. RP!TypeOK /\ [RP!Next]_(RP!vars) => RP!TypeOK'
  BY ResolverFits, RP!TypeInductive DEF RP!TypeInductive
<1>2. RP!TypeOK' <=> R!TypeOK'
  BY ResolverTypes, PTL
<1> QED
  BY <1>1, <1>2, ResolverTypes, ResolverSteps

(* What is left is what is unresolved.                                     *)
LEMMA ResolverLeft ==
  R!TypeOK /\ R!LeftIsUnresolved /\ [R!Next]_(R!vars) => R!LeftIsUnresolved'
<1>1. RP!TypeOK /\ RP!LeftIsUnresolved /\ [RP!Next]_(RP!vars) => RP!LeftIsUnresolved'
  BY ResolverFits, RP!LeftInductive DEF RP!LeftInductive
<1> QED
  BY <1>1, ResolverTypes, ResolverSteps DEF RP!LeftIsUnresolved, R!LeftIsUnresolved

(* A pass that succeeded has dealt with every name.                        *)
LEMMA ResolverOutcome ==
  R!TypeOK /\ R!LeftIsUnresolved /\ RP!PassOutcome /\ [R!Next]_(R!vars) => RP!PassOutcome'
<1>1. RP!TypeOK /\ RP!LeftIsUnresolved /\ RP!PassOutcome /\ [RP!Next]_(RP!vars)
        => RP!PassOutcome'
  BY ResolverFits, RP!OutcomeInductive DEF RP!OutcomeInductive
<1> QED
  BY <1>1, ResolverTypes, ResolverSteps DEF RP!LeftIsUnresolved, R!LeftIsUnresolved

(* The base invariant of PublisherProofs.                                  *)
LEMMA PublisherInv == PP!Inv /\ [P!Next]_(P!vars) => PP!Inv'
<1>1. PP!Inv /\ [PP!Next]_(PP!vars) => PP!Inv'
  BY PublisherFits, PP!InvNext DEF PP!InvNext
<1> QED
  BY <1>1, PublisherSteps DEF PP!vars, P!vars, PP!service, P!service

-----------------------------------------------------------------------------
(* What the publisher takes an address to be is what the pass has put into *)
(* the table, as far as it has come, and for unknown names there is none.  *)
KnownIsTable ==
  /\ \A n \in Names : table[n] \in {Unset, known[n]}
  /\ \A a \in Refs \ Names : known[a] = NoIP

Up(i) == pc[i] # "down"

OneUp == \A i, j \in Instances : Up(i) /\ Up(j) => i = j

(* A pass that has ended has ended as Resolve ends, unless the process has *)
(* gone in the middle of it.                                               *)
OutcomeWhileUp == (\E i \in Instances : Up(i)) => RP!PassOutcome

PassInv == R!TypeOK /\ R!LeftIsUnresolved /\ KnownIsTable /\ OneUp /\ OutcomeWhileUp

LoopTyped == stage \in {"update", "wait"} /\ tick \in BOOLEAN

ServiceInv == PassInv /\ PP!Inv /\ LoopTyped

(* What the variables of the publisher are known to be.                    *)
LEMMA InvTypes ==
  ASSUME PP!Inv
  PROVE  /\ known \in [Refs -> IPs \cup {NoIP}]
         /\ pc \in [Instances -> {"down", "init", "idle", "publish", "await"}]
  BY DEF PP!Inv, PP!TypeOK

-----------------------------------------------------------------------------
(* The steps of the resolver within a pass, but for the end of an entry.   *)
Resolves ==
  \/ \E i \in Instances : Resolve(i) \/ (\E p \in Probes : LookupProbe(i, p)) \/ NextPass(i)
  \/ NetworkChanges

(* The resolver's steps are steps of Resolver; the publisher stays put.    *)
LEMMA ResolvesStep ==
  ASSUME Resolves
  PROVE  /\ [R!Next]_(R!vars)
         /\ UNCHANGED <<publisher, known>>
         /\ table' = table \/ table' = [n \in Names |-> Unset]
<1>1. CASE NetworkChanges
  BY <1>1 DEF NetworkChanges, R!NetworkChanges, R!Next
<1>2. ASSUME NEW i \in Instances, NextPass(i)
      PROVE  R!Next /\ UNCHANGED <<publisher, known>> /\ table' = [n \in Names |-> Unset]
  BY <1>2 DEF NextPass, R!NewPass, R!Next
<1>3. ASSUME NEW i \in Instances, NEW p \in Probes, LookupProbe(i, p)
      PROVE  R!Next /\ UNCHANGED <<publisher, known>> /\ table' = table
  BY <1>3 DEF LookupProbe, R!LookupProbe, R!Next
<1>4. ASSUME NEW i \in Instances, Resolve(i)
      PROVE  R!Next /\ UNCHANGED <<publisher, known>> /\ table' = table
  <2>1. R!Internal /\ UNCHANGED <<publisher, known>>
    BY <1>4 DEF Resolve, R!Internal
  <2>2. table' = table
    BY <1>4 DEF Resolve, R!PickName, R!LookupReference, R!StartChain, R!ExtendChain,
           R!ReportLoop, R!ApplyTransformer, R!NextSource, R!NextName, R!Abort, R!Complete
  <2> QED
    BY <2>1, <2>2 DEF R!Next
<1> QED
  BY <1>1, <1>2, <1>3, <1>4 DEF Resolves

(* A pass that goes on keeps what the table says.                          *)
LEMMA ResolvesInv == ASSUME PassInv, PP!Inv, Resolves PROVE PassInv'
<1>1. /\ [R!Next]_(R!vars) /\ UNCHANGED <<pc, known>>
      /\ table' = table \/ table' = [n \in Names |-> Unset]
  BY ResolvesStep DEF publisher
<1>2. R!TypeOK' /\ R!LeftIsUnresolved'
  BY <1>1, ResolverTyped, ResolverLeft DEF PassInv
<1>3. KnownIsTable' /\ OneUp'
  BY <1>1 DEF PassInv, KnownIsTable, OneUp, Up
<1>4. OutcomeWhileUp'
  BY <1>1, ResolverOutcome DEF PassInv, OutcomeWhileUp, Up
<1> QED
  BY <1>2, <1>3, <1>4 DEF PassInv

(* The end of an entry is, to the publisher, a change of its address.      *)
LEMMA FinishEntryMaps ==
  ASSUME PassInv, PP!Inv, NEW i \in Instances, FinishEntry(i)
  PROVE  PassInv' /\ [P!Next]_(P!vars)
<1>1. R!FinishEntry /\ [R!Next]_(R!vars) /\ UNCHANGED publisher
  BY DEF FinishEntry, R!Next, R!Internal
<1>2. PICK n \in Names : n = R!Top.name
  <2>1. RP!TypeOK /\ stack # <<>> => RP!Top.name \in Names
    BY ResolverFits, RP!TopFrame DEF RP!TopFrame
  <2>2. stack # <<>> /\ R!TypeOK
    BY <1>1 DEF R!FinishEntry, R!InCall, PassInv
  <2> QED
    BY <2>1, <2>2, ResolverTypes DEF RP!Top, R!Top, RP!Depth, R!Depth
<1>3. ret.ip \in IPs \cup {NoIP} /\ table \in [Names -> IPs \cup {NoIP, Unset}]
  BY DEF PassInv, R!TypeOK, R!Result
<1>4. known \in [Refs -> IPs \cup {NoIP}] /\ n \in Refs
  BY InvTypes, ServiceAssumption DEF R!ResolverAssumption
<1>5. /\ table' = [table EXCEPT ![n] = ret.ip]
      /\ known' = [known EXCEPT ![n] = ret.ip]
  BY <1>2 DEF FinishEntry, R!FinishEntry
<1>6. P!AddressChanges(n)
  BY <1>1, <1>3, <1>4, <1>5 DEF P!AddressChanges, publisher, P!service
<1>7. KnownIsTable'
  BY <1>3, <1>4, <1>5 DEF PassInv, KnownIsTable
<1>8. OneUp' /\ OutcomeWhileUp'
  BY <1>1, ResolverOutcome DEF PassInv, OneUp, OutcomeWhileUp, Up, publisher
<1>9. R!TypeOK' /\ R!LeftIsUnresolved'
  BY <1>1, ResolverTyped, ResolverLeft DEF PassInv
<1> QED
  BY <1>4, <1>6, <1>7, <1>8, <1>9 DEF PassInv, P!Next

(* While the resolver is left alone, and no instance starts, what is       *)
(* between the two stays as it is.                                         *)
LEMMA PublisherAlone ==
  ASSUME PassInv, UNCHANGED resolver, known' = known, \A j \in Instances : Up(j)' => Up(j)
  PROVE  PassInv'
<1>1. R!TypeOK' /\ R!LeftIsUnresolved' /\ KnownIsTable'
  BY DEF PassInv, resolver, R!TypeOK, R!LeftIsUnresolved, KnownIsTable
<1>2. OneUp' /\ OutcomeWhileUp'
  BY DEF PassInv, resolver, OneUp, OutcomeWhileUp, RP!PassOutcome, RP!Resolving
<1> QED
  BY <1>1, <1>2 DEF PassInv

(* The end of a process leaves nobody up, and no pass.                     *)
LEMMA GoneInv ==
  ASSUME PassInv, PP!Inv, NEW i \in Instances, Up(i), P!Gone(i), Gone, known' = known
  PROVE  PassInv'
<1>1. pc' = [pc EXCEPT ![i] = "down"] /\ \A j \in Instances : ~ Up(j)'
  BY InvTypes DEF P!Gone, PassInv, OneUp, Up
<1>2. R!TypeOK'
  BY EmptySeq DEF Gone, PassInv, R!TypeOK
<1>3. R!LeftIsUnresolved' /\ KnownIsTable'
  BY DEF Gone, PassInv, R!LeftIsUnresolved, KnownIsTable
<1> QED
  BY <1>1, <1>2, <1>3 DEF PassInv, OneUp, OutcomeWhileUp

(* A process starts with a pass that has everything before it.             *)
LEMMA StartMaps ==
  ASSUME PassInv, PP!Inv, NEW i \in Instances, Start(i)
  PROVE  PassInv' /\ [P!Next]_(P!vars)
<1>1. /\ P!Start(i) /\ \A j \in Instances : pc[j] = "down"
      /\ phase' = "resolving" /\ left' = Names /\ table' = [n \in Names |-> Unset]
      /\ ret' = R!Pending
      /\ UNCHANGED <<list, world, stack, chain>>
  BY DEF Start
<1>2. pc' = [pc EXCEPT ![i] = "init"] /\ known' = known
  BY <1>1 DEF P!Start
<1>3. R!TypeOK'
  BY <1>1 DEF PassInv, R!TypeOK, R!Pending, R!Result
<1>4. R!LeftIsUnresolved' /\ KnownIsTable'
  BY <1>1, <1>2 DEF PassInv, R!LeftIsUnresolved, KnownIsTable
<1>5. OneUp'
  BY <1>1, <1>2, InvTypes DEF OneUp, Up
<1>6. RP!PassOutcome'
  BY <1>1 DEF RP!PassOutcome, R!Pending
<1> QED
  BY <1>1, <1>3, <1>4, <1>5, <1>6 DEF PassInv, OutcomeWhileUp, P!Next

(* What Publish is given is what is known of every address: the table has  *)
(* no gap then, and its nil addresses are those that have no value.        *)
LEMMA ResultIsKnown ==
  ASSUME PassInv, PP!Inv, NEW i \in Instances, Up(i), phase = "resolved"
  PROVE  Result = known
<1>1. left = {}
  BY DEF PassInv, OutcomeWhileUp, RP!PassOutcome
<1>2. \A n \in Names : table[n] # Unset
  BY <1>1 DEF PassInv, R!LeftIsUnresolved
<1>3. \A a \in Refs : (IF a \in Names /\ table[a] # Unset THEN table[a] ELSE NoIP) = known[a]
  BY <1>2 DEF PassInv, KnownIsTable
<1>4. known = [a \in Refs |-> known[a]]
  BY InvTypes
<1> QED
  BY <1>3, <1>4 DEF Result

(* Publish hands over the table, which is what Publisher calls current.    *)
LEMMA PublishMaps ==
  ASSUME PassInv, PP!Inv, NEW i \in Instances, Publish(i)
  PROVE  PassInv' /\ [P!Next]_(P!vars)
<1>1. Up(i) /\ pc[i] = "idle" /\ phase = "resolved"
  BY DEF Publish, Updating, Up
<1>2. P!Publish(i)
  BY <1>1, ResultIsKnown DEF Publish, Updating, P!Publish, P!service
<1>3. \A j \in Instances : Up(j)' => Up(j)
  BY <1>1, InvTypes DEF Publish, Up
<1>4. PassInv'
  BY <1>3, PublisherAlone DEF Publish
<1> QED
  BY <1>2, <1>4 DEF P!Next

(* A pass that failed did so because of an address that has no value.      *)
LEMMA SkipUpdateMaps ==
  ASSUME PassInv, PP!Inv, NEW i \in Instances, SkipUpdate(i)
  PROVE  PassInv' /\ [P!Next]_(P!vars)
<1>1. Up(i) /\ pc[i] = "idle" /\ phase = "failed" /\ UNCHANGED <<records, late, known>>
  BY DEF SkipUpdate, Updating, Up
<1>2. CASE i \in OneShot
  <2>1. P!Gone(i) /\ Gone
    BY <1>2 DEF SkipUpdate
  <2>2. PICK n \in Names : table[n] = NoIP
    BY <1>1 DEF PassInv, OutcomeWhileUp, RP!PassOutcome
  <2>3. n \in Refs /\ known[n] = NoIP
    BY <2>2, ServiceAssumption DEF PassInv, KnownIsTable, R!ResolverAssumption
  <2>4. P!SkipPass(i)
    BY <1>1, <1>2, <2>1, <2>3 DEF P!SkipPass, P!service
  <2>5. P!Next
    BY <2>4 DEF P!Next, P!Work
  <2> QED
    BY <1>1, <2>1, <2>5, GoneInv
<1>3. CASE i \notin OneShot
  <2>1. UNCHANGED <<resolver, pc, pos, domains, wanted, request, reply>>
    BY <1>3 DEF SkipUpdate
  <2>2. UNCHANGED P!vars
    BY <1>1, <2>1 DEF P!vars, P!service
  <2> QED
    BY <1>1, <2>1, <2>2, PublisherAlone DEF Up
<1> QED
  BY <1>2, <1>3

(* The publisher's own steps, and those of the service, are what they are  *)
(* in Publisher; those that end the process end the main loop too.         *)
LEMMA PublisherMaps ==
  ASSUME PassInv, PP!Inv, NEW i \in Instances,
         Initialise(i) \/ PublishDomain(i) \/ EndUpdate(i) \/ Crash(i) \/ Answer(i) \/ LoseReply(i)
  PROVE  PassInv' /\ [P!Next]_(P!vars)
<1>1. ASSUME P!Gone(i), Gone, Up(i), P!InitFails(i) \/ P!EndPublish(i) \/ P!Crash(i)
      PROVE  PassInv' /\ P!Next
  <2>1. known' = known
    BY <1>1 DEF P!InitFails, P!EndPublish, P!Crash
  <2> QED
    BY <1>1, <2>1, GoneInv DEF P!Next, P!Work
<1>2. CASE Crash(i)
  BY <1>1, <1>2 DEF Crash, P!Crash, Up
<1>3. CASE P!InitFails(i) /\ Gone
  BY <1>1, <1>3 DEF P!InitFails, Up
<1>4. CASE EndUpdate(i) /\ i \in OneShot
  BY <1>1, <1>4 DEF EndUpdate, P!EndPublish, Up
<1>5. ASSUME P!FindRecord(i) \/ P!Ready(i) \/ P!SkipUnresolved(i) \/ P!SkipUnchanged(i)
               \/ P!Update(i) \/ P!Receive(i) \/ (P!EndPublish(i) /\ i \notin OneShot),
             UNCHANGED resolver
      PROVE  PassInv' /\ P!Next
  <2>1. P!Next
    BY <1>5 DEF P!Next, P!Work
  <2>2. known' = known /\ pc[i] # "down" /\ \A j \in Instances : j # i => pc'[j] = pc[j]
    BY <1>5, InvTypes DEF P!FindRecord, P!Ready, P!SkipUnresolved, P!SkipUnchanged, P!Update,
           P!Receive, P!EndPublish
  <2> QED
    BY <1>5, <2>1, <2>2, PublisherAlone DEF Up
<1>6. CASE Answer(i) \/ LoseReply(i)
  <2>1. P!Next /\ UNCHANGED <<known, pc, resolver>>
    BY <1>6 DEF Answer, LoseReply, P!Next, P!Serve, P!Refuse, P!LoseReply
  <2> QED
    BY <2>1, PublisherAlone DEF Up
<1> QED
  BY <1>2, <1>3, <1>4, <1>5, <1>6 DEF Initialise, PublishDomain, EndUpdate

-----------------------------------------------------------------------------
(* Every step of Service is one of Publisher, or none that it sees.        *)
LEMMA StepMaps ==
  ASSUME PassInv, PP!Inv, [Next]_vars
  PROVE  PassInv' /\ [P!Next]_(P!vars)
<1>1. CASE Resolves
  BY <1>1, ResolvesInv, ResolvesStep DEF P!vars, P!service, publisher
<1>2. ASSUME NEW i \in Instances, Start(i) PROVE PassInv' /\ [P!Next]_(P!vars)
  BY <1>2, StartMaps
<1>3. ASSUME NEW i \in Instances, FinishEntry(i) PROVE PassInv' /\ [P!Next]_(P!vars)
  BY <1>3, FinishEntryMaps
<1>4. ASSUME NEW i \in Instances, Publish(i) PROVE PassInv' /\ [P!Next]_(P!vars)
  BY <1>4, PublishMaps
<1>5. ASSUME NEW i \in Instances, SkipUpdate(i) PROVE PassInv' /\ [P!Next]_(P!vars)
  BY <1>5, SkipUpdateMaps
<1>6. ASSUME NEW i \in Instances,
             Initialise(i) \/ PublishDomain(i) \/ EndUpdate(i) \/ Crash(i) \/ Answer(i) \/ LoseReply(i)
      PROVE  PassInv' /\ [P!Next]_(P!vars)
  BY <1>6, PublisherMaps
<1>7. ASSUME UNCHANGED <<resolver, publisher, known>> PROVE PassInv' /\ [P!Next]_(P!vars)
  BY <1>7, PublisherAlone DEF P!vars, P!service, publisher, Up
<1>8. ASSUME NEW i \in Instances, Tick(i) PROVE UNCHANGED <<resolver, publisher, known>>
  BY <1>8 DEF Tick
<1>9. \/ Resolves
      \/ UNCHANGED <<resolver, publisher, known>>
      \/ \E i \in Instances :
           \/ Start(i) \/ FinishEntry(i) \/ Publish(i) \/ SkipUpdate(i)
           \/ Initialise(i) \/ PublishDomain(i) \/ EndUpdate(i) \/ Crash(i) \/ Answer(i)
           \/ LoseReply(i)
  <2>1. CASE UNCHANGED vars
    BY <2>1 DEF vars
  <2>2. ASSUME NEW i \in Instances, \E p \in Bounded : LookupProbe(i, p) PROVE Resolves
    BY <2>2, ServiceAssumption DEF Resolves, R!ResolverAssumption
  <2> QED
    BY <1>8, <2>1, <2>2 DEF Next, Work, Resolves
<1> QED
  BY <1>1, <1>2, <1>3, <1>4, <1>5, <1>6, <1>7, <1>9

(* No step breaks the types of what the main loop keeps by itself.         *)
LEMMA LoopTypedNext == LoopTyped /\ [Next]_vars => LoopTyped'
<1> SUFFICES ASSUME LoopTyped, [Next]_vars PROVE LoopTyped'
  OBVIOUS
<1>1. stage' \in {stage, "update", "wait"} /\ tick' \in {tick, TRUE, FALSE}
  BY DEF Next, Work, Start, Gone, Initialise, Resolve, LookupProbe, FinishEntry, Publish,
         PublishDomain, EndUpdate, SkipUpdate, NextPass, Tick, Crash, Answer, LoseReply,
         NetworkChanges, vars
<1> QED
  BY <1>1 DEF LoopTyped

(* All of it holds in every reachable state.                               *)
LEMMA ServiceInvariant == Spec => []ServiceInv
<1>1. Init => ServiceInv
  <2> SUFFICES ASSUME Init PROVE ServiceInv
    OBVIOUS
  <2>1. R!Init /\ P!Init /\ LoopTyped
    BY DEF Init, LoopTyped
  <2>2. PP!Inv
    <3>1. PP!Init => PP!Inv
      BY PublisherFits, PP!InvInit DEF PP!InvInit
    <3> QED
      BY <2>1, <3>1, PublisherStarts
  <2>3. R!TypeOK
    BY <2>1, ServiceAssumption, EmptySeq
       DEF R!Init, R!TypeOK, R!Pending, R!Result, R!ResolverAssumption
  <2>4. R!LeftIsUnresolved /\ RP!PassOutcome
    BY <2>1 DEF R!Init, R!LeftIsUnresolved, RP!PassOutcome, R!Pending
  <2>5. KnownIsTable /\ OneUp
    BY <2>1 DEF R!Init, P!Init, P!Nothing, KnownIsTable, OneUp, Up
  <2> QED
    BY <2>1, <2>2, <2>3, <2>4, <2>5 DEF ServiceInv, PassInv, OutcomeWhileUp
<1>2. ServiceInv /\ [Next]_vars => ServiceInv'
  BY StepMaps, PublisherInv, LoopTypedNext DEF ServiceInv
<1> QED
  BY <1>1, <1>2, PTL DEF Spec

(* The main loop, the resolver and the publisher together do nothing that  *)
(* Publisher does not allow (main.go:174): Publish is given for every      *)
(* address what the pass has made of it, whatever the order of the names,  *)
(* the references and the answers, also when the process was killed in the *)
(* middle of an earlier pass; and a one-shot instance only ends without    *)
(* publishing when an address has no value.                                *)
THEOREM Refinement == Spec => ImplementsPublisher
<1>1. Init => P!Init
  BY DEF Init
<1>2. ServiceInv /\ [Next]_vars => [P!Next]_(P!vars)
  BY StepMaps DEF ServiceInv
<1> QED
  BY <1>1, <1>2, ServiceInvariant, PTL DEF Spec, P!Spec, ImplementsPublisher

(* The variables of the resolver, of the publisher and of the main loop    *)
(* keep their types when each starts, ends and waits for the others.       *)
THEOREM TypeCorrect == Spec => []TypeOK
<1>1. ServiceInv => TypeOK
  BY PublisherTypes DEF ServiceInv, PassInv, PP!Inv, LoopTyped, TypeOK
<1> QED
  BY <1>1, ServiceInvariant, PTL

(* So what is proved of Publisher is true of the program as a whole: its   *)
(* handles are records of their entries, no record of others is written,   *)
(* and a failed write costs no other domain its turn.                      *)
THEOREM RecordsAreSafe ==
  Spec => []P!HandleIsOurs /\ P!NoInterference /\ []P!FailuresDontStopOthers
<1>1. PP!Spec => []PP!HandleIsOurs
  BY PublisherFits, PP!HandlesAreOurs DEF PP!HandlesAreOurs
<1>2. PP!Spec => PP!NoInterference
  BY PublisherFits, PP!InstancesDontInterfere DEF PP!InstancesDontInterfere
<1>3. PP!Spec => []PP!FailuresDontStopOthers
  BY PublisherFits, PP!PartialSuccess DEF PP!PartialSuccess
<1>4. PP!HandleIsOurs <=> P!HandleIsOurs
  BY DEF PP!HandleIsOurs, P!HandleIsOurs, PP!Record, P!Record
<1>5. PP!FailuresDontStopOthers <=> P!FailuresDontStopOthers
  BY DEF PP!FailuresDontStopOthers, P!FailuresDontStopOthers, PP!Domains, P!Domains
<1>6. PP!NoInterference <=> P!NoInterference
  <2>1. PP!Managed = P!Managed
    BY DEF PP!Managed, P!Managed, PP!ManagedBy, P!ManagedBy, PP!Domains, P!Domains
  <2>2. \A id : PP!Live(id) <=> P!Live(id)
    BY DEF PP!Live, P!Live
  <2>3. [\A id \in Ids : PP!Live(id) /\ records'[id] \notin {records[id], Deleted}
           => records[id].key \in PP!Managed /\ records'[id].key = records[id].key]_(PP!vars)
        <=> [\A id \in Ids : P!Live(id) /\ records'[id] \notin {records[id], Deleted}
               => records[id].key \in P!Managed /\ records'[id].key = records[id].key]_(P!vars)
    BY <2>1, <2>2 DEF PP!vars, P!vars, PP!service, P!service
  <2> QED
    BY <2>3, PTL DEF PP!NoInterference, P!NoInterference
<1> QED
  BY <1>1, <1>2, <1>3, <1>4, <1>5, <1>6, Refinement, PublisherSpecs, PTL
     DEF ImplementsPublisher
=============================================================================
