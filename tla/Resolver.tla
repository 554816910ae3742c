------------------------------ MODULE Resolver ------------------------------
(***************************************************************************)
(* One pass of address resolution: Resolver.Resolve, Resolver.resolveOne   *)
(* and ipResolver.resolve (cfddns/resolver.go), and the "reference" source *)
(* (sources/reference.go) through which an address asks for another one.   *)
(*                                                                         *)
(* The Go call stack is the variable stack: a frame is one activation of   *)
(* ipResolver.resolve.  A reference source calls back into resolveOne, so  *)
(* frames nest; ret is what the call that has just returned gave back.     *)
(***************************************************************************)
EXTENDS Naturals, Sequences, FiniteSets

CONSTANTS
  Names,            \* the names of the configured addresses
  Refs,             \* what a reference source may name: Names and unknown ones
  Probes,           \* the sources that ask the outside world (simple, cf_trace, interface)
  Bounded,          \* the probes whose Lookup is sure to return
  IPs,              \* the addresses a lookup can yield
  NoIP,             \* a nil net.IP
  Unset,            \* no entry in the Go map
  Configs,          \* the address tables the program may be started with
  Worlds,           \* what the probes may answer at one moment
  Drifting          \* the tables for which the answers change in the middle of a pass

Source ==
  [type : {"probe"}, source : Probes] \cup [type : {"reference"}, source : Refs]

(* A transformer yields NoIP where Transform fails, and on a nil address.  *)
Transformer == {t \in [IPs \cup {NoIP} -> IPs \cup {NoIP}] : t[NoIP] = NoIP}

(* ipResolver: the sources in the order of preference, and the             *)
(* transformers that every answer goes through.                            *)
Entry == [sources : Seq(Source), transformers : Seq(Transformer)]

ASSUME ResolverAssumption ==
  /\ IsFiniteSet(Names)
  /\ Names \subseteq Refs
  /\ Bounded \subseteq Probes
  /\ NoIP \notin IPs
  /\ Unset \notin IPs \cup {NoIP}
  /\ Configs \subseteq [Names -> Entry]
  /\ Worlds \subseteq [Probes -> IPs \cup {NoIP}]
  /\ Drifting \subseteq Configs

VARIABLES
  list,   \* Resolver.list
  world,  \* what each probe answers now (NoIP: its Lookup fails)
  phase,  \* "resolving", or how the pass ended: "resolved", "failed"
  left,   \* the names the loop of Resolve still has to visit
  table,  \* the result map of the pass
  stack,  \* the activations of ipResolver.resolve, the innermost last
  chain,  \* the names in refChain, {} while the context carries none
  ret     \* the result of the call that has just returned

vars == <<list, world, phase, left, table, stack, chain, ret>>

Frame == [name : Names, src : Nat \ {0}, tr : Nat \ {0}]

Result == [st : {"pending", "ok", "err"}, ip : IPs \cup {NoIP}]

Pending == [st |-> "pending", ip |-> NoIP]
Failed  == [st |-> "err", ip |-> NoIP]
Ok(ip)  == [st |-> "ok", ip |-> ip]

(* What a call that fails exactly when it has no address returns. *)
Answer(ip) == IF ip = NoIP THEN Failed ELSE Ok(ip)

TypeOK ==
  /\ list \in [Names -> Entry]
  /\ world \in [Probes -> IPs \cup {NoIP}]
  /\ phase \in {"resolving", "resolved", "failed"}
  /\ left \subseteq Names
  /\ table \in [Names -> IPs \cup {NoIP, Unset}]
  /\ stack \in Seq(Frame)
  /\ chain \subseteq Refs
  /\ ret \in Result

-----------------------------------------------------------------------------
Resolving == phase = "resolving"
Depth     == Len(stack)
Top       == stack[Depth]
InCall    == Resolving /\ stack # <<>>

Sources      == list[Top.name].sources
Transformers == list[Top.name].transformers

(* The top frame is about to call Lookup on its next source. *)
AtSource == InCall /\ ret = Pending /\ Top.src <= Len(Sources)

Init ==
  /\ list \in Configs
  /\ world \in Worlds
  /\ phase = "resolving"
  /\ left = Names
  /\ table = [n \in Names |-> Unset]
  /\ stack = <<>>
  /\ chain = {}
  /\ ret = Pending

(* Mutant of ResolveOne: the result table is not looked at. *)
ResolveOneAnew(n) ==
  \/ /\ n \notin Names
     /\ ret' = Failed
     /\ stack' = stack
  \/ /\ n \in Names
     /\ ret' = Pending
     /\ stack' = Append(stack, [name |-> n, src |-> 1, tr |-> 1])

(* resolveOne: an entry of the result table is returned as it is, even a   *)
(* nil one; an unknown name is an error; any other name is resolved.       *)
ResolveOne(n) ==
  \/ /\ n \in Names
     /\ table[n] # Unset
     /\ ret' = Ok(table[n])
     /\ stack' = stack
  \/ /\ n \notin Names
     /\ ret' = Failed
     /\ stack' = stack
  \/ /\ n \in Names
     /\ table[n] = Unset
     /\ ret' = Pending
     /\ stack' = Append(stack, [name |-> n, src |-> 1, tr |-> 1])

(* The loop of Resolve takes any name that is left: Go does not fix the    *)
(* order in which it ranges over a map.                                    *)
PickName(n) ==
  /\ Resolving /\ stack = <<>> /\ ret = Pending
  /\ n \in left
  /\ ResolveOne(n)
  /\ UNCHANGED <<list, world, phase, left, table, chain>>

(* Lookup of a source that asks the outside world. *)
LookupProbe(p) ==
  /\ AtSource
  /\ Sources[Top.src] = [type |-> "probe", source |-> p]
  /\ ret' = Answer(world[p])
  /\ UNCHANGED <<list, world, phase, left, table, stack, chain>>

(* reference.Lookup where the context carries no chain yet: the chain it   *)
(* puts into the context lives until this call returns.                    *)
StartChain(t) ==
  /\ AtSource /\ Depth = 1
  /\ Sources[Top.src] = [type |-> "reference", source |-> t]
  /\ ResolveOne(t)
  /\ chain' = IF stack' = stack THEN {} ELSE {t}
  /\ UNCHANGED <<list, world, phase, left, table>>

(* Mutant of ExtendChain: the chain is not searched. *)
ExtendChainUnchecked(t) ==
  /\ AtSource /\ Depth > 1
  /\ Sources[Top.src] = [type |-> "reference", source |-> t]
  /\ chain' = chain \cup {t}
  /\ ResolveOne(t)
  /\ UNCHANGED <<list, world, phase, left, table>>

(* reference.Lookup further down: the chain is one slice shared by every   *)
(* call below the first reference, and names are only ever added to it.    *)
ExtendChain(t) ==
  /\ AtSource /\ Depth > 1
  /\ Sources[Top.src] = [type |-> "reference", source |-> t]
  /\ t \notin chain
  /\ chain' = chain \cup {t}
  /\ ResolveOne(t)
  /\ UNCHANGED <<list, world, phase, left, table>>

(* reference.Lookup on a name that is in the chain already. *)
ReportLoop(t) ==
  /\ AtSource /\ Depth > 1
  /\ Sources[Top.src] = [type |-> "reference", source |-> t]
  /\ t \in chain
  /\ ret' = Failed
  /\ UNCHANGED <<list, world, phase, left, table, stack, chain>>

(* One turn of the transformer loop over the address a Lookup returned. *)
ApplyTransformer ==
  /\ InCall /\ ret.st = "ok"
  /\ Top.tr <= Len(Transformers)
  /\ ret' = Answer(Transformers[Top.tr][ret.ip])
  /\ stack' = [stack EXCEPT ![Depth].tr = @ + 1]
  /\ UNCHANGED <<list, world, phase, left, table, chain>>

(* Mutants of NextSource: the transformers start from index 0, or go on    *)
(* where the failed source left them, or no other source is tried.         *)
NextSourceFromZero ==
  /\ InCall /\ ret.st = "err"
  /\ ret' = Pending
  /\ stack' = [stack EXCEPT ![Depth].src = @ + 1, ![Depth].tr = 0]
  /\ UNCHANGED <<list, world, phase, left, table, chain>>

NextSourceGoesOn ==
  /\ InCall /\ ret.st = "err"
  /\ ret' = Pending
  /\ stack' = [stack EXCEPT ![Depth].src = @ + 1]
  /\ UNCHANGED <<list, world, phase, left, table, chain>>

NextSourceNone ==
  /\ InCall /\ ret.st = "err"
  /\ ret' = Pending
  /\ stack' = [stack EXCEPT ![Depth].src = Len(Sources) + 1, ![Depth].tr = 1]
  /\ UNCHANGED <<list, world, phase, left, table, chain>>

(* A Lookup or a Transform failed: "continue" with the next source. *)
NextSource ==
  /\ InCall /\ ret.st = "err"
  /\ ret' = Pending
  /\ stack' = [stack EXCEPT ![Depth].src = @ + 1, ![Depth].tr = 1]
  /\ UNCHANGED <<list, world, phase, left, table, chain>>

(* Mutant of FinishEntry: the name is not taken off the list. *)
FinishEntryKeepsName ==
  /\ InCall
  /\ \/ ret.st = "ok" /\ Top.tr > Len(Transformers)
     \/ ret = Pending /\ Top.src > Len(Sources)
  /\ left' = left
  /\ table' = [table EXCEPT ![Top.name] = ret.ip]
  /\ ret' = Answer(ret.ip)
  /\ stack' = SubSeq(stack, 1, Depth - 1)
  /\ chain' = IF Depth <= 2 THEN {} ELSE chain
  /\ UNCHANGED <<list, world, phase>>

(* ipResolver.resolve returns, with the address it broke out of the loop   *)
(* with or with none when the sources are exhausted, and resolveOne        *)
(* records the outcome, a failure included.  A nil address that a lookup   *)
(* returned without an error counts as a failure of the whole entry.       *)
FinishEntry ==
  /\ InCall
  /\ \/ ret.st = "ok" /\ Top.tr > Len(Transformers)
     \/ ret = Pending /\ Top.src > Len(Sources)
  /\ left' = left \ {Top.name}
  /\ table' = [table EXCEPT ![Top.name] = ret.ip]
  /\ ret' = Answer(ret.ip)
  /\ stack' = SubSeq(stack, 1, Depth - 1)
  /\ chain' = IF Depth <= 2 THEN {} ELSE chain
  /\ UNCHANGED <<list, world, phase>>

(* Mutant of NextName: an error is ignored, as Publish does. *)
NextNameAnyway ==
  /\ Resolving /\ stack = <<>> /\ ret # Pending
  /\ ret' = Pending
  /\ UNCHANGED <<list, world, phase, left, table, stack, chain>>

(* The call made by the loop of Resolve came back with an address ... *)
NextName ==
  /\ Resolving /\ stack = <<>> /\ ret.st = "ok"
  /\ ret' = Pending
  /\ UNCHANGED <<list, world, phase, left, table, stack, chain>>

(* ... or with an error, which makes Resolve give up ... *)
Abort ==
  /\ Resolving /\ stack = <<>> /\ ret.st = "err"
  /\ phase' = "failed"
  /\ UNCHANGED <<list, world, left, table, stack, chain, ret>>

(* ... or there is no name left. *)
Complete ==
  /\ Resolving /\ stack = <<>> /\ ret = Pending
  /\ left = {}
  /\ phase' = "resolved"
  /\ UNCHANGED <<list, world, left, table, stack, chain, ret>>

(* Mutant of NewPass: the results of the last pass are kept. *)
NewPassRemembers ==
  /\ ~Resolving
  /\ phase' = "resolving"
  /\ world' \in Worlds
  /\ left' = {n \in Names : table[n] \in {NoIP, Unset}}
  /\ table' = [n \in Names |-> IF table[n] = NoIP THEN Unset ELSE table[n]]
  /\ ret' = Pending
  /\ UNCHANGED <<list, stack, chain>>

(* The main loop calls Resolve again at the next tick. *)
NewPass ==
  /\ ~Resolving
  /\ phase' = "resolving"
  /\ world' \in Worlds
  /\ left' = Names
  /\ table' = [n \in Names |-> Unset]
  /\ ret' = Pending
  /\ UNCHANGED <<list, stack, chain>>

(* The outside world changes while a pass is running. *)
NetworkChanges ==
  /\ list \in Drifting /\ Resolving
  /\ world' \in Worlds
  /\ UNCHANGED <<list, phase, left, table, stack, chain, ret>>

LookupReference(t) == StartChain(t) \/ ExtendChain(t) \/ ReportLoop(t)

(* The steps the program takes by itself, without waiting for an answer. *)
Internal ==
  \/ \E n \in Names : PickName(n)
  \/ \E t \in Refs : LookupReference(t)
  \/ ApplyTransformer
  \/ NextSource
  \/ FinishEntry
  \/ NextName
  \/ Abort
  \/ Complete

Next ==
  \/ Internal
  \/ \E p \in Probes : LookupProbe(p)
  \/ NewPass
  \/ NetworkChanges

Spec == Init /\ [][Next]_vars

(* The goroutine keeps running, and the lookups that are bounded return.   *)
(* Nothing makes the program start another pass or the network change.     *)
Fairness == WF_vars(Internal \/ \E p \in Bounded : LookupProbe(p))

FairSpec == Spec /\ Fairness

-----------------------------------------------------------------------------
References(n) ==
  {t \in Refs : \E i \in DOMAIN list[n].sources :
                   list[n].sources[i] = [type |-> "reference", source |-> t]}

(* The references can be ranked: no address refers to itself, directly or  *)
(* through others.                                                         *)
Acyclic ==
  \E rank \in [Names -> 1 .. Cardinality(Names)] :
     \A n \in Names : \A m \in References(n) \cap Names : rank[m] < rank[n]

(* Below the outermost call an address is entered once at most, so the     *)
(* recursion is bounded by the number of addresses even where references   *)
(* form a cycle.                                                           *)
BoundedRecursion ==
  \A i, j \in 2 .. Depth : stack[i].name = stack[j].name => i = j

(* The loop of Resolve runs until left is empty, but a name whose result   *)
(* is in the table already would be answered without being removed from    *)
(* left: the two must never overlap, nor may a name drop out of both.      *)
LeftIsUnresolved == left = {n \in Names : table[n] = Unset}

(* A pass that succeeds may hand a nil address to the publisher, but only  *)
(* for an address that some other address refers to: one that is visited   *)
(* by the loop itself and fails makes the pass fail.                       *)
NilOnlyIfReferenced ==
  phase = "resolved" =>
     \A n \in Names : table[n] = NoIP => \E m \in Names : n \in References(m)

(* Without a cycle of references, an address is resolved once per pass, so *)
(* that all the addresses referring to it are built on the same answer.    *)
ResolvedOnce ==
  [][Resolving /\ (\E n \in Names : table[n] \notin {Unset, table'[n]}) => ~Acyclic]_vars

(* What the sources of an address answer, given the results so far. *)
SourceAnswers(n) ==
  {world[p] : p \in {q \in Probes : \E i \in DOMAIN list[n].sources :
                        list[n].sources[i] = [type |-> "probe", source |-> q]}}
    \cup {table[t] : t \in References(n) \cap Names}

(* ip is the outcome of all the transformers of n, applied one after the   *)
(* other to some answer of a source of n.                                  *)
Derived(n, ip) ==
  LET ts == list[n].transformers IN
  \E v \in [0 .. Len(ts) -> IPs] :
     /\ v[0] \in SourceAnswers(n)
     /\ \A k \in 1 .. Len(ts) : v[k] = ts[k][v[k - 1]]
     /\ v[Len(ts)] = ip

(* example.toml:35: an address is an IP obtained from any of the           *)
(* configured sources, and transformed by all configured transformers.     *)
(* While the network is steady and references are acyclic, every address   *)
(* in the table still is that of the results the table holds now.          *)
Provenance ==
  list \notin Drifting /\ Resolving /\ Acyclic =>
     \A n \in Names : table[n] \in IPs => Derived(n, table[n])

UsedProbes ==
  {p \in Probes : \E n \in Names : \E i \in DOMAIN list[n].sources :
                     list[n].sources[i] = [type |-> "probe", source |-> p]}

(* A pass ends, with or without cycles of references, if every probe that  *)
(* is configured is bounded: one http source without a timeout may keep    *)
(* the whole pass from ending.                                             *)
PassEnds == (Resolving /\ UsedProbes \subseteq Bounded) ~> ~Resolving

-----------------------------------------------------------------------------
(* Statements of the documentation and of log messages the code does not   *)
(* live up to.                                                             *)

(* example.toml:35: "address" is an IP obtained from any of the configured *)
(* sources.  So an address without transformers is not resolved to nothing *)
(* when one of its probes answers.                                         *)
AnySourceSuffices ==
  \A n \in Names, p \in Probes :
     /\ list[n].transformers = <<>>
     /\ \E i \in DOMAIN list[n].sources :
           list[n].sources[i] = [type |-> "probe", source |-> p]
     /\ world[p] # NoIP
     => table[n] # NoIP

(* reference.go:33: "infinite loop detected in IP source chain".  So the   *)
(* name for which that is reported is being resolved already.              *)
LoopsAreReal ==
  [][\A t \in Refs : ReportLoop(t) => \E i \in 1 .. Depth : stack[i].name = t]_vars
=============================================================================
