# cfddns in TLA+

`cfddns` finds out the addresses of a host, from web servers, from its network
interfaces or from one another, rewrites them if told to, and writes them into
Cloudflare DNS records. It is one goroutine that runs a *pass* (resolve all
addresses, then publish) once or at every tick. This directory holds TLA+ models
of it, the TLC configurations that check them on small instances, and proofs by
TLAPS that hold for every value of the constants.

Module comments name the functions they model. `PROJECT.json` maps every
definition to the lines it stands for.

## 1. The system

| Part | State | Operations | Talks to |
|---|---|---|---|
| `main` (`cmd/cfddns/main.go`) | ticker, configuration | start, pid file, main loop | resolver, publisher |
| pid file (`handlePidFile`) | a file shared by processes, a goroutine waiting for the interrupt | check, write, deferred remove, remove on interrupt | other processes, signals |
| resolver (`cfddns/resolver.go`) | per pass: result table, names left, the Go call stack | `Resolve`, `resolveOne`, `ipResolver.resolve` | sources, transformers |
| reference source (`sources/reference.go`) | the chain in the context | `Lookup` | calls back into `resolveOne` |
| `simple`, `cf_trace` sources | connections that the HTTP client keeps | `Lookup` | web servers |
| interface source, `netif` for Linux and Windows | none | `newInterface`, `Lookup`, `InterfaceByName`, `Addrs` | the kernel, twice per lookup |
| `mask_rewrite` transformer | mask and overwrite | `newMaskRewrite`, `Transform` | resolver |
| record publisher (`cfddns/publisher.go`) | per domain: the record it believes there is, with handle and address | `init`, `update`, `Publish`, `NewPublisher` | provider |
| cloudflare provider (`ddns/cloudflare.go`) | zones, token | `FindRecord`, `WriteRecord` | the service |
| configuration (`config.go`, `util.go`, `enums.go`) | none | decoding of enumerations, addresses, marks | all |
| registries, logging | none | lookup of constructors, formatting | all |

The parts are few and each is short; the difficulty is in what lies between them.

* **Resolver and reference source call each other** through a function in the
  context, and share the result table, the set of names left and the chain that
  detects loops. The loop of `Resolve` takes names in Go's map order, so the same
  configuration can run in many orders. *Correct* means: it ends, it loses no
  name, every address is resolved once, and what it yields does not depend on the order.
* **The publisher's memory and the service's records** are two copies of one
  thing, kept in step by writes that can be refused, lost, applied late, or
  interrupted by a crash. *Correct* means: only own records are touched, one record
  per entry, the memory agrees with the service, and the record gets the address.
* **The main loop joins the two**: a pass that fails must publish nothing of what it
  resolved and still wait for the next tick, the ticker runs on during a pass, and
  between a change of the network and the record lie five places that may hold the
  old address. *Correct* means: every tick is served, and the record gets what a
  settled network says.
* **Several instances** share the service and the pid file. Only the mark, put
  together from three names, keeps their records apart, and only the end of a name
  says in which zone its record is.
* **A lookup is several steps** (dial, wait, read, parse; find the link, read its
  addresses), and the world changes between them. An answer may be cut off in the
  middle of an address, and an IPv4 address may be shown as an IPv6 one.
* **`net.IP` has two forms** for IPv4, and `mask_rewrite` compares lengths.

The hazards, each at its line, are listed in `PROJECT.json` with the properties
that would catch them, and a note where a property catches only part of one, or none does.

## 2. The modules

| Module | Models | State and actions |
|---|---|---|
| `Resolver` | `resolver.go`, `reference.go` | `stack` is the Go call stack, one frame per activation of `ipResolver.resolve` with its two loop indexes; `table`, `left`, `chain`, and `ret`, what the call that just returned gave back. `PickName` is the map iteration, `StartChain`, `ExtendChain`, `ReportLoop` are `reference.Lookup`, `FinishEntry` the return of `resolve` together with what `resolveOne` does after it |
| `ResolverOracle` | what a pass should yield | `Expected`, a function of configuration and answers |
| `Publisher` | `publisher.go`, `cloudflare.go`, the main loop's calls | per instance `pc`, `pos`, `domains` (its memory), `wanted` (the argument of `Publish`), `request` and `reply`; the service's `records`, and `late` requests. A write is three steps: `Update` (writes the memory, then sends), `Serve` or `Refuse` (external), `Receive` |
| `ManagedDns` | what publishing amounts to, seen from outside | the set of addresses in the records of each key; `Begin`, `Settle`, `End`. No caches, handles, requests, restarts |
| `Naming` | `getZoneResource`, `DefaultMark`, the marks of `init` | operators on texts (sequences of parts): `Mark`, `Key`, `ZonesFor` |
| `Configured` | `Publisher` with the keys and zones that `Naming` makes of the settings | the conditions on zones, and `InNamedZone` |
| `Service` | the main loop and the ticker, over `Resolver` and `Publisher` | the two modules' variables, `stage`, `tick` (the channel of the ticker, which holds one), and the history `known`. `Publish` takes its argument from the table of the pass, `SkipUpdate` is a failed one, `NextPass` receives the tick |
| `PidFile` | `handlePidFile` | the file, each process between start and main loop, its interrupt goroutine |
| `NetIP`, `MaskRewrite` | package net, `mask_rewrite.go` | construction of a chain of transformers at the start, then one `Transform` after the other |
| `HttpSource` | `simple.go`, `cf_trace.go`, `util.go` | dial, reuse of a kept connection, answer, deadline, parse (`Panic` where a number for a type is out of range), family check |
| `Decoding` | `WeakDecodeMap` and the enumerations | what a text or a number in the configuration is decoded to |
| `InterfaceSource` | `interface.go`, `netif` on Linux and on Windows | the decoding of its options, the two reads (on Windows with a buffer that is enlarged until the table fits), the filter loop, the selection; the kernel's tables |
| `MC...` | | the finite instances, with an assumption each that the theorems' hypotheses hold of them |
| `...Proofs` | | theorems |

How they are put together: `Service` is an instance of `ResolverOracle` and one of
`Publisher` over its own variables, with the main loop between them;
`ImplementsPublisher` says that `Publisher`, whose addresses change by themselves
(`current`), allows what it is given by the resolver. `MCNaming` is an instance of
`Configured`. `Publisher` is mapped to `ManagedDns` by
`ImplementsManagedDns`: a record is published under its key whoever holds its
handle, and a domain's turn is over when the service has acted on its request, not
when the reply is read. Each source's outcome is all that `Resolver` sees of
`HttpSource` and `InterfaceSource` (a *probe*, which yields an address or fails), and a
transformer is a function there.

Six variables are bookkeeping that no guard of the program's own steps reads:
`PidFile!mishap` (a process died or failed to write while its file existed),
`HttpSource!honest` (whether servers show only the address they see; it restricts
the servers' answers, and `OwnAddress` speaks of honest ones only),
`Service!known` (how the last attempt to resolve each address came out), and
`InterfaceSource!named` and `held` (the links that have had the configured name since the
lookup began, and the addresses of their own that they have had). `HttpSource!held` is
one, too: the addresses the host has had since the lookup began.

In the HTTP sources an answer is a sequence of items, each an address, junk, an "ip=" line
with nothing behind it, or something that looks like an address and is not; an item is read plain, mapped into
IPv6, or as a piece where the limit cuts it. A panic there is the end of the process,
which `Service` allows at any moment (`Crash`). In `Publisher` a `key` stands for domain,
type and mark, which `Naming` spells out. Record ids are used once, as the service does.

## 3. What the runs show

Runs that pass:

| Run | Instance | Shows |
|---|---|---|
| `resolver_pass` | 3 addresses; every table with one or two sources each (self references and cycles of length 2 and 3 included), and acyclic tables where two addresses have chains of up to two transformers; every outcome of the lookups; for some tables the network changes between any two steps | the recursion is bounded, `left` and `table` are complements, a nil address reaches the publisher only for names that are referred to, every result is the transformed answer of one source, acyclic tables whose references come last give what the sources say, and each address has one result per pass even while the network changes |
| `service` | 2 addresses in three kinds of tables (a fallback with a transformer, a cycle, a name that is not configured with a probe that may hang), a network that moves, 2 instances, one of them one-shot; crashes, lost replies, ticks at any time | the publisher sees what its module assumes, a pass ends, every tick is answered by a pass that begins after it, and the record gets the address that a settled network gives |
| `publisher_marks` | 3 instances whose keys and zones `Naming` computes (two publish the same name under different marks, one of them one-shot; one has a name that contains a zone's and is in none; two zones are nested), 3 ids, foreign records; refused, lost and late requests, crashes, deletions by others | handles are of own records, no two entries remember one record, no instance writes another's record, records are in zones their names end in, a failed write does not stop the rest |
| `publisher_sync` | 2 instances, 2 addresses, 3 ids; crashes and failing starts at any step | one record per entry, memory and service agree, every write carries the address wanted in the pass, none goes back to an older one, records converge, and instances and service together implement `ManagedDns` |
| `pidfile_stale` | 3 processes, kill, interrupt and failing write at any step | no file is left unless a process died or failed to write while the file was its own; a file left behind stays |
| `maskrewrite_chain` | IPv4 of 2 bits, IPv6 of 4, every address, chains of up to two of 54 transformers (an overwrite that is an IPv4 address written as IPv6 among them), the three kinds of sources | indexes in range, the last overwrite wins bit by bit, the family check is exact where source and overwrite have their own length |
| `httpsource_lookup` | every configuration but simple for IPv4, types that are numbers of no family among them (these with a plain URL only), 2 addresses per family, pages of up to two items and a longer one that is cut off in the middle of an address, addresses written plain or mapped, kept connections | an address of the time of the lookup or a piece of one, of the family asked for unless an IPv4 address is shown as IPv6, found if shown, unless an empty "ip=" line stands in front; a lookup with a timeout ends |
| `interface_pick` | both systems, 2 links, tables of up to two of 9 (Linux) or 7 (Windows) kinds of addresses and one of three, 23 sources as they are written, decodable or not, one change of links or addresses during the lookup | the pick is the one `example.toml` describes for the table that was read; it was, at a moment of the lookup, an own address (never the peer's) of a link that by then had had the name; and a lookup returns, though the buffer must grow meanwhile |

Runs that TLC refutes, each a sentence of the code or its documentation:

| Run | Sentence | What happens |
|---|---|---|
| `resolver_fallback` | "an IP obtained from any of the configured sources" | `resolveOne` answers a recorded failure with `(nil, nil)`, which ends the loop over the sources. Only the order in which the map is visited decides whether the second source is tried |
| `resolver_false_loop` | "infinite loop detected in IP source chain" | the chain is shared by siblings and never shortened: a diamond below a reference counts as a loop |
| `publisher_skip` | "IP didn't change, skip update" | the new address is remembered before the write and kept when the write fails, so that it is not tried again until the address changes |
| `pidfile_exclusive` | "cfddns with pidfile already running" | the deferred removal runs when `handlePidFile` returns, before the main loop |

More disagreements are part of the models but have no run.

* When the reply to a creation is lost, `SingleRecord` fails and the next start
  refuses to run (`publisher.go:39`); `publisher_sync` therefore excludes lost
  replies, and `NeverDuplicate` assumes there are none.
* The expression for IPv4 of the simple source wants a literal backslash before every
  dot (`simple.go:22`), so that such a source finds nothing; `httpsource_lookup` leaves
  it out.
* `netip.Addr.Is6` holds of an IPv4 address that is written as IPv6, so that a
  source of type IPv6 can yield one; `AskedFamily` names this exception.
* The interface source yields IPv4 addresses of 16 bytes: a transformer with an
  IPv4 overwrite rejects them, and one with an IPv6 overwrite takes them.
  `FamilyGuard` states the family check for the other sources, and for overwrites
  that are not themselves IPv4 addresses written as IPv6.
* Numbers pass the decoder of the enumerations unread, so that a `select` of 3 fails
  at every lookup instead of at the start. With such a `type` a cf_trace source always
  reports "mismatched IP family", and a simple source panics (`simple.go:102` takes it for
  an index); `LookupEnds` names this exception.
* An "ip=" line with nothing behind it ends the search of a cf_trace source, though
  another may follow (`cf_trace.go:118`); `FoundIfThere` names this exception.
* On Windows `Addrs` returns anycast addresses too, though its comment speaks of
  unicast ones.
* Marks of instances with dashes in their names may coincide (`publisher.go:28`);
  where zones are nested the map order decides in which one a record is created, and
  may decide otherwise after a restart. `OneOwner` and `SingleRecord` are proved from
  the conditions that exclude these (section 4).

### Bounds

* *Resolver.* Three addresses have all shapes of reference graphs that matter for
  two-step interplay: a self reference, cycles of two and three, a chain, a shared
  target. A false loop needs a fourth, so that run has four. Two sources per
  address are enough for one to fail and one to fall back to. The network moves
  only under the tables of `Drifting`, which keeps the rest of the run small.
* *Service.* Two addresses and two instances: one reference, one fallback, one cycle,
  and a one-shot process that writes in between. Only one of them runs at a time;
  that several run at once is the matter of the publisher's own runs.
* *Publisher.* Two domains in one instance let one write fail and the next go on;
  two instances with a common name are the smallest case of interference; three ids
  are one per entry, so that an instance that wrongly creates or adopts a record
  has one to do it with. In `publisher_sync` an address takes at most two values
  after it first appears, which is enough to go back to an older one; in
  `publisher_marks` it appears once, while records of before have another.
* *Naming.* Texts of up to three parts out of eight, the dash among them: long
  enough for a mark with a dash between two parts, and for a name with a zone in the
  middle.
* *PidFile.* Three processes: one in the window, one past the check, one that comes
  later. The theorems hold for any number.
* *MaskRewrite.* Bits are independent; two of IPv4 and a two-bit prefix distinguish
  kept from overwritten and one family from the other. The theorems hold for any
  length of addresses and chains.
* *InterfaceSource* allows one change per lookup (`Changes`): there are only two
  requests, so one change between them, or before, is the whole effect. The buffer
  of Windows has room for one address at first (`Room`), so that it must grow.
* Symmetry is used in safety runs only, over record ids and over the names of
  addresses; the sets of configurations there are closed under renaming.
* `maskrewrite_chain` and `interface_pick` do not check deadlock: a refused
  configuration stops the program. All other runs check it.

### Fairness

* `Resolver!Fairness`: the goroutine runs, and *bounded* probes return. A probe is
  bounded if it has a timeout (`LookupEnds`) or asks the kernel (`LookupReturns`); a
  probe without one may never return, and `PassEnds` promises nothing then. Ticks and
  changes of the network are not assumed.
* `HttpSource!FairSpec`: the timer of the context fires and parsing goes on. No
  server has to answer and no connection to fail.
* `InterfaceSource!FairSpec`: the program's own steps go on, where a request to the
  kernel either answers or fails; none needs to fail. The kernel's table grows
  at most `Changes` times during a lookup; one that outgrew every buffer would hold up
  the loop of `adapterAddresses` for ever.
* `Publisher!Fairness`: a process runs once it is started, and is restarted after it
  ended (by the service manager, or cron in the one-shot form), ticks keep coming,
  and the service answers or refuses what it was asked. A pass is sure to reach
  `Publish` only while every address resolves, since `Resolve` may otherwise fail as
  a whole. `Converges` concerns instances that eventually stay up, with addresses
  that eventually stay.
* `Service!Fairness`: the same, with the ticker itself in place of passes that keep
  coming: it is a timer of the runtime and ticks whatever the program does. Nothing
  says that a pass is reached; that is what `TickIsServed` and `Delivered` show.
  `Delivered` concerns an instance that stays up, addresses that all resolve from
  bounded probes, and no failed write of before, which the program would take for
  done (`publisher_skip`).

## 4. What is proved

Every theorem holds for all values of the constants under the assumptions stated in
the module that declares them (they are types: finite sets of names, disjoint
special values, configurations of the right shape).

**Resolver** (`ResolverProofs`).
`TypeCorrect`; `LeftCorrect` (`LeftIsUnresolved`), inductive together with types.
`RecursionIsBounded` needs `ChainCoversStack`: every activation but the outermost
has its name in the chain, and the chain is empty where there is at most one. A
reference enters only names that are not in the chain, so no two activations have
the same name. `EntriesAreFinal` (`ResolvedOnce`): where references have a rank,
ranks fall along the stack (`StackDescends`), so the running activation is none of
those below it, and what is being resolved has no entry in the table
(`OpenEntries`); `FinishEntry` therefore never overwrites one.
`NilIsBehindReference` (`NilOnlyIfReferenced`): each activation is a reference of
the one below it (`StackFollowsReferences`), so a failure is recorded either for a
name that is referred to, or by the outermost call, which makes the pass fail
(`NilIsReferenced`).

`ProvenanceHolds` (`Provenance`) and `OracleHolds` (`MatchesOracle`) say what a pass
yields, not only how it goes. For the first, the address in hand is an answer of one of
the running activation's sources after the transformers passed so far (`Underway`), and
the table's are the same after all of them (`ProvenanceOK`). For the second, `Expected`
and `Transformed` are recursive functions of the configuration; that each has a value
everywhere, and the one its recursion asks for, is shown by building it up along the
ranks of the references (`ExpectedSteps`) and the positions of the transformers
(`TransformedSteps`), with the induction of `InductionTo`. `OracleOK` then has every
activation's earlier sources yield nothing (`StackTried`), so that the first one that
yields something is the oracle's first (`FirstYield`), and what is returned and recorded
is the oracle's value. A false loop would break this; `ChainFresh` excludes it: as long
as references come last, nothing but what is being resolved is in the chain when a
reference is looked up.

**Publisher** (`PublisherProofs`). The base invariant is `Inv`: types, and `LoopsOK`,
which says where the loops over the domains stand and that a pending request is
about the domain in turn. On it rest
`HandlesAreOurs` and `InstancesDontInterfere`, by `Ours`: handles in memory, in
replies and in late requests are of records with the right key, or of deleted
ones — ids are not reused, hence no record a handle names ever changes its key.
They hold under *every* fault, and with distinct keys so does `OwnersDiffer`
(`OneOwner`): two entries that remembered one record would have one key. `PartialSuccess` (`FailuresDontStopOthers`), by
`Passed`, under every fault too. `WritesAreWanted` (`WrittenIsWanted`) assumes that no request
outlives its sender. `NeverDuplicate` (`SingleRecord`) assumes `Reliable` (distinct
keys, at most one zone per name, no lost reply, no late request) and `InitialFits`
(the service starts without duplicates); `SingleInv` adds that an entry without a
handle has no record, except while the reply about it is on its way, and that
records are in a zone where `FindRecord` looks. It covers crashes between creation and
reply, restarts, refusals and deletions by others.

`NeverBack` (`NoRollback`) assumes `Forward`, which numbers addresses in the order in
which they are taken, and that no request outlives its sender; with late requests it is
false. It is not inductive alone: what a record has is `Behind` what its address has
now, or will have when it has a value again, and no newer than what a running pass
is about to write over it (`RecordsBehind`); what the pass is about to write is itself
`Behind` the address (`AimsBehind`). It covers several instances in the middle of
their passes, lost replies and crashes.

**Publisher implements ManagedDns** (also in `PublisherProofs`). The theorems assume that
the service answers (`Answering`: no refusals, lost or late requests, nobody else's
hands on the records), `InitialFits`, and that it never runs out of ids (`[]Room`).
Then `MemoryAgrees` (`CacheAgrees`): the address in memory is that of the record
whose handle is in memory, except while the write about it is on its way. The
refinement (`Refinement`) rests on it: a skipped domain is a `Settle` that
changes nothing, because the record already has the address; `Serve` is the `Settle` of
a written one; a crash or a failing start is `End` or a stutter. Without
`Answering` it is false, `publisher_skip` shows why.

**Naming** (`NamingProofs`), for texts of any length. `MarksDiffer`: two instances
with non-empty names without a dash have no mark in common, as the name ends at the
first dash behind the program's. `ZonesAreNested`: of two zones that a name ends in, one
ends in the other, so that the map order matters only between nested ones. From them
`RecordsApart` gives `OneOwner`, and `ConfiguredApart` `SingleRecord`, with the assumptions
on keys and zones replaced by conditions on what is written in the configuration
(`EntriesDiffer`, `NotNested`). `ZonesAreNamed` (`InNamedZone`): every record is in a
zone its name ends in, under every fault, as is every request that is on its way
(`InZone`), if the service starts so (`InitialInZone`).

**MaskRewrite** (`MaskRewriteProofs`), for addresses and chains of any length.
`TypeCorrect`; `IndexesInRange` (`InRange`), by `BuiltOK`: every value built is what
`newMaskRewrite` makes of an accepted configuration, whose mask has a bit for each of
the overwrite (`BitsAreKept`), and `IPOK`: an address keeps its length through the
chain. `LastWins` (`LastOverwriteWins`) is inductive with these: the transformer in turn
keeps a bit, or becomes the last that does not. `FamiliesAreTold` (`FamilyGuard`), by
`PassedOK`: lengths of overwrites passed and of the one refused.

**PidFile** (`PidFileProofs`). `TypeCorrect`; `NeverStale` (`NoStaleFile`) needs
`NotYetArmed`: the interrupt goroutine exists only once `Notify` is past.
`LeftBehind` (`StaleStays`).

**HttpSource** (`HttpSourceProofs`), for pages of any length and any configurations.
`TypeCorrect`; `YieldsOwn` (`OwnAddress`): where the server shows the address it sees,
each item of the body is that of the connection (`BodyOK`), and the connection of a
source with a type was made in this lookup, from an address held since (`PeerOK`), whether
or not the type is that of a family.
`YieldsFamily` (`AskedFamily`). `ShownIsFound` (`FoundIfThere`) assumes that there is no
simple source for IPv4 (`NoSimple4`), which would find nothing.

**InterfaceSource** (`InterfaceSourceProofs`), for tables of any length on both systems.
`TypeCorrect`; `Documented` (`PicksAsDocumented`) goes from the text of the configuration
to the address. Documented spellings are decoded to what they mean (`ConfigOK`); the flags of an
address say what the kernel says of it (`AddrsOK`); so `Discarded` is the negation of
`Eligible` (`DiscardedIffNotEligible`); and the candidates are the eligible addresses up
to the loop's position, in their order (`CandidateOK`, by an increasing sequence
of positions), so that first, last and shortest among them are those of the
table. `OfTheLink` (`AddressOfLink`) rests on what the histories hold while the kernel is
asked: the links that have the name now, and the addresses of all that have had it
(`HeldOK`); so what is read for the link that was found is among them, whatever has become
of its name, and stays there (`AddrOKStays`).

**Service implements Publisher** (`ServiceProofs`). `Refinement`
(`ImplementsPublisher`) uses the theorems about both components, instantiated over the
variables of `Service` (`RP`, `PP`); the first lemmas say that these instances are the
ones `Service` is built from. The invariant has what the resolver promises the
publisher: the table of the pass is what the publisher takes the addresses for
(`KnownIsTable`); a pass that succeeded has dealt with every name and one that failed has
met an address without a value (`OutcomeWhileUp`, from `OutcomeInductive`), so that
`Publish` hands over a full set of addresses and `SkipUpdate` happens only when
`Publisher` would skip; and one process runs at a time (`OneUp`). `TypeCorrect`, and
`RecordsAreSafe`: with the refinement, `HandleIsOurs`, `NoInterference` and
`FailuresDontStopOthers` are true of the whole program, for any configuration.

The hypotheses of the theorems are satisfied by the instances that TLC checks: the `MC`
modules assert `UniqueKeys`, `OneZone` and `Forward` (`InstanceFits`), `EntriesDiffer`,
`ZonesFromNames` and `InitialInZone` (`SettingsFit`), and `NoSimple4` (`SourcesFit`), and
TLC evaluates them.

**Only model-checked.** The liveness properties `PassEnds`, `TickIsServed`, `Delivered`,
`LookupEnds`, `LookupReturns` and `Converges`: fairness and `ENABLED` are beyond the
provers. Every safety and action property, and both refinements, that a passing run
checks is stated by a theorem.

## 5. What is not modelled

* Logging, and the registries of sources and providers: no state, and no decision of
  the program depends on them. The file formats of the configuration, and durations.
* Time: the ticker may tick at any moment; a deadline is an event that may happen.
* TTL and the proxied flag of a record, which no decision depends on. That only the
  first page of a list of records is read: the service filters by name and type, so
  that there would have to be more records for one name than fit on a page.
* The characters of a page: an item that the limit cuts leaves one of the texts of
  `Pieces`, which the instance chooses; a piece of a mapped text counts as bad.
  Addresses with a zone (`%eth0`) count as bad, as they are rejected in the same
  place. Proxies.
* A transformer that gets a nil address fails: the lengths differ. The one
  exception, an unset `overwrite` with mask 0, yields nil again, which the resolver
  treats as a failure at the end of the entry instead of at the next source.
* A failing lookup yields no address besides the error, as in all sources.
* Several processes with resolvers of their own at the same time: `Service` runs one
  at a time, `Publisher` several with addresses that change by themselves.
* In `netif`, attributes of links other than index and name, and the functions
  nothing calls.

## 6. Plan

1. *Core (done):* `Resolver`, `Publisher`, the sources, the transformer, the pid file.
2. *Composition (done):* `Service`.
3. *Abstract specifications:* `ManagedDns` (done). Left: `AddressTable` (a pass fixes
   each address once, in any order), implemented by `Resolver`.
4. *Names (done):* `Naming`, in the instance of `publisher_marks` and as theorems.
5. *Both systems, decoding, mapped and cut addresses (done).*
6. *Proofs, done:* every invariant, action property and refinement of the passing runs.
   *Left:* more of `Publisher`'s theorems carried over to `Service` (`NeverBack`,
   `NeverDuplicate`), and `AddressTable`.
