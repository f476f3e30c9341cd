# explorator in TLA+

explorator runs reconnaissance pipelines: a TOML file names stages, each stage
runs a plugin on what another stage found, and everything found is merged into
one graph. This directory models the code in TLA+, checks the models with TLC
on small instances, and proves the most important properties with TLAPS for all
instances.

## 1. Inventory

| Component | State | Operations | Hard about it | What makes it correct |
|---|---|---|---|---|
| Pipeline definitions, `explorator-core/src/pipeline.rs` | the parsed definition, immutable | `parse`, `validate`, `dependencies` | what validation lets through | an accepted pipeline can be run |
| Engine, `explorator-core/src/engine.rs` | per call: watch channels, semaphore, JoinSet, one task per stage, graph, first error | `execute`, `run_with_retry`, `wait_for_stage`, `assert_acyclic` | tasks wait for each other and for permits; failures, timeouts, retries and panics in any order | declared order, bounded concurrency, no deadlock, nobody hangs on a failure, the verdict covers all stages |
| Entity graph, `explorator-core/src/graph.rs`, `entity.rs` | nodes, two indexes, edges, pending relations | `add_entity`, `add_entities`, readers | instances of one thing come in any order, relations before their targets | one node per thing, nothing lost, relations become edges |
| Plugin trait and registry, `plugin.rs`, `explorator-plugins/src/lib.rs` | name to plugin, filled at startup | `register`, `get`, `contains` | none | lookups before the first spawn suffice |
| portscan, `portscan.rs` | scan tasks, semaphore, open ports per host | `run_portscan` | tasks race; the input lists an address more than once | the report does not depend on the race |
| dnsx, `dnsx.rs`, `dns_wire.rs` | sockets, one process-wide id counter | `resolve`, `query`, `parse_response` | UDP loses, delays and repeats; stages share the counter | no answer reaches the wrong question; lookups end |
| whois, `whois.rs` | the current server | `resolve_whois_text` | referral loops; first error ends the stage | at most four lookups per entity |
| certsh, `certsh.rs` | none kept | three sources per domain, SAN extraction | which failures fail the stage | a domain fails only without any name |
| httpx, `httpx.rs` | none kept | `run_httpx`, `probe` | relations to hosts whose instance collapsed | one URL per live scheme |
| subfinder, katana, nuclei | a child process | `run_*` | a child outlives a stage that timed out | a failed child fails the stage |
| X.509 reader, `x509.rs` | slices of the certificate | `read_tlv`, `iter_tlvs`, `extract_san_dns_names` | lengths from an untrusted certificate, loops in loops | stays inside, ends, reports the names that are there |
| Command line, `explorator-cli/src/main.rs` | none kept | `run`, `validate`, `plugins` | `validate`, `run` and `execute` check different things; answers come in any order | what is printed is complete; the checks agree |
| API server, web page | none | every route answers 501 | none | nothing to model |

How they interact: the command line calls `execute` once with the registry and
one seed entity. `execute` spawns a task per stage. Tasks share the channels,
the semaphore and nothing else; each calls its plugin with the entities that
its input stage broadcast. The join loop hands the output of every stage, in
the order in which they end, to `EntityGraph::add_entities`. Plugins are pure
but for I/O and the id counter of dnsx. `Recon` composes the command line, the
engine and the graph.

## 2. Modules

| Module | Models | Proofs |
|---|---|---|
| `Pipeline` | definitions, `validate`, `assert_acyclic`, the plugin lookup | |
| `Engine` | one call of `execute` | `EngineProofs` |
| `EngineInvariants` | its inductive invariant `IInv`, in named parts | |
| `StageSchedule` | what a call promises: the abstract specification | |
| `EngineRefinement` | the mapping from `Engine` to `StageSchedule` | `EngineProofs` |
| `EntityGraph` | `add_entity` and the readers | `EntityGraphProofs` |
| `Portscan` | one run of the portscan plugin | `PortscanProofs` |
| `DnsResolver` | the lookups of all dnsx stages of a run | `DnsResolverProofs` |
| `DnsWire` | the DNS messages: `build_query`, `parse_response`, `read_name` | `DnsWireProofs` |
| `DnsMessage` | what a datagram stands for: messages and queries, as RFC 1035 encodes them | `DnsWireProofs` |
| `PluginCall` | what the run functions of the other plugins have in common | |
| `Collector` | subfinder, katana, nuclei, httpx, dnsx | |
| `Certsh`, `Whois` | certsh, whois | |
| `PluginTypes` | the registry that `register_all` fills: names and declared types | |
| `Plugins` | a call of any of these, and what is expected of it | `PluginsProofs` |
| `X509` | the walk from a certificate to its host names | `X509Proofs` |
| `Certificate` | what a certificate says: forms of certificates, and how they are written | `X509Proofs` |
| `Recon` | the commands `run` and `validate`: `Engine` and `EntityGraph` composed | `ReconProofs` |
| `MCEngine`, `MCEntityGraph`, `MCPortscan`, `MCDnsResolver`, `MCDnsWire`, `MCPlugins`, `MCX509`, `MCRecon` | the instances for TLC | |

Operators whose comment begins with "Mutant of" play no part in a
specification. Each is its namesake with one plausible bug; with it in place,
the run named in `PROJECT.json` reports the property violated.

### Engine

`pc[i]` is where the task of stage i is, and its values are the awaits of the
block in `execute`:

| `pc[i]` | code |
|---|---|
| `unspawned` | the spawn loop has not reached the stage |
| `waiting` | `wait_for_stage` on `extra_dep_rxs` and `input_rx` |
| `acquiring` | `acquire_owned` |
| `running`, `hung` | in `plugin.run`; hung if this attempt will not answer |
| `backoff` | the sleep of `run_with_retry` |
| `sent` | after `tx.send`, the permit still held |
| `done`, `joined` | ended; taken by `join_next` |

`phase` is where `execute` itself is. One step is what a task does between two
points at which others can see it. The waits of a task are one step, since a
channel that holds a value keeps it (proved: `BroadcastsAreFinal`). Tasks run
while the spawn loop is still at work. A panic in a task is noticed by the join
loop; a panic of `execute` drops the JoinSet, which aborts all tasks, so no
task moves any more (`TasksAlive`). The error values, the length of a backoff
and the configuration of a plugin are left out. Entities are values that a
stage may answer with; how the graph merges them is `EntityGraph`.

The plugin is the environment. An attempt may answer with any set of
`Outputs`, fail, never answer, or panic.

### EntityGraph

An instance id is an element of `Ids`, and `KeyOf` gives the (type, value) pair
it stands for, as an entity never changes either. Nodes are numbered in the
order of insertion, which is what petgraph's stable indices are without
removals. Parallel edges are counted, and so are equal entries of
`pending_edges`. `log` is a history of the calls, read only by properties.
Confidence and timestamps are numbers, metadata has a shape (null, object,
anything else) and fields. The relations of an instance are a list, as the Vec of
the code is, and an entry that is there twice becomes two edges (`Places`).

### Portscan

A task is a (host, port) pair by position, so an address that the input lists
twice is scanned twice, as in the code. What a filter leaves of a list keeps its
position, which only tells tasks apart. An entity's id is its position in the
report. `Ascending` is what `sort_unstable` may make of the ports of a host: one
list, and always one (proved: `SortingSucceeds`, `SortingIsUnique`). The set of
listening ports is chosen at the start; a connection to one of them may still
time out. `Cancel` is the engine dropping the plugin's future when the stage
times out.

### DnsResolver

`asked` is the set of queries that reached the network; any of them may be
answered at any time, any number of times, or never. A socket gets any port
that is not bound, the port of a closed socket included. An answer is told
apart by the question it was asked for, and whether it holds records. The
resolvers are those of `/etc/resolv.conf` or the two public ones, as the
constant `Resolvers`.

### DnsWire

One step is one turn of a loop: a question skipped, the head of an answer, a
label, a pointer, a string. `pc = "reading"` is the loop of `read_name`, and
`caller` says what it was called for, since what happens to a name that cannot
be read depends on that. Names are sequences of labels and texts sequences of
strings; a label stands for the string that `from_utf8_lossy` makes of its
octets. `DnsResolver` uses of all this only that an answer has an id, and
records or none.

The reference that `AnswersAsMeant` and `QuestionReadsBack` compare with is
`DnsMessage`: messages as RFC 1035 encodes them, with the records they mean. An
answer there has the name of the question, as a pointer, and the target of an
answer may end in a pointer to it. A datagram may be anything; the properties
speak of those that are the beginning of a message or a query as `build_query`
writes it.

### Plugins

The run functions go through the seeds of their input and ask a service about
each, so they share the state of `PluginCall`: the seed, the place within it,
and the results. Passing over an entity that a plugin does not care for is a
step of its own (`PassOver`), which is what the filter of its loop does.
`results` is a set, as each entity has an identity of its own and no property is
about the order in which a plugin lists them. A service answers with items or
fails, and `ClientFails` is httpx or certsh without an HTTP client, which asks
nothing and returns an error; `asked` is a history of the questions and answers, read only by
properties. Identities are made from the number of the question and the place in
its answer. A line of a program that does not parse, or has not what is needed,
makes no entity (`Counts`). Metadata is left out,
so of a DNS record there is its address, or that it is a text or something
else. A whois text is a sequence of lines, each with its label and what is left
of its value when it is trimmed; `FirstField` is both `extract_field` and the
search of `find_referral`. A child program is waited for without a timeout;
`Cancel` is the engine's.

### X509

A certificate is a sequence of octets, and what the code keeps as the rest of a
slice is a suffix here. One step is one turn of a loop: a field before the
extensions, an extension, a name. Which octets are UTF-8 is asked of the
constant `IsUtf8`. The code adds lengths as `usize` of 64 bits; four length
octets stay far below that, so nothing wraps. `Certificate` is the reference: a
form has any fields in front, any extensions and any general names, and is
written in DER or with longer lengths, together with the names it is meant to
have. Where a form writes a length in more than four octets, `read_tlv` gives up,
and no names are meant.

### Recon

`Engine` adds the whole answer of a stage to a set; `Recon` runs the same steps,
but an answer is a list (`report`), and joining a stage puts the list into
`batch`, from which one entity after the other goes through the `AddEntity` of
`EntityGraph` while the other stages run on. `exit` is how the process ends.
Before the call, `run` and `validate` load and check the pipeline
(`KnownPlugins`, `Complaints`). A plugin may answer with anything of
the types it declares, or with something of its input once more, perhaps in
another spelling, as certsh reports the domain it was asked about as the
certificate has it (`certsh.rs:252-253`): this is `ReportsAssumption`, and
`Plugins` checks it of the plugins (`DeclaredTypes`). The graph takes another
spelling for another thing.
The constant `Target` is what `classify_seed` can tell of the seed.

## 3. Runs

| Run | Instance | Shows |
|---|---|---|
| `engine` | a diamond, a chain in reverse order on one permit with retries, a crowd on two permits, a cycle, and all pipelines of two stages over a few names, inputs, dependencies and plugins, wrong ones included | safety of `execute` in every interleaving, and that it implements `StageSchedule`; the call ends unless a plugin without a timeout never answers; a panic brings it down |
| `engine_seed_dependency` | one pipeline | violation: "seed" in `depends_on` passes validation and makes `execute` panic |
| `engine_stage_named_seed` | one pipeline | violation: a dependency on a stage called "seed" is dropped |
| `entity_graph` | five calls over seven instances of three things, with relations in both directions, one of them listed twice | indexes, merges and relations in every order of calls |
| `entity_graph_pending` | four calls | violation: a relation to a collapsed instance stays pending |
| `entity_graph_enrichment` | four calls | violation: a plugin overwrites what another one wrote into a metadata field |
| `portscan` | three inputs (none, one address twice, one that does not parse), three configurations | the report does not depend on the order of handshakes and joins, the ports of a host are in order, and the scan ends |
| `dns_resolver` | two stages, three questions, two resolvers, two ports | no answer reaches the wrong question, no two queries share an id, the lookups end |
| `dns_wire` | all messages of up to two answers of seven kinds, whole and cut after every octet; queries; malformed names and lengths | the reader stays in the datagram, ends, reads a message as what it means, and makes up no record from a cut one |
| `plugins` | up to two seeds among others, two lines, records or certificates per answer | what is reported, of which types, and how it is linked; which sources certsh and whois ask; which failures end a call; that it ends |
| `x509` | certificates of up to two extensions, with lengths of every form, whole, cut after every octet, or with an octet changed | the walk stays inside, ends, and reports exactly the names of the certificate |
| `recon` | three pipelines whose stages report the same host in instances of their own, one where certsh reports the seed in another spelling, one with whois behind subfinder, and seven broken ones | what is printed is complete whatever the order of joins, each answer is added once and in one piece, the checks of `run`, `validate` and `execute` agree, the process ends |

Bounds, and why they suffice. Three or four stages give every way in which a
stage can wait for two others, for a permit and for an input at once; two
retries tell the first, a middle and the last attempt apart. Two possible
answers tell which one was passed on. Two stages on one permit are enough for
every waits-for relation between two, `seed` and unknown names included. `U32 = 8` is above all counts of attempts
in the instances. Five calls of `add_entity` allow two instances of two things
and what relates them, in every order; the bound (`MaxAdds`) is one of
`MCEntityGraph`, the specification has none. Six tasks on one, two and
four permits are more than the permits in each case. Six queries (`MaxQueries`)
are all that three questions and two resolvers can take, so the bound is never
in the way, and `U16 = 6` makes the counter wrap with the last one. Two answers
in a message are a first and a next one, of every pair of kinds; names of four
octets out of 0, 1, 12, 14 and 192 include pointers to themselves and to each
other. Two seeds show what one leaves behind for the next, two lines
(`MaxLines`) a good and a bad one, and whois servers that refer to each other a
loop longer than the limit; `Lookups` has answers with addresses before, after
and around other records, and one address twice; whois gets an address in two
instances. Certificates with two extensions of up to three
names have one to skip, one to read, and one behind it; 300 octets in a name
need a length of two octets. In `recon` three stages report a host as three
instances, so that every one of them is the first in some order of joins; its graph has no
bound, as there are no more calls than entities in the answers.

Deadlock is checked in every run but those of `EntityGraph`, where the calls
simply stop at the bound. The other specifications stutter where the system has
ended, and `Engine` also where a plugin without a timeout never answers.

Fairness. The tokio runtime polls every task that can go on, its semaphore
serves tasks in order, and timers fire, so the steps of each task, of the join
loop and of the call are weakly fair; weak fairness is enough as a task takes a
permit once. Nothing is assumed of a plugin: it may never answer (`PluginHangs`
is one of the fair steps), and then only its timeout, if it has one, ends the
attempt. Queries, requests and handshakes end because each has a timeout of its
own; programs have none, so `CallEnds` says nothing of subfinder, katana and
nuclei. `FairRecon` is the fairness of `Engine` for the process: the steps of
the caller are weakly fair, and so are those of each task.

## 4. Proofs

Each proof module establishes an inductive invariant and derives the properties
from it. They hold for all values of the constants; the assumptions are the
named ones in the modules: pipelines have the shape of the Rust types, U32 has
more than one value, outputs are sets of entities, NotSent is not one, ids have
keys, there is at least one resolver and one local port, the ports of a
configuration are numbers, the entities of an input have identities of their own,
answers of plugins are lists, and what messages and certificates are made of can be
written down: labels have a length, and each length fits the octets it is written
in (`AskedAssumption`, `MessagesAssumption`, `NamesAssumption`, `FormsAssumption`).

Some proofs use induction where no step of the system does it for them: on the
length of a list that is sorted, on the positions of a text, on the elements of a
certificate. That a recursive function is defined is shown the same way, as a
least place where it is not is none (`Induction`, `StepsExist`). The induction
theorems of the library take an operator, which the provers cannot instantiate;
that `<` is well founded on the natural numbers (`NatLessThanWellFounded`,
`WFMin`) is a fact about sets, and serves instead.

`EngineProofs`. DependencyOrder is not inductive: that a task is past its waits
says nothing of what it waited for. `IInv` adds: a channel holds a value exactly
when its stage succeeded or failed, and which (`ChannelInv`); results come with
places in the code (`ResultInv`); a task past its waits has a value in every
channel it awaits, and the one of its input channel as its input
(`WaitedInv`); the bounds of the attempt counter (`AttemptInv`); tasks exist
only for accepted pipelines (`SpawnedInv`); the graph is the seed and what was
joined (`JoinInv`); permits and their holders add up (`PermitsBalance`).

`NobodyIsStuck` (no deadlock while `execute` joins) is the argument that
`assert_acyclic` is there for: suppose no task can move. Then all are joined,
wait for a permit or wait for a broadcast. No permit is held, so by
`PermitsBalance` one is free, and nobody waits for one. Of the tasks that wait
for broadcasts, by `Acyclic` one depends on none of the others, so what it
depends on is joined, did not panic, and by `ChannelInv` has broadcast.

`Engine` implements `StageSchedule` (`ExecuteKeepsSchedule`).
One lemma for every kind of step says that it is a step of the schedule or not
seen in it. `IInv` supplies what the mapped guards need: a task that holds a
permit has waited for its predecessors, which are settled (`WaitedInv`,
`ChannelInv`); the running stages hold permits, so there are at most
`concurrency` of them (`PermitsBalance`); when `execute` returns, all stages are
settled and their answers are in the graph (`JoinInv`). The only panic of the
spawn loop comes from "seed" in `depends_on`.

`EntityGraphProofs`. `GInv` is the types, the agreement of the indexes with the
nodes, and the conservation of relations; a node of every key that was added is
the strengthening needed. Relations are counted by their places in the lists of
the calls (`Carried`), one step of the invariant for each call. `FirstInv` adds that the first instance of a key
is registered under its id; a relation to it is therefore not pending, and as
none is lost it is an edge (`FirstInstancesLinked`). `NodesAreMerges` follows a
call through `merge_metadata`: it changes the node of its own key only, and
there it may give a field its own value or leave it alone, so a field has a value
that some instance gave. It needs that only objects have fields, which is part of the type `Metadata`.

`PortscanProofs`. `PInv`: free permits and handshakes under way add up to the
permits of one configuration, at least one, and only listening ports are noted
as open. `NobodyStarves` follows: while a task waits for a permit, one is free
or will be freed. Of the report: the completed handshakes of an address and port
that were joined are as many as its noted and its reported ports together
(`CountInv`), and as long as something is noted of a host it is not reported
(`HostsInv`). When `run_portscan` returns, nothing is noted any more and all tasks
are joined, which gives `HandshakesReported` (`EveryHandshakeReported`); the ports
of a host are reported in one piece in front of it, which gives
`HostsLinkTheirPorts` (`HostsAreLinked`). Sorting is a bijection of positions, so
it keeps how often a port occurs (`SortingKeeps`), it always has a result
(`SortingSucceeds`, by induction), and never two (`SortingIsUnique`): where two
sorted forms differ first, the one with the smaller number there has more places
for numbers as small as that than the other has. The ports of a host are reported
in one piece, so they are in ascending order in the whole report (`OrderInv`).

`DnsResolverProofs`. `RInv` says that ids in `asked` are below the counter and
belong to one query each, and that a waiting stage has its query in `asked`. An
answer with the expected id is then the answer to that query. It needs
`QueriesAssumption`: fewer than 2^16 queries have been sent since the oldest
answer still under way. Beyond that the property is false of the code.

`DnsWireProofs`. `WInv` adds to the bounds (`ReadsInside`) what the position of
the reader says about its counters and the record it is at. `ReadingEnds` gives
for every step a measure that goes down: what is left of the message, then the
pointers still allowed, then the octets to the end of the datagram. It is the
argument that `jumps > 20` in `read_name` is there for; no assumption is made on
the datagram, and the id is any number.

For `AnswersAsMeant` (`MessagesReadAsMeant`) the invariant is `MInv`: as long as
the datagram is the beginning of a message, the reader is at the question, or
behind it and a whole number of answers (`Read`), or within the next answer,
where what it has read of its name, target or text is what the message says so
far; the records are those of the answers passed. A pointer always leads to the
question, whose labels are then read on behind those of the target. Whatever is
cut off, the position of the reader is one within the message, so it finds an
octet of it or the end. The lemmas behind this say what is at which place of a
message (`FlattenSeq` of encoded pieces), for any number of pieces of any length.
`QInv` is the same for a query sent back, whose labels may be empty:
`build_query` leaves those out, and what remains is read as a question
(`QueriesReadBack`).

`X509Proofs`. `XInv`: what the walk has left to read, and every name it reports,
is a part of the certificate, and each name has taken at least two octets from
it. `WalkEnds` gives for every step a measure that goes down, twice the octets
left in the loops that are open and one for leaving each. Nothing is assumed of
the certificate.

For `NamesAsMeant` (`CertificatesReadAsMeant`) the invariant is `CInv`: each loop
that is open has a whole number of elements of its list behind it, and what it
has left begins with the rest, written out (`InFields`, `InExts`, `InNames`); the
names are those of the elements passed. It rests on what `read_tlv` makes of an
element as written: it finds tag, value and rest (`ReadsElement`), finds nothing
in one cut short (`CutShort`) or with more than four octets of length
(`TooLong`). A certificate is one element, so a cut one is refused at once.

`ReconProofs`. A run of the process is a run of `Engine` (`ReconRunsEngine`), so
everything proved of `Engine` holds in it. `ReconInv` says what the checks have
let through and where inputs and answers come from. For `ChecksAgree`: a
pipeline that passed `Loaded` has known plugins and valid dependencies, so what
`execute` refuses can only have a cycle; and an input of a stage that `validate`
complains of is the answer of its input stage, so by `ReportsAssumption` an
entity of an accepted type in it was in the input of that stage already, in the
same spelling or in another.

`StoreInv` ties the graph to the stages: the log of `add_entity` is the seed and
then the lists of the joined stages, one after the other, each once (`AddedOnce`);
what is still to be added is the rest of one list. A run of the process is
therefore also a run of `EntityGraph` (`ReconRunsGraph`), and `GraphInvariance`,
`FirstInstancesLinked` and `NodesAreMerges` are taken over. For
`PrintedIsComplete` (`PrintedComplete`): `run` prints after `execute` returned Ok,
when all stages are joined and `batch` is empty, so all that was named is in the
log, and the graph has a node for each key of the log. For `SoleInstancesLinked`
(`SoleInstancesAreLinked`): the only instance of a thing is its first one, whose
id is registered.

`PluginsProofs`. Three invariants say where a call is: what is possible at each
place (`PlaceInv`), that questions are about one seed after the other (`AskedInv`),
and that what was reported was made from an answer (`MadeInv`). `LinksMakeSense`
(`RelationsAreSensible`) is inductive with these, since an identity is the number
of its question and the place in the answer. Each other property needs one more:
`DeclaredTypes` (`TypesAreDeclared`) that no seed was passed without a question
(`PassedInv`); `FailuresAreKept` (`FailuresKept`) that nothing has failed while a
call goes on, but for the requests of httpx and certsh (`NoFailureInv`); `AnswersReported` (`NothingIsLost`) that each value
is reported, or kept by dnsx for the host it is at (`ReportedInv`);
`CertshSources` (`SourcesInTurn`) what was asked about the domain certsh is at, and
that `found_any` says whether it had names (`SourcesInv`);
`WhoisFollowsReferrals` (`ReferralsAreFollowed`) that the last `sub - 1` questions
are those about the seed, and that the current server is the one which the last of
them referred to (`LookupInv`). The bound of four lookups comes from
`MAX_REFERRALS`.

Only model-checked:

- the liveness properties (`Terminates`, `PanicPropagates`, `ScanEnds`,
  `LookupsEnd`, `CallEnds`, `ProcessEnds`), which need fairness and ENABLED. The
  theorems `NobodyIsStuck`, `ScanNeverStarves`, `ReadingEnds` and `WalkEnds` are
  the safety part of such arguments.

Every other property of a passing run is a theorem.

## 5. What the models found

- `depends_on = ["seed"]` on a stage that takes its input from another stage is
  valid according to `validate` and makes `execute` panic (`engine.rs:72`).
- A stage may be called "seed". A stage with `input = "seed"` and
  `depends_on = ["seed"]` is not ordered after it (`engine.rs:71`).
- `explorator validate` does not look for cycles (`main.rs:153-184`), so it calls
  pipelines valid that `run` refuses; the exception for cycles in `ChecksAgree` is
  needed for this.
- A seed with a slash is a CIDR range (`main.rs:64`), as the help text offers, but
  no plugin accepts one: the run prints the seed and reports success. This is
  read off the table in `PluginTypes` and not the subject of a run, as is the
  next.
- whois works on subdomains (`whois.rs:48`) but does not declare it
  (`whois.rs:27`), so `validate` refuses pipelines that would find something.
- The id of an instance that collapses into an existing node is not registered
  (`graph.rs:42-49`), so relations to it are pending for ever, contrary to the
  comment on `pending_edges`. This is not a corner case: dnsx, portscan and whois
  give a host that they report again a fresh id, and a stage that reports an
  address or a port twice relates to the second instance as well.
- `merge_metadata` overwrites a field that is there already (`graph.rs:167`),
  although the comment on `EntityGraph` says that "one plugin's enrichment never
  silently overwrites another's". What is kept is what no later instance gives.
  The built-in plugins share no key on one type of entity; two stages of the same
  plugin do (cname, mx, ns and txt of dnsx), and so may any plugin registered next
  to them. Which value stays depends on the order in which stages are joined.

Not promised by any text, but worth knowing: `retries = 4294967295` wraps to no
retry in a release build (`engine.rs:150`); an rcode of any kind, SERVFAIL
included, keeps dnsx from asking the next resolver (`dnsx.rs:133`). A label
of 192 octets or more is sent as a compression pointer (`dns_wire.rs:32`). An
answer cut within the owner name of a record is refused as a whole, one cut
anywhere else gives the records before the cut. A domain whose sources all
answer, but with nothing, fails the certsh stage with "all sources failed"
(`certsh.rs:127`), and with it what was found for the domains before. certsh,
dnsx and whois hand on what they were given, of types that their `output_types`
do not always list; certsh in the spelling of the certificate, so one domain can
become two nodes.

## 6. Plan

Done in this order, the most important behaviour first: engine, its abstract
specification, entity graph, portscan, DNS lookups, DNS messages, the other
plugins, the X.509 reader, the command line with engine and graph composed; the
proof that the engine implements its specification, and the proofs of the graph.

After these came the proofs of `Recon`, of `Plugins` and of the report of
`Portscan`, then `DnsMessage` and `Certificate` with the proofs that messages,
queries and certificates are read as what they mean, and that sorting has one
result only.

Every safety property of the runs is now a theorem as well. What is left to prove
needs more than these provers have: that what is enabled happens, under the
fairness of section 3. What is left to model is listed next.

## 7. Not modelled

Reading and parsing TOML, JSON and command lines; HTTP, TLS and TCP as such;
metadata of the plugins and its wording; arguments of child programs, and a
child that outlives the call that started it; logging and output; the clock; the
API server and the web page, which have no behaviour yet. The table of components in `PROJECT.json` gives the reason for
each part.
