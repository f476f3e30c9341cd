------------------------------ MODULE Portscan ------------------------------
(***************************************************************************)
(* run_portscan (explorator-plugins/src/portscan.rs): one run of the       *)
(* portscan plugin.                                                        *)
(*                                                                         *)
(* One tokio task per host and port takes a permit, tries a TCP handshake  *)
(* with a timeout, and ends.  The plugin joins the tasks in the order in   *)
(* which they end, sorts the open ports of every host and reports a Port   *)
(* entity for each, and after them the host again, related to its ports.   *)
(*                                                                         *)
(* The input is a list, not a set: dnsx reports an address once for every  *)
(* name that resolves to it.  Of a list that is filtered, what remains     *)
(* keeps its position here: positions only tell tasks apart.               *)
(***************************************************************************)
EXTENDS Naturals, Sequences, FiniteSets, Functions

CONSTANTS
  Values,        \* values of entities
  Addresses,     \* the values that parse as an IP address
  U16,           \* the number of ports, 2^16 in the code
  DEFAULT_PORTS, \* the ports to scan if the configuration names none
  Inputs,        \* the inputs, sequences of [type, value]
  Configs        \* the configurations, [ports, concurrency]

ASSUME AddressesAssumption == Addresses \subseteq Values
ASSUME U16Assumption       == U16 \in Nat \ {0}
ASSUME PortsAssumption     == DEFAULT_PORTS \in Seq(0 .. U16 - 1)
ASSUME ConfigsAssumption   == Configs \subseteq [ports : Seq(Nat), concurrency : Nat]

VARIABLES
  hosts,         \* the addresses of the input, each at its position
  ports,         \* the ports to scan, each at its position
  listening,     \* the <<address, port>> pairs that accept connections
  phase,         \* where run_portscan is
  pc,            \* pc[t]: where task t is
  outcome,       \* outcome[t]: whether the handshake was completed
  permits,       \* free permits of the semaphore
  open_by_host,  \* open_by_host[v]: the open ports joined so far, not yet reported
  results        \* the entities reported so far

vars == << hosts, ports, listening, phase, pc, outcome, permits, open_by_host,
           results >>

-----------------------------------------------------------------------------

\* What fits a u16 of the configured ports, or the defaults.
ScanPorts(config) ==
  LET given == RestrictValues(config.ports, LAMBDA n : n < U16)
  IN  IF DOMAIN given = {} THEN DEFAULT_PORTS ELSE given

\* Mutant of Permits: a concurrency of 0 is taken as it is.
PermitsAsGiven(concurrency) == concurrency

Permits(concurrency) == IF concurrency = 0 THEN 1 ELSE concurrency

\* A task for every host that parses and every port, repeated ones included.
Tasks ==
  {h \in DOMAIN hosts : hosts[h].value \in Addresses} \X DOMAIN ports

ValueOf(t) == hosts[t[1]].value
PortOf(t)  == ports[t[2]]

Connecting == {t \in Tasks : pc[t] = "connecting"}

Init ==
  /\ \E in \in Inputs : hosts = RestrictValues(in, LAMBDA e : e.type = "ip_address")
  /\ \E config \in Configs :
       /\ ports = ScanPorts(config)
       /\ permits = Permits(config.concurrency)
  /\ listening \in SUBSET (Addresses \X {ports[p] : p \in DOMAIN ports})
  /\ phase = IF DOMAIN hosts = {} THEN "returned" ELSE "joining"
  /\ pc = [t \in Tasks |-> "acquiring"]
  /\ outcome = [t \in Tasks |-> "none"]
  /\ open_by_host = [v \in Values |-> << >>]
  /\ results = << >>

-----------------------------------------------------------------------------

Acquire(t) ==
  /\ phase = "joining"
  /\ pc[t] = "acquiring"
  /\ permits > 0
  /\ permits' = permits - 1
  /\ pc' = [pc EXCEPT ![t] = "connecting"]
  /\ UNCHANGED << hosts, ports, listening, phase, outcome, open_by_host, results >>

\* Mutant of End: a handshake that failed keeps its permit.
EndWithPermit(t, found) ==
  /\ phase = "joining"
  /\ pc[t] = "connecting"
  /\ pc' = [pc EXCEPT ![t] = "ended"]
  /\ outcome' = [outcome EXCEPT ![t] = found]
  /\ permits' = IF found = "open" THEN permits + 1 ELSE permits
  /\ UNCHANGED << hosts, ports, listening, phase, open_by_host, results >>

\* The task ends, and its permit is dropped.
End(t, found) ==
  /\ phase = "joining"
  /\ pc[t] = "connecting"
  /\ pc' = [pc EXCEPT ![t] = "ended"]
  /\ outcome' = [outcome EXCEPT ![t] = found]
  /\ permits' = permits + 1
  /\ UNCHANGED << hosts, ports, listening, phase, open_by_host, results >>

Connects(t)       == << ValueOf(t), PortOf(t) >> \in listening /\ End(t, "open")
Refused(t)        == << ValueOf(t), PortOf(t) >> \notin listening /\ End(t, "closed")
ConnectTimeout(t) == End(t, "closed")

\* Mutant of Joined: a host keeps one port.
JoinedOverwrites(t) ==
  open_by_host' = IF outcome[t] = "open"
                  THEN [open_by_host EXCEPT ![ValueOf(t)] = << PortOf(t) >>]
                  ELSE open_by_host

Joined(t) ==
  open_by_host' = IF outcome[t] = "open"
                  THEN [open_by_host EXCEPT ![ValueOf(t)] = Append(@, PortOf(t))]
                  ELSE open_by_host

\* join_next hands over any task that has ended.
Join(t) ==
  /\ phase = "joining"
  /\ pc[t] = "ended"
  /\ pc' = [pc EXCEPT ![t] = "joined"]
  /\ Joined(t)
  /\ UNCHANGED << hosts, ports, listening, phase, outcome, permits, results >>

-----------------------------------------------------------------------------

\* An entity's id is its position in results.
PortEntity(v, port) == [type |-> "port", value |-> v, port |-> port, relations |-> << >>]
HostEntity(v, ids)  == [type |-> "ip_address", value |-> v, port |-> 0, relations |-> ids]

\* What sort_unstable makes of a list.  Equal numbers cannot be told apart, so
\* there is exactly one such list.
Ascending(s) ==
  {t \in {[n \in DOMAIN s |-> s[f[n]]] : f \in Bijection(DOMAIN s, DOMAIN s)} :
     \A m, n \in DOMAIN s : m < n => t[m] <= t[n]}

\* Mutant of Report: port_relations is not emptied between two hosts.
ReportAll(v, found) ==
  results \o [n \in DOMAIN found |-> PortEntity(v, found[n])]
    \o << HostEntity(v, [n \in 1 .. Len(results) + Len(found) |-> n]) >>

\* The open ports of one host, then the host.
Report(v, found) ==
  results \o [n \in DOMAIN found |-> PortEntity(v, found[n])]
    \o << HostEntity(v, [n \in DOMAIN found |-> Len(results) + n]) >>

AllJoined == \A t \in Tasks : pc[t] = "joined"

\* The loop over open_by_host, a HashMap: the hosts come in any order.
ReportHost(v) ==
  /\ phase = "joining"
  /\ AllJoined
  /\ open_by_host[v] # << >>
  /\ \E found \in Ascending(open_by_host[v]) : results' = Report(v, found)
  /\ open_by_host' = [open_by_host EXCEPT ![v] = << >>]
  /\ UNCHANGED << hosts, ports, listening, phase, pc, outcome, permits >>

Return ==
  /\ phase = "joining"
  /\ AllJoined
  /\ \A v \in Values : open_by_host[v] = << >>
  /\ phase' = "returned"
  /\ UNCHANGED << hosts, ports, listening, pc, outcome, permits, open_by_host, results >>

\* The engine drops the future when the stage times out, which can only
\* happen while it awaits join_next: the JoinSet aborts the tasks.
Cancel ==
  /\ phase = "joining"
  /\ ~ AllJoined
  /\ phase' = "cancelled"
  /\ UNCHANGED << hosts, ports, listening, pc, outcome, permits, open_by_host, results >>

TaskStep(t) == Acquire(t) \/ Connects(t) \/ Refused(t) \/ ConnectTimeout(t)
RunStep     == (\E t \in Tasks : Join(t)) \/ (\E v \in Values : ReportHost(v)) \/ Return

Over == phase # "joining" /\ UNCHANGED vars

Next == (\E t \in Tasks : TaskStep(t)) \/ RunStep \/ Cancel \/ Over

Spec == Init /\ [][Next]_vars

\* Every position a host and a port can have.
Positions ==
  (UNION {DOMAIN in : in \in Inputs})
    \X (UNION {DOMAIN ScanPorts(config) : config \in Configs})

\* The runtime polls every task that can go on, and the timeout ends every
\* handshake.  A task takes a permit once, so weak fairness is enough.
Fairness ==
  /\ \A t \in Positions : WF_vars(t \in Tasks /\ TaskStep(t))
  /\ WF_vars(RunStep)

FairSpec == Spec /\ Fairness

-----------------------------------------------------------------------------
(***************************************************************************)
(* Properties                                                              *)
(***************************************************************************)

\* Types (portscan.rs, run_portscan).
TypeOK ==
  /\ \A p \in DOMAIN ports : ports[p] \in 0 .. U16 - 1
  /\ phase \in {"joining", "returned", "cancelled"}
  /\ pc \in [Tasks -> {"acquiring", "connecting", "ended", "joined"}]
  /\ outcome \in [Tasks -> {"none", "open", "closed"}]
  /\ permits \in Nat
  /\ open_by_host \in [Values -> Seq({ports[p] : p \in DOMAIN ports})]

\* The semaphore's books balance: a permit is free or held by one handshake,
\* whatever becomes of it, and there is at least one.
PermitsBalance ==
  /\ IsFiniteSet(Connecting)
  /\ permits + Cardinality(Connecting) \in {Permits(config.concurrency) : config \in Configs}

\* What a host is noted to have open is what a handshake found there, and it
\* found what is there.
OpenedListens ==
  /\ \A t \in Tasks :
       /\ outcome[t] # "none" <=> pc[t] \in {"ended", "joined"}
       /\ outcome[t] = "open" => << ValueOf(t), PortOf(t) >> \in listening
  /\ \A v \in Values : \A k \in DOMAIN open_by_host[v] :
       << v, open_by_host[v][k] >> \in listening

\* While tasks wait for a permit, one is free or a handshake is under way that
\* will free one, also when a concurrency of 0 is configured
\* (portscan.rs:69, the max(1)).
NobodyStarves ==
  phase = "joining" /\ (\E t \in Tasks : pc[t] = "acquiring") =>
    permits > 0 \/ Connecting # {}

\* The inductive invariant of the scan tasks and the join loop.
PInv ==
  /\ TypeOK
  /\ PermitsBalance
  /\ OpenedListens
  /\ NobodyStarves

Opened(v, port) ==
  {t \in Tasks : outcome[t] = "open" /\ ValueOf(t) = v /\ PortOf(t) = port}
Reported(v, port) ==
  {n \in DOMAIN results : results[n] = PortEntity(v, port)}

PortsOf(v) == {n \in DOMAIN results : results[n].type = "port" /\ results[n].value = v}
HostsOf(v) == {n \in DOMAIN results : results[n].type # "port" /\ results[n].value = v}

\* The report does not depend on the order in which handshakes and joins
\* happen: every handshake that was completed is one Port entity, no other is,
\* none is for a number beyond a u16 that the configuration names, and the
\* ports of a host are in ascending order.
HandshakesReported ==
  phase = "returned" =>
    /\ \A v \in Values : \A p \in DOMAIN ports :
         Cardinality(Reported(v, ports[p])) = Cardinality(Opened(v, ports[p]))
    /\ \A n \in DOMAIN results : results[n].port < U16
    /\ \A v \in Values : \A m, n \in PortsOf(v) : m < n => results[m].port <= results[n].port

\* A host with open ports is reported once, after its ports, and related to
\* all of them and to nothing else: to the first instance of a port too, the
\* one EntityGraph keeps when the input lists an address twice.
HostsLinkTheirPorts ==
  phase = "returned" =>
    \A v \in Values :
      /\ Cardinality(HostsOf(v)) = IF PortsOf(v) = {} THEN 0 ELSE 1
      /\ \A h \in HostsOf(v) :
           /\ Range(results[h].relations) = PortsOf(v)
           /\ \A n \in PortsOf(v) : n < h

Noted(v, port)  == {k \in DOMAIN open_by_host[v] : open_by_host[v][k] = port}
Joins(v, port) == {t \in Opened(v, port) : pc[t] = "joined"}

\* The port of every completed handshake that was joined is noted or reported,
\* never both.
CountInv ==
  \A v \in Values : \A p \in DOMAIN ports :
    /\ IsFiniteSet(Joins(v, ports[p]))
    /\ Cardinality(Joins(v, ports[p]))
         = Cardinality(Noted(v, ports[p])) + Cardinality(Reported(v, ports[p]))

\* A host is reported when all tasks are joined, and then no more is noted of it.
HostsInv ==
  /\ results \in Seq([type : {"port", "ip_address"}, value : Values,
                      port : 0 .. U16 - 1, relations : Seq(Nat)])
  /\ results # << >> => AllJoined
  /\ phase = "returned" => AllJoined /\ \A v \in Values : open_by_host[v] = << >>
  /\ \A v \in Values :
       \/ PortsOf(v) = {} /\ HostsOf(v) = {}
       \/ /\ open_by_host[v] = << >>
          /\ PortsOf(v) # {}
          /\ \E h \in DOMAIN results :
               /\ HostsOf(v) = {h}
               /\ Range(results[h].relations) = PortsOf(v)
               /\ \A n \in PortsOf(v) : n < h

\* run_portscan returns, however many tasks wait for however few permits.
ScanEnds == <>(phase # "joining")

=============================================================================
