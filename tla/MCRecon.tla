------------------------------ MODULE MCRecon -------------------------------
(***************************************************************************)
(* Instances of Recon for TLC: a domain, which a certificate may spell in  *)
(* another way, and its host www, which three stages may report in         *)
(* instances of their own, with the certificate, an address and a URL.     *)
(***************************************************************************)
EXTENDS Recon

MCTarget == [address |-> FALSE, slash |-> FALSE]

Key(type, value) == [type |-> type, value |-> value]
Domain == Key("Domain", "a.example")
Spelt  == Key("Domain", "A.Example")
Www    == Key("Subdomain", "www.a.example")

MCSameName(one, two) == one = two \/ {one, two} = {"a.example", "A.Example"}

MCKeyOf == [d0 |-> Domain, d1 |-> Domain, d2 |-> Spelt, h1 |-> Www, h2 |-> Www, h3 |-> Www,
            cert |-> Key("Certificate", "1"), ip |-> Key("IpAddress", "10.0.0.1"),
            url |-> Key("Url", "https://www.a.example/"), asn |-> Key("Asn", "AS1")]

MCIds     == DOMAIN MCKeyOf
MCKinds   == {"ResolvesTo", "DiscoveredFrom", "HasCertificate"}
MCSources == {"seed"} \cup DOMAIN Registered

To(target, kind) == [target |-> target, kind |-> kind]

EntityOf(id, source, relations) ==
  [id |-> id, source |-> source, confidence |-> 1, timestamp |-> 1,
   metadata |-> [shape |-> "null", fields |-> << >>], relations |-> relations]

SeedDomain == EntityOf("d0", "seed", << >>)
Found(id)  == EntityOf("h1", "subfinder", << To(id, "DiscoveredFrom") >>)
Cert       == EntityOf("cert", "certsh", << >>)
Named      == EntityOf("h2", "certsh",
                       << To("cert", "HasCertificate"), To("d0", "DiscoveredFrom") >>)
RootNamed  == EntityOf("d2", "certsh", << To("cert", "HasCertificate") >>)
Address    == EntityOf("ip", "dnsx", << >>)
HostAgain  == EntityOf("h3", "dnsx", << To("ip", "ResolvesTo") >>)
SeedAgain  == EntityOf("d1", "dnsx", << To("ip", "ResolvesTo") >>)
Page(id)   == EntityOf("url", "httpx", << To(id, "DiscoveredFrom") >>)
Network    == EntityOf("asn", "whois", << >>)

MCSeed == {SeedDomain}

\* What the input has of that type; is there something of that key?
OfType(type, taken) == {e \in taken : KeyOf[e.id].type = type}
Given(key, taken)   == \E e \in taken : KeyOf[e.id] = key

MCReports(plugin, taken) ==
  {<< >>} \cup
  CASE plugin = "subfinder"                       ->
         {<< Found(e.id) >> : e \in OfType("Domain", taken)}
    [] plugin = "certsh" /\ Given(Domain, taken)    ->
         {<< Cert, Named >>, << Cert, RootNamed >>}
    [] plugin = "dnsx" /\ Given(Www, taken)         -> {<< Address, HostAgain >>}
    [] plugin = "dnsx" /\ Given(Domain, taken)      -> {<< Address, SeedAgain >>}
    [] plugin = "httpx" /\ Given(Www, taken)        ->
         {<< Page(e.id) >> : e \in {e \in taken : KeyOf[e.id] = Www}}
    [] plugin = "whois" /\ Given(Www, taken)        -> {<< Network >>}
    [] OTHER                                        -> {}

MCOutputs ==
  {{}, {Found("d0")}, {Found("d1")}, {Found("d2")},
   {Cert, Named}, {Cert, RootNamed}, {Address, HostAgain}, {Address, SeedAgain},
   {Page("h1")}, {Page("h2")}, {Page("h3")}, {Network}}
MCEntities == MCSeed \cup UNION MCOutputs
\* Not a set of entities.
MCNotSent  == {EntityOf("none", "none", << >>)}
MCRegistry == DOMAIN Registered

-----------------------------------------------------------------------------

StageOf(name, plugin, in, deps, timed, retries) ==
  [name |-> name, plugin |-> plugin, input |-> in, depends_on |-> deps,
   timed |-> timed, retries |-> retries]
PipelineOf(stages) == [concurrency |-> 2, stages |-> stages]

Subs  == StageOf("subs", "subfinder", "seed", {}, TRUE, 0)
Certs == StageOf("certs", "certsh", "seed", {}, FALSE, 0)

\* Three stages report the host, one of them the address as well.
Hosts == PipelineOf(<< Subs, Certs, StageOf("dns", "dnsx", "subs", {"certs"}, FALSE, 0) >>)

\* A relation to one of two instances of the host.
Pages == PipelineOf(<< Certs, Subs, StageOf("probe", "httpx", "subs", {}, FALSE, 0) >>)

\* Types that do not fit, although the domain is handed on; with a retry.
Backwards == PipelineOf(<< StageOf("dns", "dnsx", "seed", {}, TRUE, 1),
                           StageOf("subs", "subfinder", "dns", {}, FALSE, 0) >>)

\* certsh does not declare Domain, but may report it in another spelling.
Spelling == PipelineOf(<< Certs, StageOf("subs", "subfinder", "certs", {}, TRUE, 0) >>)

\* What is refused before or by execute, or panics in it.
Broken ==
  {PipelineOf(<< >>),
   PipelineOf(<< Subs, Subs >>),
   PipelineOf(<< StageOf("scan", "nmap", "seed", {}, TRUE, 0) >>),
   PipelineOf(<< Subs, StageOf("scan", "nmap", "subs", {}, TRUE, 0) >>),
   PipelineOf(<< Subs, StageOf("dns", "dnsx", "subs", {"seed"}, TRUE, 0) >>),
   PipelineOf(<< StageOf("subs", "subfinder", "seed", {"dns"}, TRUE, 0),
                 StageOf("dns", "dnsx", "subs", {}, TRUE, 0) >>),
   PipelineOf(<< Subs, StageOf("crawl", "katana", "subs", {"crawl"}, TRUE, 0) >>)}

\* whois works on hosts, too, but does not declare it.
HostOwners == PipelineOf(<< Subs, StageOf("owner", "whois", "subs", {}, FALSE, 0) >>)

MCPipelines == {Hosts, Pages, Backwards, Spelling, HostOwners} \cup Broken

=============================================================================
