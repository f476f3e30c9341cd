------------------------------ MODULE Collector ------------------------------
(***************************************************************************)
(* The plugins that call for each seed an external program (subfinder.rs,  *)
(* katana.rs, nuclei.rs), send requests (httpx.rs) or look up records      *)
(* (dnsx.rs), and turn every item that comes back into an entity.          *)
(***************************************************************************)
EXTENDS PluginCall

CONSTANTS
  Lines,      \* Lines[p]: lines that the program of plugin p may print
  MaxLines,   \* bound on the lines of one program
  Urls,       \* where a request may end
  Lookups     \* the lists of records a lookup may give: addresses and others

ASSUME LookupsAssumption == \A records \in Lookups : IsList(records)

Text  == "text"        \* a CNAME, MX, NS or TXT record: metadata of the host
Other == "other"       \* a record of any other type

Program == call.plugin

\* resolved_endpoint: at the top of the line, else inside its request.
ResolvedEndpoint(line) == IF line.endpoint # NoField THEN line.endpoint ELSE line.request

\* A line that parses, and has what is needed.
Counts(line) ==
  CASE Program = "subfinder" -> line.host # NoField
    [] Program = "katana"    -> ResolvedEndpoint(line) # NoField
    [] Program = "nuclei"    -> line.template_id # NoField

\* What a line names.
Value(line) ==
  CASE Program = "subfinder" -> line.host
    [] Program = "katana"    -> ResolvedEndpoint(line)
    [] Program = "nuclei"    ->
         line.template_id \o "@"
           \o IF line.matched_at = NoField THEN Seed.value ELSE line.matched_at

\* Item i as an entity, related to the seed it came from.
FromLine(line, i) ==
  CASE Program = "subfinder" ->
         Entity(Fresh(i, 0), "Subdomain", Value(line), {Relation("DiscoveredFrom", Seed.id)})
    [] Program = "katana" ->
         Entity(Fresh(i, 0), "Endpoint", Value(line), {Relation("DiscoveredFrom", Seed.id)})
    [] Program = "nuclei" ->
         Entity(Fresh(i, 0), "Vulnerability", Value(line), {Relation("HasVulnerability", Seed.id)})

Spawn ==
  /\ AtSeed(Collectors)
  /\ pc' = "child"
  /\ UNCHANGED << call, at, sub, found, links, server, asked, results >>

\* The program cannot be started, or it fails: so does the call.
SpawnFails ==
  /\ AtSeed(Collectors)
  /\ Return("err")
  /\ UNCHANGED << asked, results >>

ChildFails ==
  /\ pc = "child"
  /\ Ask(Program, Failed)
  /\ Return("err")
  /\ UNCHANGED results

\* Lines that do not count are passed over.
ChildPrints ==
  /\ pc = "child"
  /\ \E n \in 0 .. MaxLines : \E lines \in [1 .. n -> Lines[Program]] :
       /\ Ask(Program, Answered(lines))
       /\ Emit({FromLine(lines[i], i) : i \in {i \in DOMAIN lines : Counts(lines[i])}})
  /\ NextSeed

\* probe: a host that does not answer is no error.
Probe ==
  /\ AtSeed({"httpx"})
  /\ \/ /\ Ask(call.each[sub], Failed)
        /\ UNCHANGED results
     \/ \E url \in Urls :
          /\ Ask(call.each[sub], Answered(<< url >>))
          /\ Emit({Entity(Fresh(1, 0), "Url", url, {Relation("DiscoveredFrom", Seed.id)})})
  /\ IF sub < Len(call.each)
     THEN sub' = sub + 1 /\ UNCHANGED << call, pc, at, found, links, server >>
     ELSE NextSeed

\* The addresses among the records, as entities.
FromRecords(records) ==
  {Entity(Fresh(i, 0), "IpAddress", records[i], {}) :
     i \in {i \in DOMAIN records : records[i] \notin {Text, Other}}}

\* Mutant of UpdatedHost: every host is taken for a subdomain.
UpdatedSubdomain(targets) ==
  Entity(Fresh(0, 0), "Subdomain", Seed.value, {Relation("ResolvesTo", t) : t \in targets})

\* The host again, with the addresses found for it.
UpdatedHost(targets) ==
  Entity(Fresh(0, 0), Seed.type, Seed.value, {Relation("ResolvesTo", t) : t \in targets})

Ids(entities) == {e.id : e \in entities}

\* One record type of one host.  A host for which nothing at all was found
\* is passed over, any other is reported again behind its addresses.
Resolve ==
  /\ AtSeed({"dnsx"})
  /\ \E records \in Lookups :
       LET new   == FromRecords(records)
           known == \E r \in Range(records) : r # Other
       IN  /\ Ask(call.each[sub], Answered(records))
           /\ IF sub < Len(call.each)
              THEN /\ sub' = sub + 1
                   /\ found' = (found \/ known)
                   /\ links' = links \cup Ids(new)
                   /\ Emit(new)
                   /\ UNCHANGED << call, pc, at, server >>
              ELSE /\ Emit(new \cup IF found \/ known
                                    THEN {UpdatedHost(links \cup Ids(new))} ELSE {})
                   /\ NextSeed

=============================================================================
