----------------------------- MODULE PluginCall ------------------------------
(***************************************************************************)
(* What the run functions of the plugins have in common (subfinder,        *)
(* katana, nuclei, httpx, dnsx, whois, certsh; portscan is Portscan): they *)
(* go through the input entities of the types they care for, ask some      *)
(* service about each, and turn the answers into entities.                 *)
(*                                                                         *)
(* The services are the environment and answer with anything.  Values and  *)
(* the relations between entities are kept, metadata and the order of the  *)
(* results are left out.                                                   *)
(***************************************************************************)
EXTENDS Naturals, Sequences, SequencesExt

CONSTANTS
  Calls    \* what a plugin is called with: the plugin, its input, whether its
           \* binary is installed, and the schemes or record types configured

\* Of something only that it is a sequence.
IsList(s) == s \in Seq(Range(s))

\* Of its input a plugin knows only that every entity has an identity, made
\* before those that the plugin makes; there is a scheme or record type to try.
ASSUME CallsAssumption ==
  \A c \in Calls :
    /\ c.plugin \in {"subfinder", "katana", "nuclei", "httpx", "dnsx", "whois", "certsh"}
    /\ IsList(c.input) /\ IsList(c.each)
    /\ \A e, f \in Range(c.input) : e.id[1] = 0 /\ (e.id = f.id => e = f)
    /\ c.plugin \in {"httpx", "dnsx"} => c.each # << >>

VARIABLES
  call,     \* the call
  pc,       \* where it is; "ok" and "err" once it returned, "dropped" if not
  at,       \* where in its input it is
  sub,      \* the scheme, record type or hop it is at
  found,    \* something was found for the seed
  links,    \* the addresses found for the seed
  server,   \* the server to ask next
  asked,    \* history: the questions asked, with their answers
  results   \* the entities to return

vars == << call, pc, at, sub, found, links, server, asked, results >>

NoField == "none"      \* a field that is missing in an answer

Collectors == {"subfinder", "katana", "nuclei"}

\* The filter at the head of each run function.
Wanted(plugin) ==
  CASE plugin \in {"subfinder", "certsh"} -> {"Domain"}
    [] plugin \in {"katana", "nuclei"}    -> {"Url"}
    [] plugin = "dnsx"                    -> {"Domain", "Subdomain"}
    [] plugin \in {"httpx", "whois"}      -> {"Domain", "Subdomain", "IpAddress"}

IsSeed(k) == k \in DOMAIN call.input /\ call.input[k].type \in Wanted(call.plugin)
Seed      == call.input[at]
NoSeeds   == \A k \in DOMAIN call.input : ~ IsSeed(k)

\* The identity of entity j made from item i of the answer that is being
\* handled; Entity::new gives every entity one of its own.  Input entities
\* have identities that begin with 0.
Fresh(i, j) == << Len(asked) + 1, i, j >>

Entity(id, type, value, relations) ==
  [id |-> id, type |-> type, value |-> value, relations |-> relations]

Relation(kind, target) == [kind |-> kind, target |-> target]

\* What a service answers: items, or nothing at all.
Answered(items) == [ok |-> TRUE, items |-> items]
Failed          == [ok |-> FALSE, items |-> << >>]

Ask(service, answer) ==
  asked' = Append(asked, [seed |-> at, service |-> service, answer |-> answer])

\* Mutant of Emit: the results of the seeds before are replaced.
EmitOnly(entities) == results' = entities

Emit(entities) == results' = results \cup entities

Init ==
  /\ call \in Calls
  /\ pc = "start"
  /\ at = 1
  /\ sub = 1
  /\ found = FALSE
  /\ links = {}
  /\ server = "none"
  /\ asked = << >>
  /\ results = {}

Return(outcome) ==
  /\ pc' = outcome
  /\ UNCHANGED << call, at, sub, found, links, server >>

NeedsBinary == call.plugin \in Collectors

\* subfinder looks for its binary first, katana and nuclei only if there is
\* something to do.
MissingBinary ==
  /\ pc = "start"
  /\ NeedsBinary /\ ~ call.binary
  /\ call.plugin = "subfinder" \/ ~ NoSeeds
  /\ Return("err")
  /\ UNCHANGED << asked, results >>

\* certsh builds its HTTP client first, httpx only if there is something to do;
\* without one the call fails.
ClientFails ==
  /\ pc = "start"
  /\ call.plugin = "certsh" \/ (call.plugin = "httpx" /\ ~ NoSeeds)
  /\ Return("err")
  /\ UNCHANGED << asked, results >>

Start ==
  /\ pc = "start"
  /\ NeedsBinary => call.binary \/ (call.plugin # "subfinder" /\ NoSeeds)
  /\ pc' = "seed"
  /\ UNCHANGED << call, at, sub, found, links, server, asked, results >>

\* A call is at a seed.
AtSeed(plugins) == pc = "seed" /\ call.plugin \in plugins /\ IsSeed(at)

\* Mutant of NextSeed: found_any is not reset for the next seed.
NextSeedStillFound ==
  /\ at' = at + 1
  /\ pc' = "seed"
  /\ sub' = 1
  /\ links' = {}
  /\ UNCHANGED << call, found, server >>

NextSeed ==
  /\ at' = at + 1
  /\ pc' = "seed"
  /\ sub' = 1
  /\ found' = FALSE
  /\ links' = {}
  /\ UNCHANGED << call, server >>

\* An entity that the plugin does not care for.
PassOver ==
  /\ pc = "seed"
  /\ at \in DOMAIN call.input /\ ~ IsSeed(at)
  /\ NextSeed
  /\ UNCHANGED << asked, results >>

\* Mutant of SeedsDone: off by one, an empty input is never done.
LastSeed == at = Len(call.input)

SeedsDone == at > Len(call.input)

Finish ==
  /\ pc = "seed"
  /\ SeedsDone
  /\ Return("ok")
  /\ UNCHANGED << asked, results >>

Ended == {"ok", "err", "dropped"}

\* The engine drops the future when the stage times out.
Cancel ==
  /\ pc \notin Ended
  /\ Return("dropped")
  /\ UNCHANGED << asked, results >>

Returned == pc \in Ended /\ UNCHANGED vars

=============================================================================
