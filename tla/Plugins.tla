------------------------------- MODULE Plugins -------------------------------
(***************************************************************************)
(* One call of any of the plugins of PluginCall, and what is expected of   *)
(* it.                                                                     *)
(***************************************************************************)
EXTENDS Collector, Certsh, Whois, PluginTypes

\* What ends by itself: every request has a timeout, but a child has none.
Work ==
  \/ MissingBinary \/ ClientFails \/ Start \/ Spawn \/ SpawnFails \/ Probe \/ Resolve
  \/ AskCrtsh \/ AskCertspotter \/ GrabLive
  \/ StartLookup \/ LookupFails \/ Refer \/ LookedUp
  \/ PassOver \/ Finish

Next == Work \/ ChildFails \/ ChildPrints \/ Cancel \/ Returned

Spec     == Init /\ [][Next]_vars
FairSpec == Spec /\ WF_vars(Work)

-----------------------------------------------------------------------------
(* Properties.                                                             *)

Known         == Range(call.input) \cup results
SameKey(e, f) == e.type = f.type /\ e.value = f.value

Fits(kind, type) ==
  CASE kind = "ResolvesTo"     -> type = "IpAddress"
    [] kind = "HasCertificate" -> type = "Certificate"
    [] kind = "BelongsToCidr"  -> type = "Cidr"
    [] kind = "BelongsToAsn"   -> type = "Asn"
    [] OTHER                   -> type \in Wanted(call.plugin)

\* Every relation leads to an entity of the same result or of the input, one
\* of the kind the relation speaks of, and never back to the entity itself
\* once the graph has merged what has the same type and value (certsh.rs:
\* 247-250: the queried domain appears among its own names).  Identities are
\* not given twice.
LinksMakeSense ==
  /\ \A e \in results : \A r \in e.relations :
       \E f \in Known : f.id = r.target /\ Fits(r.kind, f.type) /\ ~ SameKey(e, f)
  /\ \A e, f \in Known : e.id = f.id => e = f

\* The values an answer speaks of; of whois texts only the last one counts.
Mentions(question) ==
  LET items == Range(question.answer.items)
  IN  CASE call.plugin = "whois" -> {}
        [] call.plugin = "certsh" /\ question.service # "live" ->
             (UNION {Range(cert.hosts) : cert \in items}) \ {Blank}
        [] call.plugin = "subfinder" -> {line.host : line \in items} \ {NoField}
        [] call.plugin = "katana" ->
             {IF line.endpoint # NoField THEN line.endpoint ELSE line.request :
                line \in items} \ {NoField}
        [] call.plugin = "nuclei" ->
             {line.template_id \o "@" \o line.matched_at :
                line \in {line \in items : NoField \notin {line.template_id, line.matched_at}}}
        [] OTHER -> items \ {Text, Other}

\* The entity belongs to the seed: related to it one way or the other, or
\* another spelling of it.
BelongsTo(e, seed) ==
  \/ \E r \in e.relations : r.target = seed.id
  \/ \E h \in results : SameKey(h, seed) /\ \E r \in h.relations : r.target = e.id
  \/ SameName(e.value, seed.value)

\* What question n was about.
SeedOf(n) == call.input[asked[n].seed]

\* A call that returns Ok reports every value that a service answered about
\* a seed, as an entity that belongs to that seed: nothing of an earlier seed
\* or source is lost on the way.
AnswersReported ==
  pc = "ok" =>
    \A n \in DOMAIN asked : \A v \in Mentions(asked[n]) :
      \E e \in results : e.value = v /\ BelongsTo(e, SeedOf(n))

\* Question n is the first, or not the last, about its seed.
FirstAbout(n) == n = 1 \/ asked[n - 1].seed # asked[n].seed
MoreAbout(n)  == n < Len(asked) /\ asked[n + 1].seed = asked[n].seed

\* Some source had something about the seed at position k.
HadNames(k) == \E n \in DOMAIN asked : asked[n].seed = k /\ asked[n].answer.items # << >>

\* certsh asks crt.sh, certspotter only if that gave nothing (certsh.rs:
\* 94-96), and the server itself in any case (110-115).  It gives up on a
\* domain for which no source had anything, and on no other.  (Without a client
\* it gives up before it asks anything.)
CertshSources ==
  call.plugin = "certsh" =>
    /\ \A n \in DOMAIN asked :
         /\ FirstAbout(n) <=> asked[n].service = "crt.sh"
         /\ MoreAbout(n) =>
              /\ asked[n].service # "live"
              /\ asked[n + 1].service =
                   IF asked[n].service = "crt.sh" /\ asked[n].answer.items = << >>
                   THEN "certspotter" ELSE "live"
         /\ asked[n].seed < at \/ pc = "err" => MoreAbout(n) \/ asked[n].service = "live"
    /\ \A k \in 1 .. at - 1 : IsSeed(k) => HadNames(k)
    /\ pc = "err" => ~ HadNames(at)

\* The first line of a text that has one of the labels and a value says so.
FirstSays(text, labels, value) ==
  \E n \in DOMAIN text :
    /\ text[n].label \in labels /\ text[n].value = value /\ value # NoField
    /\ \A m \in 1 .. n - 1 : text[m].label \in labels => text[m].value = NoField

\* whois asks at most four servers about a seed: one for its type, then each
\* time the one it was referred to, never the same one twice in a row.  What
\* it reports is what the last of them said, not an earlier one.
WhoisFollowsReferrals ==
  call.plugin = "whois" =>
    \A n \in DOMAIN asked :
      LET text == asked[n].answer.items[1]
      IN  /\ n > 4 => asked[n - 4].seed # asked[n].seed
          /\ FirstAbout(n) => asked[n].service = FirstServer(SeedOf(n).type)
          /\ MoreAbout(n) =>
               /\ FirstSays(text, ReferralLabels, asked[n + 1].service)
               /\ asked[n + 1].service # asked[n].service
          /\ asked[n].seed < at /\ ~ MoreAbout(n) =>
               \E host \in results :
                 /\ host.id[1] = n /\ SameKey(host, SeedOf(n))
                 /\ {f.value : f \in {f \in results : \E r \in host.relations : r.target = f.id}}
                      = {line.value : line \in {line \in Range(text) :
                           \/ FirstSays(text, CidrLabels, line.value)
                           \/ FirstSays(text, AsnLabels, line.value)}}

\* A failure is passed over only where there is another source or another
\* host to ask (httpx, certsh).  A child or a whois server that fails ends the
\* call with an error, and what was found until then is dropped with it
\* (whois.rs:91, katana.rs:120).  dnsx never reports an error, and httpx none but
\* that it has no client, before it asks anything (httpx.rs:53-61).
FailuresAreKept ==
  /\ pc = "ok" =>
       \A n \in DOMAIN asked : asked[n].answer.ok \/ call.plugin \in {"httpx", "certsh"}
  /\ pc = "err" =>
       /\ call.plugin # "dnsx"
       /\ call.plugin = "httpx" => asked = << >>
       /\ call.plugin = "whois" => asked # << >> /\ ~ asked[Len(asked)].answer.ok
       /\ \A n \in 1 .. Len(asked) - 1 : asked[n].answer.ok \/ call.plugin = "certsh"

\* What validate relies on: a plugin reports only types it declares to
\* produce, or a seed again, perhaps in another spelling.  And what it declares
\* to accept it does work on; not the other way round: whois takes subdomains.
DeclaredTypes ==
  /\ \A e \in results :
       \/ e.type \in Registered[call.plugin].produces
       \/ \E k \in DOMAIN call.input :
            /\ IsSeed(k) /\ e.type = call.input[k].type
            /\ SameName(e.value, call.input[k].value)
  /\ pc = "ok" =>
       \A e \in Range(call.input) :
         e.type \in Registered[call.plugin].accepts =>
           \E n \in DOMAIN asked : SeedOf(n) = e

\* The inductive invariant behind these properties, in named parts.  Where a call
\* is, and which entity of its input it is at.
PlaceInv ==
  /\ call \in Calls /\ found \in BOOLEAN
  /\ at \in 1 .. Len(call.input) + 1 /\ sub \in Nat \ {0}
  /\ pc \in Ended \cup {"start", "seed", "child", "certspotter", "live", "lookup"}
  /\ pc = "start" => at = 1 /\ asked = << >> /\ ~ found
  /\ pc \in {"child", "certspotter", "live", "lookup"} => IsSeed(at)
  /\ pc = "child" => call.plugin \in Collectors
  /\ pc \in {"certspotter", "live"} => call.plugin = "certsh"
  /\ pc = "lookup" => call.plugin = "whois"
  /\ pc = "ok" => at = Len(call.input) + 1
  /\ call.plugin \in {"httpx", "dnsx"} => sub <= Len(call.each)

\* Questions are asked about one seed after the other.
AskedInv ==
  /\ \A n \in DOMAIN asked : IsSeed(asked[n].seed) /\ asked[n].seed <= at
  /\ \A n \in DOMAIN asked : \A m \in 1 .. n : asked[m].seed <= asked[n].seed

\* What was reported was made from an answer; what dnsx keeps for the host it is
\* at are addresses it has reported.
MadeInv ==
  /\ \A e \in results : e.id[1] \in DOMAIN asked
  /\ \A id \in links : \E e \in results : e.id = id /\ e.type = "IpAddress"
  /\ links # {} => found

\* No seed is left behind without a question about it.
PassedInv == \A k \in 1 .. at - 1 : IsSeed(k) => \E n \in DOMAIN asked : asked[n].seed = k

\* While a call goes on nothing has failed, except where that is no failure.
NoFailureInv ==
  pc \notin {"err", "dropped"} =>
    \A n \in DOMAIN asked : asked[n].answer.ok \/ call.plugin \in {"httpx", "certsh"}

\* Every value is reported: dnsx has yet to link the addresses of the host it is
\* at, those it keeps for that.
ReportedInv ==
  \A n \in DOMAIN asked : \A v \in Mentions(asked[n]) :
    \E e \in results :
      /\ e.value = v
      /\ \/ BelongsTo(e, SeedOf(n))
         \/ call.plugin = "dnsx" /\ asked[n].seed = at /\ e.id \in links

\* The seed a call is at is a new one.
AtNewSeed == \A n \in DOMAIN asked : asked[n].seed < at

\* What certsh has asked about the domain it is at.
SourcesInv ==
  call.plugin = "certsh" =>
    /\ pc \in {"start", "seed", "ok"} => AtNewSeed
    /\ found <=> HadNames(at)
    /\ pc \in {"certspotter", "live"} =>
         LET last == asked[Len(asked)]
         IN  /\ asked # << >> /\ last.seed = at
             /\ pc = "certspotter" => last.service = "crt.sh" /\ last.answer.items = << >>
             /\ pc = "live" =>
                  \/ last.service = "certspotter"
                  \/ last.service = "crt.sh" /\ last.answer.items # << >>

\* What whois has asked about the seed it is at: one server per hop.
LookupInv ==
  call.plugin = "whois" =>
    /\ pc \in {"start", "seed", "ok"} => AtNewSeed
    /\ pc \in {"start", "seed"} => sub = 1
    /\ pc = "lookup" =>
         /\ sub <= 4 /\ sub <= Len(asked) + 1
         /\ \A n \in DOMAIN asked : asked[n].seed = at <=> n + sub > Len(asked) + 1
         /\ IF sub = 1 THEN server = FirstServer(Seed.type)
            ELSE LET last == asked[Len(asked)]
                 IN  /\ FirstSays(last.answer.items[1], ReferralLabels, server)
                     /\ server # last.service

\* A call ends, whatever the services do, unless it waits for a program:
\* that has no timeout of its own.
CallEnds == call.plugin \notin Collectors => <>(pc \in Ended)

=============================================================================
