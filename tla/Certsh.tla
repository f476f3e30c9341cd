------------------------------- MODULE Certsh --------------------------------
(***************************************************************************)
(* run_certsh (certsh.rs): the names in the certificates of a domain, from *)
(* two logs and from the server itself.                                    *)
(***************************************************************************)
EXTENDS PluginCall

CONSTANTS
  CertAnswers,   \* certificates a log may answer with, each with its hosts
  LiveAnswers,   \* names in the certificate a server may present
  SameName(_, _) \* names that differ in case at most

ASSUME CertAnswersAssumption ==
  \A certs \in CertAnswers :
    IsList(certs) /\ \A i \in DOMAIN certs : IsList(certs[i].hosts)
ASSUME LiveAnswersAssumption == \A names \in LiveAnswers : IsList(names)
ASSUME SameNameAssumption ==
  \A c \in Calls : \A e \in Range(c.input) : SameName(e.value, e.value)

\* Mutant of HostEntity: the domain itself is linked to itself.
HostLinkedAlways(host, cert, id) ==
  Entity(id, IF SameName(host, Seed.value) THEN "Domain" ELSE "Subdomain", host,
         {Relation("HasCertificate", cert), Relation("DiscoveredFrom", Seed.id)})

\* A name of a certificate; the domain itself is not related to itself.
HostEntity(host, cert, id) ==
  LET is_root_domain == SameName(host, Seed.value)
  IN  Entity(id, IF is_root_domain THEN "Domain" ELSE "Subdomain", host,
             {Relation("HasCertificate", cert)}
               \cup IF is_root_domain THEN {} ELSE {Relation("DiscoveredFrom", Seed.id)})

Blank == ""

\* A certificate, the i-th of an answer, and those of its hosts that count.
WithHosts(name, hosts, counted, i) ==
  {Entity(Fresh(i, 0), "Certificate", name, {})}
    \cup {HostEntity(hosts[j], Fresh(i, 0), Fresh(i, j)) : j \in counted}

\* What fetching from a source may come to: an answer, and its entities; or a
\* request, a status or a body that is no good.
Fetched(answer, entities) == [answer |-> answer, entities |-> entities]
NotFetched == Fetched(Failed, {})

\* fetch_crtsh: blank lines among the names are passed over.
FetchCrtsh ==
  {NotFetched} \cup
  {Fetched(Answered(certs),
           UNION {WithHosts(certs[i].name, certs[i].hosts,
                            {j \in DOMAIN certs[i].hosts : certs[i].hosts[j] # Blank}, i) :
                    i \in DOMAIN certs}) : certs \in CertAnswers}

FetchCertspotter ==
  {NotFetched} \cup
  {Fetched(Answered(certs),
           UNION {WithHosts(certs[i].name, certs[i].hosts, DOMAIN certs[i].hosts, i) :
                    i \in DOMAIN certs}) : certs \in CertAnswers}

\* fetch_tls_san: no connection, no handshake, or a certificate without names
\* (see X509) is a failure.
FetchTlsSan ==
  {NotFetched} \cup
  {Fetched(Answered(names), WithHosts("tls-live:" \o Seed.value, names, DOMAIN names, 1)) :
     names \in LiveAnswers \ {<< >>}}

AskCrtsh ==
  /\ AtSeed({"certsh"})
  /\ \E got \in FetchCrtsh :
       /\ Ask("crt.sh", got.answer)
       /\ Emit(got.entities)
       /\ found' = (found \/ got.entities # {})
  /\ pc' = IF found' THEN "live" ELSE "certspotter"
  /\ UNCHANGED << call, at, sub, links, server >>

AskCertspotter ==
  /\ pc = "certspotter"
  /\ \E got \in FetchCertspotter :
       /\ Ask("certspotter", got.answer)
       /\ Emit(got.entities)
       /\ found' = (found \/ got.entities # {})
  /\ pc' = "live"
  /\ UNCHANGED << call, at, sub, links, server >>

\* The server itself is asked in any case; nothing at all fails the call.
GrabLive ==
  /\ pc = "live"
  /\ \E got \in FetchTlsSan :
       /\ Ask("live", got.answer)
       /\ Emit(got.entities)
       /\ IF found \/ got.entities # {} THEN NextSeed ELSE Return("err")

=============================================================================
