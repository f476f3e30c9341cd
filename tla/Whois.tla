-------------------------------- MODULE Whois --------------------------------
(***************************************************************************)
(* run_whois (whois.rs): one lookup per seed, which goes from server to    *)
(* server as long as they refer to another.  An answer is a text; of its   *)
(* lines those count that begin with one of the known labels.              *)
(***************************************************************************)
EXTENDS PluginCall

CONSTANTS
  WhoisAnswers   \* the answers of whois servers, sequences of lines

ASSUME WhoisAnswersAssumption == \A text \in WhoisAnswers : IsList(text)

IANA_WHOIS == "whois.iana.org"
ARIN_WHOIS == "whois.arin.net"

\* A line is its label, in small letters, and what is left of its value when it
\* is trimmed, NoField if nothing is: of a referral the server's name alone.
ReferralLabels == {"refer", "referralserver", "whois"}
CidrLabels     == {"cidr", "inetnum"}
AsnLabels      == {"originas", "origin"}

\* extract_field and find_referral: the first line with one of the labels that
\* has a value, whichever label that is.
FirstField(text, labels) ==
  LET having == {n \in DOMAIN text : text[n].label \in labels /\ text[n].value # NoField}
  IN  IF having = {} THEN NoField ELSE text[Min(having)].value

\* Mutant of MaxReferrals: one too many.
FourReferrals == 4

MaxReferrals == 3

FirstServer(type) == IF type = "IpAddress" THEN ARIN_WHOIS ELSE IANA_WHOIS

StartLookup ==
  /\ AtSeed({"whois"})
  /\ server' = FirstServer(Seed.type)
  /\ pc' = "lookup"
  /\ UNCHANGED << call, at, sub, found, links, asked, results >>

\* Mutant of LookupFails: the seed is passed over.
LookupSkipped ==
  /\ pc = "lookup"
  /\ Ask(server, Failed)
  /\ UNCHANGED results
  /\ NextSeed

\* No server, or no answer in time: the whole call fails.
LookupFails ==
  /\ pc = "lookup"
  /\ Ask(server, Failed)
  /\ Return("err")
  /\ UNCHANGED results

Referral(text) == FirstField(text, ReferralLabels)

\* There is a referral, and an iteration left for it.
Refers(text) == Referral(text) \notin {NoField, server} /\ sub <= MaxReferrals

Refer ==
  /\ pc = "lookup"
  /\ \E text \in WhoisAnswers :
       /\ Refers(text)
       /\ Ask(server, Answered(<< text >>))
       /\ server' = Referral(text)
  /\ sub' = sub + 1
  /\ UNCHANGED << call, pc, at, found, links, results >>

Field(i, type, kind, value) == [i |-> i, type |-> type, kind |-> kind, value |-> value]

\* One entity per field that has a value, and the seed again, related to them.
FromText(text) ==
  LET given == {f \in {Field(1, "Cidr", "BelongsToCidr", FirstField(text, CidrLabels)),
                       Field(2, "Asn", "BelongsToAsn", FirstField(text, AsnLabels))} :
                  f.value # NoField}
  IN  {Entity(Fresh(f.i, 0), f.type, f.value, {}) : f \in given}
        \cup {Entity(Fresh(0, 0), Seed.type, Seed.value,
                      {Relation(f.kind, Fresh(f.i, 0)) : f \in given})}

LookedUp ==
  /\ pc = "lookup"
  /\ \E text \in WhoisAnswers :
       /\ ~ Refers(text)
       /\ Ask(server, Answered(<< text >>))
       /\ Emit(FromText(text))
  /\ NextSeed

=============================================================================
