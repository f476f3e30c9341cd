------------------------------ MODULE MCPlugins ------------------------------
(***************************************************************************)
(* Instances of Plugins for TLC: inputs of up to two seeds among entities  *)
(* that the plugin passes over, and small sets of answers.                 *)
(***************************************************************************)
EXTENDS Plugins

Input(k, type, value) == Entity(<< 0, k, 0 >>, type, value, {})

Domain1 == Input(1, "Domain", "a.example")
Domain2 == Input(2, "Domain", "b.example")
Sub     == Input(3, "Subdomain", "www.a.example")
Ip      == Input(4, "IpAddress", "10.0.0.1")
Url1    == Input(5, "Url", "https://a.example/")
Url2    == Input(6, "Url", "http://a.example/")
IpAgain == Input(7, "IpAddress", "10.0.0.1")

Called(plugins, inputs, binary, each) ==
  [plugin : plugins, input : inputs, binary : binary, each : each]

MCCalls ==
  Called({"subfinder", "certsh"},
         {<< >>, << Sub >>, << Domain1, Sub, Domain2 >>}, BOOLEAN, {<< >>})
    \cup Called({"katana", "nuclei"}, {<< Domain1 >>, << Url1, Ip, Url2 >>}, BOOLEAN, {<< >>})
    \cup Called({"httpx"}, {<< Url1 >>, << Domain1, Url1, Ip >>}, {TRUE}, {<< "https", "http" >>})
    \cup Called({"dnsx"}, {<< Ip >>, << Domain1, Ip, Sub >>}, {TRUE}, {<< "A" >>, << "A", "MX" >>})
    \cup Called({"whois"}, {<< Domain1, Ip >>, << Ip, IpAgain >>, << Url1, Sub >>}, {TRUE}, {<< >>})

MCLines ==
  [subfinder |-> {[host |-> "www.a.example"], [host |-> NoField]},
   katana    |-> [endpoint : {NoField, "/login"}, request : {NoField, "/"}],
   nuclei    |-> [template_id : {NoField, "cve"}, matched_at : {NoField, "/"}]]
MCUrls      == {"https://a.example/", "https://other.example/"}
MCLookups   ==
  {<< >>, << Other >>, << Text, Other >>, << "10.0.0.1" >>, << "10.0.0.2", Text >>,
   << "10.0.0.1", "10.0.0.2" >>, << "10.0.0.2", Other, "10.0.0.2" >>}

Cert(name, hosts) == [name |-> name, hosts |-> hosts]

MCCertAnswers ==
  {<< >>, << Cert("1", << >>) >>,
   << Cert("1", << "A.example", "www.a.example" >>), Cert("2", << Blank, "b.example" >>) >>}
MCLiveAnswers == {<< >>, << "a.example", "b.example" >>}

Lower(name)          == IF name = "A.example" THEN "a.example" ELSE name
MCSameName(one, two) == Lower(one) = Lower(two)

Line(label, value) == [label |-> label, value |-> value]

MCWhoisAnswers ==
  {<< >>,
   << Line("cidr", "10.0.0.0/8"), Line("whois", "whois.a") >>,
   << Line("refer", NoField), Line("whois", IANA_WHOIS), Line("refer", "whois.a") >>,
   << Line("refer", "whois.a"), Line("origin", "AS1"), Line("whois", "whois.b") >>,
   << Line("inetnum", "10.0.0.0 - 10.0.0.255"), Line("cidr", "10.0.0.0/24"),
      Line("originas", NoField), Line("origin", "AS1"), Line("originas", "AS2") >>,
   << Line("referralserver", IANA_WHOIS), Line("originas", "AS2") >>}

=============================================================================
