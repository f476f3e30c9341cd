---------------------------- MODULE MCDnsResolver ----------------------------
(***************************************************************************)
(* Instances of DnsResolver for TLC: two stages, one with two questions,   *)
(* two resolvers and as many ports as sockets.                             *)
(***************************************************************************)
EXTENDS DnsResolver

MCStages    == {"forward", "mail"}
MCQuestions == {"a.example A", "b.example A", "example MX"}
MCAsks      == [forward |-> << "a.example A", "b.example A" >>,
                mail    |-> << "example MX" >>]
MCServers   == {"1.1.1.1", "8.8.8.8"}
MCResolvers == << "1.1.1.1", "8.8.8.8" >>
MCPorts     == {40001, 40002}

=============================================================================
