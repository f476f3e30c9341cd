----------------------------- MODULE MCPortscan -----------------------------
(***************************************************************************)
(* Instances of Portscan for TLC.                                          *)
(***************************************************************************)
EXTENDS Portscan

MCValues       == {"10.0.0.1", "10.0.0.2", "example.com"}
MCAddresses    == {"10.0.0.1", "10.0.0.2"}
MCDefaultPorts == << 2 >>

Ip(value) == [type |-> "ip_address", value |-> value]

\* An address listed twice, an address that does not parse, and other types.
MCInputs ==
  {<< >>,
   << Ip("10.0.0.1"), [type |-> "domain", value |-> "example.com"], Ip("10.0.0.1") >>,
   << Ip("10.0.0.2"), Ip("example.com"), Ip("10.0.0.1") >>}

\* Ports out of order, out of range and none at all; one permit and several.
MCConfigs ==
  {[ports |-> << 3, 9, 1 >>, concurrency |-> 2],
   [ports |-> << 9 >>, concurrency |-> 0],
   [ports |-> << >>, concurrency |-> 4]}

=============================================================================
