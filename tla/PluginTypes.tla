---------------------------- MODULE PluginTypes -----------------------------
(***************************************************************************)
(* The plugins as the registry knows them: the entity types each declares  *)
(* to accept and to produce (input_types and output_types of the           *)
(* ReconPlugin implementations), under the name it is registered with      *)
(* (register_all in explorator-plugins/src/lib.rs).                        *)
(***************************************************************************)

Declared(accepts, produces) == [accepts |-> accepts, produces |-> produces]

SubfinderPlugin == Declared({"Domain"}, {"Subdomain"})
DnsxPlugin      == Declared({"Domain", "Subdomain"}, {"IpAddress"})
WhoisPlugin     == Declared({"Domain", "IpAddress"}, {"Domain", "IpAddress", "Asn", "Cidr"})
CertshPlugin    == Declared({"Domain"}, {"Subdomain", "Certificate"})
HttpxPlugin     == Declared({"Domain", "Subdomain", "IpAddress"}, {"Url"})
PortscanPlugin  == Declared({"IpAddress"}, {"Port"})
KatanaPlugin    == Declared({"Url"}, {"Endpoint"})
NucleiPlugin    == Declared({"Url"}, {"Vulnerability"})

\* The registry that build_registry fills and nobody changes.
Registered ==
  [subfinder |-> SubfinderPlugin, dnsx |-> DnsxPlugin, whois |-> WhoisPlugin,
   certsh |-> CertshPlugin, httpx |-> HttpxPlugin, portscan |-> PortscanPlugin,
   katana |-> KatanaPlugin, nuclei |-> NucleiPlugin]

\* PluginRegistry::contains; get fails for any other name.
IsRegistered(name) == name \in DOMAIN Registered

=============================================================================
