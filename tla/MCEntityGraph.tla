--------------------------- MODULE MCEntityGraph ----------------------------
(***************************************************************************)
(* Instances of EntityGraph for TLC: a host that several stages report, two *)
(* instances of one address, and a domain, in every order and repetition.  *)
(* "custom" is a plugin registered next to the built-in ones, which may    *)
(* give any metadata, and list a relation twice.                           *)
(***************************************************************************)
EXTENDS EntityGraph

CONSTANT MaxAdds  \* bound on the number of calls of add_entity

ASSUME MaxAddsAssumption == MaxAdds \in Nat

BoundedNext == Len(log) < MaxAdds /\ Next
BoundedSpec == Init /\ [][BoundedNext]_vars

MCIds   == {"h1", "h2", "a1", "a2", "d1"}
MCKeys  == {"host", "address", "domain"}
MCKeyOf == [h1 |-> "host", h2 |-> "host", a1 |-> "address", a2 |-> "address",
            d1 |-> "domain"]
MCKinds   == {"resolves_to", "discovered_from"}
MCSources == {"subfinder", "dnsx", "whois", "custom"}
MCFields  == {"mx", "registrar"}
MCValues  == {"old", "new"}

Object(mx, registrar) ==
  [shape |-> "object", fields |-> [mx |-> mx, registrar |-> registrar]]
NoFields(shape) ==
  [shape |-> shape, fields |-> [mx |-> Absent, registrar |-> Absent]]
To(target, kind) == [target |-> target, kind |-> kind]

InstanceOf(id, source, confidence, timestamp, metadata, relations) ==
  [id |-> id, source |-> source, confidence |-> confidence,
   timestamp |-> timestamp, metadata |-> metadata, relations |-> relations]

MCInstances ==
  {InstanceOf("d1", "whois", 2, 1, Object(Absent, "old"), << >>),
   InstanceOf("h1", "subfinder", 1, 1, NoFields("null"), << To("d1", "discovered_from") >>),
   InstanceOf("h1", "custom", 2, 3, NoFields("scalar"), << >>),
   InstanceOf("h2", "dnsx", 1, 2, Object("old", Absent),
              << To("a1", "resolves_to"), To("a2", "resolves_to") >>),
   InstanceOf("h2", "custom", 3, 2, Object("new", "old"),
              << To("h1", "discovered_from"), To("h1", "discovered_from") >>),
   InstanceOf("a1", "dnsx", 2, 2, NoFields("null"), << >>),
   InstanceOf("a2", "custom", 1, 3, Object(Absent, "new"), << To("h2", "resolves_to") >>)}

=============================================================================
