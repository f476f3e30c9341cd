---------------------------- MODULE EntityGraph -----------------------------
(***************************************************************************)
(* EntityGraph (explorator-core/src/graph.rs): the result of a run, built  *)
(* by add_entity one entity at a time.                                     *)
(*                                                                         *)
(* An entity is an instance with an id of its own (a v4 UUID) that stands  *)
(* for a thing named by its key, the pair of entity_type and value.        *)
(* Instances with the same key collapse into the node of the first one.    *)
(* Relations name their target by instance id, and may do so before the    *)
(* target is added.                                                        *)
(***************************************************************************)
EXTENDS Naturals, Sequences, FiniteSets

CONSTANTS
  Ids,         \* instance ids
  Keys,        \* (entity_type, value) pairs
  KeyOf,       \* KeyOf[id]: the key of the instance; it never changes
  Kinds,       \* kinds of relations
  Sources,     \* plugin names
  Fields,      \* metadata keys
  Values,      \* metadata values
  Absent,      \* no value
  Instances    \* the entities that may be added

Relation == [target : Ids, kind : Kinds]

\* serde_json's null, an object, and anything else.  Only objects have fields.
Metadata ==
  {m \in [shape : {"null", "object", "scalar"}, fields : [Fields -> Values \cup {Absent}]] :
     m.shape # "object" => \A f \in Fields : m.fields[f] = Absent}

Entity == [id : Ids, source : Sources, confidence : Nat, timestamp : Nat,
           metadata : Metadata, relations : Seq(Relation)]

ASSUME KeysAssumption      == KeyOf \in [Ids -> Keys]
ASSUME InstancesAssumption == Instances \subseteq Entity
ASSUME AbsentAssumption    == Absent \notin Values

VARIABLES
  nodes,       \* the nodes, in the order in which they were added
  index,       \* index[id]: the position of the node registered for id, or 0
  dedup_index, \* dedup_index[key]: the position of the node of key, or 0
  edges,       \* edges[t]: how many edges stand for relation t
  pending,     \* pending[t]: how often relation t is in pending_edges
  log          \* history: the instances added so far

vars == << nodes, index, dedup_index, edges, pending, log >>

\* (source id, target id, kind)
Triples == Ids \X Ids \X Kinds

-----------------------------------------------------------------------------

\* Mutant of MergeMetadata: null replaces what is there.
MergeNull(old, new) ==
  IF old.shape = "object" /\ new.shape = "object"
  THEN [shape  |-> "object",
        fields |-> [f \in Fields |-> IF new.fields[f] # Absent
                                     THEN new.fields[f]
                                     ELSE old.fields[f]]]
  ELSE new

\* merge_metadata: null says nothing, two objects merge field by field, and
\* in every other case the new value replaces the old.
MergeMetadata(old, new) ==
  IF new.shape = "null" THEN old
  ELSE IF old.shape = "object" /\ new.shape = "object"
       THEN [shape  |-> "object",
             fields |-> [f \in Fields |-> IF new.fields[f] # Absent
                                          THEN new.fields[f]
                                          ELSE old.fields[f]]]
       ELSE new

\* Mutant of Merge: the last confidence counts.
MergeLastConfidence(node, e) ==
  [node EXCEPT !.confidence = e.confidence,
               !.timestamp  = e.timestamp,
               !.metadata   = MergeMetadata(@, e.metadata)]

\* What an instance changes of the node it collapses into.
Merge(node, e) ==
  [node EXCEPT !.confidence = IF e.confidence > @ THEN e.confidence ELSE @,
               !.timestamp  = e.timestamp,
               !.metadata   = MergeMetadata(@, e.metadata)]

\* Where e lists the relation that t stands for; a Vec may list it twice.
Places(e, t) == {i \in DOMAIN e.relations : e.relations[i] = [target |-> t[2], kind |-> t[3]]}

\* The relations of e, as pushed to pending_edges under the node's id.
Pushed(source, e) ==
  [t \in Triples |-> IF t[1] = source THEN Cardinality(Places(e, t)) ELSE 0]

\* resolve_pending_edges turns a relation into an edge when both ends are
\* registered in the index.
Resolvable(registered, t) == registered[t[1]] # 0 /\ registered[t[2]] # 0

Init ==
  /\ nodes = << >>
  /\ index = [i \in Ids |-> 0]
  /\ dedup_index = [k \in Keys |-> 0]
  /\ edges = [t \in Triples |-> 0]
  /\ pending = [t \in Triples |-> 0]
  /\ log = << >>

\* Mutant of InsertNode: dedup_index is forgotten.
InsertWithoutDedup(e) ==
  /\ dedup_index[KeyOf[e.id]] = 0
  /\ nodes' = Append(nodes, e)
  /\ index' = [index EXCEPT ![e.id] = Len(nodes) + 1]
  /\ UNCHANGED dedup_index

\* Mutant of InsertNode: the position is one too far.
InsertOffByOne(e) ==
  /\ dedup_index[KeyOf[e.id]] = 0
  /\ nodes' = Append(nodes, e)
  /\ index' = [index EXCEPT ![e.id] = Len(nodes) + 2]
  /\ dedup_index' = [dedup_index EXCEPT ![KeyOf[e.id]] = Len(nodes) + 2]

\* The first instance of a key: a new node, registered in both indexes.
InsertNode(e) ==
  /\ dedup_index[KeyOf[e.id]] = 0
  /\ nodes' = Append(nodes, e)
  /\ index' = [index EXCEPT ![e.id] = Len(nodes) + 1]
  /\ dedup_index' = [dedup_index EXCEPT ![KeyOf[e.id]] = Len(nodes) + 1]

\* A later instance: it collapses into the node, and its id is not registered.
MergeNode(e) ==
  /\ dedup_index[KeyOf[e.id]] # 0
  /\ nodes' = [nodes EXCEPT ![dedup_index[KeyOf[e.id]]] = Merge(@, e)]
  /\ UNCHANGED << index, dedup_index >>

\* Mutant of FinalId: relations are queued under the instance's own id.
InstanceId(e) == e.id

\* The id of the node that e ends up in.
FinalId(e) ==
  IF dedup_index[KeyOf[e.id]] = 0 THEN e.id ELSE nodes[dedup_index[KeyOf[e.id]]].id

\* Mutant of QueueAndResolve: what does not resolve is dropped.
ResolveOrDrop(e) ==
  LET queued == [t \in Triples |-> pending[t] + Pushed(FinalId(e), e)[t]]
  IN  /\ edges' = [t \in Triples |->
                     edges[t] + IF Resolvable(index', t) THEN queued[t] ELSE 0]
      /\ pending' = [t \in Triples |-> 0]

\* Queue the relations of e, then try every queued relation once.
QueueAndResolve(e) ==
  LET queued == [t \in Triples |-> pending[t] + Pushed(FinalId(e), e)[t]]
  IN  /\ edges' = [t \in Triples |->
                     edges[t] + IF Resolvable(index', t) THEN queued[t] ELSE 0]
      /\ pending' = [t \in Triples |->
                       IF Resolvable(index', t) THEN 0 ELSE queued[t]]

AddEntity(e) ==
  /\ InsertNode(e) \/ MergeNode(e)
  /\ QueueAndResolve(e)
  /\ log' = Append(log, e)

Next == \E e \in Instances : AddEntity(e)

Spec == Init /\ [][Next]_vars

-----------------------------------------------------------------------------

\* The readers.  get and relations_of take an instance id and know only the
\* registered ones; find_by_value takes a key; to_snapshot reports edges by
\* the ids of the nodes.
HasNode(id)      == index[id] # 0
Get(id)          == nodes[index[id]]
HasValue(key)    == dedup_index[key] # 0
FindByValue(key) == nodes[dedup_index[key]]
RelationsOf(id)  == IF HasNode(id)
                    THEN {[target |-> t[2], kind |-> t[3]] :
                            t \in {u \in Triples : u[1] = id /\ edges[u] > 0}}
                    ELSE {}

-----------------------------------------------------------------------------
(***************************************************************************)
(* Properties                                                              *)
(***************************************************************************)

\* Types; no index points past the nodes (graph.rs, EntityGraph).
TypeOK ==
  /\ nodes \in Seq(Entity)
  /\ index \in [Ids -> 0 .. Len(nodes)]
  /\ dedup_index \in [Keys -> 0 .. Len(nodes)]
  /\ edges \in [Triples -> Nat]
  /\ pending \in [Triples -> Nat]
  /\ log \in Seq(Instances)

\* The calls that added an instance of key, and the first of them.
CallsFor(key)  == {n \in DOMAIN log : KeyOf[log[n].id] = key}
IsFirst(n)     == \A m \in 1 .. n - 1 : KeyOf[log[m].id] # KeyOf[log[n].id]

\* The two indexes and the nodes agree: what was added is found by its value,
\* as the one node of that key, under the id of the first instance; that id,
\* and no other, leads to the same node.
IndexesAgree ==
  /\ \A p \in DOMAIN nodes :
       /\ index[nodes[p].id] = p
       /\ dedup_index[KeyOf[nodes[p].id]] = p
  /\ \A id \in Ids : HasNode(id) => Get(id).id = id
  /\ \A key \in Keys : HasValue(key) => KeyOf[FindByValue(key).id] = key

IsLast(n, calls) == n \in calls /\ \A m \in calls : m <= n

\* The calls that gave metadata field f of key a value, but for those before
\* one that replaced the metadata as a whole.
CallsGiving(key, f) ==
  {n \in CallsFor(key) :
     /\ log[n].metadata.fields[f] # Absent
     /\ \A m \in CallsFor(key) : m > n => log[m].metadata.shape # "scalar"}

\* A node is the merge of all instances of its key (graph.rs, add_entity):
\* source of the first, timestamp of the last, the highest confidence.  Its
\* metadata has every field an instance gave, short of a replacement as a whole,
\* with a value that some instance gave, and no other.
MergesInstances(node, key) ==
  LET calls == CallsFor(key)
  IN  /\ \E n \in calls : IsFirst(n) /\ node.id = log[n].id /\ node.source = log[n].source
      /\ \E n \in calls : IsLast(n, calls) /\ node.timestamp = log[n].timestamp
      /\ \E n \in calls : node.confidence = log[n].confidence
      /\ \A n \in calls : node.confidence >= log[n].confidence
      /\ \A f \in Fields :
           IF CallsGiving(key, f) = {}
           THEN node.metadata.fields[f] = Absent
           ELSE \E n \in CallsGiving(key, f) :
                  node.metadata.fields[f] = log[n].metadata.fields[f]

NodesMergeInstances ==
  \A key \in Keys :
    /\ HasValue(key) <=> CallsFor(key) # {}
    /\ HasValue(key) => MergesInstances(FindByValue(key), key)

\* No relation is lost or invented: each one an instance carried is an edge or
\* is pending, as often as it was carried, under the id of the node.
Carried(t) == UNION {{n} \X Places(log[n], t) : n \in CallsFor(KeyOf[t[1]])}

RelationsConserved ==
  \A t \in Triples :
    edges[t] + pending[t] = IF HasNode(t[1]) THEN Cardinality(Carried(t)) ELSE 0

\* Edges join nodes, and nothing that could be an edge is left pending: both
\* when the target comes first and when it comes last.
NothingLeftPending ==
  \A t \in Triples :
    /\ edges[t] > 0 => HasNode(t[1]) /\ HasNode(t[2])
    /\ pending[t] > 0 => HasNode(t[1]) /\ ~ HasNode(t[2])

\* Every key that was added has a node.
AddedHasNode == \A n \in DOMAIN log : HasValue(KeyOf[log[n].id])

\* The inductive invariant of add_entity (graph.rs): the types, the agreement
\* of the indexes, and the fate of every relation.
GInv ==
  /\ TypeOK
  /\ IndexesAgree
  /\ AddedHasNode
  /\ NothingLeftPending
  /\ RelationsConserved

\* A relation to the first instance of a key is among the relations of its
\* source as soon as both are there, in whatever order they came.
FirstInstancesAreLinked ==
  \A m, n \in DOMAIN log : \A i \in DOMAIN log[m].relations :
    LET r == log[m].relations[i]
    IN  IsFirst(n) /\ log[n].id = r.target =>
          r \in RelationsOf(FindByValue(KeyOf[log[m].id]).id)

\* graph.rs, pending_edges: "Relations whose target hadn't been inserted yet
\* ...; retried every time a new entity is added."  So no relation is pending
\* whose target was added.
PendingTargetsNotInserted ==
  \A t \in Triples : pending[t] > 0 => \A n \in DOMAIN log : log[n].id # t[2]

\* graph.rs, EntityGraph: metadata "is merged key-by-key across every plugin that
\* later touches the same entity, so one plugin's enrichment never silently
\* overwrites another's."  So what a node holds in a metadata field, as plugin
\* log[n].source gave it, is not changed when another plugin's object is merged
\* into it.  (merge_metadata says of itself that anything else replaces it all.)
EnrichmentKept ==
  [][\A e \in Instances : \A n \in CallsFor(KeyOf[e.id]) : \A f \in Fields :
       LET key   == KeyOf[e.id]
           value == FindByValue(key).metadata.fields[f]
       IN  /\ AddEntity(e) /\ e.metadata.shape = "object" /\ e.source # log[n].source
           /\ value # Absent /\ value = log[n].metadata.fields[f]
           => FindByValue(key)'.metadata.fields[f] = value]_vars

\* Adding to the graph takes nothing but metadata away: nodes keep their place,
\* id, source and confidence (which may only rise), ids stay registered, edges
\* stay.
OnlyGrows ==
  [][/\ Len(nodes') >= Len(nodes)
     /\ \A p \in DOMAIN nodes :
          /\ nodes'[p].id = nodes[p].id
          /\ nodes'[p].source = nodes[p].source
          /\ nodes'[p].confidence >= nodes[p].confidence
     /\ \A id \in Ids : HasNode(id) => index'[id] = index[id]
     /\ \A t \in Triples : edges'[t] >= edges[t]]_vars

=============================================================================
