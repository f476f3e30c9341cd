------------------------- MODULE EntityGraphProofs --------------------------
(***************************************************************************)
(* Proofs about EntityGraph, for any ids, keys, relations and instances    *)
(* and any number of calls.                                                *)
(***************************************************************************)
EXTENDS EntityGraph, FiniteSetTheorems, TLAPS

-----------------------------------------------------------------------------
(***************************************************************************)
(* Types and indexes                                                       *)
(***************************************************************************)

\* What add_entity may be called with.
LEMMA InstanceShape ==
  ASSUME NEW e \in Instances
  PROVE  /\ e \in Entity
         /\ e.id \in Ids
         /\ KeyOf[e.id] \in Keys
         /\ e.relations \in Seq(Relation)
BY InstancesAssumption, KeysAssumption DEF Entity

\* The nodes are numbered from 1 and are entities.
LEMMA NodeShape ==
  ASSUME TypeOK
  PROVE  /\ Len(nodes) \in Nat
         /\ DOMAIN nodes = 1 .. Len(nodes)
         /\ \A p \in DOMAIN nodes :
              /\ nodes[p] \in Entity
              /\ nodes[p].id \in Ids
              /\ KeyOf[nodes[p].id] \in Keys
              /\ nodes[p].confidence \in Nat
<1>1. /\ Len(nodes) \in Nat
      /\ DOMAIN nodes = 1 .. Len(nodes)
      /\ \A p \in DOMAIN nodes : nodes[p] \in Entity
  BY DEF TypeOK
<1> QED
  BY <1>1, KeysAssumption DEF Entity

\* The history is a sequence of instances.
LEMMA CallShape ==
  ASSUME TypeOK
  PROVE  /\ Len(log) \in Nat
         /\ DOMAIN log = 1 .. Len(log)
         /\ \A n \in DOMAIN log : log[n] \in Instances
BY DEF TypeOK

\* A relation has finitely many places in the list of an instance.
LEMMA PlacesFinite ==
  ASSUME NEW e \in Instances, NEW t
  PROVE  IsFiniteSet(Places(e, t)) /\ Cardinality(Places(e, t)) \in Nat
<1>1. DOMAIN e.relations = 1 .. Len(e.relations) /\ Len(e.relations) \in Nat
  BY InstanceShape
<1>2. IsFiniteSet(1 .. Len(e.relations))
  BY <1>1, FS_Interval
<1>3. Places(e, t) \in SUBSET (1 .. Len(e.relations))
  BY <1>1 DEF Places
<1>4. IsFiniteSet(Places(e, t))
  BY <1>2, <1>3, FS_Subset
<1> QED
  BY <1>4, FS_CardinalityType

\* An id without a node of its key is not registered either.
LEMMA UnknownKey ==
  ASSUME TypeOK, IndexesAgree, NEW id \in Ids, dedup_index[KeyOf[id]] = 0
  PROVE  index[id] = 0
BY DEF TypeOK, IndexesAgree, HasNode, Get

\* A node keeps its id and source, and loses no confidence, when an instance
\* collapses into it (graph.rs, add_entity).
LEMMA MergedNode ==
  ASSUME NEW node \in Entity, NEW e \in Entity
  PROVE  /\ Merge(node, e) \in Entity
         /\ Merge(node, e).id = node.id
         /\ Merge(node, e).source = node.source
         /\ Merge(node, e).confidence >= node.confidence
<1>1. MergeMetadata(node.metadata, e.metadata) \in Metadata
  BY DEF MergeMetadata, Metadata, Entity
<1>2. node.confidence \in Nat /\ e.confidence \in Nat /\ e.timestamp \in Nat
  BY DEF Entity
<1>3. Merge(node, e) =
        [node EXCEPT
           !.confidence = IF e.confidence > node.confidence
                          THEN e.confidence
                          ELSE node.confidence,
           !.timestamp  = e.timestamp,
           !.metadata   = MergeMetadata(node.metadata, e.metadata)]
  BY DEF Merge, Entity
<1>4. Merge(node, e) =
        [id         |-> node.id,
         source     |-> node.source,
         confidence |-> IF e.confidence > node.confidence
                        THEN e.confidence
                        ELSE node.confidence,
         timestamp  |-> e.timestamp,
         metadata   |-> MergeMetadata(node.metadata, e.metadata),
         relations  |-> node.relations]
  BY <1>3 DEF Entity
<1> QED
  BY <1>1, <1>2, <1>4 DEF Entity

\* A new node is registered at its own position (graph.rs, add_entity).
LEMMA InsertTypes ==
  ASSUME TypeOK, IndexesAgree, NEW e \in Instances, InsertNode(e)
  PROVE  /\ nodes' \in Seq(Entity)
         /\ Len(nodes') = Len(nodes) + 1
         /\ index' \in [Ids -> 0 .. Len(nodes')]
         /\ dedup_index' \in [Keys -> 0 .. Len(nodes')]
         /\ \A p \in DOMAIN nodes : nodes'[p] = nodes[p]
         /\ nodes'[Len(nodes) + 1] = e
         /\ index[e.id] = 0
         /\ index'[e.id] = Len(nodes) + 1
         /\ \A id \in Ids : id # e.id => index'[id] = index[id]
BY InstanceShape, UnknownKey DEF InsertNode, TypeOK

\* A later instance changes one node and no index (graph.rs, add_entity).
LEMMA MergeTypes ==
  ASSUME TypeOK, IndexesAgree, NEW e \in Instances, MergeNode(e)
  PROVE  /\ nodes' \in Seq(Entity)
         /\ Len(nodes') = Len(nodes)
         /\ \A p \in DOMAIN nodes :
              /\ nodes'[p].id = nodes[p].id
              /\ nodes'[p].source = nodes[p].source
              /\ nodes'[p].confidence >= nodes[p].confidence
         /\ UNCHANGED << index, dedup_index >>
<1> DEFINE at == dedup_index[KeyOf[e.id]]
<1>1. at \in 1 .. Len(nodes) /\ nodes[at] \in Entity /\ e \in Entity
  BY InstanceShape DEF MergeNode, TypeOK
<1>2. nodes' = [nodes EXCEPT ![at] = Merge(nodes[at], e)]
  BY DEF MergeNode
<1> QED
  BY <1>1, <1>2, NodeShape, MergedNode DEF MergeNode, TypeOK

\* Every queued relation ends up as an edge or back in pending_edges, none
\* twice (graph.rs, resolve_pending_edges).
LEMMA QueueTypes ==
  ASSUME TypeOK, NEW e \in Instances, QueueAndResolve(e)
  PROVE  /\ edges' \in [Triples -> Nat]
         /\ pending' \in [Triples -> Nat]
         /\ \A t \in Triples : edges'[t] >= edges[t]
         /\ \A t \in Triples :
              edges'[t] + pending'[t] = edges[t] + pending[t] + Pushed(FinalId(e), e)[t]
<1> DEFINE pushed == Pushed(FinalId(e), e)
           queued == [t \in Triples |-> pending[t] + pushed[t]]
<1>1. pushed \in [Triples -> Nat]
  BY PlacesFinite DEF Pushed
<1>2. queued \in [Triples -> Nat]
  BY <1>1 DEF TypeOK
<1>3. /\ edges' = [t \in Triples |-> edges[t] + IF Resolvable(index', t) THEN queued[t] ELSE 0]
      /\ pending' = [t \in Triples |-> IF Resolvable(index', t) THEN 0 ELSE queued[t]]
  BY DEF QueueAndResolve
<1> HIDE DEF pushed
<1>4. ASSUME NEW t \in Triples
      PROVE  /\ edges'[t] \in Nat /\ pending'[t] \in Nat
             /\ edges'[t] >= edges[t]
             /\ edges'[t] + pending'[t] = edges[t] + pending[t] + pushed[t]
  <2>0. edges[t] \in Nat /\ pending[t] \in Nat
    BY DEF TypeOK
  <2>1. /\ edges[t] \in Nat /\ pending[t] \in Nat /\ pushed[t] \in Nat
        /\ queued[t] = pending[t] + pushed[t]
    BY <1>1, <2>0
  <2>2. CASE Resolvable(index', t)
    <3>1. edges'[t] = edges[t] + queued[t] /\ pending'[t] = 0
      BY <1>3, <2>2
    <3> QED
      BY <2>1, <3>1
  <2>3. CASE ~ Resolvable(index', t)
    <3>1. edges'[t] = edges[t] + 0 /\ pending'[t] = queued[t]
      BY <1>3, <2>3
    <3> QED
      BY <2>1, <3>1
  <2> QED
    BY <2>2, <2>3
<1>5. /\ edges' \in [Triples -> Nat]
      /\ pending' \in [Triples -> Nat]
  BY <1>3, <1>4
<1> QED
  BY <1>4, <1>5 DEF pushed

\* A call keeps the types and the indexes in agreement with the nodes.
LEMMA StepIndexes ==
  ASSUME TypeOK, IndexesAgree, AddedHasNode, NEW e \in Instances, AddEntity(e)
  PROVE  TypeOK' /\ IndexesAgree' /\ AddedHasNode'
<1>1. log' \in Seq(Instances)
  BY DEF AddEntity, TypeOK
<1>2. edges' \in [Triples -> Nat] /\ pending' \in [Triples -> Nat]
  BY QueueTypes DEF AddEntity
<1>3. CASE InsertNode(e)
  <2>1. TypeOK'
    BY <1>1, <1>2, <1>3, InsertTypes DEF TypeOK
  <2>2. IndexesAgree'
    <3>1. \A p \in DOMAIN nodes' : p \in DOMAIN nodes \/ p = Len(nodes) + 1
      BY <1>3, InsertTypes DEF TypeOK
    <3>2. ASSUME NEW p \in DOMAIN nodes'
          PROVE  index'[nodes'[p].id] = p /\ dedup_index'[KeyOf[nodes'[p].id]] = p
      <4>1. CASE p = Len(nodes) + 1
        BY <1>3, <4>1, InsertTypes, InstanceShape DEF InsertNode, TypeOK
      <4>2. CASE p \in DOMAIN nodes
        <5>1. /\ nodes'[p] = nodes[p]
              /\ index[nodes[p].id] = p
              /\ dedup_index[KeyOf[nodes[p].id]] = p
              /\ p # 0
          BY <1>3, <4>2, InsertTypes, NodeShape DEF IndexesAgree
        <5>2. nodes[p].id # e.id /\ KeyOf[nodes[p].id] # KeyOf[e.id]
          BY <1>3, <5>1 DEF InsertNode
        <5> QED
          BY <1>3, <4>2, <5>1, <5>2, NodeShape, InstanceShape DEF InsertNode, TypeOK
      <4> QED
        BY <3>1, <4>1, <4>2
    <3>3. ASSUME NEW id \in Ids, index'[id] # 0
          PROVE  nodes'[index'[id]].id = id
      <4>1. CASE id = e.id
        BY <1>3, <4>1, InsertTypes
      <4>2. CASE id # e.id
        <5>1. index'[id] = index[id] /\ index[id] # 0
          BY <1>3, <3>3, <4>2, InsertTypes
        <5>2. index[id] \in DOMAIN nodes
          BY <5>1, NodeShape DEF TypeOK
        <5>3. nodes[index[id]].id = id
          BY <5>1 DEF IndexesAgree, HasNode, Get
        <5> QED
          BY <1>3, <5>1, <5>2, <5>3, InsertTypes
      <4> QED
        BY <4>1, <4>2
    <3>4. ASSUME NEW key \in Keys, dedup_index'[key] # 0
          PROVE  KeyOf[nodes'[dedup_index'[key]].id] = key
      BY <1>3, <3>4, InsertTypes, NodeShape, InstanceShape
         DEF InsertNode, TypeOK, IndexesAgree, HasValue, FindByValue
    <3> QED
      BY <3>2, <3>3, <3>4 DEF IndexesAgree, HasNode, Get, HasValue, FindByValue
  <2>3. AddedHasNode'
    <3>1. /\ \A key \in Keys : dedup_index[key] # 0 => dedup_index'[key] # 0
          /\ dedup_index'[KeyOf[e.id]] # 0
      BY <1>3, InstanceShape, NodeShape DEF InsertNode, TypeOK
    <3>2. \A n \in DOMAIN log' : (n \in DOMAIN log /\ log'[n] = log[n]) \/ log'[n] = e
      BY CallShape DEF AddEntity, TypeOK
    <3> QED
      BY <3>1, <3>2, CallShape, InstanceShape DEF AddedHasNode, HasValue
  <2> QED
    BY <2>1, <2>2, <2>3
<1>4. CASE MergeNode(e)
  <2>1. TypeOK'
    BY <1>1, <1>2, <1>4, MergeTypes DEF TypeOK
  <2>2. IndexesAgree'
    <3>1. /\ DOMAIN nodes' = DOMAIN nodes
          /\ UNCHANGED << index, dedup_index >>
          /\ \A p \in DOMAIN nodes : nodes'[p].id = nodes[p].id
      BY <1>4, <2>1, MergeTypes, NodeShape DEF TypeOK
    <3>2. /\ \A id \in Ids : index[id] # 0 => index[id] \in DOMAIN nodes
          /\ \A key \in Keys : dedup_index[key] # 0 => dedup_index[key] \in DOMAIN nodes
      BY NodeShape DEF TypeOK
    <3> QED
      BY <3>1, <3>2 DEF IndexesAgree, HasNode, Get, HasValue, FindByValue
  <2>3. AddedHasNode'
    <3>1. dedup_index' = dedup_index /\ dedup_index[KeyOf[e.id]] # 0
      BY <1>4 DEF MergeNode
    <3>2. \A n \in DOMAIN log' : (n \in DOMAIN log /\ log'[n] = log[n]) \/ log'[n] = e
      BY CallShape DEF AddEntity, TypeOK
    <3> QED
      BY <3>1, <3>2, CallShape, InstanceShape DEF AddedHasNode, HasValue
  <2> QED
    BY <2>1, <2>2, <2>3
<1> QED
  BY <1>3, <1>4 DEF AddEntity

-----------------------------------------------------------------------------
(***************************************************************************)
(* Relations                                                               *)
(***************************************************************************)

\* The node that e ends up in is registered, is the node of the key of e, and
\* no other registered id has that key.
LEMMA FinalNode ==
  ASSUME TypeOK, IndexesAgree, NEW e \in Instances, InsertNode(e) \/ MergeNode(e)
  PROVE  /\ FinalId(e) \in Ids
         /\ index'[FinalId(e)] # 0
         /\ KeyOf[FinalId(e)] = KeyOf[e.id]
         /\ \A id \in Ids : index[id] # 0 => index'[id] # 0
         /\ \A id \in Ids : index'[id] # 0 => index[id] # 0 \/ id = FinalId(e)
         /\ index[FinalId(e)] = 0 <=> dedup_index[KeyOf[e.id]] = 0
         /\ \A id \in Ids : index[id] # 0 /\ KeyOf[id] = KeyOf[e.id] => id = FinalId(e)
<1> DEFINE at == dedup_index[KeyOf[e.id]]
<1>1. CASE InsertNode(e)
  <2>1. at = 0 /\ FinalId(e) = e.id
    BY <1>1 DEF InsertNode, FinalId
  <2>2. \A id \in Ids : index[id] # 0 => KeyOf[id] # KeyOf[e.id]
    <3> SUFFICES ASSUME NEW id \in Ids, index[id] # 0 PROVE KeyOf[id] # KeyOf[e.id]
      OBVIOUS
    <3>1. dedup_index[KeyOf[id]] # 0
      BY UnknownKey
    <3> QED
      BY <2>1, <3>1
  <2>3. e.id \in Ids /\ Len(nodes) \in Nat
    BY InstanceShape, NodeShape
  <2> QED
    BY <1>1, <2>1, <2>2, <2>3, InsertTypes
<1>2. CASE MergeNode(e)
  <2>1. at # 0 /\ at \in DOMAIN nodes /\ FinalId(e) = nodes[at].id
    BY <1>2, InstanceShape, NodeShape DEF MergeNode, FinalId, TypeOK
  <2>2. /\ KeyOf[nodes[at].id] = KeyOf[e.id]
        /\ index[nodes[at].id] = at
    BY <2>1, InstanceShape DEF IndexesAgree, HasValue, FindByValue
  <2>3. \A id \in Ids : index[id] # 0 /\ KeyOf[id] = KeyOf[e.id] => id = nodes[at].id
    <3> SUFFICES ASSUME NEW id \in Ids, index[id] # 0, KeyOf[id] = KeyOf[e.id]
                 PROVE  id = nodes[at].id
      OBVIOUS
    <3>1. index[id] \in DOMAIN nodes /\ nodes[index[id]].id = id
      BY NodeShape DEF TypeOK, IndexesAgree, HasNode, Get
    <3>2. dedup_index[KeyOf[id]] = index[id]
      BY <3>1 DEF IndexesAgree
    <3> QED
      BY <3>1, <3>2
  <2> QED
    BY <1>2, <2>1, <2>2, <2>3, NodeShape DEF MergeNode
<1> QED
  BY <1>1, <1>2

\* After a call only relations without a registered target are pending
\* (graph.rs, resolve_pending_edges).
LEMMA StepPending ==
  ASSUME TypeOK, IndexesAgree, NothingLeftPending, NEW e \in Instances, AddEntity(e)
  PROVE  NothingLeftPending'
<1> SUFFICES ASSUME NEW t \in Triples
             PROVE  /\ edges'[t] > 0 => index'[t[1]] # 0 /\ index'[t[2]] # 0
                    /\ pending'[t] > 0 => index'[t[1]] # 0 /\ index'[t[2]] = 0
  BY DEF NothingLeftPending, HasNode
<1> DEFINE pushed == Pushed(FinalId(e), e)[t]
<1>1. t[1] \in Ids /\ t[2] \in Ids
  BY DEF Triples
<1>2. /\ pushed \in Nat
      /\ pushed # 0 => t[1] = FinalId(e)
  BY PlacesFinite DEF Pushed
<1>3. /\ edges[t] \in Nat /\ pending[t] \in Nat
  BY DEF TypeOK
<1>4. /\ edges'[t] = edges[t] + IF Resolvable(index', t) THEN pending[t] + pushed ELSE 0
      /\ pending'[t] = IF Resolvable(index', t) THEN 0 ELSE pending[t] + pushed
  BY DEF AddEntity, QueueAndResolve
<1>5. /\ edges[t] > 0 => index[t[1]] # 0 /\ index[t[2]] # 0
      /\ pending[t] > 0 => index[t[1]] # 0
  BY DEF NothingLeftPending, HasNode
<1>6. /\ index'[FinalId(e)] # 0
      /\ \A id \in Ids : index[id] # 0 => index'[id] # 0
  BY FinalNode DEF AddEntity
<1> HIDE DEF pushed
<1>7. CASE Resolvable(index', t)
  BY <1>4, <1>7 DEF Resolvable
<1>8. CASE ~ Resolvable(index', t)
  <2>1. edges'[t] = edges[t] /\ pending'[t] = pending[t] + pushed
    BY <1>3, <1>4, <1>8
  <2>2. pending'[t] > 0 => index'[t[1]] # 0
    BY <1>1, <1>2, <1>3, <1>5, <1>6, <2>1
  <2> QED
    BY <1>1, <1>5, <1>6, <1>8, <2>1, <2>2 DEF Resolvable
<1> QED
  BY <1>7, <1>8

\* A relation was carried finitely often.
LEMMA CarriedFinite ==
  ASSUME TypeOK, NEW t
  PROVE  /\ IsFiniteSet(Carried(t))
         /\ Cardinality(Carried(t)) \in Nat
<1> DEFINE calls   == CallsFor(KeyOf[t[1]])
           once(n) == {n} \X Places(log[n], t)
           all     == {once(n) : n \in calls}
<1>1. IsFiniteSet(calls)
  <2>1. IsFiniteSet(DOMAIN log)
    BY CallShape, FS_Interval
  <2>2. calls \in SUBSET (DOMAIN log)
    BY DEF CallsFor
  <2> QED
    BY <2>1, <2>2, FS_Subset
<1>2. \A n \in calls : IsFiniteSet(once(n))
  <2> SUFFICES ASSUME NEW n \in calls PROVE IsFiniteSet(once(n))
    OBVIOUS
  <2>1. IsFiniteSet(Places(log[n], t))
    BY CallShape, PlacesFinite DEF CallsFor
  <2>2. IsFiniteSet({n})
    BY FS_Singleton
  <2> QED
    BY <2>1, <2>2, FS_Product
<1>3. IsFiniteSet(all)
  <2> DEFINE f == [n \in calls |-> once(n)]
  <2> HIDE DEF calls
  <2>1. f \in Surjection(calls, all)
    BY DEF Surjection
  <2> QED
    BY <1>1, <2>1, FS_Surjection
<1>4. IsFiniteSet(UNION all)
  BY <1>2, <1>3, FS_UNION
<1>5. Carried(t) = UNION all
  BY DEF Carried
<1> QED
  BY <1>4, <1>5, FS_CardinalityType

\* How much more often one more call carries t.
LEMMA CarriedStep ==
  ASSUME TypeOK, NEW e \in Instances, log' = Append(log, e), NEW t
  PROVE  Cardinality(Carried(t)') = Cardinality(Carried(t)) +
           IF KeyOf[e.id] = KeyOf[t[1]] THEN Cardinality(Places(e, t)) ELSE 0
<1> DEFINE last == Len(log) + 1
           new  == {last} \X Places(e, t)
<1>1. /\ DOMAIN log' = DOMAIN log \cup {last}
      /\ \A n \in DOMAIN log : log'[n] = log[n]
      /\ log'[last] = e
      /\ last \notin DOMAIN log
  BY CallShape DEF TypeOK
<1>2. IsFiniteSet(Carried(t)) /\ Cardinality(Carried(t)) \in Nat
  BY CarriedFinite
<1> HIDE DEF last
<1>3. CASE KeyOf[e.id] = KeyOf[t[1]]
  <2>1. Carried(t)' = Carried(t) \cup new
    BY <1>1, <1>3 DEF Carried, CallsFor, Places
  <2>2. Carried(t) \cap new = {}
    BY <1>1 DEF Carried, CallsFor
  <2>3. /\ IsFiniteSet(new)
        /\ Cardinality(new) = Cardinality(Places(e, t))
    <3>1. IsFiniteSet({last}) /\ Cardinality({last}) = 1
      BY FS_Singleton
    <3>2. IsFiniteSet(Places(e, t)) /\ Cardinality(Places(e, t)) \in Nat
      BY PlacesFinite
    <3>3. IsFiniteSet(new) /\ Cardinality(new) = Cardinality({last}) * Cardinality(Places(e, t))
      BY <3>1, <3>2, FS_Product
    <3> QED
      BY <3>1, <3>2, <3>3
  <2> HIDE DEF new
  <2>4. Cardinality(Carried(t) \cup new) =
          Cardinality(Carried(t)) + Cardinality(new) - Cardinality(Carried(t) \cap new)
    BY <1>2, <2>3, FS_Union
  <2>5. Cardinality(Carried(t) \cap new) = 0
    BY <2>2, FS_EmptySet
  <2>6. Cardinality(Places(e, t)) \in Nat
    BY PlacesFinite
  <2> QED
    BY <1>2, <1>3, <2>1, <2>3, <2>4, <2>5, <2>6
<1>4. CASE KeyOf[e.id] # KeyOf[t[1]]
  <2>1. Carried(t)' = Carried(t)
    BY <1>1, <1>4 DEF Carried, CallsFor, Places
  <2> QED
    BY <1>2, <1>4, <2>1
<1> QED
  BY <1>3, <1>4

\* A call keeps the count of every relation.
LEMMA StepConserved ==
  ASSUME TypeOK, IndexesAgree, AddedHasNode, NothingLeftPending,
         RelationsConserved, NEW e \in Instances, AddEntity(e)
  PROVE  RelationsConserved'
<1> SUFFICES ASSUME NEW t \in Triples
             PROVE  edges'[t] + pending'[t] =
                      IF index'[t[1]] # 0 THEN Cardinality(Carried(t)') ELSE 0
  BY DEF RelationsConserved, HasNode
<1> DEFINE places == Cardinality(Places(e, t))
           pushed == Pushed(FinalId(e), e)[t]
<1>1. t[1] \in Ids
  BY DEF Triples
<1>2. edges[t] \in Nat /\ pending[t] \in Nat
  BY DEF TypeOK
<1>3. edges'[t] + pending'[t] = edges[t] + pending[t] + pushed
  BY QueueTypes DEF AddEntity
<1>4. pushed = IF t[1] = FinalId(e) THEN places ELSE 0
  BY DEF Pushed
<1>5. edges[t] + pending[t] = IF index[t[1]] # 0 THEN Cardinality(Carried(t)) ELSE 0
  BY DEF RelationsConserved, HasNode
<1>6. /\ Cardinality(Carried(t)) \in Nat
      /\ places \in Nat
      /\ Cardinality(Carried(t)') =
           Cardinality(Carried(t)) + IF KeyOf[e.id] = KeyOf[t[1]] THEN places ELSE 0
  BY CarriedFinite, CarriedStep, PlacesFinite DEF AddEntity
<1>7. /\ index'[FinalId(e)] # 0
      /\ KeyOf[FinalId(e)] = KeyOf[e.id]
      /\ \A id \in Ids : index[id] # 0 => index'[id] # 0
      /\ \A id \in Ids : index'[id] # 0 => index[id] # 0 \/ id = FinalId(e)
      /\ index[FinalId(e)] = 0 <=> dedup_index[KeyOf[e.id]] = 0
      /\ \A id \in Ids : index[id] # 0 /\ KeyOf[id] = KeyOf[e.id] => id = FinalId(e)
  BY FinalNode DEF AddEntity
<1> HIDE DEF places, pushed
<1>8. CASE index[t[1]] # 0
  <2>1. KeyOf[e.id] = KeyOf[t[1]] <=> t[1] = FinalId(e)
    BY <1>1, <1>7, <1>8
  <2>2. index'[t[1]] # 0
    BY <1>1, <1>7, <1>8
  <2> QED
    BY <1>2, <1>3, <1>4, <1>5, <1>6, <1>8, <2>1, <2>2
<1>9. CASE index[t[1]] = 0 /\ t[1] = FinalId(e)
  <2>1. Carried(t) = {}
    <3>1. dedup_index[KeyOf[t[1]]] = 0
      BY <1>7, <1>9
    <3>2. CallsFor(KeyOf[t[1]]) = {}
      BY <3>1 DEF CallsFor, AddedHasNode, HasValue
    <3> QED
      BY <3>2 DEF Carried
  <2>2. Cardinality(Carried(t)) = 0
    BY <2>1, FS_EmptySet
  <2>3. index'[t[1]] # 0 /\ KeyOf[e.id] = KeyOf[t[1]]
    BY <1>7, <1>9
  <2> QED
    BY <1>2, <1>3, <1>4, <1>5, <1>6, <1>9, <2>2, <2>3
<1>10. CASE index[t[1]] = 0 /\ t[1] # FinalId(e)
  <2>1. index'[t[1]] = 0
    BY <1>1, <1>7, <1>10
  <2>2. pushed = 0
    BY <1>4, <1>10
  <2> QED
    BY <1>2, <1>3, <1>5, <1>10, <2>1, <2>2
<1> QED
  BY <1>8, <1>9, <1>10

-----------------------------------------------------------------------------
(***************************************************************************)
(* Theorems                                                                *)
(***************************************************************************)

\* The empty graph satisfies the invariant.
LEMMA InitGInv == Init => GInv
<1> SUFFICES ASSUME Init PROVE GInv
  OBVIOUS
<1> USE DEF Init
<1>1. nodes \in Seq(Entity) /\ log \in Seq(Instances) /\ Len(nodes) = 0
  OBVIOUS
<1>2. TypeOK
  BY <1>1 DEF TypeOK
<1>3. IndexesAgree
  BY KeysAssumption DEF IndexesAgree, HasNode, HasValue
<1>4. AddedHasNode
  BY DEF AddedHasNode
<1>5. NothingLeftPending
  BY DEF NothingLeftPending
<1>6. RelationsConserved
  <2> SUFFICES ASSUME NEW t \in Triples
               PROVE  edges[t] + pending[t] = IF index[t[1]] # 0 THEN Cardinality(Carried(t)) ELSE 0
    BY DEF RelationsConserved, HasNode
  <2>1. t[1] \in Ids
    BY DEF Triples
  <2> QED
    BY <2>1
<1> QED
  BY <1>2, <1>3, <1>4, <1>5, <1>6 DEF GInv

\* Every call of add_entity keeps the invariant.
LEMMA StepGInv == GInv /\ [Next]_vars => GInv'
<1> SUFFICES ASSUME GInv, [Next]_vars PROVE GInv'
  OBVIOUS
<1>1. ASSUME NEW e \in Instances, AddEntity(e)
      PROVE  GInv'
  BY <1>1, StepIndexes, StepPending, StepConserved DEF GInv
<1>2. CASE UNCHANGED vars
  BY <1>2 DEF vars, GInv, TypeOK, IndexesAgree, AddedHasNode, NothingLeftPending,
              RelationsConserved, Carried, CallsFor, HasNode, Get, HasValue, FindByValue
<1> QED
  BY <1>1, <1>2 DEF Next

\* The invariant holds after any number of calls of add_entity (graph.rs).
THEOREM GraphInvariance == Spec => []GInv
BY InitGInv, StepGInv, PTL DEF Spec

\* Every variable keeps its type: no index ever points past the nodes.
THEOREM GraphTypeCorrect == Spec => []TypeOK
<1>1. GInv => TypeOK
  BY DEF GInv
<1> QED
  BY <1>1, GraphInvariance, PTL

\* One node per key, found by its value and by the first id alone.
THEOREM Deduplicated == Spec => []IndexesAgree
<1>1. GInv => IndexesAgree
  BY DEF GInv
<1> QED
  BY <1>1, GraphInvariance, PTL

\* The queue holds only relations that cannot be edges yet.
THEOREM PendingIsNecessary == Spec => []NothingLeftPending
<1>1. GInv => NothingLeftPending
  BY DEF GInv
<1> QED
  BY <1>1, GraphInvariance, PTL

\* Every relation ever carried is an edge or pending, once per call.
THEOREM NoRelationLost == Spec => []RelationsConserved
<1>1. GInv => RelationsConserved
  BY DEF GInv
<1> QED
  BY <1>1, GraphInvariance, PTL

\* No call takes anything away that an earlier one put into the graph.
THEOREM GraphOnlyGrows == Spec => OnlyGrows
<1>1. GInv /\ [Next]_vars =>
        [/\ Len(nodes') >= Len(nodes)
         /\ \A p \in DOMAIN nodes :
              /\ nodes'[p].id = nodes[p].id
              /\ nodes'[p].source = nodes[p].source
              /\ nodes'[p].confidence >= nodes[p].confidence
         /\ \A id \in Ids : HasNode(id) => index'[id] = index[id]
         /\ \A t \in Triples : edges'[t] >= edges[t]]_vars
  <2> SUFFICES ASSUME GInv, NEW e \in Instances, AddEntity(e)
               PROVE  /\ Len(nodes') >= Len(nodes)
                      /\ \A p \in DOMAIN nodes :
                           /\ nodes'[p].id = nodes[p].id
                           /\ nodes'[p].source = nodes[p].source
                           /\ nodes'[p].confidence >= nodes[p].confidence
                      /\ \A id \in Ids : HasNode(id) => index'[id] = index[id]
                      /\ \A t \in Triples : edges'[t] >= edges[t]
    BY DEF Next
  <2> USE DEF GInv
  <2>1. \A t \in Triples : edges'[t] >= edges[t]
    BY QueueTypes DEF AddEntity
  <2>2. \A p \in DOMAIN nodes : nodes[p].confidence >= nodes[p].confidence
    BY NodeShape
  <2>3. CASE InsertNode(e)
    BY <2>1, <2>2, <2>3, InsertTypes, NodeShape DEF HasNode
  <2>4. CASE MergeNode(e)
    BY <2>1, <2>4, MergeTypes, NodeShape DEF HasNode
  <2> QED
    BY <2>3, <2>4 DEF AddEntity
<1> QED
  BY <1>1, GraphInvariance, PTL DEF Spec, OnlyGrows

-----------------------------------------------------------------------------
(***************************************************************************)
(* Which relations are edges                                               *)
(***************************************************************************)

\* Beyond GInv: a key is registered only for an instance that was added, and
\* the first instance of a key is registered under its id.
FirstInv ==
  /\ \A key \in Keys : HasValue(key) => \E n \in DOMAIN log : KeyOf[log[n].id] = key
  /\ \A n \in DOMAIN log : IsFirst(n) => HasNode(log[n].id)

LEMMA StepFirst ==
  ASSUME GInv, FirstInv, NEW e \in Instances, AddEntity(e)
  PROVE  FirstInv'
<1> USE DEF GInv
<1>1. /\ Len(log) \in Nat /\ DOMAIN log = 1 .. Len(log)
      /\ log' = Append(log, e)
      /\ DOMAIN log' = 1 .. Len(log) + 1
      /\ \A n \in DOMAIN log : log'[n] = log[n]
      /\ log'[Len(log) + 1] = e
  BY CallShape DEF AddEntity, TypeOK
<1>2. /\ FinalId(e) \in Ids
      /\ index'[FinalId(e)] # 0
      /\ \A id \in Ids : index[id] # 0 => index'[id] # 0
  BY FinalNode DEF AddEntity
<1>3. ASSUME NEW key \in Keys, dedup_index'[key] # 0
      PROVE  \E n \in DOMAIN log' : KeyOf[log'[n].id] = key
  <2>1. CASE dedup_index[key] # 0
    BY <1>1, <2>1 DEF FirstInv, HasValue
  <2>2. CASE dedup_index[key] = 0
    <3>1. key = KeyOf[e.id]
      BY <1>3, <2>2, InstanceShape DEF AddEntity, InsertNode, MergeNode, TypeOK
    <3> QED
      BY <1>1, <3>1
  <2> QED
    BY <2>1, <2>2
<1>4. ASSUME NEW n \in DOMAIN log', IsFirst(n)'
      PROVE  index'[log'[n].id] # 0
  <2>1. CASE n \in DOMAIN log
    <3>1. IsFirst(n)
      BY <1>1, <1>4, <2>1 DEF IsFirst
    <3>2. index[log[n].id] # 0 /\ log[n].id \in Ids
      BY <2>1, <3>1, CallShape, InstanceShape DEF FirstInv, HasNode
    <3> QED
      BY <1>1, <1>2, <2>1, <3>2
  <2>2. CASE n = Len(log) + 1
    <3>1. \A m \in DOMAIN log : KeyOf[log[m].id] # KeyOf[e.id]
      BY <1>1, <1>4, <2>2 DEF IsFirst
    <3>2. dedup_index[KeyOf[e.id]] = 0
      BY <3>1, InstanceShape DEF FirstInv, HasValue
    <3> QED
      BY <1>1, <1>2, <2>2, <3>2 DEF FinalId
  <2> QED
    BY <1>1, <2>1, <2>2
<1> QED
  BY <1>3, <1>4 DEF FirstInv, HasValue, HasNode

\* Under these invariants a relation to a first instance has become an edge.
LEMMA FirstIsLinked ==
  ASSUME GInv, FirstInv
  PROVE  FirstInstancesAreLinked
<1> USE DEF GInv
<1> SUFFICES ASSUME NEW m \in DOMAIN log, NEW n \in DOMAIN log,
                    NEW i \in DOMAIN log[m].relations,
                    NEW r, r = log[m].relations[i], IsFirst(n), log[n].id = r.target
             PROVE  r \in RelationsOf(FindByValue(KeyOf[log[m].id]).id)
  BY DEF FirstInstancesAreLinked
<1> DEFINE key    == KeyOf[log[m].id]
           source == FindByValue(key).id
           t      == << source, r.target, r.kind >>
<1>1. r \in Relation /\ key \in Keys
  BY CallShape, InstanceShape
<1>2. dedup_index[key] # 0 /\ KeyOf[source] = key
  BY <1>1 DEF AddedHasNode, HasValue, IndexesAgree
<1>3. source \in Ids /\ index[source] # 0
  <2>1. dedup_index[key] \in DOMAIN nodes
    BY <1>1, <1>2, NodeShape DEF TypeOK
  <2>2. index[nodes[dedup_index[key]].id] = dedup_index[key]
    BY <2>1 DEF IndexesAgree
  <2> QED
    BY <1>2, <2>1, <2>2, NodeShape DEF FindByValue
<1>4. t \in Triples /\ t[1] = source /\ t[2] = r.target /\ t[3] = r.kind
  BY <1>1, <1>3 DEF Triples, Relation
<1>5. [target |-> t[2], kind |-> t[3]] = r
  BY <1>1, <1>4 DEF Relation
<1>6. edges[t] + pending[t] = Cardinality(Carried(t))
  BY <1>3, <1>4 DEF RelationsConserved, HasNode
<1>7. Cardinality(Carried(t)) # 0
  <2>1. << m, i >> \in {m} \X Places(log[m], t) /\ m \in CallsFor(KeyOf[t[1]])
    BY <1>2, <1>4, <1>5 DEF Places, CallsFor
  <2>2. << m, i >> \in Carried(t)
    BY <2>1 DEF Carried
  <2> QED
    BY <2>2, CarriedFinite, FS_EmptySet
<1>8. pending[t] = 0
  <2>1. index[t[2]] # 0
    BY <1>4 DEF FirstInv, HasNode
  <2>2. ~ (pending[t] > 0)
    BY <1>4, <2>1 DEF NothingLeftPending, HasNode
  <2>3. pending[t] \in Nat
    BY <1>4 DEF TypeOK
  <2> HIDE DEF t
  <2> QED
    BY <2>2, <2>3
<1>9. edges[t] > 0
  BY <1>4, <1>6, <1>7, <1>8 DEF TypeOK
<1> QED
  BY <1>3, <1>4, <1>5, <1>9 DEF RelationsOf, HasNode

\* A relation to a first instance is among those relations_of reports
\* (graph.rs:166), whether its target came before its source or after it.
THEOREM FirstInstancesLinked == Spec => []FirstInstancesAreLinked
<1>1. Init => FirstInv
  BY DEF Init, FirstInv, HasValue
<1>2. GInv /\ FirstInv /\ [Next]_vars => FirstInv'
  <2> SUFFICES ASSUME GInv, FirstInv, [Next]_vars PROVE FirstInv'
    OBVIOUS
  <2>1. CASE UNCHANGED vars
    BY <2>1 DEF vars, FirstInv, HasValue, HasNode, IsFirst
  <2> QED
    BY <2>1, StepFirst DEF Next
<1> QED
  BY <1>1, <1>2, FirstIsLinked, GraphInvariance, PTL DEF Spec

-----------------------------------------------------------------------------
(***************************************************************************)
(* What a node holds                                                       *)
(***************************************************************************)

\* A call of add_entity adds itself to the calls for its key, at the end.
LEMMA CallsGrow ==
  ASSUME TypeOK, NEW e \in Instances, log' = Append(log, e), NEW key \in Keys,
         NEW last \in Nat, last = Len(log) + 1
  PROVE  /\ last \notin CallsFor(key)
         /\ CallsFor(key) \subseteq DOMAIN log
         /\ \A n \in CallsFor(key) : n < last
         /\ CallsFor(key)' = CallsFor(key) \cup
              IF KeyOf[e.id] = key THEN {last} ELSE {}
         /\ \A f \in Fields :
              CallsGiving(key, f)' =
                (IF KeyOf[e.id] = key /\ e.metadata.shape = "scalar"
                 THEN {} ELSE CallsGiving(key, f))
                \cup IF KeyOf[e.id] = key /\ e.metadata.fields[f] # Absent THEN {last} ELSE {}
         /\ \A n \in DOMAIN log : log'[n] = log[n] /\ (IsFirst(n)' <=> IsFirst(n))
         /\ log'[last] = e
<1>1. /\ Len(log) \in Nat /\ DOMAIN log = 1 .. Len(log)
      /\ DOMAIN log' = 1 .. last
      /\ \A n \in DOMAIN log : log'[n] = log[n]
      /\ log'[last] = e
  BY CallShape DEF TypeOK
<1>2. /\ last \notin CallsFor(key)
      /\ CallsFor(key) \subseteq DOMAIN log
      /\ \A n \in CallsFor(key) : n < last
  BY <1>1 DEF CallsFor
<1>3. CallsFor(key)' = CallsFor(key) \cup
        IF KeyOf[e.id] = key THEN {last} ELSE {}
  BY <1>1 DEF CallsFor
<1>4. ASSUME NEW f \in Fields
      PROVE  CallsGiving(key, f)' =
               (IF KeyOf[e.id] = key /\ e.metadata.shape = "scalar"
                THEN {} ELSE CallsGiving(key, f))
               \cup IF KeyOf[e.id] = key /\ e.metadata.fields[f] # Absent THEN {last} ELSE {}
  <2>1. CASE KeyOf[e.id] # key
    BY <1>1, <1>2, <1>3, <2>1 DEF CallsGiving
  <2>2. CASE KeyOf[e.id] = key
    <3>1. /\ CallsFor(key)' = CallsFor(key) \cup {last}
          /\ \A n \in CallsFor(key) : last > n /\ ~ (n > last) /\ log'[n] = log[n]
          /\ log'[last] = e /\ ~ (last > last)
      BY <1>1, <1>2, <1>3, <2>2
    <3>2. ASSUME NEW n \in CallsFor(key)
          PROVE  n \in CallsGiving(key, f)' <=>
                   n \in CallsGiving(key, f) /\ e.metadata.shape # "scalar"
      BY <3>1 DEF CallsGiving
    <3>3. last \in CallsGiving(key, f)' <=> e.metadata.fields[f] # Absent
      BY <3>1 DEF CallsGiving
    <3>4. /\ CallsGiving(key, f)' \subseteq CallsFor(key) \cup {last}
          /\ CallsGiving(key, f) \subseteq CallsFor(key)
      BY <3>1 DEF CallsGiving
    <3> QED
      BY <1>2, <2>2, <3>2, <3>3, <3>4
  <2> QED
    BY <2>1, <2>2
<1>5. \A n \in DOMAIN log : IsFirst(n)' <=> IsFirst(n)
  BY <1>1 DEF IsFirst
<1> QED
  BY <1>1, <1>2, <1>3, <1>4, <1>5

\* A call changes the node of its own key only: it makes it, or merges into it.
LEMMA NodeStep ==
  ASSUME TypeOK, IndexesAgree, NEW e \in Instances, AddEntity(e), NEW key \in Keys
  PROVE  /\ key # KeyOf[e.id] =>
              /\ HasValue(key)' <=> HasValue(key)
              /\ HasValue(key) => FindByValue(key)' = FindByValue(key)
         /\ key = KeyOf[e.id] =>
              /\ HasValue(key)'
              /\ FindByValue(key)' =
                   IF HasValue(key) THEN Merge(FindByValue(key), e) ELSE e
<1> DEFINE at == dedup_index[key]
<1>1. at \in 0 .. Len(nodes) /\ Len(nodes) \in Nat /\ DOMAIN nodes = 1 .. Len(nodes)
  BY NodeShape DEF TypeOK
<1>2. CASE InsertNode(e)
  <2>1. /\ nodes'[Len(nodes) + 1] = e
        /\ \A p \in DOMAIN nodes : nodes'[p] = nodes[p]
    BY <1>2, InsertTypes
  <2>2. dedup_index[KeyOf[e.id]] = 0
    BY <1>2 DEF InsertNode
  <2>3. dedup_index'[key] = IF key = KeyOf[e.id] THEN Len(nodes) + 1 ELSE at
    BY <1>2 DEF InsertNode, TypeOK
  <2> QED
    BY <1>1, <2>1, <2>2, <2>3 DEF HasValue, FindByValue
<1>3. CASE MergeNode(e)
  <2>1. dedup_index' = dedup_index /\ dedup_index[KeyOf[e.id]] # 0
    BY <1>3 DEF MergeNode
  <2>2. nodes' = [nodes EXCEPT ![dedup_index[KeyOf[e.id]]] =
                    Merge(nodes[dedup_index[KeyOf[e.id]]], e)]
    BY <1>3 DEF MergeNode
  <2>3. key # KeyOf[e.id] /\ at # 0 => at # dedup_index[KeyOf[e.id]]
    <3> SUFFICES ASSUME at # 0, at = dedup_index[KeyOf[e.id]]
                 PROVE  key = KeyOf[e.id]
      OBVIOUS
    <3> QED
      BY <2>1, InstanceShape DEF IndexesAgree, HasValue, FindByValue
  <2> QED
    BY <1>1, <2>1, <2>2, <2>3 DEF HasValue, FindByValue
<1> QED
  BY <1>2, <1>3 DEF AddEntity

\* The first instance of a key is the node.
LEMMA FirstMakesNode ==
  ASSUME TypeOK, NEW e \in Instances, log' = Append(log, e), NEW key \in Keys,
         key = KeyOf[e.id], CallsFor(key) = {}
  PROVE  MergesInstances(e, key)'
<1> PICK last \in Nat : last = Len(log) + 1
  BY CallShape
<1>1. /\ DOMAIN log = 1 .. last - 1
      /\ CallsFor(key)' = {last}
      /\ log'[last] = e
      /\ \A n \in DOMAIN log : log'[n] = log[n]
  BY CallsGrow, CallShape
<1>2. ASSUME NEW f \in Fields
      PROVE  CallsGiving(key, f)' = IF e.metadata.fields[f] # Absent THEN {last} ELSE {}
  <2>1. CallsGiving(key, f) = {}
    BY DEF CallsGiving
  <2>2. CallsGiving(key, f)' =
          (IF KeyOf[e.id] = key /\ e.metadata.shape = "scalar" THEN {} ELSE CallsGiving(key, f))
          \cup IF KeyOf[e.id] = key /\ e.metadata.fields[f] # Absent THEN {last} ELSE {}
    BY CallsGrow
  <2> QED
    BY <2>1, <2>2
<1>3. IsFirst(last)'
  <2>1. \A m \in DOMAIN log : KeyOf[log[m].id] # key
    BY DEF CallsFor
  <2> QED
    BY <1>1, <2>1 DEF IsFirst
<1>4. e.confidence \in Nat
  BY InstanceShape DEF Entity
<1>5. /\ \E n \in CallsFor(key)' : IsFirst(n)' /\ e.id = log'[n].id /\ e.source = log'[n].source
      /\ \E n \in CallsFor(key)' : IsLast(n, CallsFor(key)') /\ e.timestamp = log'[n].timestamp
      /\ \E n \in CallsFor(key)' : e.confidence = log'[n].confidence
      /\ \A n \in CallsFor(key)' : e.confidence >= log'[n].confidence
  BY <1>1, <1>3, <1>4 DEF IsLast
<1>6. ASSUME NEW f \in Fields
      PROVE  IF CallsGiving(key, f)' = {}
             THEN e.metadata.fields[f] = Absent
             ELSE \E n \in CallsGiving(key, f)' :
                    e.metadata.fields[f] = log'[n].metadata.fields[f]
  BY <1>1, <1>2
<1> QED
  BY <1>5, <1>6 DEF MergesInstances

\* What merging does to a metadata field: the instance has its say, if it says
\* anything of the field (graph.rs, merge_metadata).
LEMMA MergedField ==
  ASSUME NEW old \in Metadata, NEW new \in Metadata, NEW f \in Fields
  PROVE  MergeMetadata(old, new).fields[f] =
           IF new.fields[f] # Absent THEN new.fields[f]
           ELSE IF new.shape = "scalar" THEN Absent
           ELSE old.fields[f]
<1>1. /\ old.shape \in {"null", "object", "scalar"} /\ new.shape \in {"null", "object", "scalar"}
      /\ old.shape # "object" => old.fields[f] = Absent
      /\ new.shape # "object" => new.fields[f] = Absent
  BY DEF Metadata
<1>2. CASE new.shape = "null"
  BY <1>1, <1>2 DEF MergeMetadata
<1>3. CASE new.shape = "object" /\ old.shape = "object"
  BY <1>3 DEF MergeMetadata
<1>4. CASE new.shape = "scalar" \/ (new.shape = "object" /\ old.shape # "object")
  BY <1>1, <1>4 DEF MergeMetadata
<1> QED
  BY <1>1, <1>2, <1>3, <1>4

LEMMA MergedValues ==
  ASSUME NEW node \in Entity, NEW e \in Entity
  PROVE  /\ Merge(node, e).confidence = IF e.confidence > node.confidence
                                        THEN e.confidence
                                        ELSE node.confidence
         /\ Merge(node, e).timestamp = e.timestamp
         /\ Merge(node, e).metadata = MergeMetadata(node.metadata, e.metadata)
BY DEF Merge, Entity

\* A later instance of the key merges into what the node is so far.
LEMMA LaterMergesIntoNode ==
  ASSUME TypeOK, NEW e \in Instances, log' = Append(log, e), NEW key \in Keys,
         key = KeyOf[e.id], NEW node \in Entity, MergesInstances(node, key)
  PROVE  MergesInstances(Merge(node, e), key)'
<1> PICK last \in Nat : last = Len(log) + 1
  BY CallShape
<1> DEFINE merged == Merge(node, e)
<1>1. /\ CallsFor(key)' = CallsFor(key) \cup {last}
      /\ \A n \in CallsFor(key) : n \in DOMAIN log /\ n \in Nat /\ n < last
      /\ \A n \in CallsFor(key) : log'[n] = log[n] /\ (IsFirst(n)' <=> IsFirst(n))
      /\ log'[last] = e
  BY CallsGrow, CallShape
<1>2. e \in Entity /\ e.confidence \in Nat /\ node.confidence \in Nat
  BY InstanceShape DEF Entity
<1>3. /\ merged.id = node.id /\ merged.source = node.source
      /\ merged.timestamp = e.timestamp
      /\ merged.confidence = IF e.confidence > node.confidence
                             THEN e.confidence
                             ELSE node.confidence
      /\ merged.metadata = MergeMetadata(node.metadata, e.metadata)
  BY <1>2, MergedNode, MergedValues
<1>4. /\ \E n \in CallsFor(key) : IsFirst(n) /\ node.id = log[n].id /\ node.source = log[n].source
      /\ \E n \in CallsFor(key) : node.confidence = log[n].confidence
      /\ \A n \in CallsFor(key) : node.confidence >= log[n].confidence
      /\ \A f \in Fields :
           IF CallsGiving(key, f) = {}
           THEN node.metadata.fields[f] = Absent
           ELSE \E n \in CallsGiving(key, f) :
                  node.metadata.fields[f] = log[n].metadata.fields[f]
  BY DEF MergesInstances
<1> HIDE DEF merged
<1>5. \E n \in CallsFor(key)' : IsFirst(n)' /\ merged.id = log'[n].id /\ merged.source = log'[n].source
  BY <1>1, <1>3, <1>4
<1>6. \E n \in CallsFor(key)' : IsLast(n, CallsFor(key)') /\ merged.timestamp = log'[n].timestamp
  <2>1. IsLast(last, CallsFor(key)')
    BY <1>1 DEF IsLast
  <2> QED
    BY <1>1, <1>3, <2>1
<1>7. \E n \in CallsFor(key)' : merged.confidence = log'[n].confidence
  BY <1>1, <1>3, <1>4
<1>8. \A n \in CallsFor(key)' : merged.confidence >= log'[n].confidence
  <2>1. merged.confidence >= e.confidence /\ merged.confidence >= node.confidence
    BY <1>2, <1>3
  <2>2. \A n \in CallsFor(key) : log[n].confidence \in Nat
    BY <1>1, CallShape, InstanceShape DEF Entity
  <2>3. merged.confidence \in Nat
    BY <1>2, <1>3
  <2>4. ASSUME NEW n \in CallsFor(key)
        PROVE  merged.confidence >= log'[n].confidence
    BY <1>1, <1>2, <1>4, <2>1, <2>2, <2>3
  <2> QED
    BY <1>1, <2>1, <2>4
<1>9. ASSUME NEW f \in Fields
      PROVE  IF CallsGiving(key, f)' = {}
             THEN merged.metadata.fields[f] = Absent
             ELSE \E n \in CallsGiving(key, f)' :
                    merged.metadata.fields[f] = log'[n].metadata.fields[f]
  <2> DEFINE says   == e.metadata.fields[f] # Absent
             resets == e.metadata.shape = "scalar"
  <2>1. /\ CallsGiving(key, f)' =
             (IF resets THEN {} ELSE CallsGiving(key, f)) \cup IF says THEN {last} ELSE {}
        /\ CallsGiving(key, f) \subseteq CallsFor(key)
    BY CallsGrow DEF CallsGiving
  <2>2. merged.metadata.fields[f] =
          IF says THEN e.metadata.fields[f]
          ELSE IF resets THEN Absent
          ELSE node.metadata.fields[f]
    BY <1>2, <1>3, MergedField DEF Entity
  <2> HIDE DEF says, resets
  <2>3. CASE says
    BY <1>1, <2>1, <2>2, <2>3
  <2>4. CASE ~ says /\ resets
    BY <2>1, <2>2, <2>4
  <2>5. CASE ~ says /\ ~ resets
    <3>1. CallsGiving(key, f)' = CallsGiving(key, f)
      BY <2>1, <2>5
    <3>2. merged.metadata.fields[f] = node.metadata.fields[f]
      BY <2>2, <2>5
    <3>3. \A n \in CallsGiving(key, f) : log'[n] = log[n]
      BY <1>1, <2>1
    <3>4. IF CallsGiving(key, f) = {}
          THEN node.metadata.fields[f] = Absent
          ELSE \E n \in CallsGiving(key, f) :
                 node.metadata.fields[f] = log[n].metadata.fields[f]
      BY <1>4
    <3> QED
      BY <3>1, <3>2, <3>3, <3>4
  <2> QED
    BY <2>3, <2>4, <2>5
<1> QED
  BY <1>5, <1>6, <1>7, <1>8, <1>9 DEF MergesInstances, merged

LEMMA StepMerges ==
  ASSUME GInv, NodesMergeInstances, NEW e \in Instances, AddEntity(e)
  PROVE  NodesMergeInstances'
<1> USE DEF GInv
<1> SUFFICES ASSUME NEW key \in Keys
             PROVE  /\ HasValue(key)' <=> CallsFor(key)' # {}
                    /\ HasValue(key)' => MergesInstances(FindByValue(key), key)'
  BY DEF NodesMergeInstances
<1> PICK last \in Nat : last = Len(log) + 1
  BY CallShape
<1>1. log' = Append(log, e)
  BY DEF AddEntity
<1>2. /\ HasValue(key) <=> CallsFor(key) # {}
      /\ HasValue(key) => MergesInstances(FindByValue(key), key)
  BY DEF NodesMergeInstances
<1>3. CASE key # KeyOf[e.id]
  <2>1. /\ CallsFor(key)' = CallsFor(key)
        /\ \A n \in CallsFor(key) : log'[n] = log[n] /\ (IsFirst(n)' <=> IsFirst(n))
    <3>1. CallsFor(key)' = CallsFor(key) \cup IF KeyOf[e.id] = key THEN {last} ELSE {}
      BY <1>1, CallsGrow
    <3>2. /\ CallsFor(key) \subseteq DOMAIN log
          /\ \A n \in DOMAIN log : log'[n] = log[n] /\ (IsFirst(n)' <=> IsFirst(n))
      BY <1>1, CallsGrow
    <3> QED
      BY <1>3, <3>1, <3>2
  <2>3. ASSUME NEW f \in Fields
        PROVE  CallsGiving(key, f)' = CallsGiving(key, f)
    <3>1. CallsGiving(key, f)' =
            (IF KeyOf[e.id] = key /\ e.metadata.shape = "scalar" THEN {} ELSE CallsGiving(key, f))
            \cup IF KeyOf[e.id] = key /\ e.metadata.fields[f] # Absent THEN {last} ELSE {}
      BY <1>1, CallsGrow
    <3> QED
      BY <1>3, <3>1
  <2>2. /\ HasValue(key)' <=> HasValue(key)
        /\ HasValue(key) => FindByValue(key)' = FindByValue(key)
    BY <1>3, NodeStep
  <2>4. ASSUME NEW node, MergesInstances(node, key)
        PROVE  MergesInstances(node, key)'
    <3>1. \A f \in Fields : CallsGiving(key, f) \subseteq CallsFor(key)
      BY DEF CallsGiving
    <3> QED
      BY <2>1, <2>3, <2>4, <3>1 DEF MergesInstances
  <2>5. PICK node : node = FindByValue(key)
    OBVIOUS
  <2>6. CASE HasValue(key)
    <3>1. MergesInstances(node, key)'
      BY <1>2, <2>4, <2>5, <2>6
    <3> QED
      BY <1>2, <2>1, <2>2, <2>5, <2>6, <3>1 DEF MergesInstances
  <2> QED
    BY <1>2, <2>1, <2>2, <2>6
<1>4. CASE key = KeyOf[e.id]
  <2>1. CallsFor(key)' = CallsFor(key) \cup {last}
    BY <1>1, <1>4, CallsGrow
  <2>2. /\ HasValue(key)'
        /\ FindByValue(key)' = IF HasValue(key) THEN Merge(FindByValue(key), e) ELSE e
    BY <1>4, NodeStep
  <2>3. CASE ~ HasValue(key)
    <3>1. MergesInstances(e, key)'
      BY <1>1, <1>2, <1>4, <2>3, FirstMakesNode
    <3> QED
      BY <2>1, <2>2, <2>3, <3>1 DEF MergesInstances
  <2>4. CASE HasValue(key)
    <3>1. PICK node : node = FindByValue(key)
      OBVIOUS
    <3>2. node \in Entity
      BY <2>4, <3>1, NodeShape DEF HasValue, FindByValue, TypeOK
    <3>3. MergesInstances(Merge(node, e), key)'
      BY <1>1, <1>2, <1>4, <2>4, <3>1, <3>2, LaterMergesIntoNode
    <3> QED
      BY <2>1, <2>2, <2>4, <3>1, <3>3 DEF MergesInstances
  <2> QED
    BY <2>3, <2>4
<1> QED
  BY <1>3, <1>4

\* A node is the merge of all instances of its key, in the order of the calls
\* (graph.rs, add_entity), however they are mixed with those of other keys.
THEOREM NodesAreMerges == Spec => []NodesMergeInstances
<1>1. Init => NodesMergeInstances
  BY DEF Init, NodesMergeInstances, HasValue, CallsFor
<1>2. GInv /\ NodesMergeInstances /\ [Next]_vars => NodesMergeInstances'
  <2> SUFFICES ASSUME GInv, NodesMergeInstances, [Next]_vars PROVE NodesMergeInstances'
    OBVIOUS
  <2>1. CASE UNCHANGED vars
    BY <2>1 DEF vars, NodesMergeInstances, MergesInstances, HasValue, FindByValue,
                CallsFor, CallsGiving, IsFirst, IsLast
  <2> QED
    BY <2>1, StepMerges DEF Next
<1> QED
  BY <1>1, <1>2, GraphInvariance, PTL DEF Spec

=============================================================================
