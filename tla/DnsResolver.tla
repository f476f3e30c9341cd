----------------------------- MODULE DnsResolver -----------------------------
(***************************************************************************)
(* resolve and query (explorator-plugins/src/dnsx.rs): the lookups of the  *)
(* dnsx stages of a run, which may be several at once.                     *)
(*                                                                         *)
(* A stage asks its questions one after the other.  For each it goes       *)
(* through the resolvers until one answers; every query has a socket and   *)
(* an id of its own, the ids from one counter that all stages share.       *)
(*                                                                         *)
(* The network is the environment.  A resolver may answer a query late,    *)
(* more than once or never, and the port of a closed socket may be given   *)
(* to a new one, which then receives what was meant for the old one.       *)
(***************************************************************************)
EXTENDS Naturals, Sequences, FiniteSets

CONSTANTS
  Stages,      \* the dnsx stages that run
  Questions,   \* (host, record type) pairs
  Asks,        \* Asks[s]: the questions of stage s, in order
  Servers,     \* resolvers
  Resolvers,   \* the resolvers of /etc/resolv.conf, in order
  Ports,       \* local UDP ports
  U16,         \* the number of query ids, 2^16 in the code
  MaxQueries   \* bound on the number of queries

ASSUME AsksAssumption      == Asks \in [Stages -> Seq(Questions)]
ASSUME ResolversAssumption == Resolvers \in Seq(Servers) /\ Resolvers # << >>
ASSUME PortsAssumption     == Ports # {}
ASSUME U16Assumption       == U16 \in Nat \ {0}
\* Within the bound the counter gives out each id once.
ASSUME QueriesAssumption   == MaxQueries \in 0 .. U16

VARIABLES
  next_id,     \* QUERY_ID
  count,       \* history: the queries that took an id
  asked,       \* the queries a resolver may still answer, or answer again
  pc,          \* pc[s]: where stage s is
  at,          \* at[s]: the question it is at
  server,      \* server[s]: the resolver it tries
  port,        \* port[s]: the port of its socket
  id,          \* id[s]: the id of its query
  answer       \* answer[s][n]: what question n of s was answered with

vars == << next_id, count, asked, pc, at, server, port, id, answer >>

\* A query as the resolver sees it.
Query == [server : Servers, port : Ports, id : 0 .. U16 - 1, question : Questions]

\* What a question was answered with: records, and the question they are
\* for; a well-formed answer without records; or nothing, by no resolver.
Answer == [kind : {"open", "records", "empty", "unresolved"}, of : SUBSET Questions]

Without(kind) == [kind |-> kind, of |-> {}]
Records(q)    == [kind |-> "records", of |-> {q}]

Question(s) == Asks[s][at[s]]
Server(s)   == Resolvers[server[s]]
Bound(p)    == \E s \in Stages : pc[s] = "receiving" /\ port[s] = p

-----------------------------------------------------------------------------

Init ==
  /\ next_id = 0
  /\ count = 0
  /\ asked = {}
  /\ pc = [s \in Stages |-> IF Asks[s] = << >> THEN "done" ELSE "querying"]
  /\ at = [s \in Stages |-> 1]
  /\ server = [s \in Stages |-> 1]
  /\ port = [s \in Stages |-> CHOOSE p \in Ports : TRUE]
  /\ id = [s \in Stages |-> 0]
  /\ answer = [s \in Stages |-> [n \in DOMAIN Asks[s] |-> Without("open")]]

\* Mutant of NextQueryId: every stage counts for itself.
OwnQueryId(s) == at[s] - 1

\* fetch_add of an AtomicU16 returns the old value and wraps.
NextQueryId(s) == next_id

\* query up to its await: a socket on a free port, a new id, the datagram
\* sent.  The connected socket receives only what comes from the resolver.
Send(s) ==
  /\ pc[s] = "querying"
  /\ count < MaxQueries
  /\ \E p \in {q \in Ports : ~ Bound(q)} :
       /\ port' = [port EXCEPT ![s] = p]
       /\ asked' = asked \cup {[server |-> Server(s), port |-> p,
                                id |-> NextQueryId(s), question |-> Question(s)]}
  /\ id' = [id EXCEPT ![s] = NextQueryId(s)]
  /\ next_id' = (next_id + 1) % U16
  /\ count' = count + 1
  /\ pc' = [pc EXCEPT ![s] = "receiving"]
  /\ UNCHANGED << at, server, answer >>

\* The question of s is settled; on to the next one.
Settle(s, result) ==
  /\ answer' = [answer EXCEPT ![s][at[s]] = result]
  /\ at' = [at EXCEPT ![s] = @ + 1]
  /\ server' = [server EXCEPT ![s] = 1]
  /\ pc' = [pc EXCEPT ![s] = IF at[s] < Len(Asks[s]) THEN "querying" ELSE "done"]

\* Mutant of Fallback: the same resolver is tried again.
AskAgain(s) ==
  /\ pc' = [pc EXCEPT ![s] = "querying"]
  /\ UNCHANGED << at, server, answer >>

\* query returned an error: the next resolver, or no records.
Fallback(s) ==
  IF server[s] < Len(Resolvers)
  THEN /\ server' = [server EXCEPT ![s] = @ + 1]
       /\ pc' = [pc EXCEPT ![s] = "querying"]
       /\ UNCHANGED << at, answer >>
  ELSE Settle(s, Without("unresolved"))

\* bind or connect fails before an id is taken.
SocketFails(s) ==
  /\ pc[s] = "querying"
  /\ Fallback(s)
  /\ UNCHANGED << next_id, count, asked, port, id >>

\* send fails after the id is taken.
SendFails(s) ==
  /\ pc[s] = "querying"
  /\ count < MaxQueries
  /\ next_id' = (next_id + 1) % U16
  /\ count' = count + 1
  /\ Fallback(s)
  /\ UNCHANGED << asked, port, id >>

\* The first datagram that arrives decides; these are the answers that can.
Arriving(s) == {q \in asked : q.port = port[s] /\ q.server = Server(s)}

\* Mutant of Answers: parse_response does not look at the id.
AnswersAny(s, q) == q \in Arriving(s)

\* parse_response finds the id it expects.
Answers(s, q) == q \in Arriving(s) /\ q.id = id[s]

\* A well-formed answer: the records it holds, or, if its rcode is not 0,
\* none.  An rcode of any kind keeps resolve from asking the next resolver.
Receive(s) ==
  /\ pc[s] = "receiving"
  /\ \E q \in asked :
       /\ Answers(s, q)
       /\ Settle(s, Records(q.question)) \/ Settle(s, Without("empty"))
  /\ UNCHANGED << next_id, count, asked, port, id >>

\* A malformed answer, or one to another query.
ReceiveInvalid(s) ==
  /\ pc[s] = "receiving"
  /\ Arriving(s) # {}
  /\ Fallback(s)
  /\ UNCHANGED << next_id, count, asked, port, id >>

\* Nothing arrived within three seconds, or recv failed.
QueryTimeout(s) ==
  /\ pc[s] = "receiving"
  /\ Fallback(s)
  /\ UNCHANGED << next_id, count, asked, port, id >>

StageStep(s) ==
  \/ Send(s) \/ SocketFails(s) \/ SendFails(s)
  \/ Receive(s) \/ ReceiveInvalid(s) \/ QueryTimeout(s)

AllDone == \A s \in Stages : pc[s] = "done"

Next == (\E s \in Stages : StageStep(s)) \/ (AllDone /\ UNCHANGED vars)

Spec == Init /\ [][Next]_vars

\* Every step of a query is bounded by a timeout.
FairSpec == Spec /\ \A s \in Stages : WF_vars(StageStep(s))

-----------------------------------------------------------------------------
(***************************************************************************)
(* Properties                                                              *)
(***************************************************************************)

\* Types (dnsx.rs, resolve and query).
TypeOK ==
  /\ next_id \in 0 .. U16 - 1
  /\ count \in 0 .. MaxQueries
  /\ asked \subseteq Query
  /\ pc \in [Stages -> {"querying", "receiving", "done"}]
  /\ at \in [Stages -> Nat \ {0}]
  /\ server \in [Stages -> 1 .. Len(Resolvers)]
  /\ port \in [Stages -> Ports]
  /\ id \in [Stages -> 0 .. U16 - 1]
  /\ DOMAIN answer = Stages
  /\ \A s \in Stages : answer[s] \in [DOMAIN Asks[s] -> Answer]
  /\ \A s \in Stages : pc[s] # "done" => at[s] \in DOMAIN Asks[s]

\* A question is answered with its own records, however late an answer comes,
\* however often, and whoever has the port by then: as long as the counter
\* has not gone round, the id tells the queries of all stages apart.
AnswersMatchQuestions ==
  \A s \in Stages : \A n \in DOMAIN Asks[s] :
    answer[s][n].of \subseteq {Asks[s][n]}

\* No two queries in flight share an id or a socket.
QueriesApart ==
  \A s, r \in Stages :
    pc[s] = "receiving" /\ pc[r] = "receiving" /\ s # r =>
      id[s] # id[r] /\ port[s] # port[r]

\* Ids are given out in order, each to one query.
IdsInv ==
  /\ count < U16 => next_id = count
  /\ \A q \in asked : q.id < count
  /\ \A q, r \in asked : q.id = r.id => q = r

\* A stage that waits has asked its question under the id it expects, from
\* the socket it holds; no two stages wait on the same id or socket.
WaitInv ==
  /\ \A s \in Stages : pc[s] = "receiving" =>
       [server |-> Server(s), port |-> port[s], id |-> id[s], question |-> Question(s)] \in asked
  /\ QueriesApart

\* The inductive invariant behind both (dnsx.rs, resolve and query).
RInv == TypeOK /\ IdsInv /\ WaitInv /\ AnswersMatchQuestions

\* Every stage gets through its questions, whatever the resolvers do.
LookupsEnd == <>AllDone

=============================================================================
