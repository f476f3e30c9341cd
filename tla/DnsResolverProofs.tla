-------------------------- MODULE DnsResolverProofs --------------------------
(***************************************************************************)
(* Proofs about DnsResolver: while the counter has not gone round, an id   *)
(* belongs to one query, so an answer that carries the id a stage expects  *)
(* answers the question the stage asked.                                   *)
(***************************************************************************)
EXTENDS DnsResolver, TLAPS

-----------------------------------------------------------------------------

\* The first resolver exists.
LEMMA FirstResolver == Resolvers \in Seq(Servers) /\ Len(Resolvers) \in Nat \ {0}
BY ResolversAssumption

\* The initial state satisfies the invariant.
LEMMA InitRInv == Init => RInv
<1> SUFFICES ASSUME Init PROVE RInv
  OBVIOUS
<1>1. TypeOK
  <2>1. next_id \in 0 .. U16 - 1 /\ count \in 0 .. MaxQueries
    BY U16Assumption, QueriesAssumption DEF Init
  <2>2. port \in [Stages -> Ports]
    BY PortsAssumption DEF Init
  <2>3. \A s \in Stages : answer[s] \in [DOMAIN Asks[s] -> Answer]
    BY DEF Init, Answer, Without
  <2>4. \A s \in Stages : pc[s] # "done" => at[s] \in DOMAIN Asks[s]
    <3> SUFFICES ASSUME NEW s \in Stages, pc[s] # "done" PROVE at[s] \in DOMAIN Asks[s]
      OBVIOUS
    <3>1. Asks[s] \in Seq(Questions) /\ Asks[s] # << >>
      BY AsksAssumption DEF Init
    <3> QED
      BY <3>1 DEF Init
  <2>5. id \in [Stages -> 0 .. U16 - 1]
    BY U16Assumption DEF Init
  <2>6. server \in [Stages -> 1 .. Len(Resolvers)]
    BY FirstResolver DEF Init
  <2> QED
    BY <2>1, <2>2, <2>3, <2>4, <2>5, <2>6 DEF Init, TypeOK
<1>2. IdsInv /\ WaitInv
  BY DEF Init, IdsInv, WaitInv, QueriesApart
<1>3. AnswersMatchQuestions
  BY DEF Init, AnswersMatchQuestions, Without
<1> QED
  BY <1>1, <1>2, <1>3 DEF RInv

\* Settling the current question keeps the types.
LEMMA SettleTypes ==
  ASSUME TypeOK, NEW s \in Stages, pc[s] # "done", NEW result \in Answer, Settle(s, result)
  PROVE  /\ at' \in [Stages -> Nat \ {0}]
         /\ server' \in [Stages -> 1 .. Len(Resolvers)]
         /\ pc' \in [Stages -> {"querying", "receiving", "done"}]
         /\ DOMAIN answer' = Stages
         /\ \A r \in Stages : answer'[r] \in [DOMAIN Asks[r] -> Answer]
         /\ \A r \in Stages : pc'[r] # "done" => at'[r] \in DOMAIN Asks[r]
<1>1. at' \in [Stages -> Nat \ {0}] /\ server' \in [Stages -> 1 .. Len(Resolvers)]
  BY FirstResolver DEF TypeOK, Settle
<1>2. pc' \in [Stages -> {"querying", "receiving", "done"}] /\ DOMAIN answer' = Stages
  BY DEF TypeOK, Settle
<1>3. ASSUME NEW r \in Stages PROVE answer'[r] \in [DOMAIN Asks[r] -> Answer]
  <2>1. answer[r] \in [DOMAIN Asks[r] -> Answer] /\ DOMAIN answer = Stages
    BY DEF TypeOK
  <2>2. CASE r = s
    BY <2>1, <2>2 DEF Settle
  <2>3. CASE r # s
    BY <2>1, <2>3 DEF Settle
  <2> QED
    BY <2>2, <2>3
<1>4. ASSUME NEW r \in Stages, pc'[r] # "done" PROVE at'[r] \in DOMAIN Asks[r]
  <2>1. Asks[r] \in Seq(Questions)
    BY AsksAssumption
  <2>2. CASE r = s
    BY <1>4, <2>1, <2>2 DEF TypeOK, Settle
  <2>3. CASE r # s
    BY <1>4, <2>3 DEF TypeOK, Settle
  <2> QED
    BY <2>2, <2>3
<1> QED
  BY <1>1, <1>2, <1>3, <1>4

\* Falling back settles the question or leaves it where it is.
LEMMA FallbackTypes ==
  ASSUME TypeOK, NEW s \in Stages, pc[s] # "done", Fallback(s)
  PROVE  /\ at' \in [Stages -> Nat \ {0}]
         /\ server' \in [Stages -> 1 .. Len(Resolvers)]
         /\ pc' \in [Stages -> {"querying", "receiving", "done"}]
         /\ DOMAIN answer' = Stages
         /\ \A r \in Stages : answer'[r] \in [DOMAIN Asks[r] -> Answer]
         /\ \A r \in Stages : pc'[r] # "done" => at'[r] \in DOMAIN Asks[r]
<1>1. CASE server[s] < Len(Resolvers)
  <2>1. /\ server' = [server EXCEPT ![s] = @ + 1]
        /\ pc' = [pc EXCEPT ![s] = "querying"]
        /\ UNCHANGED << at, answer >>
    BY <1>1 DEF Fallback
  <2>2. server[s] + 1 \in 1 .. Len(Resolvers)
    BY <1>1, FirstResolver DEF TypeOK
  <2>3. server' \in [Stages -> 1 .. Len(Resolvers)]
    BY <2>1, <2>2 DEF TypeOK
  <2>4. /\ pc' \in [Stages -> {"querying", "receiving", "done"}]
        /\ \A r \in Stages : pc'[r] # "done" => at[r] \in DOMAIN Asks[r]
    BY <2>1 DEF TypeOK
  <2> QED
    BY <2>1, <2>3, <2>4 DEF TypeOK
<1>2. CASE ~ (server[s] < Len(Resolvers))
  <2>1. Settle(s, Without("unresolved")) /\ Without("unresolved") \in Answer
    BY <1>2 DEF Fallback, Answer, Without
  <2> QED
    BY <2>1, SettleTypes
<1> QED
  BY <1>1, <1>2

\* The counter wraps at U16, so a query id is always one of a u16.
LEMMA CounterTypes ==
  ASSUME TypeOK, count < MaxQueries
  PROVE  /\ (next_id + 1) % U16 \in 0 .. U16 - 1
         /\ count + 1 \in 0 .. MaxQueries
         /\ next_id + 1 < U16 => (next_id + 1) % U16 = next_id + 1
         /\ count < U16
<1>1. U16 \in Nat \ {0} /\ MaxQueries \in 0 .. U16 /\ next_id \in 0 .. U16 - 1
  BY U16Assumption, QueriesAssumption DEF TypeOK
<1>2. count \in 0 .. MaxQueries
  BY DEF TypeOK
<1> QED
  BY <1>1, <1>2

\* Every step keeps the types.
LEMMA StepTypes == TypeOK /\ [Next]_vars => TypeOK'
<1> SUFFICES ASSUME TypeOK, [Next]_vars PROVE TypeOK'
  OBVIOUS
<1>1. ASSUME NEW s \in Stages, Send(s) PROVE TypeOK'
  <2>1. PICK p \in Ports :
          /\ port' = [port EXCEPT ![s] = p]
          /\ asked' = asked \cup {[server |-> Server(s), port |-> p,
                                   id |-> next_id, question |-> Question(s)]}
    BY <1>1 DEF Send, NextQueryId
  <2>2. Server(s) \in Servers
    BY FirstResolver DEF TypeOK, Server
  <2>3. Question(s) \in Questions
    <3>1. at[s] \in DOMAIN Asks[s] /\ Asks[s] \in Seq(Questions)
      BY <1>1, AsksAssumption DEF TypeOK, Send
    <3> QED
      BY <3>1 DEF Question
  <2>4. asked' \subseteq Query
    BY <2>1, <2>2, <2>3 DEF TypeOK, Query
  <2>5. next_id' \in 0 .. U16 - 1 /\ count' \in 0 .. MaxQueries
    BY <1>1, CounterTypes DEF Send
  <2>6. port' \in [Stages -> Ports] /\ id' \in [Stages -> 0 .. U16 - 1]
    BY <1>1, <2>1 DEF TypeOK, Send, NextQueryId
  <2>7. pc' \in [Stages -> {"querying", "receiving", "done"}]
    BY <1>1 DEF TypeOK, Send
  <2>8. \A r \in Stages : pc'[r] # "done" => at'[r] \in DOMAIN Asks[r]
    BY <1>1 DEF TypeOK, Send
  <2> QED
    BY <1>1, <2>4, <2>5, <2>6, <2>7, <2>8 DEF TypeOK, Send
<1>2. ASSUME NEW s \in Stages, SocketFails(s) PROVE TypeOK'
  BY <1>2, FallbackTypes DEF TypeOK, SocketFails
<1>3. ASSUME NEW s \in Stages, SendFails(s) PROVE TypeOK'
  BY <1>3, FallbackTypes, CounterTypes DEF TypeOK, SendFails
<1>4. ASSUME NEW s \in Stages, Receive(s) PROVE TypeOK'
  <2>1. PICK q \in asked :
          Settle(s, Records(q.question)) \/ Settle(s, Without("empty"))
    BY <1>4 DEF Receive
  <2>2. Records(q.question) \in Answer /\ Without("empty") \in Answer
    BY DEF TypeOK, Query, Answer, Records, Without
  <2> QED
    BY <1>4, <2>1, <2>2, SettleTypes DEF TypeOK, Receive
<1>5. ASSUME NEW s \in Stages, ReceiveInvalid(s) PROVE TypeOK'
  BY <1>5, FallbackTypes DEF TypeOK, ReceiveInvalid
<1>6. ASSUME NEW s \in Stages, QueryTimeout(s) PROVE TypeOK'
  BY <1>6, FallbackTypes DEF TypeOK, QueryTimeout
<1>7. ASSUME UNCHANGED vars PROVE TypeOK'
  BY <1>7 DEF TypeOK, vars
<1> QED
  BY <1>1, <1>2, <1>3, <1>4, <1>5, <1>6, <1>7 DEF Next, StageStep

\* A step of one stage that asks nothing leaves that stage not waiting, and
\* what the others wait for as it is.
LEMMA FallbackWaits ==
  ASSUME TypeOK, WaitInv, NEW s \in Stages, pc[s] # "done", UNCHANGED << asked, port, id >>,
         \/ Fallback(s)
         \/ \E result \in Answer : Settle(s, result)
  PROVE  WaitInv'
<1>1. /\ pc'[s] # "receiving"
      /\ \A r \in Stages \ {s} : pc'[r] = pc[r] /\ at'[r] = at[r] /\ server'[r] = server[r]
  BY DEF TypeOK, Fallback, Settle
<1>2. ASSUME NEW r \in Stages, pc'[r] = "receiving"
      PROVE  [server |-> Server(r), port |-> port[r], id |-> id[r],
              question |-> Question(r)]' \in asked'
  <2>1. r # s /\ pc[r] = "receiving"
    BY <1>1, <1>2
  <2>2. Server(r)' = Server(r) /\ Question(r)' = Question(r)
    BY <1>1, <2>1 DEF Server, Question
  <2> QED
    BY <2>1, <2>2 DEF WaitInv
<1>3. QueriesApart'
  BY <1>1 DEF WaitInv, QueriesApart
<1> QED
  BY <1>2, <1>3 DEF WaitInv

\* A question that no resolver answered, or answered without records, is not
\* answered with the records of another.
LEMMA FallbackAnswers ==
  ASSUME TypeOK, AnswersMatchQuestions, NEW s \in Stages, pc[s] # "done",
         \/ Fallback(s)
         \/ \E result \in Answer : Settle(s, result) /\ result.of \subseteq {Question(s)}
  PROVE  AnswersMatchQuestions'
<1> SUFFICES ASSUME NEW r \in Stages, NEW n \in DOMAIN Asks[r]
             PROVE  answer'[r][n].of \subseteq {Asks[r][n]}
  BY DEF AnswersMatchQuestions
<1>1. answer[r][n].of \subseteq {Asks[r][n]}
  BY DEF AnswersMatchQuestions
<1>2. CASE answer' = answer
  BY <1>1, <1>2
<1>3. ASSUME NEW result, result.of \subseteq {Question(s)}, Settle(s, result)
      PROVE  answer'[r][n].of \subseteq {Asks[r][n]}
  <2>1. DOMAIN answer = Stages /\ DOMAIN answer[s] = DOMAIN Asks[s]
    BY DEF TypeOK
  <2>2. CASE r = s /\ n = at[s]
    BY <1>3, <2>1, <2>2 DEF Settle, Question
  <2>3. CASE r # s
    BY <1>1, <1>3, <2>1, <2>3 DEF Settle
  <2>4. CASE r = s /\ n # at[s]
    BY <1>1, <1>3, <2>1, <2>4 DEF Settle
  <2> QED
    BY <2>2, <2>3, <2>4
<1>4. Without("unresolved").of = {}
  BY DEF Without
<1> QED
  BY <1>2, <1>3, <1>4 DEF Fallback

\* Every step keeps the invariant.
LEMMA StepRInv == RInv /\ [Next]_vars => RInv'
<1> SUFFICES ASSUME RInv, [Next]_vars PROVE RInv'
  OBVIOUS
<1>0. TypeOK /\ IdsInv /\ WaitInv /\ AnswersMatchQuestions /\ TypeOK'
  BY StepTypes DEF RInv
<1>1. ASSUME NEW s \in Stages, Send(s) PROVE RInv'
  <2>1. PICK p \in Ports :
          /\ ~ Bound(p)
          /\ port' = [port EXCEPT ![s] = p]
          /\ asked' = asked \cup {[server |-> Server(s), port |-> p,
                                   id |-> next_id, question |-> Question(s)]}
    BY <1>1 DEF Send, NextQueryId
  <2>2. count < U16 /\ next_id = count /\ count \in Nat /\ count' = count + 1
    BY <1>0, <1>1, CounterTypes, QueriesAssumption DEF IdsInv, Send, TypeOK
  <2>3. IdsInv'
    <3>1. count' < U16 => next_id' = count'
      BY <1>0, <1>1, <2>2, CounterTypes DEF Send
    <3>2. \A q \in asked : q.id \in Nat
      BY <1>0, U16Assumption DEF TypeOK, Query
    <3>3. \A q \in asked' : q.id < count'
      BY <1>0, <2>1, <2>2, <3>2 DEF IdsInv
    <3>4. \A q, r \in asked' : q.id = r.id => q = r
      BY <1>0, <2>1, <2>2, <3>2 DEF IdsInv
    <3> QED
      BY <3>1, <3>3, <3>4 DEF IdsInv
  <2>4. ASSUME NEW r \in Stages, pc'[r] = "receiving"
        PROVE  [server |-> Server(r), port |-> port[r], id |-> id[r],
                question |-> Question(r)]' \in asked'
    <3>1. Server(r)' = Server(r) /\ Question(r)' = Question(r)
      BY <1>1 DEF Send, Server, Question
    <3>2. CASE r = s
      BY <1>0, <1>1, <2>1, <3>1, <3>2 DEF Send, TypeOK, NextQueryId
    <3>3. CASE r # s
      BY <1>0, <1>1, <2>1, <2>4, <3>1, <3>3 DEF Send, TypeOK, WaitInv
    <3> QED
      BY <3>2, <3>3
  <2>5. QueriesApart'
    <3> SUFFICES ASSUME NEW a \in Stages, NEW b \in Stages,
                        pc'[a] = "receiving", pc'[b] = "receiving", a # b
                 PROVE  id'[a] # id'[b] /\ port'[a] # port'[b]
      BY DEF QueriesApart
    <3>1. ASSUME NEW r \in Stages, r # s, pc'[r] = "receiving"
          PROVE  id'[r] # id'[s] /\ port'[r] # port'[s]
      <4>1. pc[r] = "receiving" /\ id'[r] = id[r] /\ port'[r] = port[r]
        BY <1>0, <1>1, <2>1, <3>1 DEF Send, TypeOK
      <4>2. id'[s] = count /\ port'[s] = p
        BY <1>0, <1>1, <2>1, <2>2 DEF Send, TypeOK, NextQueryId
      <4>3. id[r] < count
        BY <1>0, <4>1 DEF WaitInv, IdsInv
      <4>4. port[r] # p
        BY <2>1, <4>1 DEF Bound
      <4>5. id[r] \in Nat
        BY <1>0, U16Assumption DEF TypeOK
      <4> QED
        BY <2>2, <4>1, <4>2, <4>3, <4>4, <4>5
    <3>2. CASE a = s \/ b = s
      BY <3>1, <3>2
    <3>3. CASE a # s /\ b # s
      BY <1>0, <1>1, <2>1, <3>3 DEF Send, TypeOK, WaitInv, QueriesApart
    <3> QED
      BY <3>2, <3>3
  <2>6. AnswersMatchQuestions'
    BY <1>0, <1>1 DEF Send, AnswersMatchQuestions
  <2> QED
    BY <1>0, <2>3, <2>4, <2>5, <2>6 DEF RInv, WaitInv
<1>2. ASSUME NEW s \in Stages, SocketFails(s) PROVE RInv'
  BY <1>0, <1>2, FallbackWaits, FallbackAnswers DEF SocketFails, RInv, IdsInv
<1>3. ASSUME NEW s \in Stages, SendFails(s) PROVE RInv'
  <2>1. IdsInv'
    <3>1. count < U16 /\ next_id = count /\ count \in Nat /\ count' = count + 1
      BY <1>0, <1>3, CounterTypes, QueriesAssumption DEF IdsInv, SendFails, TypeOK
    <3>2. count' < U16 => next_id' = count'
      BY <1>0, <1>3, <3>1, CounterTypes DEF SendFails
    <3>3. \A q \in asked : q.id \in Nat
      BY <1>0, U16Assumption DEF TypeOK, Query
    <3> QED
      BY <1>0, <1>3, <3>1, <3>2, <3>3 DEF SendFails, IdsInv
  <2> QED
    BY <1>0, <1>3, <2>1, FallbackWaits, FallbackAnswers DEF SendFails, RInv
<1>4. ASSUME NEW s \in Stages, Receive(s) PROVE RInv'
  <2>1. PICK q \in asked :
          /\ q.id = id[s]
          /\ Settle(s, Records(q.question)) \/ Settle(s, Without("empty"))
    BY <1>4 DEF Receive, Answers
  <2>2. q.question = Question(s)
    <3> DEFINE mine == [server |-> Server(s), port |-> port[s], id |-> id[s],
                        question |-> Question(s)]
    <3>1. mine \in asked
      BY <1>0, <1>4 DEF Receive, WaitInv
    <3>2. mine = q
      BY <1>0, <2>1, <3>1 DEF IdsInv
    <3>3. mine.question = Question(s)
      OBVIOUS
    <3> HIDE DEF mine
    <3> QED
      BY <3>2, <3>3
  <2>3. PICK result \in Answer : Settle(s, result) /\ result.of \subseteq {Question(s)}
    <3>1. q.question \in Questions
      BY <1>0 DEF TypeOK, Query
    <3>2. Records(q.question) \in Answer /\ Records(q.question).of = {Question(s)}
      BY <2>2, <3>1 DEF Answer, Records
    <3>3. Without("empty") \in Answer /\ Without("empty").of = {}
      BY DEF Answer, Without
    <3> QED
      BY <2>1, <3>2, <3>3
  <2>4. pc[s] # "done" /\ UNCHANGED << next_id, count, asked, port, id >>
    BY <1>4 DEF Receive
  <2>5. WaitInv' /\ AnswersMatchQuestions'
    BY <1>0, <2>3, <2>4, FallbackWaits, FallbackAnswers
  <2> QED
    BY <1>0, <2>4, <2>5 DEF RInv, IdsInv
<1>5. ASSUME NEW s \in Stages, ReceiveInvalid(s) PROVE RInv'
  BY <1>0, <1>5, FallbackWaits, FallbackAnswers DEF ReceiveInvalid, RInv, IdsInv
<1>6. ASSUME NEW s \in Stages, QueryTimeout(s) PROVE RInv'
  BY <1>0, <1>6, FallbackWaits, FallbackAnswers DEF QueryTimeout, RInv, IdsInv
<1>7. ASSUME UNCHANGED vars PROVE RInv'
  BY <1>0, <1>7 DEF vars, RInv, IdsInv, WaitInv, QueriesApart, AnswersMatchQuestions,
                    Server, Question
<1> QED
  BY <1>1, <1>2, <1>3, <1>4, <1>5, <1>6, <1>7 DEF Next, StageStep

-----------------------------------------------------------------------------

\* The invariant holds in every run of the lookups (dnsx.rs, resolve and query).
THEOREM ResolverInvariance == Spec => []RInv
<1> QED
  BY InitRInv, StepRInv, PTL DEF Spec

\* While the id counter has not gone round, no question is answered with the
\* records of another, whatever answers come late or twice and whoever has
\* the port of a closed socket by then (dns_wire.rs, parse_response).
THEOREM AnswersBelong == Spec => []AnswersMatchQuestions
<1>1. RInv => AnswersMatchQuestions
  BY DEF RInv
<1> QED
  BY <1>1, ResolverInvariance, PTL

\* Nor do two queries in flight share an id, though the stages that send them
\* share nothing but the counter.
THEOREM QueriesKeptApart == Spec => []QueriesApart
<1>1. RInv => QueriesApart
  BY DEF RInv, WaitInv
<1> QED
  BY <1>1, ResolverInvariance, PTL

=============================================================================
