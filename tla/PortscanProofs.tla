---------------------------- MODULE PortscanProofs ----------------------------
(***************************************************************************)
(* Proofs about Portscan: permits are never lost, so no scan task waits    *)
(* for ever; no port is noted as open that does not listen; every open     *)
(* port that was found is reported once, and linked from its host.         *)
(***************************************************************************)
EXTENDS Portscan, FiniteSetTheorems, SequenceTheorems, WellFoundedInduction, TLAPS

-----------------------------------------------------------------------------

\* There is a permit at least.
LEMMA PermitsPositive ==
  ASSUME NEW config \in Configs PROVE Permits(config.concurrency) \in Nat \ {0}
BY ConfigsAssumption DEF Permits

\* The ports to scan are such numbers as a u16 can hold.
LEMMA ScanPortsFit ==
  ASSUME NEW config \in Configs
  PROVE  \A p \in DOMAIN ScanPorts(config) : ScanPorts(config)[p] \in 0 .. U16 - 1
<1>1. config.ports \in Seq(Nat)
  BY ConfigsAssumption
<1>2. \A p \in DOMAIN config.ports : config.ports[p] \in Nat
  BY <1>1
<1>3. \A p \in DOMAIN DEFAULT_PORTS : DEFAULT_PORTS[p] \in 0 .. U16 - 1
  <2>1. \A S : \A s \in Seq(S) : \A p \in DOMAIN s : s[p] \in S
    OBVIOUS
  <2> QED
    BY PortsAssumption, <2>1, Zenon
<1> QED
  BY <1>2, <1>3, U16Assumption DEF ScanPorts, RestrictValues, Restrict

\* Where a task is, and which ports it is about.
LEMMA TaskParts ==
  ASSUME NEW t \in Tasks
  PROVE  /\ ValueOf(t) \in Values
         /\ PortOf(t) \in {ports[p] : p \in DOMAIN ports}
BY AddressesAssumption DEF Tasks, ValueOf, PortOf

\* Balanced books leave nobody without a permit to come.
LEMMA BalanceSuffices == TypeOK /\ PermitsBalance => NobodyStarves
<1> SUFFICES ASSUME TypeOK, PermitsBalance, permits = 0, Connecting = {} PROVE FALSE
  BY DEF TypeOK, NobodyStarves
<1>1. Cardinality(Connecting) = 0
  BY FS_EmptySet
<1>2. PICK config \in Configs : permits + Cardinality(Connecting) = Permits(config.concurrency)
  BY DEF PermitsBalance
<1> QED
  BY <1>1, <1>2, PermitsPositive

\* The initial state satisfies the invariant.
LEMMA InitPInv == Init => PInv
<1> SUFFICES ASSUME Init PROVE PInv
  OBVIOUS
<1>1. PICK config \in Configs : permits = Permits(config.concurrency)
  BY DEF Init
<1>2. permits \in Nat \ {0}
  BY <1>1, PermitsPositive
<1>3. TypeOK
  <2>1. \A v \in Values : open_by_host[v] \in Seq({ports[p] : p \in DOMAIN ports})
    BY DEF Init
  <2>2. \A p \in DOMAIN ports : ports[p] \in 0 .. U16 - 1
    BY ScanPortsFit DEF Init
  <2> QED
    BY <1>2, <2>1, <2>2 DEF Init, TypeOK
<1>4. PermitsBalance
  <2>1. Connecting = {}
    BY DEF Init, Connecting
  <2> QED
    BY <1>1, <1>2, <2>1, FS_EmptySet DEF PermitsBalance
<1>5. OpenedListens
  BY DEF Init, OpenedListens
<1> QED
  BY <1>3, <1>4, <1>5, BalanceSuffices DEF PInv

-----------------------------------------------------------------------------

\* Taking a permit moves it from the free ones to the handshakes.
LEMMA AcquireBalances ==
  ASSUME TypeOK, PermitsBalance, NEW t \in Tasks, Acquire(t)
  PROVE  PermitsBalance'
<1>1. Tasks' = Tasks
  BY DEF Acquire, Tasks
<1>2. Connecting' = Connecting \cup {t}
  BY <1>1 DEF Acquire, Connecting, TypeOK
<1>3. t \notin Connecting
  BY DEF Acquire, Connecting
<1>4. IsFiniteSet(Connecting) /\ Cardinality(Connecting) \in Nat
  BY FS_CardinalityType DEF PermitsBalance
<1>5. IsFiniteSet(Connecting') /\ Cardinality(Connecting') = Cardinality(Connecting) + 1
  BY <1>2, <1>3, <1>4, FS_AddElement
<1>6. permits' + Cardinality(Connecting') = permits + Cardinality(Connecting)
  BY <1>4, <1>5 DEF Acquire, TypeOK
<1> QED
  BY <1>5, <1>6 DEF PermitsBalance

\* However a handshake ends, its permit is free again.
LEMMA EndBalances ==
  ASSUME TypeOK, PermitsBalance, NEW t \in Tasks, NEW found \in {"open", "closed"}, End(t, found)
  PROVE  PermitsBalance'
<1>1. Tasks' = Tasks
  BY DEF End, Tasks
<1>2. Connecting' = Connecting \ {t}
  BY <1>1 DEF End, Connecting, TypeOK
<1>3. t \in Connecting
  BY DEF End, Connecting
<1>4. IsFiniteSet(Connecting) /\ Cardinality(Connecting) \in Nat
  BY FS_CardinalityType DEF PermitsBalance
<1>5. IsFiniteSet(Connecting') /\ Cardinality(Connecting') = Cardinality(Connecting) - 1
  BY <1>2, <1>3, <1>4, FS_RemoveElement
<1>6. permits' + Cardinality(Connecting') = permits + Cardinality(Connecting)
  BY <1>4, <1>5 DEF End, TypeOK
<1> QED
  BY <1>5, <1>6 DEF PermitsBalance

\* A step that leaves the tasks alone leaves the books alone.
LEMMA BalanceKept ==
  ASSUME PermitsBalance, UNCHANGED << permits, Connecting >>
  PROVE  PermitsBalance'
BY DEF PermitsBalance

\* The end of a handshake keeps the types and what was found.
LEMMA EndKeeps ==
  ASSUME PInv, NEW t \in Tasks, NEW found \in {"open", "closed"}, End(t, found),
         found = "open" => << ValueOf(t), PortOf(t) >> \in listening
  PROVE  TypeOK' /\ OpenedListens'
<1>1. Tasks' = Tasks /\ \A u \in Tasks : ValueOf(u)' = ValueOf(u) /\ PortOf(u)' = PortOf(u)
  BY DEF End, Tasks, ValueOf, PortOf
<1>2. TypeOK'
  BY <1>1 DEF PInv, TypeOK, End
<1>3. OpenedListens'
  BY <1>1 DEF PInv, TypeOK, OpenedListens, End
<1> QED
  BY <1>2, <1>3

\* Joining a task keeps the types and notes only what was found.
LEMMA JoinKeeps ==
  ASSUME PInv, NEW t \in Tasks, Join(t)
  PROVE  TypeOK' /\ OpenedListens' /\ PermitsBalance'
<1>1. Tasks' = Tasks /\ \A u \in Tasks : ValueOf(u)' = ValueOf(u) /\ PortOf(u)' = PortOf(u)
  BY DEF Join, Tasks, ValueOf, PortOf
<1>2. ValueOf(t) \in Values /\ PortOf(t) \in {ports[p] : p \in DOMAIN ports}
  BY TaskParts
<1>3. ASSUME NEW v \in Values
      PROVE  /\ open_by_host'[v] \in Seq({ports[p] : p \in DOMAIN ports})
             /\ \A k \in DOMAIN open_by_host'[v] : << v, open_by_host'[v][k] >> \in listening
  <2>1. /\ open_by_host[v] \in Seq({ports[p] : p \in DOMAIN ports})
        /\ \A k \in DOMAIN open_by_host[v] : << v, open_by_host[v][k] >> \in listening
    BY DEF PInv, TypeOK, OpenedListens
  <2>2. CASE outcome[t] = "open" /\ v = ValueOf(t)
    <3>1. open_by_host'[v] = Append(open_by_host[v], PortOf(t))
      BY <2>2 DEF Join, Joined, PInv, TypeOK
    <3>2. << v, PortOf(t) >> \in listening
      BY <2>2 DEF PInv, OpenedListens
    <3> QED
      BY <1>2, <2>1, <3>1, <3>2
  <2>3. CASE ~ (outcome[t] = "open" /\ v = ValueOf(t))
    <3>1. open_by_host'[v] = open_by_host[v]
      BY <2>3 DEF Join, Joined, PInv, TypeOK
    <3> QED
      BY <2>1, <3>1
  <2> QED
    BY <2>2, <2>3
<1>4. open_by_host' \in [Values -> Seq({ports[p] : p \in DOMAIN ports})]
  <2>1. CASE outcome[t] = "open"
    <3>1. Append(open_by_host[ValueOf(t)], PortOf(t)) \in Seq({ports[p] : p \in DOMAIN ports})
      BY <1>2 DEF PInv, TypeOK
    <3> QED
      BY <2>1, <3>1 DEF Join, Joined, PInv, TypeOK
  <2>2. CASE outcome[t] # "open"
    BY <2>2 DEF Join, Joined, PInv, TypeOK
  <2> QED
    BY <2>1, <2>2
<1>5. TypeOK'
  BY <1>1, <1>4 DEF PInv, TypeOK, Join
<1>6. OpenedListens'
  <2>1. \A u \in Tasks :
          /\ outcome'[u] # "none" <=> pc'[u] \in {"ended", "joined"}
          /\ outcome'[u] = "open" => << ValueOf(u), PortOf(u) >> \in listening
    BY DEF PInv, TypeOK, OpenedListens, Join
  <2>2. listening' = listening
    BY DEF Join
  <2> QED
    BY <1>1, <1>3, <2>1, <2>2 DEF OpenedListens
<1>7. Connecting' = Connecting
  BY <1>1 DEF Connecting, Join, PInv, TypeOK
<1> QED
  BY <1>5, <1>6, <1>7, BalanceKept DEF Join, PInv

\* Reporting a host empties what was noted for it.
LEMMA ReportKeeps ==
  ASSUME PInv, NEW v \in Values, ReportHost(v)
  PROVE  TypeOK' /\ OpenedListens' /\ PermitsBalance'
<1>1. Tasks' = Tasks /\ \A u \in Tasks : ValueOf(u)' = ValueOf(u) /\ PortOf(u)' = PortOf(u)
  BY DEF ReportHost, Tasks, ValueOf, PortOf
<1>2. open_by_host' \in [Values -> Seq({ports[p] : p \in DOMAIN ports})]
  BY DEF ReportHost, PInv, TypeOK
<1>3. \A w \in Values : \A k \in DOMAIN open_by_host'[w] :
        << w, open_by_host'[w][k] >> \in listening
  <2> TAKE w \in Values
  <2>1. CASE w = v
    <3>1. open_by_host'[w] = << >>
      BY <2>1 DEF ReportHost, PInv, TypeOK
    <3> QED
      BY <3>1
  <2>2. CASE w # v
    <3>1. open_by_host'[w] = open_by_host[w]
      BY <2>2 DEF ReportHost, PInv, TypeOK
    <3> QED
      BY <3>1 DEF PInv, OpenedListens
  <2> QED
    BY <2>1, <2>2
<1>4. TypeOK'
  BY <1>1, <1>2 DEF ReportHost, PInv, TypeOK
<1>5. OpenedListens'
  BY <1>1, <1>3 DEF ReportHost, PInv, OpenedListens
<1>6. Connecting' = Connecting
  BY <1>1 DEF Connecting, ReportHost
<1> QED
  BY <1>4, <1>5, <1>6, BalanceKept DEF ReportHost, PInv

\* A step that changes nothing but where run_portscan is.
LEMMA PhaseKeeps ==
  ASSUME PInv, phase' \in {"joining", "returned", "cancelled"},
         UNCHANGED << hosts, ports, listening, pc, outcome, permits, open_by_host >>
  PROVE  TypeOK' /\ OpenedListens' /\ PermitsBalance'
<1>1. Tasks' = Tasks /\ \A u \in Tasks : ValueOf(u)' = ValueOf(u) /\ PortOf(u)' = PortOf(u)
  BY DEF Tasks, ValueOf, PortOf
<1>2. TypeOK'
  BY <1>1 DEF PInv, TypeOK
<1>3. OpenedListens'
  BY <1>1 DEF PInv, OpenedListens
<1>4. Connecting' = Connecting
  BY <1>1 DEF Connecting
<1> QED
  BY <1>2, <1>3, <1>4, BalanceKept DEF PInv

\* Every step keeps the invariant.
LEMMA NextPInv == PInv /\ [Next]_vars => PInv'
<1> SUFFICES ASSUME PInv, [Next]_vars PROVE PInv'
  OBVIOUS
<1> SUFFICES TypeOK' /\ OpenedListens' /\ PermitsBalance'
  <2>1. (TypeOK /\ PermitsBalance => NobodyStarves)'
    BY BalanceSuffices, PTL
  <2> QED
    BY <2>1 DEF PInv
<1>1. ASSUME NEW t \in Tasks, Acquire(t) PROVE TypeOK' /\ OpenedListens' /\ PermitsBalance'
  <2>1. Tasks' = Tasks /\ \A u \in Tasks : ValueOf(u)' = ValueOf(u) /\ PortOf(u)' = PortOf(u)
    BY <1>1 DEF Acquire, Tasks, ValueOf, PortOf
  <2>2. TypeOK'
    BY <1>1, <2>1 DEF PInv, TypeOK, Acquire
  <2>3. OpenedListens'
    BY <1>1, <2>1 DEF PInv, TypeOK, OpenedListens, Acquire
  <2> QED
    BY <1>1, <2>2, <2>3, AcquireBalances DEF PInv
<1>2. ASSUME NEW t \in Tasks, Connects(t) PROVE TypeOK' /\ OpenedListens' /\ PermitsBalance'
  BY <1>2, EndKeeps, EndBalances DEF Connects, PInv
<1>3. ASSUME NEW t \in Tasks, Refused(t) \/ ConnectTimeout(t)
      PROVE  TypeOK' /\ OpenedListens' /\ PermitsBalance'
  BY <1>3, EndKeeps, EndBalances DEF Refused, ConnectTimeout, PInv
<1>4. ASSUME NEW t \in Tasks, Join(t) PROVE TypeOK' /\ OpenedListens' /\ PermitsBalance'
  BY <1>4, JoinKeeps
<1>5. ASSUME NEW v \in Values, ReportHost(v) PROVE TypeOK' /\ OpenedListens' /\ PermitsBalance'
  BY <1>5, ReportKeeps
<1>6. ASSUME Return \/ Cancel PROVE TypeOK' /\ OpenedListens' /\ PermitsBalance'
  BY <1>6, PhaseKeeps DEF Return, Cancel
<1>7. ASSUME UNCHANGED vars PROVE TypeOK' /\ OpenedListens' /\ PermitsBalance'
  BY <1>7, PhaseKeeps DEF vars, PInv, TypeOK
<1> QED
  BY <1>1, <1>2, <1>3, <1>4, <1>5, <1>6, <1>7 DEF Next, TaskStep, RunStep, Over

-----------------------------------------------------------------------------

\* In every scan the invariant holds: permits are conserved, so no task waits
\* for one in vain, and only ports that listen are noted as open
\* (portscan.rs, run_portscan).
THEOREM ScanInvariance == Spec => []PInv
BY InitPInv, NextPInv, PTL DEF Spec

\* A task that waits for a permit can count on one, whatever concurrency is
\* configured (portscan.rs:69-83).
THEOREM ScanNeverStarves == Spec => []NobodyStarves
<1>1. PInv => NobodyStarves
  BY DEF PInv
<1> QED
  BY <1>1, ScanInvariance, PTL

-----------------------------------------------------------------------------
(***************************************************************************)
(* The report                                                              *)
(***************************************************************************)

\* A function on the first so many positions is a list.
LEMMA ListOf ==
  ASSUME NEW S, NEW n \in Nat, NEW f \in [1 .. n -> S]
  PROVE  f \in Seq(S) /\ Len(f) = n
OBVIOUS

\* Where a value occurs in a list.
At(s, x) == {n \in DOMAIN s : s[n] = x}

\* Sorting moves the values of a list to other positions of it.
LEMMA SortingMoves ==
  ASSUME NEW s, NEW t \in Ascending(s)
  PROVE  /\ DOMAIN t = DOMAIN s
         /\ \A n \in DOMAIN t : \E m \in DOMAIN s : t[n] = s[m]
         /\ \E f \in [DOMAIN s -> DOMAIN s] :
              /\ \A n \in DOMAIN t : t[n] = s[f[n]]
              /\ \A a, b \in DOMAIN s : f[a] = f[b] => a = b
              /\ \A b \in DOMAIN s : \E a \in DOMAIN s : f[a] = b
<1>1. PICK f \in Bijection(DOMAIN s, DOMAIN s) : t = [n \in DOMAIN s |-> s[f[n]]]
  BY DEF Ascending
<1>2. /\ f \in [DOMAIN s -> DOMAIN s]
      /\ \A a, b \in DOMAIN s : f[a] = f[b] => a = b
      /\ \A b \in DOMAIN s : \E a \in DOMAIN s : f[a] = b
  BY DEF Bijection, Injection, Surjection, IsInjective
<1>3. DOMAIN t = DOMAIN s /\ \A n \in DOMAIN t : f[n] \in DOMAIN s /\ t[n] = s[f[n]]
  BY <1>1, <1>2
<1> QED
  BY <1>2, <1>3

\* Sorting keeps how often each value occurs.
LEMMA SortingKeeps ==
  ASSUME NEW s, NEW t \in Ascending(s), IsFiniteSet(DOMAIN s), NEW x
  PROVE  /\ IsFiniteSet(At(s, x)) /\ IsFiniteSet(At(t, x))
         /\ Cardinality(At(t, x)) = Cardinality(At(s, x))
<1>1. PICK f \in [DOMAIN s -> DOMAIN s] :
        /\ \A n \in DOMAIN t : t[n] = s[f[n]]
        /\ \A a, b \in DOMAIN s : f[a] = f[b] => a = b
        /\ \A b \in DOMAIN s : \E a \in DOMAIN s : f[a] = b
  BY SortingMoves
<1>2. /\ \A a, b \in DOMAIN s : f[a] = f[b] => a = b
      /\ \A b \in DOMAIN s : \E a \in DOMAIN s : f[a] = b
  BY <1>1
<1>3. DOMAIN t = DOMAIN s /\ \A n \in DOMAIN t : f[n] \in DOMAIN s /\ t[n] = s[f[n]]
  BY <1>1, SortingMoves
<1>4. IsFiniteSet(At(s, x)) /\ IsFiniteSet(At(t, x))
  BY <1>3, FS_Subset DEF At
<1> DEFINE g == [n \in At(t, x) |-> f[n]]
<1>5. g \in [At(t, x) -> At(s, x)]
  BY <1>3 DEF At
<1>6. g \in Bijection(At(t, x), At(s, x))
  <2>1. \A a, b \in At(t, x) : g[a] = g[b] => a = b
    BY <1>2, <1>3 DEF At
  <2>2. \A b \in At(s, x) : \E a \in At(t, x) : g[a] = b
    BY <1>2, <1>3 DEF At
  <2> HIDE DEF g
  <2> QED
    BY <1>5, <2>1, <2>2 DEF Bijection, Injection, Surjection, IsInjective
<1>7. Cardinality(At(t, x)) = Cardinality(At(s, x))
  BY <1>4, <1>6, FS_Bijection DEF ExistsBijection
<1> QED
  BY <1>4, <1>7

\* f puts s, a list of n numbers, in ascending order.
Sorts(f, s, n) ==
  /\ f \in [1 .. n -> 1 .. n]
  /\ \A a, b \in 1 .. n : f[a] = f[b] => a = b
  /\ \A b \in 1 .. n : \E a \in 1 .. n : f[a] = b
  /\ \A a, b \in 1 .. n : a < b => s[f[a]] <= s[f[b]]

Sortable(n) == \A s \in [1 .. n -> Nat] : \E f : Sorts(f, s, n)

\* Every list of numbers has a greatest one behind which the others can be put.
LEMMA SortOneMore ==
  ASSUME NEW n \in Nat, Sortable(n) PROVE Sortable(n + 1)
<1> SUFFICES ASSUME NEW s \in [1 .. n + 1 -> Nat] PROVE \E f : Sorts(f, s, n + 1)
  BY DEF Sortable
<1>1. PICK m \in 1 .. n + 1 : \A i \in 1 .. n + 1 : s[i] <= s[m]
  <2>1. CASE n = 0
    <3>1. 1 \in 1 .. n + 1 /\ \A i \in 1 .. n + 1 : i = 1
      BY <2>1
    <3>2. s[1] \in Nat
      BY <3>1
    <3>3. \A i \in 1 .. n + 1 : s[i] <= s[1]
      BY <3>1, <3>2
    <3> QED
      BY <3>1, <3>3, Zenon
  <2>2. CASE n > 0
    <3> DEFINE s0 == [i \in 1 .. n |-> s[i]]
    <3>1. s0 \in [1 .. n -> Nat]
      OBVIOUS
    <3>2. PICK f0 : Sorts(f0, s0, n)
      BY <3>1 DEF Sortable
    <3>3. f0[n] \in 1 .. n /\ \A i \in 1 .. n : s[i] <= s[f0[n]]
      <4>0. n \in 1 .. n
        BY <2>2
      <4>1. n \in 1 .. n /\ f0 \in [1 .. n -> 1 .. n]
        <5> HIDE DEF s0
        <5> QED
          BY <4>0, <3>2, Zenon DEF Sorts
      <4>2. ASSUME NEW i \in 1 .. n PROVE s[i] <= s[f0[n]]
        <5>1. PICK a \in 1 .. n : f0[a] = i
          BY <3>2 DEF Sorts
        <5>2. a < n => s0[f0[a]] <= s0[f0[n]]
          BY <3>2, <4>1 DEF Sorts
        <5>3. s0[f0[a]] = s[i] /\ s0[f0[n]] = s[f0[n]] /\ f0[n] \in 1 .. n
          BY <4>1, <5>1
        <5>4. s[i] \in Nat /\ (a < n \/ a = n)
          OBVIOUS
        <5> QED
          BY <5>1, <5>2, <5>3, <5>4
      <4> QED
        BY <4>1, <4>2
    <3>4. \A i \in 1 .. n + 1 : s[i] \in Nat /\ (i \in 1 .. n \/ i = n + 1)
      OBVIOUS
    <3>5. n + 1 \in 1 .. n + 1 /\ f0[n] \in 1 .. n + 1
      BY <3>3
    <3> DEFINE m0 == f0[n]
               m1 == n + 1
    <3>6. CASE s[m1] >= s[m0]
      <4>1. \A i \in 1 .. n + 1 : s[i] <= s[m1]
        BY <3>3, <3>4, <3>5, <3>6
      <4> QED
        BY <3>5, <4>1, Zenon
    <3>7. CASE ~ (s[m1] >= s[m0])
      <4>1. \A i \in 1 .. n + 1 : s[i] <= s[m0]
        BY <3>3, <3>4, <3>5, <3>7
      <4> QED
        BY <3>5, <4>1, Zenon
    <3> QED
      BY <3>6, <3>7
  <2> QED
    BY <2>1, <2>2
<1> DEFINE s1 == [i \in 1 .. n |-> IF i = m THEN s[n + 1] ELSE s[i]]
<1>2. s1 \in [1 .. n -> Nat]
  OBVIOUS
<1>3. PICK f1 : Sorts(f1, s1, n)
  BY <1>2 DEF Sortable
<1>4. /\ f1 \in [1 .. n -> 1 .. n]
      /\ \A a, b \in 1 .. n : f1[a] = f1[b] => a = b
      /\ \A b \in 1 .. n : \E a \in 1 .. n : f1[a] = b
      /\ \A a, b \in 1 .. n : a < b => s1[f1[a]] <= s1[f1[b]]
  BY <1>3 DEF Sorts
<1> DEFINE f == [i \in 1 .. n + 1 |->
                   IF i = n + 1 THEN m ELSE IF f1[i] = m THEN n + 1 ELSE f1[i]]
<1>5. /\ f[n + 1] = m
      /\ \A i \in 1 .. n : f[i] = (IF f1[i] = m THEN n + 1 ELSE f1[i])
      /\ \A i \in 1 .. n : s[f[i]] = s1[f1[i]]
  <2>1. f[n + 1] = m /\ \A i \in 1 .. n : f[i] = (IF f1[i] = m THEN n + 1 ELSE f1[i])
    OBVIOUS
  <2> HIDE DEF f
  <2>2. \A i \in 1 .. n : f1[i] \in 1 .. n
    BY <1>4
  <2> QED
    BY <2>1, <2>2
<1>7. \A i \in 1 .. n + 1 : i \in 1 .. n \/ i = n + 1
  OBVIOUS
<1>8. \A i \in 1 .. n : f1[i] \in 1 .. n /\ i \in 1 .. n + 1 /\ i # n + 1
  <2>1. \A i \in 1 .. n : f1[i] \in 1 .. n
    BY <1>4
  <2>2. \A i \in 1 .. n : i \in 1 .. n + 1 /\ i # n + 1
    OBVIOUS
  <2> QED
    BY <2>1, <2>2
<1>6. f \in [1 .. n + 1 -> 1 .. n + 1]
  <2>1. ASSUME NEW i \in 1 .. n + 1 PROVE f[i] \in 1 .. n + 1
    <3>1. CASE i = n + 1
      BY <1>5, <3>1, Zenon
    <3>2. CASE i \in 1 .. n
      <4>1. f[i] = n + 1 \/ f[i] = f1[i]
        BY <1>5, <3>2
      <4> HIDE DEF f
      <4>2. n + 1 \in 1 .. n + 1 /\ f1[i] \in 1 .. n + 1
        BY <1>8, <3>2
      <4> QED
        BY <4>1, <4>2
    <3> QED
      BY <1>7, <3>1, <3>2
  <2>2. f = [i \in 1 .. n + 1 |-> f[i]]
    OBVIOUS
  <2> HIDE DEF f
  <2> QED
    BY <2>1, <2>2
<1> HIDE DEF f, s1
<1>9. ASSUME NEW a \in 1 .. n + 1, NEW b \in 1 .. n + 1, f[a] = f[b] PROVE a = b
  <2>1. ASSUME NEW i \in 1 .. n PROVE f[i] # m
    <3>1. CASE f1[i] = m
      <4>1. m \in 1 .. n /\ m # n + 1
        BY <1>8, <3>1
      <4> QED
        BY <1>5, <3>1, <4>1
    <3>2. CASE f1[i] # m
      BY <1>5, <3>2
    <3> QED
      BY <3>1, <3>2
  <2>2. ASSUME NEW i \in 1 .. n, NEW j \in 1 .. n, f[i] = f[j] PROVE f1[i] = f1[j]
    <3>1. f1[i] # n + 1 /\ f1[j] # n + 1
      BY <1>8
    <3> QED
      BY <1>5, <2>2, <3>1
  <2>3. CASE a = n + 1 \/ b = n + 1
    BY <1>5, <1>7, <1>9, <2>1, <2>3
  <2>4. CASE a \in 1 .. n /\ b \in 1 .. n
    BY <1>4, <1>9, <2>2, <2>4
  <2> QED
    BY <1>7, <2>3, <2>4
<1>10. ASSUME NEW b \in 1 .. n + 1 PROVE \E a \in 1 .. n + 1 : f[a] = b
  <2>1. CASE b = m
    BY <1>5, <2>1
  <2>2. CASE b # m /\ b = n + 1
    <3>1. m \in 1 .. n
      BY <2>2
    <3>2. PICK a \in 1 .. n : f1[a] = m
      BY <1>4, <3>1
    <3> QED
      BY <1>5, <2>2, <3>2
  <2>3. CASE b # m /\ b # n + 1
    <3>1. b \in 1 .. n
      BY <1>7, <2>3
    <3>2. PICK a \in 1 .. n : f1[a] = b
      BY <1>4, <3>1
    <3>3. a \in 1 .. n + 1 /\ f[a] = b
      BY <1>5, <1>8, <2>3, <3>2
    <3> QED
      BY <3>3
  <2> QED
    BY <2>1, <2>2, <2>3
<1>11. ASSUME NEW a \in 1 .. n + 1, NEW b \in 1 .. n + 1, a < b PROVE s[f[a]] <= s[f[b]]
  <2>1. a \in 1 .. n
    BY <1>11
  <2>4. f[a] \in 1 .. n + 1
    BY <1>6
  <2>2. CASE b = n + 1
    BY <1>1, <1>5, <2>2, <2>4
  <2>3. CASE b \in 1 .. n
    BY <1>4, <1>5, <1>11, <2>1, <2>3
  <2> QED
    BY <1>7, <2>2, <2>3
<1> QED
  BY <1>6, <1>9, <1>10, <1>11 DEF Sorts

\* By induction every list of numbers can be put in order.
LEMMA AllSortable == \A n \in Nat : Sortable(n)
<1> DEFINE Less == OpToRel(<, Nat)
           T    == {n \in Nat : ~ Sortable(n)}
<1> SUFFICES ASSUME T # {} PROVE FALSE
  OBVIOUS
<1>1. IsWellFoundedOn(Less, Nat)
  BY NatLessThanWellFounded
<1>2. PICK n \in T : \A y \in T : << y, n >> \notin Less
  <2> HIDE DEF Less
  <2>1. T \subseteq Nat
    OBVIOUS
  <2> HIDE DEF T
  <2> QED
    BY <1>1, <2>1, WFMin
<1>3. \A y \in T : ~ (y < n)
  BY <1>2 DEF OpToRel
<1>4. n \in Nat /\ ~ Sortable(n)
  OBVIOUS
<1>5. Sortable(0)
  <2>1. \A s \in [1 .. 0 -> Nat] : Sorts(s, s, 0)
    BY DEF Sorts
  <2> QED
    BY <2>1 DEF Sortable
<1>6. CASE n > 0
  <2>1. n - 1 \in Nat /\ n - 1 < n /\ (n - 1) + 1 = n
    BY <1>4, <1>6
  <2>2. Sortable(n - 1)
    BY <1>3, <2>1
  <2>3. Sortable((n - 1) + 1)
    BY <2>1, <2>2, SortOneMore
  <2> QED
    BY <1>4, <2>1, <2>3
<1> QED
  BY <1>4, <1>5, <1>6

\* sort_unstable always has a result, so a host with open ports never waits to be
\* reported (portscan.rs:104).
THEOREM SortingSucceeds ==
  ASSUME NEW s \in Seq(Nat) PROVE Ascending(s) # {}
<1>1. Len(s) \in Nat /\ s \in [1 .. Len(s) -> Nat] /\ DOMAIN s = 1 .. Len(s)
  OBVIOUS
<1>2. PICK f : Sorts(f, s, Len(s))
  BY <1>1, AllSortable DEF Sortable
<1> DEFINE t == [n \in DOMAIN s |-> s[f[n]]]
<1>3. f \in Bijection(DOMAIN s, DOMAIN s)
  BY <1>1, <1>2 DEF Sorts, Bijection, Injection, Surjection, IsInjective
<1>4. \A m, n \in DOMAIN s : m < n => t[m] <= t[n]
  BY <1>1, <1>2 DEF Sorts
<1>5. t \in Ascending(s)
  BY <1>3, <1>4 DEF Ascending
<1> QED
  BY <1>5

\* Of two ways to sort a list none has the greater number in any place: all
\* that the other has up to there is smaller, and would have to be in front.
LEMMA NoneIsGreater ==
  ASSUME NEW n \in Nat, NEW s \in [1 .. n -> Nat], NEW f, NEW g,
         Sorts(f, s, n), Sorts(g, s, n), NEW k \in 1 .. n
  PROVE  s[f[k]] <= s[g[k]]
<1> DEFINE a(i) == s[f[i]]
           b(i) == s[g[i]]
<1>1. /\ \A i \in 1 .. n : f[i] \in 1 .. n /\ g[i] \in 1 .. n
      /\ \A i \in 1 .. n : a(i) \in Nat /\ b(i) \in Nat
  BY DEF Sorts
<1>2. /\ \A i, j \in 1 .. n : i < j => a(i) <= a(j) /\ b(i) <= b(j)
      /\ \A i, j \in 1 .. n : g[i] = g[j] => i = j
      /\ \A i \in 1 .. n : \E j \in 1 .. n : f[j] = g[i]
  BY <1>1 DEF Sorts
<1> SUFFICES ASSUME b(k) < a(k) PROVE FALSE
  BY <1>1
<1> DEFINE at(i) == CHOOSE j \in 1 .. n : f[j] = g[i]
           h     == [i \in 1 .. k |-> at(i)]
<1>3. \A i \in 1 .. n : at(i) \in 1 .. n /\ f[at(i)] = g[i]
  BY <1>2, Zenon
<1> HIDE DEF at
<1>4. ASSUME NEW i \in 1 .. k PROVE i \in 1 .. n /\ at(i) \in 1 .. k - 1
  <2>1. i \in 1 .. n /\ k \in Nat /\ i \in Nat
    OBVIOUS
  <2>2. b(i) <= b(k)
    <3>1. i < k \/ i = k
      BY <2>1
    <3>2. i < k => b(i) <= b(k)
      BY <1>2, <2>1
    <3> QED
      BY <1>1, <3>1, <3>2
  <2> DEFINE j == at(i)
  <2>3. j \in 1 .. n /\ a(j) = b(i)
    BY <1>3, <2>1, Zenon
  <2> HIDE DEF j
  <2>4. a(j) < a(k)
    BY <1>1, <2>1, <2>2, <2>3
  <2>5. j # k /\ ~ (k < j)
    <3>1. k < j => a(k) <= a(j)
      BY <1>2, <2>3, Zenon
    <3>2. a(k) \in Nat /\ a(j) \in Nat
      BY <1>1, <2>3, Zenon
    <3>3. j # k
      BY <2>4, <3>2
    <3> QED
      BY <2>4, <3>1, <3>2, <3>3
  <2> QED
    BY <2>1, <2>3, <2>5 DEF j
<1>5. h \in [1 .. k -> 1 .. k - 1]
  BY <1>4
<1>6. /\ IsFiniteSet(1 .. k) /\ IsFiniteSet(1 .. k - 1)
      /\ Cardinality(1 .. k) = k /\ Cardinality(1 .. k - 1) = k - 1
  <2>1. 1 \in Int /\ k \in Int /\ k - 1 \in Int /\ k >= 1
    OBVIOUS
  <2>2. /\ IsFiniteSet(1 .. k)
        /\ Cardinality(1 .. k) = IF 1 > k THEN 0 ELSE k - 1 + 1
        /\ IsFiniteSet(1 .. k - 1)
        /\ Cardinality(1 .. k - 1) = IF 1 > k - 1 THEN 0 ELSE (k - 1) - 1 + 1
    BY <2>1, FS_Interval, Zenon
  <2> QED
    BY <2>1, <2>2
<1>7. Cardinality(1 .. k - 1) < Cardinality(1 .. k)
  BY <1>6
<1>8. PICK x, y \in 1 .. k : x # y /\ h[x] = h[y]
  <2> HIDE DEF h
  <2> QED
    BY <1>5, <1>6, <1>7, FS_PigeonHole
<1>9. at(x) = at(y) /\ x \in 1 .. n /\ y \in 1 .. n
  BY <1>4, <1>8
<1>10. g[x] = g[y]
  BY <1>3, <1>9
<1> QED
  BY <1>2, <1>8, <1>9, <1>10

\* Whatever sort_unstable does with equal numbers, the ports of a host come out
\* in one order only: the report of a host does not depend on the order in
\* which its scans were joined (portscan.rs:104).
THEOREM SortingIsUnique ==
  ASSUME NEW s \in Seq(Nat) PROVE \E t \in Seq(Nat) : Ascending(s) = {t}
<1> DEFINE n == Len(s)
<1>1. n \in Nat /\ s \in [1 .. n -> Nat] /\ DOMAIN s = 1 .. n
  OBVIOUS
<1> HIDE DEF n
<1>2. ASSUME NEW t \in Ascending(s)
      PROVE  \E f : Sorts(f, s, n) /\ t = [i \in 1 .. n |-> s[f[i]]]
  <2>1. PICK f \in Bijection(1 .. n, 1 .. n) : t = [i \in 1 .. n |-> s[f[i]]]
    BY <1>1 DEF Ascending
  <2>2. \A i, j \in 1 .. n : i < j => t[i] <= t[j]
    BY <1>1 DEF Ascending
  <2>3. Sorts(f, s, n)
    BY <2>1, <2>2 DEF Sorts, Bijection, Injection, Surjection, IsInjective
  <2> QED
    BY <2>1, <2>3
<1>3. PICK t : t \in Ascending(s)
  BY SortingSucceeds
<1>4. PICK f : Sorts(f, s, n) /\ t = [i \in 1 .. n |-> s[f[i]]]
  BY <1>2, <1>3
<1>5. ASSUME NEW u \in Ascending(s) PROVE u = t
  <2>1. PICK g : Sorts(g, s, n) /\ u = [i \in 1 .. n |-> s[g[i]]]
    BY <1>2
  <2>2. ASSUME NEW i \in 1 .. n PROVE s[f[i]] = s[g[i]]
    <3>1. s[f[i]] <= s[g[i]] /\ s[g[i]] <= s[f[i]]
      BY <1>1, <1>4, <2>1, NoneIsGreater
    <3>2. s[f[i]] \in Nat /\ s[g[i]] \in Nat
      BY <1>1, <1>4, <2>1 DEF Sorts
    <3> QED
      BY <3>1, <3>2
  <2> QED
    BY <1>4, <2>1, <2>2
<1>6. t \in Seq(Nat)
  <2>1. \A i \in 1 .. n : s[f[i]] \in Nat
    BY <1>1, <1>4 DEF Sorts
  <2> QED
    BY <1>1, <1>4, <2>1
<1> QED
  BY <1>3, <1>5, <1>6

\* A sorted list is a list of the same things.
LEMMA SortedIs ==
  ASSUME NEW P, NEW s \in Seq(P), NEW t \in Ascending(s)
  PROVE  t \in Seq(P) /\ Len(t) = Len(s)
<1>1. DOMAIN t = DOMAIN s /\ \A n \in DOMAIN t : \E m \in DOMAIN s : t[n] = s[m]
  BY SortingMoves, Zenon
<1>2. DOMAIN s = 1 .. Len(s) /\ Len(s) \in Nat /\ \A m \in DOMAIN s : s[m] \in P
  OBVIOUS
<1>3. t = [n \in DOMAIN s |-> t[n]]
  BY <1>1 DEF Ascending
<1> DEFINE F == Len(s)
<1>4. t = [n \in 1 .. F |-> t[n]] /\ \A n \in 1 .. F : t[n] \in P
  BY <1>1, <1>2, <1>3, Zenon
<1>5. t \in [1 .. F -> P] /\ F \in Nat
  <2> HIDE DEF F
  <2> QED
    BY <1>2, <1>4 DEF F
<1> QED
  BY <1>5, ListOf, Zenon

\* What is in a report: what was there, the ports, the host.
LEMMA ReportParts ==
  ASSUME NEW S, NEW P, results \in Seq(S), NEW found \in Seq(P), NEW v
  PROVE  LET L == Len(results)
             F == Len(found)
             r == Report(v, found)
         IN  /\ DOMAIN r = 1 .. L + F + 1
             /\ \A i \in 1 .. L : r[i] = results[i]
             /\ \A n \in 1 .. F : r[L + n] = PortEntity(v, found[n])
             /\ r[L + F + 1] = HostEntity(v, [n \in DOMAIN found |-> L + n])
             /\ r = [i \in 1 .. L + F + 1 |-> r[i]]
<1> DEFINE L == Len(results)
           F == Len(found)
           A == [n \in DOMAIN found |-> PortEntity(v, found[n])]
           H == HostEntity(v, [n \in DOMAIN found |-> L + n])
           T == S \cup {A[n] : n \in DOMAIN found} \cup {H}
<1>1. L \in Nat /\ F \in Nat /\ DOMAIN found = 1 .. F /\ DOMAIN results = 1 .. L
  OBVIOUS
<1>2. A \in Seq(T) /\ Len(A) = F
  <2>1. A \in [1 .. F -> T]
    BY <1>1
  <2> QED
    BY <1>1, <2>1
<1>3. results \in Seq(T)
  <2>1. S \subseteq T
    OBVIOUS
  <2> QED
    BY <2>1, SeqMonotonic, Zenon
<1>4. H \in T
  OBVIOUS
<1>5. Report(v, found) = (results \o A) \o << H >>
  BY DEF Report
<1>6. \A n \in 1 .. F : A[n] = PortEntity(v, found[n])
  BY <1>1
<1> HIDE DEF A, H, T
<1>7. /\ results \o A \in Seq(T)
      /\ Len(results \o A) = L + F
      /\ \A i \in 1 .. L : (results \o A)[i] = results[i]
      /\ \A n \in 1 .. F : (results \o A)[L + n] = A[n]
  BY <1>1, <1>2, <1>3
<1>8. /\ DOMAIN ((results \o A) \o << H >>) = 1 .. L + F + 1
      /\ \A i \in 1 .. L + F : ((results \o A) \o << H >>)[i] = (results \o A)[i]
      /\ ((results \o A) \o << H >>)[L + F + 1] = H
      /\ (results \o A) \o << H >>
           = [i \in 1 .. L + F + 1 |-> ((results \o A) \o << H >>)[i]]
  <2>1. \A B \in Seq(T) : \A N \in Nat : Len(B) = N =>
          /\ DOMAIN (B \o << H >>) = 1 .. N + 1
          /\ \A i \in 1 .. N : (B \o << H >>)[i] = B[i]
          /\ (B \o << H >>)[N + 1] = H
          /\ B \o << H >> = [i \in 1 .. N + 1 |-> (B \o << H >>)[i]]
    BY <1>4
  <2>2. L + F \in Nat
    BY <1>1
  <2> QED
    BY <1>7, <2>1, <2>2, Zenon
<1> DEFINE r == Report(v, found)
<1>9. \A i \in 1 .. L : i \in 1 .. L + F
  BY <1>1
<1>10. \A n \in 1 .. F : L + n \in 1 .. L + F
  BY <1>1
<1>11. DOMAIN r = 1 .. L + F + 1 /\ r = [i \in 1 .. L + F + 1 |-> r[i]]
  BY <1>5, <1>8, Zenon
<1>12. \A i \in 1 .. L : r[i] = results[i]
  BY <1>5, <1>7, <1>8, <1>9, Zenon
<1>13. \A n \in 1 .. F : r[L + n] = PortEntity(v, found[n])
  BY <1>5, <1>6, <1>7, <1>8, <1>10, Zenon
<1>14. r[L + F + 1] = HostEntity(v, [n \in DOMAIN found |-> L + n])
  BY <1>5, <1>8, Zenon DEF H
<1> QED
  BY <1>11, <1>12, <1>13, <1>14, Zenon

\* The invariants of the report, with those of the scan.
ReportInv == PInv /\ CountInv /\ HostsInv

\* What the properties look at is given by these variables.
LEMMA SameView ==
  ASSUME UNCHANGED << hosts, ports, open_by_host, results >>
  PROVE  /\ Tasks' = Tasks
         /\ \A t : ValueOf(t)' = ValueOf(t) /\ PortOf(t)' = PortOf(t)
         /\ \A v, x : Noted(v, x)' = Noted(v, x) /\ Reported(v, x)' = Reported(v, x)
         /\ \A v : PortsOf(v)' = PortsOf(v) /\ HostsOf(v)' = HostsOf(v)
BY DEF Tasks, ValueOf, PortOf, Noted, Reported, PortsOf, HostsOf, PortEntity

\* At the start nothing is joined, noted or reported.
LEMMA InitReportInv == Init => ReportInv
<1> SUFFICES ASSUME Init PROVE ReportInv
  OBVIOUS
<1>1. results = << >> /\ DOMAIN results = {} /\ \A v \in Values : open_by_host[v] = << >>
  BY DEF Init
<1>2. CountInv
  <2> SUFFICES ASSUME NEW v \in Values, NEW p \in DOMAIN ports
               PROVE  /\ IsFiniteSet(Joins(v, ports[p]))
                      /\ Cardinality(Joins(v, ports[p]))
                           = Cardinality(Noted(v, ports[p])) + Cardinality(Reported(v, ports[p]))
    BY DEF CountInv
  <2>1. Joins(v, ports[p]) = {} /\ Noted(v, ports[p]) = {} /\ Reported(v, ports[p]) = {}
    BY <1>1 DEF Joins, Opened, Noted, Reported, Init
  <2> QED
    BY <2>1, FS_EmptySet
<1>3. HostsInv
  <2>1. phase = "returned" => AllJoined
    BY DEF Init, AllJoined, Tasks
  <2>2. \A v \in Values : PortsOf(v) = {} /\ HostsOf(v) = {}
    BY <1>1 DEF PortsOf, HostsOf
  <2> QED
    BY <1>1, <2>1, <2>2 DEF HostsInv
<1> QED
  BY <1>2, <1>3, InitPInv DEF ReportInv

\* A step of a task that does not join it leaves the report alone.
LEMMA TaskKeepsReport ==
  ASSUME ReportInv, NEW t \in Tasks, phase = "joining", pc[t] # "joined", pc'[t] # "joined",
         \A u \in Tasks : u # t => pc'[u] = pc[u] /\ outcome'[u] = outcome[u],
         UNCHANGED << hosts, ports, phase, open_by_host, results >>
  PROVE  CountInv' /\ HostsInv'
<1>1. \A v, x : Joins(v, x)' = Joins(v, x)
  BY SameView DEF Joins, Opened
<1>2. CountInv'
  BY <1>1, SameView DEF ReportInv, CountInv
<1>3. ~ AllJoined /\ results = << >>
  BY DEF AllJoined, ReportInv, HostsInv
<1>4. HostsInv'
  BY <1>3, SameView DEF ReportInv, HostsInv
<1> QED
  BY <1>2, <1>4

\* A task that is joined has its port noted, if it found it open.
LEMMA JoinKeepsReport ==
  ASSUME ReportInv, NEW t \in Tasks, Join(t)
  PROVE  CountInv' /\ HostsInv'
<1>1. /\ UNCHANGED << hosts, ports, outcome, results, phase >>
      /\ phase = "joining" /\ pc[t] = "ended"
      /\ \A u \in Tasks : pc'[u] = IF u = t THEN "joined" ELSE pc[u]
  BY DEF Join, ReportInv, PInv, TypeOK
<1>2. /\ Tasks' = Tasks
      /\ \A u : ValueOf(u)' = ValueOf(u) /\ PortOf(u)' = PortOf(u)
      /\ \A v, x : Reported(v, x)' = Reported(v, x)
      /\ \A v : PortsOf(v)' = PortsOf(v) /\ HostsOf(v)' = HostsOf(v)
  BY <1>1 DEF Tasks, ValueOf, PortOf, Reported, PortsOf, HostsOf, PortEntity
<1>3. ~ AllJoined /\ results = << >>
  BY <1>1 DEF AllJoined, ReportInv, HostsInv
<1>4. ASSUME NEW v \in Values, NEW p \in DOMAIN ports
      PROVE  /\ IsFiniteSet(Joins(v, ports[p])')
             /\ Cardinality(Joins(v, ports[p])')
                  = Cardinality(Noted(v, ports[p])') + Cardinality(Reported(v, ports[p])')
  <2> DEFINE x == ports[p]
  <2>1. /\ IsFiniteSet(Joins(v, x))
        /\ Cardinality(Joins(v, x)) = Cardinality(Noted(v, x)) + Cardinality(Reported(v, x))
    BY DEF ReportInv, CountInv
  <2>2. open_by_host[v] \in Seq({ports[n] : n \in DOMAIN ports})
    BY DEF ReportInv, PInv, TypeOK
  <2>3. IsFiniteSet(Noted(v, x)) /\ Reported(v, x) = {}
    <3>1. IsFiniteSet(1 .. Len(open_by_host[v]))
      BY <2>2, FS_Interval
    <3>2. Noted(v, x) \in SUBSET (1 .. Len(open_by_host[v]))
      BY <2>2 DEF Noted
    <3> QED
      BY <1>3, <3>1, <3>2, FS_Subset DEF Reported
  <2>4. PortOf(t) \in {ports[n] : n \in DOMAIN ports} /\ ValueOf(t) \in Values
    BY TaskParts
  <2>5. t \notin Joins(v, x)
    BY <1>1 DEF Joins
  <2>6. CASE outcome[t] = "open" /\ ValueOf(t) = v
    <3> DEFINE s == open_by_host[v]
    <3>1. open_by_host'[v] = Append(s, PortOf(t))
      BY <2>6 DEF Join, Joined, ReportInv, PInv, TypeOK
    <3>2. /\ Len(s) \in Nat /\ DOMAIN s = 1 .. Len(s)
          /\ DOMAIN open_by_host'[v] = 1 .. Len(s) + 1
          /\ \A k \in 1 .. Len(s) : open_by_host'[v][k] = s[k]
          /\ open_by_host'[v][Len(s) + 1] = PortOf(t)
      BY <2>2, <2>4, <3>1
    <3> HIDE DEF s
    <3>3. CASE PortOf(t) = x
      <4>1. Noted(v, x)' = Noted(v, x) \cup {Len(s) + 1} /\ Len(s) + 1 \notin Noted(v, x)
        BY <1>1, <3>2, <3>3 DEF Noted, s
      <4>2. Joins(v, x)' = Joins(v, x) \cup {t}
        BY <1>1, <1>2, <2>6, <3>3 DEF Joins, Opened
      <4>3. Reported(v, x)' = {}
        BY <1>1, <1>3 DEF Reported
      <4>4. Cardinality(Noted(v, x)') = Cardinality(Noted(v, x)) + 1
        BY <2>3, <4>1, FS_AddElement
      <4>5. /\ IsFiniteSet(Joins(v, x)')
            /\ Cardinality(Joins(v, x)') = Cardinality(Joins(v, x)) + 1
        BY <2>1, <2>5, <4>2, FS_AddElement
      <4>6. Cardinality(Noted(v, x)) \in Nat /\ Cardinality({}) = 0
        BY <2>3, FS_CardinalityType, FS_EmptySet
      <4> QED
        BY <2>1, <2>3, <4>3, <4>4, <4>5, <4>6
    <3>4. CASE PortOf(t) # x
      <4>1. Noted(v, x)' = Noted(v, x)
        BY <1>1, <3>2, <3>4 DEF Noted, s
      <4>2. Joins(v, x)' = Joins(v, x)
        BY <1>1, <1>2, <3>4 DEF Joins, Opened
      <4> QED
        BY <1>1, <1>2, <2>1, <4>1, <4>2
    <3> QED
      BY <3>3, <3>4
  <2>7. CASE ~ (outcome[t] = "open" /\ ValueOf(t) = v)
    <3>1. open_by_host'[v] = open_by_host[v]
      BY <2>7 DEF Join, Joined, ReportInv, PInv, TypeOK
    <3>2. Noted(v, x)' = Noted(v, x)
      BY <1>1, <3>1 DEF Noted
    <3>3. Joins(v, x)' = Joins(v, x)
      BY <1>1, <1>2, <2>7 DEF Joins, Opened
    <3> QED
      BY <1>1, <1>2, <2>1, <3>2, <3>3
  <2> QED
    BY <2>6, <2>7
<1>5. CountInv'
  BY <1>1, <1>4 DEF CountInv
<1>6. \A v \in Values : PortsOf(v)' = {} /\ HostsOf(v)' = {}
  BY <1>1, <1>3 DEF PortsOf, HostsOf
<1>7. HostsInv'
  BY <1>1, <1>3, <1>6 DEF ReportInv, HostsInv
<1> QED
  BY <1>5, <1>7


\* Reporting a host turns what is noted of it into entities, and links them.
LEMMA ReportKeepsReport ==
  ASSUME ReportInv, NEW v \in Values, ReportHost(v)
  PROVE  CountInv' /\ HostsInv'
<1> DEFINE s == open_by_host[v]
           L == Len(results)
           F == Len(s)
           Shape == [type : {"port", "ip_address"}, value : Values,
                     port : 0 .. U16 - 1, relations : Seq(Nat)]
<1>1. /\ UNCHANGED << hosts, ports, phase, pc, outcome >>
      /\ phase = "joining" /\ AllJoined /\ s # << >>
      /\ open_by_host' = [open_by_host EXCEPT ![v] = << >>]
  BY DEF ReportHost
<1>2. PICK found \in Ascending(s) : results' = Report(v, found)
  BY DEF ReportHost
<1>3. /\ s \in Seq({ports[n] : n \in DOMAIN ports})
      /\ \A n \in DOMAIN ports : ports[n] \in 0 .. U16 - 1
      /\ results \in Seq(Shape)
  BY DEF ReportInv, PInv, TypeOK, HostsInv
<1>4. /\ L \in Nat /\ F \in Nat /\ F > 0
      /\ DOMAIN s = 1 .. F /\ DOMAIN results = 1 .. L
  BY <1>1, <1>3
<1>8. PortsOf(v) = {} /\ HostsOf(v) = {}
  BY <1>1 DEF ReportInv, HostsInv
<1>9. \A i \in 1 .. L : results[i].value # v
  BY <1>4, <1>8 DEF PortsOf, HostsOf
<1> HIDE DEF s, F, Shape
<1>5. DOMAIN found = 1 .. F /\ \A n \in 1 .. F : \E m \in DOMAIN s : found[n] = s[m]
  <2>1. DOMAIN found = DOMAIN s /\ \A n \in DOMAIN found : \E m \in DOMAIN s : found[n] = s[m]
    BY SortingMoves, Zenon
  <2> QED
    BY <1>4, <2>1
<1>6. found \in Seq({ports[n] : n \in DOMAIN ports}) /\ Len(found) = F
  <2> DEFINE P == {ports[n] : n \in DOMAIN ports}
  <2> HIDE DEF P
  <2>1. found \in Seq(P) /\ Len(found) = Len(s)
    BY <1>3, SortedIs DEF P
  <2> QED
    BY <2>1 DEF P, F
<1>7. /\ DOMAIN results' = 1 .. L + F + 1
      /\ \A i \in 1 .. L : results'[i] = results[i]
      /\ \A n \in 1 .. F : results'[L + n] = PortEntity(v, found[n])
      /\ results'[L + F + 1] = HostEntity(v, [n \in DOMAIN found |-> L + n])
      /\ results' = [i \in 1 .. L + F + 1 |-> results'[i]]
  <2> DEFINE K == Len(found)
             r == Report(v, found)
  <2>1. /\ DOMAIN r = 1 .. L + K + 1
        /\ \A i \in 1 .. L : r[i] = results[i]
        /\ \A n \in 1 .. K : r[L + n] = PortEntity(v, found[n])
        /\ r[L + K + 1] = HostEntity(v, [n \in DOMAIN found |-> L + n])
        /\ r = [i \in 1 .. L + K + 1 |-> r[i]]
    BY <1>3, <1>6, ReportParts
  <2>2. K = F /\ results' = r
    BY <1>2, <1>6
  <2> HIDE DEF K, r, L
  <2> QED
    BY <2>1, <2>2
<1> HIDE DEF L
<1>10. \A i \in 1 .. L + F + 1 : i \in 1 .. L \/ i = L + F + 1 \/ \E n \in 1 .. F : i = L + n
  <2> TAKE i \in 1 .. L + F + 1
  <2>1. i \in 1 .. L \/ i = L + F + 1 \/ (i - L \in 1 .. F /\ i = L + (i - L))
    BY <1>4
  <2> QED
    BY <2>1
<1>16. ASSUME NEW n \in 1 .. F
       PROVE  /\ results'[L + n].type = "port" /\ results'[L + n].value = v
              /\ results'[L + n].port = found[n] /\ results'[L + n].relations = << >>
              /\ found[n] \in 0 .. U16 - 1
  <2>1. results'[L + n] = PortEntity(v, found[n])
    BY <1>7
  <2>2. found[n] \in {ports[m] : m \in DOMAIN ports}
    BY <1>5, <1>6
  <2> QED
    BY <1>3, <2>1, <2>2 DEF PortEntity
<1>17. results'[L + F + 1].type = "ip_address" /\ results'[L + F + 1].value = v
  BY <1>7 DEF HostEntity
<1>18. \A i \in DOMAIN results' : i \notin 1 .. L => results'[i].value = v
  BY <1>7, <1>10, <1>16, <1>17
<1>11. /\ PortsOf(v)' = {L + n : n \in 1 .. F}
       /\ HostsOf(v)' = {L + F + 1}
  <2>1. \A i \in DOMAIN results' : results'[i].value = v => i \notin 1 .. L
    BY <1>7, <1>9
  <2>4. L + F + 1 \in DOMAIN results' /\ \A n \in 1 .. F : L + n \in DOMAIN results'
    BY <1>4, <1>7
  <2>5. \A i \in DOMAIN results' : i \in 1 .. L \/ i = L + F + 1 \/ \E n \in 1 .. F : i = L + n
    BY <1>7, <1>10
  <2> QED
    BY <1>16, <1>17, <2>1, <2>4, <2>5 DEF PortsOf, HostsOf
<1>12. ASSUME NEW w \in Values, w # v
       PROVE  PortsOf(w)' = PortsOf(w) /\ HostsOf(w)' = HostsOf(w)
  <2>2. 1 .. L \subseteq DOMAIN results'
    BY <1>4, <1>7
  <2> QED
    BY <1>4, <1>7, <1>12, <1>18, <2>2 DEF PortsOf, HostsOf
<1>13. HostsInv'
  <2>1. results' \in Seq(Shape)
    <3>1. \A i \in 1 .. L : results'[i] \in Shape
      BY <1>3, <1>4, <1>7
    <3>2. ASSUME NEW n \in 1 .. F PROVE results'[L + n] \in Shape
      <4>1. results'[L + n] = PortEntity(v, found[n])
        BY <1>7
      <4>2. << >> \in Seq(Nat)
        OBVIOUS
      <4> QED
        BY <1>16, <4>1, <4>2 DEF PortEntity, Shape
    <3>3. results'[L + F + 1] \in Shape
      <4>1. [n \in DOMAIN found |-> L + n] \in Seq(Nat)
        <5>1. [n \in 1 .. F |-> L + n] \in [1 .. F -> Nat]
          BY <1>4
        <5>2. [n \in 1 .. F |-> L + n] \in Seq(Nat)
          BY <1>4, <5>1, ListOf, Zenon
        <5> QED
          BY <1>5, <5>2
      <4>2. 0 \in 0 .. U16 - 1
        BY U16Assumption
      <4> QED
        BY <1>7, <4>1, <4>2 DEF HostEntity, Shape
    <3>4. \A i \in 1 .. L + F + 1 : results'[i] \in Shape
      BY <1>10, <3>1, <3>2, <3>3
    <3>5. results' = [i \in 1 .. L + F + 1 |-> results'[i]]
      BY <1>7
    <3> QED
      BY <1>4, <3>4, <3>5
  <2>2. AllJoined'
    BY <1>1 DEF AllJoined, Tasks
  <2>3. ASSUME NEW w \in Values
        PROVE  (\/ PortsOf(w) = {} /\ HostsOf(w) = {}
                \/ /\ open_by_host[w] = << >>
                   /\ PortsOf(w) # {}
                   /\ \E h \in DOMAIN results :
                        /\ HostsOf(w) = {h}
                        /\ Range(results[h].relations) = PortsOf(w)
                        /\ \A n \in PortsOf(w) : n < h)'
    <3>1. CASE w = v
      <4>1. open_by_host'[v] = << >>
        BY <1>1 DEF ReportInv, PInv, TypeOK
      <4>2. PortsOf(v)' # {}
        BY <1>4, <1>11
      <4>3. results'[L + F + 1].relations = [n \in 1 .. F |-> L + n]
        BY <1>5, <1>7 DEF HostEntity
      <4>4. Range(results'[L + F + 1].relations) = PortsOf(v)'
        BY <1>11, <4>3 DEF Range
      <4>5. \A n \in PortsOf(v)' : n < L + F + 1
        BY <1>4, <1>11
      <4>6. L + F + 1 \in DOMAIN results'
        BY <1>4, <1>7
      <4> QED
        BY <1>11, <3>1, <4>1, <4>2, <4>4, <4>5, <4>6
    <3>2. CASE w # v
      <4>1. open_by_host'[w] = open_by_host[w]
        BY <1>1, <3>2 DEF ReportInv, PInv, TypeOK
      <4>2. \A h \in DOMAIN results : h \in DOMAIN results' /\ results'[h] = results[h]
        BY <1>4, <1>7
      <4>3. PortsOf(w)' = PortsOf(w) /\ HostsOf(w)' = HostsOf(w)
        BY <1>12, <3>2
      <4>4. \/ PortsOf(w) = {} /\ HostsOf(w) = {}
            \/ /\ open_by_host[w] = << >>
               /\ PortsOf(w) # {}
               /\ \E h \in DOMAIN results :
                    /\ HostsOf(w) = {h}
                    /\ Range(results[h].relations) = PortsOf(w)
                    /\ \A n \in PortsOf(w) : n < h
        BY DEF ReportInv, HostsInv
      <4> QED
        BY <4>1, <4>2, <4>3, <4>4
    <3> QED
      BY <3>1, <3>2
  <2> QED
    BY <1>1, <2>1, <2>2, <2>3 DEF HostsInv, Shape
<1>14. ASSUME NEW w \in Values, NEW p \in DOMAIN ports
       PROVE  /\ IsFiniteSet(Joins(w, ports[p])')
              /\ Cardinality(Joins(w, ports[p])')
                   = Cardinality(Noted(w, ports[p])') + Cardinality(Reported(w, ports[p])')
  <2> DEFINE x == ports[p]
  <2>1. /\ IsFiniteSet(Joins(w, x))
        /\ Cardinality(Joins(w, x)) = Cardinality(Noted(w, x)) + Cardinality(Reported(w, x))
    BY DEF ReportInv, CountInv
  <2>2. Joins(w, x)' = Joins(w, x)
    BY <1>1 DEF Joins, Opened, Tasks, ValueOf, PortOf
  <2>3. CASE w = v
    <3>1. Noted(v, x)' = {}
      <4>1. open_by_host'[v] = << >>
        BY <1>1 DEF ReportInv, PInv, TypeOK
      <4> QED
        BY <4>1 DEF Noted
    <3>2. Reported(v, x) = {}
      BY <1>9, <1>4 DEF Reported, PortEntity
    <3>3. Reported(v, x)' = {L + n : n \in At(found, x)}
      <4>1. \A i \in DOMAIN results' : results'[i] = PortEntity(v, x) => i \notin 1 .. L
        BY <1>7, <1>9 DEF PortEntity
      <4>2. results'[L + F + 1] # PortEntity(v, x)
        BY <1>7 DEF PortEntity, HostEntity
      <4>3. ASSUME NEW n \in 1 .. F
            PROVE  results'[L + n] = PortEntity(v, x) <=> found[n] = x
        <5>1. results'[L + n] = PortEntity(v, found[n])
          BY <1>7
        <5> QED
          BY <5>1 DEF PortEntity
      <4>4. \A n \in 1 .. F : L + n \in DOMAIN results'
        BY <1>4, <1>7
      <4>5. \A i \in DOMAIN results' : i \in 1 .. L \/ i = L + F + 1 \/ \E n \in 1 .. F : i = L + n
        BY <1>7, <1>10
      <4>6. ports' = ports
        BY <1>1
      <4> QED
        BY <1>5, <4>1, <4>2, <4>3, <4>4, <4>5, <4>6 DEF Reported, At, PortEntity
    <3>4. /\ IsFiniteSet(At(s, x)) /\ IsFiniteSet(At(found, x))
          /\ Cardinality(At(found, x)) = Cardinality(At(s, x))
      BY <1>4, FS_Interval, SortingKeeps
    <3>5. Cardinality({L + n : n \in At(found, x)}) = Cardinality(At(found, x))
      <4> DEFINE B == {L + n : n \in At(found, x)}
                 g == [n \in At(found, x) |-> L + n]
      <4>1. At(found, x) \subseteq Nat
        BY <1>4, <1>5 DEF At
      <4>2. g \in [At(found, x) -> B] /\ \A b \in B : \E n \in At(found, x) : g[n] = b
        OBVIOUS
      <4>3. \A a, b \in At(found, x) : g[a] = g[b] => a = b
        BY <1>4, <4>1
      <4> HIDE DEF g, B
      <4>4. g \in Bijection(At(found, x), B)
        BY <4>2, <4>3 DEF Bijection, Injection, Surjection, IsInjective
      <4> QED
        BY <3>4, <4>4, FS_Bijection DEF ExistsBijection, B
    <3>6. Noted(v, x) = At(s, x)
      BY DEF Noted, At, s
    <3>7. Cardinality(At(s, x)) \in Nat /\ Cardinality({}) = 0
      BY <3>4, FS_CardinalityType, FS_EmptySet
    <3>8. Cardinality(Joins(w, x)) = Cardinality(At(s, x)) + 0
      BY <2>1, <2>3, <3>2, <3>6, <3>7
    <3>9. Cardinality(Reported(v, x)') = Cardinality(At(s, x))
      BY <3>3, <3>4, <3>5
    <3> QED
      BY <2>1, <2>2, <2>3, <3>1, <3>7, <3>8, <3>9
  <2>4. CASE w # v
    <3>1. open_by_host'[w] = open_by_host[w]
      BY <1>1, <2>4 DEF ReportInv, PInv, TypeOK
    <3>2. Noted(w, x)' = Noted(w, x)
      BY <1>1, <3>1 DEF Noted
    <3>3. Reported(w, x)' = Reported(w, x)
      <4>2. 1 .. L \subseteq DOMAIN results'
        BY <1>4, <1>7
      <4>3. \A i \in DOMAIN results' : results'[i] = PortEntity(w, x) => i \in 1 .. L
        BY <2>4, <1>18 DEF PortEntity
      <4>4. ports' = ports
        BY <1>1
      <4> QED
        BY <1>4, <1>7, <4>2, <4>3, <4>4 DEF Reported, PortEntity
    <3> QED
      BY <2>1, <2>2, <3>2, <3>3
  <2> QED
    BY <2>3, <2>4
<1>15. CountInv'
  BY <1>1, <1>14 DEF CountInv
<1> QED
  BY <1>13, <1>15


\* Returning, being cancelled and standing still leave the report alone.
LEMMA PhaseKeepsReport ==
  ASSUME ReportInv, Return \/ Cancel \/ UNCHANGED vars
  PROVE  CountInv' /\ HostsInv'
<1>1. UNCHANGED << hosts, ports, pc, outcome, open_by_host, results >>
  BY DEF Return, Cancel, vars
<1>2. /\ Tasks' = Tasks
      /\ \A v, x : Joins(v, x)' = Joins(v, x)
      /\ \A v, x : Noted(v, x)' = Noted(v, x) /\ Reported(v, x)' = Reported(v, x)
      /\ \A v : PortsOf(v)' = PortsOf(v) /\ HostsOf(v)' = HostsOf(v)
  BY <1>1 DEF Tasks, ValueOf, PortOf, Joins, Opened, Noted, Reported, PortsOf, HostsOf, PortEntity
<1>3. CountInv'
  BY <1>1, <1>2 DEF ReportInv, CountInv
<1>4. AllJoined' <=> AllJoined
  BY <1>1, <1>2 DEF AllJoined
<1>5. phase' = "returned" => AllJoined /\ \A v \in Values : open_by_host[v] = << >>
  BY DEF ReportInv, HostsInv, Return, Cancel, vars
<1>6. HostsInv'
  BY <1>1, <1>2, <1>4, <1>5 DEF ReportInv, HostsInv
<1> QED
  BY <1>3, <1>6

\* Every step keeps the invariants.
LEMMA NextReportInv == ReportInv /\ [Next]_vars => ReportInv'
<1> SUFFICES ASSUME ReportInv, [Next]_vars PROVE ReportInv'
  OBVIOUS
<1> SUFFICES CountInv' /\ HostsInv'
  BY NextPInv DEF ReportInv
<1>1. ASSUME NEW t \in Tasks, Acquire(t) PROVE CountInv' /\ HostsInv'
  <2>1. /\ pc[t] # "joined" /\ pc'[t] # "joined" /\ phase = "joining"
        /\ \A u \in Tasks : u # t => pc'[u] = pc[u] /\ outcome'[u] = outcome[u]
        /\ UNCHANGED << hosts, ports, phase, open_by_host, results >>
    BY <1>1 DEF Acquire, ReportInv, PInv, TypeOK
  <2> QED
    BY <2>1, TaskKeepsReport
<1>2. ASSUME NEW t \in Tasks, NEW found \in {"open", "closed"}, End(t, found)
      PROVE  CountInv' /\ HostsInv'
  <2>1. /\ pc[t] # "joined" /\ pc'[t] # "joined" /\ phase = "joining"
        /\ \A u \in Tasks : u # t => pc'[u] = pc[u] /\ outcome'[u] = outcome[u]
        /\ UNCHANGED << hosts, ports, phase, open_by_host, results >>
    BY <1>2 DEF End, ReportInv, PInv, TypeOK
  <2> QED
    BY <2>1, TaskKeepsReport
<1>3. ASSUME NEW t \in Tasks, Join(t) PROVE CountInv' /\ HostsInv'
  BY <1>3, JoinKeepsReport
<1>4. ASSUME NEW v \in Values, ReportHost(v) PROVE CountInv' /\ HostsInv'
  BY <1>4, ReportKeepsReport
<1>5. ASSUME Return \/ Cancel \/ UNCHANGED vars PROVE CountInv' /\ HostsInv'
  BY <1>5, PhaseKeepsReport
<1> QED
  BY <1>1, <1>2, <1>3, <1>4, <1>5
     DEF Next, TaskStep, RunStep, Connects, Refused, ConnectTimeout, Over

\* The ports of completed handshakes are noted or reported, never both and never
\* twice, and a host is reported once all its ports are known.
THEOREM ReportInvariance == Spec => []ReportInv
BY InitReportInv, NextReportInv, PTL DEF Spec

\* The ports of a host are reported in ascending order.
OrderInv ==
  \A v \in Values : \A m, n \in PortsOf(v) : m < n => results[m].port <= results[n].port

\* They are reported in one piece, sorted.
LEMMA ReportKeepsOrder ==
  ASSUME ReportInv, OrderInv, NEW v \in Values, ReportHost(v)
  PROVE  OrderInv'
<1> DEFINE s == open_by_host[v]
           P == {ports[n] : n \in DOMAIN ports}
           L == Len(results)
           Shape == [type : {"port", "ip_address"}, value : Values,
                     port : 0 .. U16 - 1, relations : Seq(Nat)]
<1>1. s # << >> /\ \E found \in Ascending(s) : results' = Report(v, found)
  BY DEF ReportHost
<1>2. PICK found \in Ascending(s) : results' = Report(v, found)
  BY <1>1
<1>3. s \in Seq(P) /\ results \in Seq(Shape)
  BY DEF ReportInv, PInv, TypeOK, HostsInv
<1>4. PortsOf(v) = {}
  BY <1>1 DEF ReportInv, HostsInv
<1>5. \A m, n \in DOMAIN s : m < n => found[m] <= found[n]
  BY DEF Ascending
<1> HIDE DEF s, P, Shape
<1> DEFINE F == Len(found)
<1>6. found \in Seq(P) /\ F = Len(s) /\ DOMAIN s = 1 .. F /\ F \in Nat
  BY <1>3, SortedIs
<1>7. L \in Nat /\ DOMAIN results = 1 .. L
  BY <1>3
<1>8. /\ DOMAIN results' = 1 .. L + F + 1
      /\ \A i \in 1 .. L : results'[i] = results[i]
      /\ \A n \in 1 .. F : results'[L + n] = PortEntity(v, found[n])
      /\ results'[L + F + 1] = HostEntity(v, [n \in DOMAIN found |-> L + n])
  <2> DEFINE r == Report(v, found)
  <2>1. /\ DOMAIN r = 1 .. L + F + 1
        /\ \A i \in 1 .. L : r[i] = results[i]
        /\ \A n \in 1 .. F : r[L + n] = PortEntity(v, found[n])
        /\ r[L + F + 1] = HostEntity(v, [n \in DOMAIN found |-> L + n])
    BY <1>3, <1>6, ReportParts, Zenon
  <2>2. results' = r
    BY <1>2
  <2> HIDE DEF r, F, L
  <2> QED
    BY <2>1, <2>2
<1> HIDE DEF F, L
<1> SUFFICES ASSUME NEW w \in Values, NEW m \in PortsOf(w)', NEW n \in PortsOf(w)', m < n
             PROVE  results'[m].port <= results'[n].port
  BY DEF OrderInv
\* What was reported of a host before, and what is reported of it now.
<1>9. ASSUME NEW i \in PortsOf(w)'
      PROVE  \/ w # v /\ i \in PortsOf(w) /\ results'[i] = results[i]
             \/ w = v /\ i - L \in 1 .. F /\ results'[i].port = found[i - L]
  <2>1. i \in 1 .. L + F + 1 /\ results'[i].type = "port" /\ results'[i].value = w
    BY <1>8 DEF PortsOf
  <2>2. CASE i \in 1 .. L
    <3>1. results'[i] = results[i] /\ i \in DOMAIN results
      BY <1>7, <1>8, <2>2
    <3>2. i \in PortsOf(w)
      BY <2>1, <3>1 DEF PortsOf
    <3>3. w # v
      BY <1>4, <3>2
    <3> QED
      BY <3>1, <3>2, <3>3
  <2>3. CASE i = L + F + 1
    BY <1>8, <2>1, <2>3 DEF HostEntity
  <2>4. CASE i \notin 1 .. L /\ i # L + F + 1
    <3>1. i - L \in 1 .. F /\ L + (i - L) = i
      BY <1>6, <1>7, <2>1, <2>4
    <3>2. results'[L + (i - L)] = PortEntity(v, found[i - L])
      BY <1>8, <3>1, Zenon
    <3>3. results'[i] = PortEntity(v, found[i - L])
      BY <3>1, <3>2, Zenon
    <3>4. results'[i].value = v /\ results'[i].port = found[i - L]
      BY <3>3 DEF PortEntity
    <3> QED
      BY <2>1, <3>1, <3>4
  <2> QED
    BY <2>2, <2>3, <2>4
<1>10. m \in Int /\ n \in Int
  BY <1>6, <1>7, <1>8 DEF PortsOf
<1>11. CASE w # v
  BY <1>9, <1>11 DEF OrderInv
<1>12. CASE w = v
  <2>1. /\ m - L \in 1 .. F /\ results'[m].port = found[m - L]
        /\ n - L \in 1 .. F /\ results'[n].port = found[n - L]
    BY <1>9, <1>12
  <2>2. m - L < n - L
    BY <1>7, <1>10
  <2>3. found[m - L] <= found[n - L]
    BY <1>5, <1>6, <2>1, <2>2, Zenon
  <2> QED
    BY <2>1, <2>3
<1> QED
  BY <1>11, <1>12

LEMMA PortsAscend == Spec => []OrderInv
<1>1. Init => OrderInv
  BY DEF Init, OrderInv, PortsOf
<1>2. ReportInv /\ OrderInv /\ [Next]_vars => OrderInv'
  <2> SUFFICES ASSUME ReportInv, OrderInv, [Next]_vars PROVE OrderInv'
    OBVIOUS
  <2>1. ASSUME NEW v \in Values, ReportHost(v) PROVE OrderInv'
    BY <2>1, ReportKeepsOrder
  <2>2. ASSUME UNCHANGED results PROVE OrderInv'
    BY <2>2 DEF OrderInv, PortsOf
  <2>3. UNCHANGED results \/ \E v \in Values : ReportHost(v)
    BY DEF Next, TaskStep, RunStep, Acquire, Connects, Refused, ConnectTimeout, End, Join,
       Return, Cancel, Over, vars
  <2> QED
    BY <2>1, <2>2, <2>3
<1> QED
  BY <1>1, <1>2, ReportInvariance, PTL DEF Spec

\* run_portscan returns one Port entity for every handshake that was completed and
\* no other, those of a host in ascending order, in whatever order tasks end and
\* are joined (portscan.rs:90-114).
THEOREM EveryHandshakeReported == Spec => []HandshakesReported
<1>1. ReportInv /\ OrderInv => HandshakesReported
  <2> SUFFICES ASSUME ReportInv, OrderInv, phase = "returned" PROVE HandshakesReported
    BY DEF HandshakesReported
  <2>1. AllJoined /\ \A v \in Values : open_by_host[v] = << >>
    BY DEF ReportInv, HostsInv
  <2>2. ASSUME NEW v \in Values, NEW p \in DOMAIN ports
        PROVE  Cardinality(Reported(v, ports[p])) = Cardinality(Opened(v, ports[p]))
    <3> DEFINE x == ports[p]
    <3>1. Joins(v, x) = Opened(v, x)
      BY <2>1 DEF Joins, Opened, AllJoined
    <3>2. Noted(v, x) = {}
      BY <2>1 DEF Noted
    <3>3. Cardinality(Joins(v, x)) = Cardinality(Noted(v, x)) + Cardinality(Reported(v, x))
      BY DEF ReportInv, CountInv
    <3>4. Reported(v, x) \in SUBSET (1 .. Len(results)) /\ Len(results) \in Nat
      BY DEF ReportInv, HostsInv, Reported
    <3>5. Cardinality(Reported(v, x)) \in Nat
      <4>1. IsFiniteSet(1 .. Len(results))
        BY <3>4, FS_Interval
      <4> QED
        BY <3>4, <4>1, FS_Subset, FS_CardinalityType
    <3> QED
      BY <3>1, <3>2, <3>3, <3>5, FS_EmptySet
  <2>3. \A n \in DOMAIN results : results[n].port < U16
    <3> DEFINE Shape == [type : {"port", "ip_address"}, value : Values,
                         port : 0 .. U16 - 1, relations : Seq(Nat)]
    <3>1. results \in Seq(Shape)
      BY DEF ReportInv, HostsInv
    <3>2. \A n \in DOMAIN results : results[n] \in Shape
      <4> HIDE DEF Shape
      <4> QED
        BY <3>1
    <3> QED
      BY <3>2, U16Assumption
  <2> QED
    BY <2>2, <2>3 DEF HandshakesReported, OrderInv
<1> QED
  BY <1>1, ReportInvariance, PortsAscend, PTL

\* run_portscan reports a host with open ports once, behind its ports and related
\* to all of them and nothing else, however often the input lists the address
\* (portscan.rs:100-126).
THEOREM HostsAreLinked == Spec => []HostsLinkTheirPorts
<1>1. ReportInv => HostsLinkTheirPorts
  <2> SUFFICES ASSUME ReportInv, NEW v \in Values
               PROVE  /\ Cardinality(HostsOf(v)) = IF PortsOf(v) = {} THEN 0 ELSE 1
                      /\ \A h \in HostsOf(v) :
                           /\ Range(results[h].relations) = PortsOf(v)
                           /\ \A n \in PortsOf(v) : n < h
    BY DEF HostsLinkTheirPorts
  <2>1. CASE PortsOf(v) = {} /\ HostsOf(v) = {}
    BY <2>1, FS_EmptySet
  <2>2. CASE PortsOf(v) # {} /\ \E h \in DOMAIN results :
                 /\ HostsOf(v) = {h}
                 /\ Range(results[h].relations) = PortsOf(v)
                 /\ \A n \in PortsOf(v) : n < h
    BY <2>2, FS_Singleton
  <2> QED
    BY <2>1, <2>2 DEF ReportInv, HostsInv
<1> QED
  BY <1>1, ReportInvariance, PTL

=============================================================================
