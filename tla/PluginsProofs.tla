--------------------------- MODULE PluginsProofs ----------------------------
(***************************************************************************)
(* Proofs about one call of a plugin, for every input, every configuration *)
(* and whatever the services answer.  The invariants PlaceInv, AskedInv    *)
(* and MadeInv of Plugins say where a call is, what it has asked and where *)
(* its results are from; every property rests on them and on an invariant  *)
(* of its own (PassedInv, NoFailureInv, ReportedInv, SourcesInv,           *)
(* LookupInv).                                                             *)
(***************************************************************************)
EXTENDS Plugins, SequenceTheorems, WellFoundedInduction, TLAPS

-----------------------------------------------------------------------------
(* Calls and questions                                                     *)

\* What a call is given.
LEMMA InputShape ==
  ASSUME call \in Calls
  PROVE  /\ call.plugin \in {"subfinder", "katana", "nuclei", "httpx", "dnsx", "whois", "certsh"}
         /\ Len(call.input) \in Nat /\ DOMAIN call.input = 1 .. Len(call.input)
         /\ Len(call.each) \in Nat
         /\ call.plugin \in {"httpx", "dnsx"} => Len(call.each) # 0
         /\ \A e, f \in Range(call.input) : e.id[1] = 0 /\ (e.id = f.id => e = f)
<1>1. /\ call.input \in Seq(Range(call.input)) /\ call.each \in Seq(Range(call.each))
      /\ call.plugin \in {"httpx", "dnsx"} => call.each # << >>
  BY CallsAssumption DEF IsList
<1>2. call.each # << >> => Len(call.each) # 0
  BY <1>1
<1> QED
  BY <1>1, <1>2, CallsAssumption

\* The questions are a sequence, whatever their answers are.
AskedSeq == asked \in Seq(Range(asked))

\* A question at the end of those asked before.
LEMMA AskAppends ==
  ASSUME AskedSeq, NEW service, NEW answer, Ask(service, answer)
  PROVE  /\ Len(asked) \in Nat /\ Len(asked') = Len(asked) + 1
         /\ DOMAIN asked = 1 .. Len(asked) /\ DOMAIN asked' = 1 .. Len(asked) + 1
         /\ AskedSeq'
         /\ \A n \in DOMAIN asked : asked'[n] = asked[n]
         /\ asked'[Len(asked) + 1] = [seed |-> at, service |-> service, answer |-> answer]
<1> DEFINE q == [seed |-> at, service |-> service, answer |-> answer]
<1>1. asked \in Seq(Range(asked) \cup {q}) /\ asked \in Seq(Range(asked))
  BY SeqMonotonic DEF AskedSeq
<1>2. asked' = Append(asked, q)
  BY DEF Ask
<1> HIDE DEF q
<1>3. /\ Len(asked) \in Nat /\ Len(asked') = Len(asked) + 1
      /\ DOMAIN asked = 1 .. Len(asked) /\ DOMAIN asked' = 1 .. Len(asked) + 1
      /\ \A n \in 1 .. Len(asked) : asked'[n] = asked[n]
      /\ asked'[Len(asked) + 1] = q
      /\ asked' \in Seq(Range(asked) \cup {q})
  BY <1>1, <1>2
<1>4. asked' \in Seq(Range(asked'))
  <2>1. \A n \in 1 .. Len(asked') : asked'[n] \in Range(asked')
    BY <1>3 DEF Range
  <2> QED
    BY <1>3, <2>1, SeqDef, LenProperties
<1> QED
  BY <1>3, <1>4 DEF q, AskedSeq

\* What the steps do with the questions: nothing, or one more is asked about the
\* seed the call is at.
Asks == \E service, answer : Ask(service, answer)

\* Every step leaves the call alone; a call goes through its input in order.
LEMMA NextKinds ==
  ASSUME [Next]_vars, PlaceInv
  PROVE  /\ UNCHANGED call
         /\ UNCHANGED asked \/ (Asks /\ IsSeed(at))
         /\ at' = at \/ (at \in DOMAIN call.input /\ at' = at + 1)
<1> USE DEF Asks, PlaceInv
<1>1. CASE MissingBinary \/ ClientFails \/ Start \/ Spawn \/ SpawnFails \/ PassOver \/ Finish \/
           Cancel \/ Returned \/ StartLookup
  BY <1>1 DEF MissingBinary, ClientFails, Start, Spawn, SpawnFails, PassOver, Finish, Cancel,
              Returned, StartLookup, Return, NextSeed, vars
<1>2. CASE ChildFails \/ LookupFails \/ Refer \/ LookedUp
  BY <1>2 DEF ChildFails, LookupFails, Refer, LookedUp, Return, NextSeed, IsSeed
<1>3. CASE ChildPrints \/ Probe \/ Resolve
  BY <1>3 DEF ChildPrints, Probe, Resolve, NextSeed, AtSeed, IsSeed
<1>4. CASE AskCrtsh \/ AskCertspotter \/ GrabLive
  BY <1>4 DEF AskCrtsh, AskCertspotter, GrabLive, Return, NextSeed, AtSeed, IsSeed
<1>5. CASE UNCHANGED vars
  BY <1>5 DEF vars
<1> QED
  BY <1>1, <1>2, <1>3, <1>4, <1>5 DEF Next, Work

-----------------------------------------------------------------------------
(* Where a call is, and what it has asked                                  *)

\* A call starts at the head of its input, with nothing asked.
LEMMA InitPlace == Init => PlaceInv /\ AskedInv /\ AskedSeq
<1> SUFFICES ASSUME Init PROVE PlaceInv /\ AskedInv /\ AskedSeq
  OBVIOUS
<1>1. call \in Calls /\ asked = << >> /\ pc = "start" /\ at = 1 /\ sub = 1 /\ found = FALSE
  BY DEF Init
<1>2. AskedInv /\ AskedSeq
  BY <1>1 DEF AskedInv, AskedSeq
<1>3. PlaceInv
  <2>1. /\ Len(call.input) \in Nat /\ Len(call.each) \in Nat
        /\ call.plugin \in {"httpx", "dnsx"} => Len(call.each) # 0
    BY <1>1, InputShape
  <2>2. at \in 1 .. Len(call.input) + 1 /\ sub \in Nat \ {0}
    BY <1>1, <2>1
  <2>3. call.plugin \in {"httpx", "dnsx"} => sub <= Len(call.each)
    BY <1>1, <2>1
  <2>4. found \in BOOLEAN
    BY <1>1
  <2> QED
    BY <1>1, <2>2, <2>3, <2>4 DEF PlaceInv
<1> QED
  BY <1>2, <1>3

\* Every step keeps PlaceInv.
LEMMA StepPlace ==
  ASSUME PlaceInv, [Next]_vars PROVE PlaceInv'
<1>0. /\ Len(call.input) \in Nat /\ DOMAIN call.input = 1 .. Len(call.input)
      /\ Len(call.each) \in Nat
      /\ call.plugin \in {"httpx", "dnsx"} => Len(call.each) # 0
  BY InputShape DEF PlaceInv
<1>1. ASSUME UNCHANGED << call, at, sub, found >>, pc' \in {"err", "dropped"}
      PROVE  PlaceInv'
  BY <1>1 DEF PlaceInv, Ended, IsSeed
<1>2. ASSUME NextSeed, at \in DOMAIN call.input
      PROVE  PlaceInv'
  <2>1. pc' = "seed" /\ at' = at + 1 /\ sub' = 1 /\ found' \in BOOLEAN /\ UNCHANGED call
    BY <1>2 DEF NextSeed
  <2>2. at' \in 1 .. Len(call.input) + 1 /\ sub' \in Nat \ {0}
    BY <1>0, <1>2, <2>1
  <2>3. call.plugin \in {"httpx", "dnsx"} => sub' <= Len(call.each)
    BY <1>0, <2>1
  <2> QED
    BY <2>1, <2>2, <2>3 DEF PlaceInv
<1>3. CASE MissingBinary \/ ClientFails \/ SpawnFails \/ ChildFails \/ LookupFails \/ Cancel
  BY <1>1, <1>3 DEF MissingBinary, ClientFails, SpawnFails, ChildFails, LookupFails, Cancel,
                    Return
<1>4. CASE PassOver \/ ChildPrints \/ LookedUp
  BY <1>2, <1>4 DEF PassOver, ChildPrints, LookedUp, PlaceInv, IsSeed
<1>5. CASE Start
  BY <1>5 DEF Start, PlaceInv, Ended, IsSeed
<1>6. CASE Spawn
  BY <1>6 DEF Spawn, PlaceInv, AtSeed, Ended, IsSeed
<1>7. CASE StartLookup
  BY <1>7 DEF StartLookup, PlaceInv, AtSeed, Ended, IsSeed
<1>8. CASE Probe
  <2>1. CASE sub < Len(call.each)
    BY <1>0, <1>8, <2>1 DEF Probe, PlaceInv, AtSeed, Ended, IsSeed
  <2>2. CASE ~ (sub < Len(call.each))
    BY <1>2, <1>8, <2>2 DEF Probe, AtSeed, IsSeed
  <2> QED
    BY <2>1, <2>2
<1>9. CASE Resolve
  <2>1. CASE sub < Len(call.each)
    BY <1>0, <1>9, <2>1 DEF Resolve, PlaceInv, AtSeed, Ended, IsSeed
  <2>2. CASE ~ (sub < Len(call.each))
    BY <1>2, <1>9, <2>2 DEF Resolve, AtSeed, IsSeed
  <2> QED
    BY <2>1, <2>2
<1>10. CASE AskCrtsh
  <2>1. found' \in BOOLEAN /\ pc' \in {"live", "certspotter"} /\ AtSeed({"certsh"})
    BY <1>10 DEF AskCrtsh, PlaceInv
  <2>2. UNCHANGED << call, at, sub >>
    BY <1>10 DEF AskCrtsh
  <2> QED
    BY <2>1, <2>2 DEF PlaceInv, AtSeed, Ended, IsSeed
<1>11. CASE AskCertspotter
  <2>1. found' \in BOOLEAN
    BY <1>11 DEF AskCertspotter, PlaceInv
  <2> QED
    BY <1>11, <2>1 DEF AskCertspotter, PlaceInv, Ended, IsSeed
<1>12. CASE GrabLive
  BY <1>1, <1>2, <1>12 DEF GrabLive, Return, PlaceInv, IsSeed
<1>13. CASE Refer
  BY <1>13 DEF Refer, PlaceInv, Ended, IsSeed
<1>14. CASE Finish
  BY <1>0, <1>14 DEF Finish, Return, SeedsDone, PlaceInv, Ended, IsSeed
<1>15. CASE Returned \/ UNCHANGED vars
  BY <1>15 DEF Returned, vars, PlaceInv, IsSeed
<1> QED
  BY <1>3, <1>4, <1>5, <1>6, <1>7, <1>8, <1>9, <1>10, <1>11, <1>12, <1>13, <1>14, <1>15
  DEF Next, Work

\* Every step keeps AskedInv.
LEMMA StepAsked ==
  ASSUME PlaceInv, AskedInv, AskedSeq, [Next]_vars PROVE AskedInv' /\ AskedSeq'
<1>1. /\ UNCHANGED call
      /\ UNCHANGED asked \/ (Asks /\ IsSeed(at))
      /\ at' = at \/ at' = at + 1
      /\ at \in Nat
  BY NextKinds, InputShape DEF PlaceInv
<1>2. \A k : IsSeed(k)' = IsSeed(k)
  BY <1>1 DEF IsSeed
<1>0. \A k : IsSeed(k) => k \in Nat
  BY InputShape DEF IsSeed, PlaceInv
<1>3. CASE UNCHANGED asked
  BY <1>0, <1>1, <1>2, <1>3 DEF AskedInv, AskedSeq
<1>4. ASSUME NEW service, NEW answer, Ask(service, answer), IsSeed(at)
      PROVE  AskedInv' /\ AskedSeq'
  <2>1. /\ Len(asked) \in Nat
        /\ DOMAIN asked = 1 .. Len(asked) /\ DOMAIN asked' = 1 .. Len(asked) + 1
        /\ \A n \in DOMAIN asked : asked'[n] = asked[n]
        /\ asked'[Len(asked) + 1] = [seed |-> at, service |-> service, answer |-> answer]
        /\ AskedSeq'
    BY <1>4, AskAppends
  <2>2. ASSUME NEW n \in DOMAIN asked' PROVE IsSeed(asked[n].seed)' /\ asked'[n].seed <= at'
    <3>1. CASE n \in DOMAIN asked
      BY <1>0, <1>1, <1>2, <2>1, <3>1 DEF AskedInv
    <3>2. CASE n = Len(asked) + 1
      BY <1>1, <1>2, <1>4, <2>1, <3>2
    <3> QED
      BY <2>1, <3>1, <3>2
  <2>3. ASSUME NEW n \in DOMAIN asked', NEW m \in 1 .. n
        PROVE  asked'[m].seed <= asked'[n].seed
    <3>1. CASE n \in DOMAIN asked
      BY <2>1, <3>1 DEF AskedInv
    <3>2. CASE n = Len(asked) + 1
      BY <1>0, <1>1, <2>1, <3>2 DEF AskedInv
    <3> QED
      BY <2>1, <3>1, <3>2
  <2> QED
    BY <2>1, <2>2, <2>3 DEF AskedInv
<1> QED
  BY <1>1, <1>3, <1>4 DEF Asks

-----------------------------------------------------------------------------
(* What is made of one answer: programs, pages and addresses               *)

\* A type the plugin declares, or the seed again.
Typed(e) == \/ e.type \in Registered[call.plugin].produces
            \/ e.type = Seed.type /\ SameName(e.value, Seed.value)

\* Entities made from one answer, that do not conflict with what there is, are
\* related to sensible things and have declared types.
GoodBatch(new) ==
  /\ \A e \in new : Typed(e)
  /\ \A e \in new : e.id[1] = Len(asked) + 1
  /\ \A e, f \in new : e.id = f.id => e = f
  /\ \A e \in new : \A r \in e.relations :
       \E f \in Known \cup new : f.id = r.target /\ Fits(r.kind, f.type) /\ ~ SameKey(e, f)

\* Such entities can be added to the results.
LEMMA EmitGood ==
  ASSUME PlaceInv, AskedSeq, MadeInv, LinksMakeSense, UNCHANGED call, Asks,
         NEW new, GoodBatch(new), Emit(new)
  PROVE  /\ LinksMakeSense'
         /\ \A e \in results' : e.id[1] \in DOMAIN asked'
<1>1. /\ Len(asked) \in Nat
      /\ DOMAIN asked = 1 .. Len(asked) /\ DOMAIN asked' = 1 .. Len(asked) + 1
  BY AskAppends DEF Asks
<1>2. results' = results \cup new /\ Known' = Known \cup new
  BY DEF Emit, Known
<1>3. \A k, t : Fits(k, t)' = Fits(k, t)
  BY DEF Fits
<1>4. \A e, f \in Range(call.input) : e.id[1] = 0 /\ (e.id = f.id => e = f)
  BY InputShape DEF PlaceInv
<1>5. \A e \in results : e.id[1] \in 1 .. Len(asked)
  BY <1>1 DEF MadeInv
<1>6. \A e, f \in Known' : e.id = f.id => e = f
  <2>1. \A e, f \in Known : e.id = f.id => e = f
    BY DEF LinksMakeSense
  <2>2. \A e \in Known : \A f \in new : e.id # f.id
    <3> SUFFICES ASSUME NEW e \in Known, NEW f \in new PROVE e.id[1] # f.id[1]
      OBVIOUS
    <3>1. f.id[1] = Len(asked) + 1
      BY DEF GoodBatch
    <3>2. e.id[1] = 0 \/ e.id[1] \in 1 .. Len(asked)
      BY <1>4, <1>5 DEF Known
    <3> QED
      BY <1>1, <3>1, <3>2
  <2>3. \A e, f \in new : e.id = f.id => e = f
    BY DEF GoodBatch
  <2> QED
    BY <1>2, <2>1, <2>2, <2>3
<1>7. ASSUME NEW e \in results', NEW r \in e.relations
      PROVE  \E f \in Known' : f.id = r.target /\ Fits(r.kind, f.type) /\ ~ SameKey(e, f)
  <2>1. CASE e \in results
    BY <1>2, <2>1 DEF LinksMakeSense
  <2>2. CASE e \in new
    BY <1>2, <2>2 DEF GoodBatch
  <2> QED
    BY <1>2, <2>1, <2>2
<1>8. LinksMakeSense'
  BY <1>3, <1>6, <1>7 DEF LinksMakeSense, SameKey
<1>9. \A e \in results' : e.id[1] \in DOMAIN asked'
  BY <1>1, <1>2, <1>5 DEF GoodBatch
<1> QED
  BY <1>8, <1>9

\* Entities made from one answer have identities of their own.
LEMMA FreshIds ==
  /\ \A i, j : Fresh(i, j)[1] = Len(asked) + 1
  /\ \A i, j, k, l : Fresh(i, j) = Fresh(k, l) => i = k /\ j = l
BY DEF Fresh

\* The seed a call is at, and what it can be.
LEMMA SeedShape ==
  ASSUME PlaceInv, IsSeed(at)
  PROVE  /\ Seed \in Range(call.input) /\ Seed \in Known
         /\ Seed.type \in Wanted(call.plugin)
         /\ SameName(Seed.value, Seed.value)
<1>1. Seed \in Range(call.input) /\ Seed.type \in Wanted(call.plugin)
  BY DEF IsSeed, Seed, Range
<1> QED
  BY <1>1, SameNameAssumption DEF Known, PlaceInv

\* What an external program prints.
LEMMA LinesGood ==
  ASSUME PlaceInv, IsSeed(at), call.plugin \in Collectors, NEW lines, NEW good
  PROVE  GoodBatch({FromLine(lines[i], i) : i \in good})
<1> DEFINE new == {FromLine(lines[i], i) : i \in good}
<1>1. Seed \in Known /\ Seed.type \in Wanted(call.plugin)
  BY SeedShape
<1>2. ASSUME NEW i \in good
      PROVE  LET e == FromLine(lines[i], i)
             IN  /\ e.id = Fresh(i, 0)
                 /\ \A r \in e.relations : r.target = Seed.id /\ Fits(r.kind, Seed.type)
                 /\ ~ SameKey(e, Seed) /\ Typed(e)
  <2>1. CASE call.plugin = "subfinder"
    BY <1>1, <2>1 DEF FromLine, Program, Entity, Relation, SameKey, Fits, Wanted, Typed,
                      Registered, Declared, SubfinderPlugin, KatanaPlugin, NucleiPlugin
  <2>2. CASE call.plugin = "katana"
    BY <1>1, <2>2 DEF FromLine, Program, Entity, Relation, SameKey, Fits, Wanted, Typed,
                      Registered, Declared, SubfinderPlugin, KatanaPlugin, NucleiPlugin
  <2>3. CASE call.plugin = "nuclei"
    BY <1>1, <2>3 DEF FromLine, Program, Entity, Relation, SameKey, Fits, Wanted, Typed,
                      Registered, Declared, SubfinderPlugin, KatanaPlugin, NucleiPlugin
  <2> QED
    BY <2>1, <2>2, <2>3 DEF Collectors
<1>3. \A e \in new : e.id[1] = Len(asked) + 1
  BY <1>2, FreshIds
<1>4. \A e, f \in new : e.id = f.id => e = f
  BY <1>2, FreshIds
<1>5. ASSUME NEW e \in new, NEW r \in e.relations
      PROVE  \E f \in Known \cup new : f.id = r.target /\ Fits(r.kind, f.type) /\ ~ SameKey(e, f)
  BY <1>1, <1>2
<1> HIDE DEF new
<1>6. \A e \in new : Typed(e)
  BY <1>2 DEF new
<1>7. GoodBatch(new)
  BY <1>3, <1>4, <1>5, <1>6 DEF GoodBatch
<1> QED
  BY <1>7 DEF new

\* One page.
LEMMA PageGood ==
  ASSUME PlaceInv, IsSeed(at), call.plugin = "httpx", NEW url
  PROVE  GoodBatch({Entity(Fresh(1, 0), "Url", url, {Relation("DiscoveredFrom", Seed.id)})})
<1>1. Seed \in Known /\ Seed.type \in Wanted(call.plugin)
  BY SeedShape
<1>2. Seed.type # "Url" /\ Fits("DiscoveredFrom", Seed.type)
  BY <1>1 DEF Wanted, Fits
<1>3. Registered["httpx"].produces = {"Url"}
  BY DEF Registered, HttpxPlugin, Declared
<1> QED
  BY <1>1, <1>2, <1>3 DEF GoodBatch, Entity, Relation, Fresh, SameKey, Typed

\* The addresses of one answer.
LEMMA AddressesGood ==
  ASSUME call.plugin = "dnsx", NEW records
  PROVE  /\ GoodBatch(FromRecords(records))
         /\ \A e \in FromRecords(records) :
              \E i \in DOMAIN records :
                e = Entity(Fresh(i, 0), "IpAddress", records[i], {})
<1> DEFINE new == FromRecords(records)
<1>1. \A e \in new : \E i \in DOMAIN records : e = Entity(Fresh(i, 0), "IpAddress", records[i], {})
  BY DEF FromRecords
<1> HIDE DEF new
<1>2. \A e \in new : e.id[1] = Len(asked) + 1 /\ e.relations = {}
  BY <1>1, FreshIds DEF Entity
<1>3. ASSUME NEW e \in new, NEW f \in new, e.id = f.id PROVE e = f
  <2>1. PICK i \in DOMAIN records : e = Entity(Fresh(i, 0), "IpAddress", records[i], {})
    BY <1>1
  <2>2. PICK k \in DOMAIN records : f = Entity(Fresh(k, 0), "IpAddress", records[k], {})
    BY <1>1
  <2>3. Fresh(i, 0) = Fresh(k, 0)
    BY <1>3, <2>1, <2>2 DEF Entity
  <2>4. i = k
    BY <2>3, FreshIds
  <2> QED
    BY <2>1, <2>2, <2>4
<1>4. \A e \in new : Typed(e)
  BY <1>1 DEF Typed, Entity, Registered, DnsxPlugin, Declared
<1>5. GoodBatch(new)
  BY <1>2, <1>3, <1>4 DEF GoodBatch
<1> QED
  BY <1>1, <1>5 DEF new

\* Addresses, and the host behind them.
LEMMA RecordsGood ==
  ASSUME PlaceInv, MadeInv, IsSeed(at), call.plugin = "dnsx", NEW records, IsList(records)
  PROVE  LET new == FromRecords(records)
         IN  GoodBatch(new \cup {UpdatedHost(links \cup Ids(new))})
<1> DEFINE new  == FromRecords(records)
           host == UpdatedHost(links \cup Ids(new))
<1>1. Seed.type \in {"Domain", "Subdomain"}
  BY SeedShape DEF Wanted
<1>2. GoodBatch(new) /\ \A e \in new : \E i \in DOMAIN records :
                e = Entity(Fresh(i, 0), "IpAddress", records[i], {})
  BY AddressesGood
<1>3. 0 \notin DOMAIN records
  BY DEF IsList
<1>4. \A e \in new : e.id # Fresh(0, 0) /\ e.type = "IpAddress"
  BY <1>2, <1>3, FreshIds DEF Entity
<1>5. /\ host.id = Fresh(0, 0) /\ host.type = Seed.type /\ host.value = Seed.value
      /\ host.relations = {Relation("ResolvesTo", t) : t \in links \cup Ids(new)}
  BY DEF UpdatedHost, Entity
<1>6. \A id \in links : \E e \in Known : e.id = id /\ e.type = "IpAddress"
  BY DEF MadeInv, Known
<1> HIDE DEF new, host
<1>7. \A r \in host.relations :
        \E f \in Known \cup new : f.id = r.target /\ Fits(r.kind, f.type) /\ ~ SameKey(host, f)
  <2> SUFFICES ASSUME NEW t \in links \cup Ids(new)
               PROVE  \E f \in Known \cup new :
                        f.id = t /\ Fits("ResolvesTo", f.type) /\ ~ SameKey(host, f)
    BY <1>5 DEF Relation
  <2>1. \E f \in Known \cup new : f.id = t /\ f.type = "IpAddress"
    BY <1>4, <1>6 DEF Ids
  <2> QED
    BY <1>1, <1>5, <2>1 DEF Fits, SameKey
<1>8. Typed(host)
  BY <1>5, SeedShape DEF Typed
<1>9. GoodBatch(new \cup {host})
  BY <1>2, <1>4, <1>5, <1>7, <1>8, FreshIds DEF GoodBatch
<1> QED
  BY <1>9 DEF new, host

-----------------------------------------------------------------------------
(* What is made of one answer: certificates                                *)

\* A name of a certificate, next to the certificate.
LEMMA HostShape ==
  ASSUME PlaceInv, IsSeed(at), call.plugin = "certsh", NEW host, NEW cert, NEW id
  PROVE  LET e == HostEntity(host, cert, id)
         IN  /\ e.id = id /\ e.value = host
             /\ e.type \in {"Domain", "Subdomain"}
             /\ e.type = "Domain" => SameName(host, Seed.value)
             /\ \A r \in e.relations : \/ r = Relation("HasCertificate", cert)
                                       \/ /\ r = Relation("DiscoveredFrom", Seed.id)
                                          /\ e.type = "Subdomain"
             /\ SameName(host, Seed.value) \/ Relation("DiscoveredFrom", Seed.id) \in e.relations
BY DEF HostEntity, Entity

\* The certificates of one answer, with their names.
CertificatesOf(S, name, hosts, counted) ==
  UNION {WithHosts(name[i], hosts[i], counted[i], i) : i \in S}

\* They can be added to the results, and there are some if there are certificates.
LEMMA CertificatesGood ==
  ASSUME PlaceInv, IsSeed(at), call.plugin = "certsh",
         NEW S, NEW name, NEW hosts, NEW counted,
         \A i \in S : 0 \notin counted[i]
  PROVE  /\ GoodBatch(CertificatesOf(S, name, hosts, counted))
         /\ S # {} <=> CertificatesOf(S, name, hosts, counted) # {}
<1> DEFINE cert(i)    == Entity(Fresh(i, 0), "Certificate", name[i], {})
           host(i, j) == HostEntity(hosts[i][j], Fresh(i, 0), Fresh(i, j))
           new        == UNION {WithHosts(name[i], hosts[i], counted[i], i) : i \in S}
<1>1. \A e \in new : \E i \in S : e = cert(i) \/ \E j \in counted[i] : e = host(i, j)
  BY DEF WithHosts
<1>2. \A i \in S : cert(i) \in new
  BY DEF WithHosts
<1>3. \A i \in S : /\ cert(i).id = Fresh(i, 0) /\ cert(i).type = "Certificate"
                   /\ cert(i).relations = {}
  BY DEF Entity
<1>t. /\ \A i \in S : Typed(cert(i))
      /\ \A i \in S : \A j \in counted[i] : Typed(host(i, j))
  <2>1. Registered["certsh"].produces = {"Subdomain", "Certificate"}
    BY DEF Registered, CertshPlugin, Declared
  <2>2. \A i \in S : Typed(cert(i))
    BY <2>1, <1>3 DEF Typed
  <2>3. ASSUME NEW i \in S, NEW j \in counted[i] PROVE Typed(host(i, j))
    <3>1. /\ host(i, j).type \in {"Domain", "Subdomain"} /\ host(i, j).value = hosts[i][j]
          /\ host(i, j).type = "Domain" => SameName(hosts[i][j], Seed.value)
      BY HostShape
    <3>2. Seed.type = "Domain"
      BY SeedShape DEF Wanted
    <3> QED
      BY <2>1, <3>1, <3>2 DEF Typed
  <2> QED
    BY <2>2, <2>3
<1>4. \A i \in S : \A j \in counted[i] :
        /\ host(i, j).id = Fresh(i, j) /\ host(i, j).type \in {"Domain", "Subdomain"}
        /\ \A r \in host(i, j).relations :
              \/ r = Relation("HasCertificate", Fresh(i, 0))
              \/ r = Relation("DiscoveredFrom", Seed.id) /\ host(i, j).type = "Subdomain"
  BY HostShape
<1>5. Seed \in Known /\ Seed.type = "Domain"
  BY SeedShape DEF Wanted
<1> HIDE DEF new, cert, host
<1>6. \A e \in new : e.id[1] = Len(asked) + 1
  BY <1>1, <1>3, <1>4, FreshIds
<1>7. ASSUME NEW e \in new, NEW f \in new, e.id = f.id PROVE e = f
  <2>1. PICK i \in S : e = cert(i) \/ \E j \in counted[i] : e = host(i, j)
    BY <1>1
  <2>2. PICK k \in S : f = cert(k) \/ \E j \in counted[k] : f = host(k, j)
    BY <1>1
  <2>3. CASE e = cert(i)
    <3>1. e.id = Fresh(i, 0)
      BY <1>3, <2>3
    <3>2. CASE f = cert(k)
      BY <1>3, <1>7, <2>3, <3>1, <3>2, FreshIds
    <3>3. ASSUME NEW j \in counted[k], f = host(k, j) PROVE FALSE
      <4>1. f.id = Fresh(k, j)
        BY <1>4, <3>3
      <4> QED
        BY <1>7, <3>1, <4>1, FreshIds
    <3> QED
      BY <2>2, <3>2, <3>3
  <2>4. ASSUME NEW j \in counted[i], e = host(i, j) PROVE e = f
    <3>1. e.id = Fresh(i, j)
      BY <1>4, <2>4
    <3>2. CASE f = cert(k)
      <4>1. f.id = Fresh(k, 0)
        BY <1>3, <3>2
      <4> QED
        BY <1>7, <2>4, <3>1, <4>1, FreshIds
    <3>3. ASSUME NEW l \in counted[k], f = host(k, l) PROVE e = f
      <4>1. f.id = Fresh(k, l)
        BY <1>4, <3>3
      <4>2. i = k /\ j = l
        BY <1>7, <3>1, <4>1, FreshIds
      <4> QED
        BY <2>4, <3>3, <4>2
    <3> QED
      BY <2>2, <3>2, <3>3
  <2> QED
    BY <2>1, <2>3, <2>4
<1>8. ASSUME NEW e \in new, NEW r \in e.relations
      PROVE  \E f \in Known \cup new : f.id = r.target /\ Fits(r.kind, f.type) /\ ~ SameKey(e, f)
  <2>1. PICK i \in S : \E j \in counted[i] : e = host(i, j)
    BY <1>1, <1>3, <1>8
  <2>2. e.type \in {"Domain", "Subdomain"}
    BY <1>4, <2>1
  <2>3. CASE r = Relation("HasCertificate", Fresh(i, 0))
    BY <1>2, <1>3, <2>2, <2>3 DEF Relation, Fits, SameKey
  <2>4. CASE r = Relation("DiscoveredFrom", Seed.id) /\ e.type = "Subdomain"
    <3>1. Fits("DiscoveredFrom", "Domain")
      BY DEF Fits, Wanted
    <3> QED
      BY <1>5, <2>4, <3>1 DEF Relation, SameKey
  <2> QED
    BY <1>4, <1>8, <2>1, <2>3, <2>4
<1>9. GoodBatch(new)
  <2>1. \A e \in new : Typed(e)
    BY <1>1, <1>t
  <2> QED
    BY <1>6, <1>7, <1>8, <2>1 DEF GoodBatch
<1>10. S # {} <=> new # {}
  BY <1>1, <1>2
<1> QED
  BY <1>9, <1>10 DEF new, CertificatesOf

\* What a source of certsh gives: entities, if and only if it names something.
LEMMA CrtshGood ==
  ASSUME PlaceInv, IsSeed(at), call.plugin = "certsh", NEW got \in FetchCrtsh
  PROVE  GoodBatch(got.entities) /\ (got.entities # {} <=> got.answer.items # << >>)
<1>1. CASE got = NotFetched
  BY <1>1 DEF NotFetched, Fetched, Failed, GoodBatch
<1>2. ASSUME NEW certs \in CertAnswers,
             got = Fetched(Answered(certs),
               UNION {WithHosts(certs[i].name, certs[i].hosts,
                            {j \in DOMAIN certs[i].hosts : certs[i].hosts[j] # Blank}, i) :
                    i \in DOMAIN certs})
      PROVE  GoodBatch(got.entities) /\ (got.entities # {} <=> got.answer.items # << >>)
  <2> DEFINE name    == [i \in DOMAIN certs |-> certs[i].name]
             hosts   == [i \in DOMAIN certs |-> certs[i].hosts]
             counted == [i \in DOMAIN certs |->
                           {j \in DOMAIN certs[i].hosts : certs[i].hosts[j] # Blank}]
             new     == CertificatesOf(DOMAIN certs, name, hosts, counted)
  <2>1. got.entities = new /\ got.answer.items = certs
    BY <1>2 DEF Fetched, Answered, CertificatesOf
  <2>2. \A i \in DOMAIN certs : 0 \notin counted[i]
    BY CertAnswersAssumption DEF IsList
  <2>3. certs # << >> <=> DOMAIN certs # {}
    BY CertAnswersAssumption DEF IsList
  <2> HIDE DEF name, hosts, counted
  <2>4. GoodBatch(new) /\ (DOMAIN certs # {} <=> new # {})
    BY <2>2, CertificatesGood
  <2> QED
    BY <2>1, <2>3, <2>4
<1> QED
  BY <1>1, <1>2 DEF FetchCrtsh

\* The same of certspotter.
LEMMA CertspotterGood ==
  ASSUME PlaceInv, IsSeed(at), call.plugin = "certsh", NEW got \in FetchCertspotter
  PROVE  GoodBatch(got.entities) /\ (got.entities # {} <=> got.answer.items # << >>)
<1>1. CASE got = NotFetched
  BY <1>1 DEF NotFetched, Fetched, Failed, GoodBatch
<1>2. ASSUME NEW certs \in CertAnswers,
             got = Fetched(Answered(certs),
               UNION {WithHosts(certs[i].name, certs[i].hosts, DOMAIN certs[i].hosts, i) :
                    i \in DOMAIN certs})
      PROVE  GoodBatch(got.entities) /\ (got.entities # {} <=> got.answer.items # << >>)
  <2> DEFINE name    == [i \in DOMAIN certs |-> certs[i].name]
             hosts   == [i \in DOMAIN certs |-> certs[i].hosts]
             counted == [i \in DOMAIN certs |-> DOMAIN certs[i].hosts]
             new     == CertificatesOf(DOMAIN certs, name, hosts, counted)
  <2>1. got.entities = new /\ got.answer.items = certs
    BY <1>2 DEF Fetched, Answered, CertificatesOf
  <2>2. \A i \in DOMAIN certs : 0 \notin counted[i]
    BY CertAnswersAssumption DEF IsList
  <2>3. certs # << >> <=> DOMAIN certs # {}
    BY CertAnswersAssumption DEF IsList
  <2> HIDE DEF name, hosts, counted
  <2>4. GoodBatch(new) /\ (DOMAIN certs # {} <=> new # {})
    BY <2>2, CertificatesGood
  <2> QED
    BY <2>1, <2>3, <2>4
<1> QED
  BY <1>1, <1>2 DEF FetchCertspotter

\* The same of the server itself.
LEMMA TlsSanGood ==
  ASSUME PlaceInv, IsSeed(at), call.plugin = "certsh", NEW got \in FetchTlsSan
  PROVE  GoodBatch(got.entities) /\ (got.entities # {} <=> got.answer.items # << >>)
<1>1. CASE got = NotFetched
  BY <1>1 DEF NotFetched, Fetched, Failed, GoodBatch
<1>2. ASSUME NEW names \in LiveAnswers \ {<< >>},
             got = Fetched(Answered(names),
                     WithHosts("tls-live:" \o Seed.value, names, DOMAIN names, 1))
      PROVE  GoodBatch(got.entities) /\ (got.entities # {} <=> got.answer.items # << >>)
  <2> DEFINE name    == [i \in {1} |-> "tls-live:" \o Seed.value]
             hosts   == [i \in {1} |-> names]
             counted == [i \in {1} |-> DOMAIN names]
             new     == CertificatesOf({1}, name, hosts, counted)
  <2>1. got.entities = new /\ got.answer.items = names
    BY <1>2 DEF Fetched, Answered, CertificatesOf
  <2>2. \A i \in {1} : 0 \notin counted[i]
    BY LiveAnswersAssumption DEF IsList
  <2> HIDE DEF name, hosts, counted
  <2>3. GoodBatch(new) /\ new # {}
    BY <2>2, CertificatesGood
  <2> QED
    BY <1>2, <2>1, <2>3
<1> QED
  BY <1>1, <1>2 DEF FetchTlsSan

-----------------------------------------------------------------------------
(* What is made of one answer: whois texts; relations                      *)

\* What is made of a text: the seed again, and an entity per field it gives.
Given(text) ==
  {f \in {Field(1, "Cidr", "BelongsToCidr", FirstField(text, CidrLabels)),
          Field(2, "Asn", "BelongsToAsn", FirstField(text, AsnLabels))} : f.value # NoField}

Made(f) == Entity(Fresh(f.i, 0), f.type, f.value, {})
Again(text) ==
  Entity(Fresh(0, 0), Seed.type, Seed.value, {Relation(f.kind, Fresh(f.i, 0)) : f \in Given(text)})

\* FromText in these terms.
LEMMA TextShape ==
  ASSUME NEW text
  PROVE  /\ FromText(text) = {Made(f) : f \in Given(text)} \cup {Again(text)}
         /\ \A f \in Given(text) :
              /\ f.value # NoField
              /\ \/ f = Field(1, "Cidr", "BelongsToCidr", FirstField(text, CidrLabels))
                 \/ f = Field(2, "Asn", "BelongsToAsn", FirstField(text, AsnLabels))
BY DEF FromText, Given, Made, Again

\* They can be added to the results.
LEMMA TextGood ==
  ASSUME PlaceInv, IsSeed(at), call.plugin = "whois", NEW text
  PROVE  GoodBatch(FromText(text))
<1> DEFINE new == FromText(text)
<1>1. /\ \A e \in new : e = Again(text) \/ \E f \in Given(text) : e = Made(f)
      /\ \A f \in Given(text) : Made(f) \in new
  BY TextShape
<1>2. \A f \in Given(text) :
        \/ /\ f.i = 1 /\ f.type = "Cidr" /\ f.kind = "BelongsToCidr"
           /\ f.value = FirstField(text, CidrLabels)
        \/ /\ f.i = 2 /\ f.type = "Asn" /\ f.kind = "BelongsToAsn"
           /\ f.value = FirstField(text, AsnLabels)
  BY TextShape DEF Field
<1>3. \A f, g \in Given(text) : f.i = g.i => Made(f) = Made(g)
  BY <1>2 DEF Made
<1>4. \A f \in Given(text) :
        Made(f).id = Fresh(f.i, 0) /\ Made(f).type = f.type /\ Made(f).relations = {}
  BY DEF Made, Entity
<1>5. /\ Again(text).id = Fresh(0, 0) /\ Again(text).type = Seed.type
      /\ Again(text).relations = {Relation(f.kind, Fresh(f.i, 0)) : f \in Given(text)}
  BY DEF Again, Entity
<1>6. Seed.type \in {"Domain", "Subdomain", "IpAddress"}
  BY SeedShape DEF Wanted
<1> HIDE DEF new
<1>7. \A e \in new : e.id[1] = Len(asked) + 1
  BY <1>1, <1>4, <1>5, FreshIds
<1>8. ASSUME NEW e \in new, NEW f \in new, e.id = f.id PROVE e = f
  <2>1. \A g \in Given(text) : g.i # 0
    BY <1>2
  <2>2. CASE e = Again(text) /\ f = Again(text)
    BY <2>2
  <2>3. \A g \in Given(text) : Made(g).id # Again(text).id
    <3> SUFFICES ASSUME NEW g \in Given(text), Fresh(g.i, 0) = Fresh(0, 0) PROVE FALSE
      BY <1>4, <1>5
    <3> QED
      BY <2>1, FreshIds
  <2>4. ASSUME NEW g \in Given(text), NEW h \in Given(text), e = Made(g), f = Made(h)
        PROVE  e = f
    <3>1. Fresh(g.i, 0) = Fresh(h.i, 0)
      BY <1>4, <1>8, <2>4
    <3>2. g.i = h.i
      BY <3>1, FreshIds
    <3> QED
      BY <1>3, <2>4, <3>2
  <2>5. CASE e = Again(text)
    BY <1>1, <1>8, <2>3, <2>5
  <2>6. ASSUME NEW g \in Given(text), e = Made(g) PROVE e = f
    BY <1>1, <1>8, <2>3, <2>4, <2>6
  <2> QED
    BY <1>1, <2>5, <2>6
<1>9. ASSUME NEW e \in new, NEW r \in e.relations
      PROVE  \E f \in Known \cup new : f.id = r.target /\ Fits(r.kind, f.type) /\ ~ SameKey(e, f)
  <2>1. e = Again(text)
    BY <1>1, <1>4, <1>9
  <2>2. PICK f \in Given(text) : r = Relation(f.kind, Fresh(f.i, 0))
    BY <1>5, <1>9, <2>1
  <2>3. Made(f) \in new /\ Made(f).id = r.target /\ Made(f).type = f.type
    BY <1>1, <1>4, <2>2 DEF Relation
  <2>4. Fits(r.kind, f.type) /\ f.type \in {"Cidr", "Asn"}
    BY <1>2, <2>2 DEF Relation, Fits
  <2>5. ~ SameKey(e, Made(f))
    BY <1>5, <1>6, <2>1, <2>3, <2>4 DEF SameKey
  <2> QED
    BY <2>3, <2>4, <2>5
<1>10. Typed(Again(text)) /\ \A f \in Given(text) : Typed(Made(f))
  <2>1. Again(text).value = Seed.value
    BY DEF Again, Entity
  <2>2. Registered["whois"].produces = {"Domain", "IpAddress", "Asn", "Cidr"}
    BY DEF Registered, WhoisPlugin, Declared
  <2> QED
    BY <1>2, <1>4, <1>5, <2>1, <2>2, SeedShape DEF Typed
<1>11. GoodBatch(new)
  BY <1>1, <1>7, <1>8, <1>9, <1>10 DEF GoodBatch
<1> QED
  BY <1>11 DEF new

\* Which steps report something, and what.
Reports(new) == Emit(new) /\ GoodBatch(new) /\ Asks /\ IsSeed(at)

\* A step that changes the results asks a question and adds what its answer gives.
LEMMA StepReports ==
  ASSUME PlaceInv, MadeInv, [Next]_vars
  PROVE  /\ UNCHANGED call
         /\ \/ UNCHANGED << asked, results >>
            \/ UNCHANGED results /\ Asks
            \/ \E new : Reports(new)
<1>0. UNCHANGED call
  BY NextKinds
<1>1. CASE MissingBinary \/ ClientFails \/ Start \/ Spawn \/ SpawnFails \/ PassOver \/ Finish \/
           Cancel \/ Returned \/ StartLookup \/ UNCHANGED vars
  <2>1. UNCHANGED << asked, results >>
    BY <1>1 DEF MissingBinary, ClientFails, Start, Spawn, SpawnFails, PassOver, Finish, Cancel,
                Returned, StartLookup, vars
  <2> QED
    BY <1>0, <2>1
<1>2. CASE ChildFails \/ LookupFails \/ Refer
  <2>1. UNCHANGED results /\ Asks
    BY <1>2 DEF ChildFails, LookupFails, Refer, Asks
  <2> QED
    BY <1>0, <2>1
<1>3. CASE ChildPrints
  <2>1. call.plugin \in Collectors /\ IsSeed(at)
    BY <1>3 DEF ChildPrints, PlaceInv
  <2>2. PICK lines :
          /\ Ask(Program, Answered(lines))
          /\ Emit({FromLine(lines[i], i) : i \in {i \in DOMAIN lines : Counts(lines[i])}})
    BY <1>3 DEF ChildPrints
  <2> DEFINE good == {i \in DOMAIN lines : Counts(lines[i])}
             new  == {FromLine(lines[i], i) : i \in good}
  <2>3. Emit(new) /\ Asks
    BY <2>2 DEF Asks
  <2> HIDE DEF good
  <2>4. GoodBatch(new)
    BY <2>1, LinesGood
  <2> HIDE DEF new
  <2> QED
    BY <1>0, <2>1, <2>3, <2>4 DEF Reports
<1>4. CASE Probe
  <2>1. call.plugin = "httpx" /\ IsSeed(at)
    BY <1>4 DEF Probe, AtSeed
  <2>2. CASE Ask(call.each[sub], Failed) /\ UNCHANGED results
    BY <1>0, <2>2 DEF Asks
  <2>3. ASSUME NEW url, Ask(call.each[sub], Answered(<< url >>)),
               Emit({Entity(Fresh(1, 0), "Url", url, {Relation("DiscoveredFrom", Seed.id)})})
        PROVE  \E new : Reports(new)
    <3>1. GoodBatch({Entity(Fresh(1, 0), "Url", url, {Relation("DiscoveredFrom", Seed.id)})})
      BY <2>1, PageGood
    <3>2. Asks
      BY <2>3 DEF Asks
    <3> QED
      BY <2>1, <2>3, <3>1, <3>2 DEF Reports
  <2> QED
    BY <1>0, <1>4, <2>2, <2>3 DEF Probe
<1>5. CASE Resolve
  <2>1. call.plugin = "dnsx" /\ IsSeed(at)
    BY <1>5 DEF Resolve, AtSeed
  <2>2. PICK records \in Lookups :
         LET new   == FromRecords(records)
             known == \E r \in Range(records) : r # Other
         IN  /\ Ask(call.each[sub], Answered(records))
             /\ IF sub < Len(call.each)
                THEN Emit(new)
                ELSE Emit(new \cup IF found \/ known
                                    THEN {UpdatedHost(links \cup Ids(new))} ELSE {})
    BY <1>5 DEF Resolve
  <2> DEFINE new == FromRecords(records)
             all == new \cup {UpdatedHost(links \cup Ids(new))}
  <2>3. IsList(records)
    BY LookupsAssumption
  <2>4. GoodBatch(new) /\ GoodBatch(all)
    BY <2>1, <2>3, AddressesGood, RecordsGood
  <2>5. Asks
    BY <2>2 DEF Asks
  <2>6. Emit(new) \/ Emit(all)
    <3>1. new \cup {} = new
      OBVIOUS
    <3> QED
      BY <2>2, <3>1
  <2> HIDE DEF new, all
  <2> QED
    BY <1>0, <2>1, <2>4, <2>5, <2>6 DEF Reports
<1>6. CASE AskCrtsh
  BY <1>0, <1>6, CrtshGood DEF AskCrtsh, AtSeed, Asks, Reports
<1>7. CASE AskCertspotter
  <2>1. IsSeed(at) /\ call.plugin = "certsh"
    BY <1>7 DEF AskCertspotter, PlaceInv
  <2> QED
    BY <1>0, <1>7, <2>1, CertspotterGood DEF AskCertspotter, Asks, Reports
<1>8. CASE GrabLive
  <2>1. IsSeed(at) /\ call.plugin = "certsh"
    BY <1>8 DEF GrabLive, PlaceInv
  <2> QED
    BY <1>0, <1>8, <2>1, TlsSanGood DEF GrabLive, Asks, Reports
<1>9. CASE LookedUp
  <2>1. IsSeed(at) /\ call.plugin = "whois"
    BY <1>9 DEF LookedUp, PlaceInv
  <2>2. PICK text : Ask(server, Answered(<< text >>)) /\ Emit(FromText(text))
    BY <1>9 DEF LookedUp
  <2>3. GoodBatch(FromText(text))
    BY <2>1, TextGood
  <2> QED
    BY <1>0, <2>1, <2>2, <2>3 DEF Asks, Reports
<1> QED
  BY <1>0, <1>1, <1>2, <1>3, <1>4, <1>5, <1>6, <1>7, <1>8, <1>9 DEF Next, Work

\* What dnsx keeps of a host is kept among the results.
LEMMA StepMade ==
  ASSUME PlaceInv, AskedSeq, MadeInv, LinksMakeSense, [Next]_vars
  PROVE  MadeInv' /\ LinksMakeSense'
<1>1. /\ UNCHANGED call
      /\ \/ UNCHANGED << asked, results >>
         \/ UNCHANGED results /\ Asks
         \/ \E new : Reports(new)
  BY StepReports
<1>2. /\ LinksMakeSense' /\ results \subseteq results'
      /\ \A e \in results' : e.id[1] \in DOMAIN asked'
  <2>1. CASE UNCHANGED results
    <3>1. DOMAIN asked \subseteq DOMAIN asked'
      <4>1. CASE Asks
        <5>1. PICK service, answer : Ask(service, answer)
          BY <4>1 DEF Asks
        <5>2. /\ Len(asked) \in Nat
              /\ DOMAIN asked = 1 .. Len(asked) /\ DOMAIN asked' = 1 .. Len(asked) + 1
          BY <5>1, AskAppends
        <5> QED
          BY <5>2
      <4>2. CASE UNCHANGED asked
        BY <4>2
      <4>3. ASSUME NEW new, Reports(new) PROVE Asks
        BY <4>3 DEF Reports
      <4> QED
        BY <1>1, <4>1, <4>2, <4>3
    <3> QED
      BY <1>1, <2>1, <3>1 DEF LinksMakeSense, MadeInv, Known, SameKey, Fits
  <2>2. ASSUME NEW new, Reports(new)
        PROVE  /\ LinksMakeSense' /\ results \subseteq results'
               /\ \A e \in results' : e.id[1] \in DOMAIN asked'
    BY <1>1, <2>2, EmitGood DEF Reports, Emit
  <2> QED
    BY <1>1, <2>1, <2>2
<1>3. ASSUME ~ Resolve
      PROVE  links' = {} \/ (links' = links /\ (found => found'))
  <2>1. CASE UNCHANGED vars \/ MissingBinary \/ ClientFails \/ Start \/ Spawn \/ SpawnFails \/
             Probe \/ PassOver \/ Finish
    BY <2>1 DEF vars, MissingBinary, ClientFails, Start, Spawn, SpawnFails, Probe, PassOver,
                Finish, Return, NextSeed
  <2>2. CASE AskCrtsh \/ AskCertspotter \/ GrabLive \/ StartLookup \/ LookupFails \/
             Refer \/ LookedUp
    BY <2>2 DEF AskCrtsh, AskCertspotter, GrabLive, StartLookup, LookupFails, Refer, LookedUp,
                Return, NextSeed
  <2>3. CASE ChildFails \/ ChildPrints \/ Cancel \/ Returned
    BY <2>3 DEF ChildFails, ChildPrints, Cancel, Returned, vars, Return, NextSeed
  <2> QED
    BY <1>3, <2>1, <2>2, <2>3 DEF Next, Work
<1>4. \A id \in links' : \E e \in results' : e.id = id /\ e.type = "IpAddress"
  <2>1. CASE links' = {} \/ links' = links
    BY <1>2, <2>1 DEF MadeInv
  <2>2. ASSUME NEW records, Emit(FromRecords(records)),
               links' = links \cup Ids(FromRecords(records))
        PROVE  \A id \in links' : \E e \in results' : e.id = id /\ e.type = "IpAddress"
    <3> DEFINE new == FromRecords(records)
    <3>1. \A e \in new : e.type = "IpAddress"
      BY DEF FromRecords, Entity
    <3> HIDE DEF new
    <3>2. results' = results \cup new /\ links' = links \cup Ids(new)
      BY <2>2 DEF Emit, new
    <3> QED
      BY <3>1, <3>2 DEF Ids, MadeInv
  <2>3. CASE Resolve
    <3>1. CASE sub < Len(call.each)
      BY <2>2, <2>3, <3>1 DEF Resolve
    <3>2. CASE ~ (sub < Len(call.each))
      BY <2>1, <2>3, <3>2 DEF Resolve, NextSeed
    <3> QED
      BY <3>1, <3>2
  <2> QED
    BY <1>3, <2>1, <2>3
<1>5. links' # {} => found'
  <2>1. CASE links' = {} \/ (links' = links /\ (found => found'))
    BY <2>1 DEF MadeInv
  <2>2. CASE Resolve
    <3>1. CASE sub < Len(call.each)
      <4>1. PICK records \in Lookups :
              /\ found' = (found \/ \E r \in Range(records) : r # Other)
              /\ links' = links \cup Ids(FromRecords(records))
        BY <2>2, <3>1 DEF Resolve
      <4>2. ASSUME FromRecords(records) # {}
            PROVE  \E r \in Range(records) : r # Other
        <5>1. PICK i \in DOMAIN records : records[i] \notin {Text, Other}
          BY <4>2 DEF FromRecords
        <5> QED
          BY <5>1 DEF Range
      <4>3. links # {} => found
        BY DEF MadeInv
      <4> QED
        BY <4>1, <4>2, <4>3 DEF Ids
    <3>2. CASE ~ (sub < Len(call.each))
      BY <2>2, <3>2 DEF Resolve, NextSeed
    <3> QED
      BY <3>1, <3>2
  <2> QED
    BY <1>3, <2>1, <2>2
<1> QED
  BY <1>2, <1>4, <1>5 DEF MadeInv

\* Nothing is reported at first.
LEMMA InitMade == Init => MadeInv /\ LinksMakeSense
<1> SUFFICES ASSUME Init PROVE MadeInv /\ LinksMakeSense
  OBVIOUS
<1>1. results = {} /\ links = {} /\ call \in Calls
  BY DEF Init
<1>2. \A e, f \in Range(call.input) : e.id = f.id => e = f
  BY <1>1, InputShape
<1> QED
  BY <1>1, <1>2 DEF MadeInv, LinksMakeSense, Known

CallInv == PlaceInv /\ AskedInv /\ AskedSeq /\ MadeInv

\* The invariants about the place, the questions and the results of a call hold,
\* and the relations between the entities make sense.
THEOREM CallInvariance == Spec => [](CallInv /\ LinksMakeSense)
<1>1. Init => CallInv /\ LinksMakeSense
  BY InitPlace, InitMade DEF CallInv
<1>2. CallInv /\ LinksMakeSense /\ [Next]_vars => CallInv' /\ LinksMakeSense'
  BY StepPlace, StepAsked, StepMade DEF CallInv
<1> QED
  BY <1>1, <1>2, PTL DEF Spec

\* Every relation of a reported entity leads to an entity of the input or of the
\* results, of a kind that fits, and never to one that the graph will take for the
\* same; identities are not given twice.  Whatever the services answer: the domain
\* that appears among its own names in a certificate is not linked to itself.
THEOREM RelationsAreSensible == Spec => []LinksMakeSense
BY CallInvariance, PTL

-----------------------------------------------------------------------------
(* Failures, and seeds left behind                                         *)

\* Every step keeps NoFailureInv and the property.
LEMMA StepFailures ==
  ASSUME PlaceInv, AskedSeq, NoFailureInv, FailuresAreKept, [Next]_vars
  PROVE  NoFailureInv' /\ FailuresAreKept'
<1> DEFINE Kept == \A n \in DOMAIN asked : asked[n].answer.ok \/ call.plugin \in {"httpx", "certsh"}
<1>0. UNCHANGED call
  BY NextKinds
<1>1. CASE UNCHANGED << pc, asked >>
  BY <1>0, <1>1 DEF NoFailureInv, FailuresAreKept
<1>2. ASSUME UNCHANGED asked, pc \notin Ended, pc' # "err"
      PROVE  NoFailureInv' /\ FailuresAreKept'
  BY <1>0, <1>2 DEF NoFailureInv, FailuresAreKept, Ended
<1>3. ASSUME NEW service, NEW answer, Ask(service, answer),
             pc \notin Ended, pc' \notin {"err", "ok"},
             answer.ok \/ call.plugin \in {"httpx", "certsh"}
      PROVE  NoFailureInv' /\ FailuresAreKept'
  <2>1. /\ Len(asked) \in Nat /\ Len(asked') = Len(asked) + 1
        /\ DOMAIN asked = 1 .. Len(asked) /\ DOMAIN asked' = 1 .. Len(asked) + 1
        /\ \A n \in DOMAIN asked : asked'[n] = asked[n]
        /\ asked'[Len(asked) + 1] = [seed |-> at, service |-> service, answer |-> answer]
    BY <1>3, AskAppends
  <2>2. Kept'
    BY <1>0, <1>3, <2>1 DEF NoFailureInv, Ended
  <2> QED
    BY <1>3, <2>2 DEF NoFailureInv, FailuresAreKept
<1>4. ASSUME NEW service, NEW answer, Ask(service, answer), pc \notin Ended, pc' = "err",
             call.plugin \notin {"httpx", "dnsx"},
             call.plugin = "whois" => ~ answer.ok
      PROVE  NoFailureInv' /\ FailuresAreKept'
  <2>1. /\ Len(asked) \in Nat /\ Len(asked') = Len(asked) + 1
        /\ DOMAIN asked = 1 .. Len(asked) /\ DOMAIN asked' = 1 .. Len(asked) + 1
        /\ \A n \in DOMAIN asked : asked'[n] = asked[n]
        /\ asked'[Len(asked) + 1] = [seed |-> at, service |-> service, answer |-> answer]
    BY <1>4, AskAppends
  <2>2. \A n \in 1 .. Len(asked') - 1 : asked'[n].answer.ok \/ call.plugin = "certsh"
    BY <1>4, <2>1 DEF NoFailureInv, Ended
  <2>3. asked' # << >>
    BY <2>1
  <2> QED
    BY <1>0, <1>4, <2>1, <2>2, <2>3 DEF NoFailureInv, FailuresAreKept
<1>5. ASSUME pc \notin Ended, UNCHANGED asked, pc' = "err", call.plugin \in Collectors
      PROVE  NoFailureInv' /\ FailuresAreKept'
  <2>1. \A n \in DOMAIN asked : asked[n].answer.ok
    BY <1>5 DEF NoFailureInv, Ended, Collectors
  <2>2. DOMAIN asked = 1 .. Len(asked) /\ Len(asked) \in Nat
    BY DEF AskedSeq
  <2> QED
    BY <1>0, <1>5, <2>1, <2>2 DEF NoFailureInv, FailuresAreKept, Collectors
<1>6. CASE Start \/ Spawn \/ StartLookup \/ PassOver \/ Finish \/ Cancel
  <2>1. UNCHANGED asked /\ pc \notin Ended /\ pc' # "err"
    BY <1>6 DEF Start, Spawn, StartLookup, PassOver, Finish, Cancel, AtSeed, Return, NextSeed,
                Ended
  <2> QED
    BY <1>2, <2>1
<1>7. CASE MissingBinary \/ SpawnFails
  <2>1. UNCHANGED asked /\ pc \notin Ended /\ pc' = "err" /\ call.plugin \in Collectors
    BY <1>7 DEF MissingBinary, SpawnFails, AtSeed, Return, Ended, NeedsBinary
  <2> QED
    BY <1>5, <2>1
<1>8. CASE ChildFails
  BY <1>4, <1>8 DEF ChildFails, PlaceInv, Collectors, Return, Failed, Ended
<1>9. CASE LookupFails
  BY <1>4, <1>9 DEF LookupFails, PlaceInv, Return, Failed, Ended
<1>10. CASE ChildPrints
  BY <1>3, <1>10 DEF ChildPrints, NextSeed, Answered, Ended
<1>11. CASE Probe
  <2>1. pc \notin Ended /\ pc' \notin {"err", "ok"} /\ call.plugin = "httpx"
    BY <1>11 DEF Probe, AtSeed, NextSeed, Ended
  <2>2. PICK answer : Ask(call.each[sub], answer)
    BY <1>11 DEF Probe
  <2> QED
    BY <1>3, <2>1, <2>2
<1>12. CASE Resolve
  <2>1. pc \notin Ended /\ pc' \notin {"err", "ok"}
    BY <1>12 DEF Resolve, AtSeed, NextSeed, Ended
  <2>2. PICK records : Ask(call.each[sub], Answered(records))
    BY <1>12 DEF Resolve
  <2> QED
    BY <1>3, <2>1, <2>2 DEF Answered
<1>13. CASE AskCrtsh \/ AskCertspotter
  <2>1. pc \notin Ended /\ pc' \notin {"err", "ok"} /\ call.plugin = "certsh"
    BY <1>13 DEF AskCrtsh, AskCertspotter, AtSeed, Ended, PlaceInv
  <2>2. PICK service, answer : Ask(service, answer)
    BY <1>13 DEF AskCrtsh, AskCertspotter
  <2> QED
    BY <1>3, <2>1, <2>2
<1>14. CASE GrabLive
  <2>1. /\ pc \notin Ended /\ pc' \in {"err", "seed"} /\ call.plugin = "certsh"
    BY <1>14 DEF GrabLive, PlaceInv, Ended, NextSeed, Return
  <2>2. PICK answer : Ask("live", answer)
    BY <1>14 DEF GrabLive
  <2> QED
    BY <1>3, <1>4, <2>1, <2>2
<1>15. CASE Refer \/ LookedUp
  <2>1. pc \notin Ended /\ pc' \notin {"err", "ok"}
    BY <1>15 DEF Refer, LookedUp, NextSeed, Ended
  <2>2. PICK text : Ask(server, Answered(text))
    BY <1>15 DEF Refer, LookedUp
  <2> QED
    BY <1>3, <2>1, <2>2 DEF Answered
<1>16. CASE Returned \/ UNCHANGED vars
  BY <1>1, <1>16 DEF Returned, vars
<1>17. CASE ClientFails
  <2>1. asked' = << >> /\ pc' = "err" /\ call.plugin \in {"certsh", "httpx"}
    BY <1>17 DEF ClientFails, Return, PlaceInv
  <2>2. DOMAIN asked' = {} /\ 1 .. Len(asked') - 1 = {}
    BY <2>1
  <2> QED
    BY <1>0, <2>1, <2>2 DEF NoFailureInv, FailuresAreKept
<1> QED
  BY <1>6, <1>7, <1>8, <1>9, <1>10, <1>11, <1>12, <1>13, <1>14, <1>15, <1>16, <1>17
     DEF Next, Work

\* A call that returns Ok has passed over failures only as httpx and certsh do; one
\* that returns an error is of a plugin that can, and has met a failure, or could not
\* build its client or run its program.
THEOREM FailuresKept == Spec => []FailuresAreKept
<1> DEFINE I == CallInv /\ NoFailureInv /\ FailuresAreKept
<1>1. Init => NoFailureInv /\ FailuresAreKept
  BY DEF Init, NoFailureInv, FailuresAreKept
<1>2. CallInv /\ NoFailureInv /\ FailuresAreKept /\ [Next]_vars => NoFailureInv' /\ FailuresAreKept'
  BY StepFailures DEF CallInv
<1> QED
  BY <1>1, <1>2, CallInvariance, PTL DEF Spec

\* A step that leaves a seed behind has asked about it.
LEMMA StepPassed ==
  ASSUME PlaceInv, AskedSeq, PassedInv, [Next]_vars
  PROVE  PassedInv'
<1>1. /\ UNCHANGED call
      /\ UNCHANGED asked \/ Asks
      /\ at' = at \/ (at \in DOMAIN call.input /\ at' = at + 1)
      /\ at \in Nat \ {0}
  BY NextKinds, InputShape DEF PlaceInv
<1>2. at' = at + 1 => Asks \/ ~ IsSeed(at)
  <2>1. CASE MissingBinary \/ ClientFails \/ Start \/ Spawn \/ SpawnFails \/ Finish \/ Cancel \/
             Returned \/ StartLookup \/ UNCHANGED vars
    <3>1. at' = at
      BY <2>1 DEF MissingBinary, ClientFails, Start, Spawn, SpawnFails, Finish, Cancel, Returned,
                  StartLookup, Return, vars
    <3> QED
      BY <1>1, <3>1
  <2>2. CASE PassOver
    BY <2>2 DEF PassOver
  <2>3. CASE ~ UNCHANGED asked
    BY <1>1, <2>3
  <2>4. CASE ChildFails \/ ChildPrints \/ Probe \/ Resolve \/ AskCrtsh \/ AskCertspotter \/
             GrabLive \/ LookupFails \/ Refer \/ LookedUp
    BY <2>4 DEF ChildFails, ChildPrints, Probe, Resolve, AskCrtsh, AskCertspotter, GrabLive,
                LookupFails, Refer, LookedUp, Asks
  <2> QED
    BY <2>1, <2>2, <2>4 DEF Next, Work
<1>3. \A k : IsSeed(k)' = IsSeed(k)
  BY <1>1 DEF IsSeed
<1>4. ASSUME NEW k, \E n \in DOMAIN asked : asked[n].seed = k
      PROVE  \E n \in DOMAIN asked' : asked'[n].seed = k
  <2>1. CASE UNCHANGED asked
    BY <1>4, <2>1
  <2>2. ASSUME NEW service, NEW answer, Ask(service, answer)
        PROVE  \E n \in DOMAIN asked' : asked'[n].seed = k
    <3>1. /\ DOMAIN asked = 1 .. Len(asked) /\ DOMAIN asked' = 1 .. Len(asked) + 1
          /\ \A n \in DOMAIN asked : asked'[n] = asked[n]
          /\ Len(asked) \in Nat
      BY <2>2, AskAppends
    <3> QED
      BY <1>4, <3>1
  <2> QED
    BY <1>1, <2>1, <2>2 DEF Asks
<1>5. ASSUME Asks PROVE \E n \in DOMAIN asked' : asked'[n].seed = at
  <2>1. PICK service, answer : Ask(service, answer)
    BY <1>5 DEF Asks
  <2>2. /\ DOMAIN asked' = 1 .. Len(asked) + 1 /\ Len(asked) \in Nat
        /\ asked'[Len(asked) + 1] = [seed |-> at, service |-> service, answer |-> answer]
    BY <2>1, AskAppends
  <2>3. asked'[Len(asked) + 1].seed = at
    BY <2>2
  <2> QED
    BY <2>2, <2>3
<1>6. ASSUME NEW k \in 1 .. at' - 1, IsSeed(k)
      PROVE  \E n \in DOMAIN asked' : asked'[n].seed = k
  <2>1. CASE k \in 1 .. at - 1
    BY <1>4, <1>6, <2>1 DEF PassedInv
  <2>2. CASE k \notin 1 .. at - 1
    <3>1. k = at /\ at' = at + 1
      BY <1>1, <1>6, <2>2
    <3> QED
      BY <1>2, <1>5, <1>6, <3>1
  <2> QED
    BY <2>1, <2>2
<1> QED
  BY <1>3, <1>6 DEF PassedInv

-----------------------------------------------------------------------------
(* Declared types                                                          *)

\* What is reported has a declared type.
TypesInv ==
  \A e \in results :
    \/ e.type \in Registered[call.plugin].produces
    \/ \E k \in DOMAIN call.input :
         /\ IsSeed(k) /\ e.type = call.input[k].type
         /\ SameName(e.value, call.input[k].value)

\* Every step keeps TypesInv.
LEMMA StepTypes ==
  ASSUME PlaceInv, MadeInv, TypesInv, [Next]_vars
  PROVE  TypesInv'
<1>1. /\ UNCHANGED call
      /\ UNCHANGED results \/ \E new : Reports(new)
  BY StepReports
<1>2. CASE UNCHANGED results
  BY <1>1, <1>2 DEF TypesInv, IsSeed
<1>3. ASSUME NEW new, Reports(new) PROVE TypesInv'
  <2>1. results' = results \cup new /\ IsSeed(at) /\ \A e \in new : Typed(e)
    BY <1>3 DEF Reports, Emit, GoodBatch
  <2>2. \A k : IsSeed(k)' = IsSeed(k)
    BY <1>1 DEF IsSeed
  <2>3. at \in DOMAIN call.input
    BY <2>1 DEF IsSeed
  <2>4. ASSUME NEW e \in results'
        PROVE  \/ e.type \in Registered[call.plugin].produces
               \/ \E k \in DOMAIN call.input :
                    /\ IsSeed(k) /\ e.type = call.input[k].type
                    /\ SameName(e.value, call.input[k].value)
    BY <2>1, <2>3 DEF TypesInv, Typed, Seed
  <2> QED
    BY <1>1, <2>2, <2>4 DEF TypesInv
<1> QED
  BY <1>1, <1>2, <1>3

\* A plugin works on what it declares to accept.
LEMMA AcceptedIsWanted ==
  \A p \in {"subfinder", "katana", "nuclei", "httpx", "dnsx", "whois", "certsh"} :
    Registered[p].accepts \subseteq Wanted(p)
BY DEF Registered, Declared, Wanted, SubfinderPlugin, KatanaPlugin, NucleiPlugin, HttpxPlugin,
       DnsxPlugin, WhoisPlugin, CertshPlugin

\* The property follows from the invariants.
LEMMA DeclaredFollows == PlaceInv /\ PassedInv /\ TypesInv => DeclaredTypes
<1> SUFFICES ASSUME PlaceInv, PassedInv, TypesInv PROVE DeclaredTypes
  OBVIOUS
<1>1. ASSUME pc = "ok", NEW e \in Range(call.input), e.type \in Registered[call.plugin].accepts
      PROVE  \E n \in DOMAIN asked : SeedOf(n) = e
  <2>1. /\ DOMAIN call.input = 1 .. Len(call.input) /\ Len(call.input) \in Nat
        /\ call.plugin \in {"subfinder", "katana", "nuclei", "httpx", "dnsx", "whois", "certsh"}
    BY InputShape DEF PlaceInv
  <2>2. PICK k \in DOMAIN call.input : e = call.input[k]
    BY DEF Range
  <2>3. IsSeed(k)
    BY <1>1, <2>1, <2>2, AcceptedIsWanted DEF IsSeed
  <2>4. at = Len(call.input) + 1
    BY <1>1 DEF PlaceInv
  <2>5. k \in 1 .. at - 1
    BY <2>1, <2>4
  <2> QED
    BY <2>2, <2>3, <2>5 DEF PassedInv, SeedOf
<1> QED
  BY <1>1 DEF DeclaredTypes, TypesInv

\* A plugin reports only types it declares, or a seed again, and a call that returns
\* Ok has asked about every entity of a type that its plugin declares to accept.
THEOREM TypesAreDeclared == Spec => []DeclaredTypes
<1>1. Init => PassedInv /\ TypesInv
  BY DEF Init, PassedInv, TypesInv
<1>2. CallInv /\ PassedInv /\ TypesInv /\ [Next]_vars => PassedInv' /\ TypesInv'
  BY StepPassed, StepTypes DEF CallInv
<1>3. CallInv /\ PassedInv /\ TypesInv => DeclaredTypes
  BY DeclaredFollows DEF CallInv
<1> QED
  BY <1>1, <1>2, <1>3, CallInvariance, PTL DEF Spec

-----------------------------------------------------------------------------
(* The sources of certsh                                                   *)

\* A question that certsh asks, whether the answer names anything or not.
Asked(from, service, answer) == pc = from /\ IsSeed(at) /\ Ask(service, answer)
Hits(answer)                 == answer.items # << >>

CrtshAsked ==
  \E answer : /\ Asked("seed", "crt.sh", answer)
              /\ found' = (found \/ Hits(answer)) /\ at' = at
              /\ pc' = IF found' THEN "live" ELSE "certspotter"
CertspotterAsked ==
  \E answer : /\ Asked("certspotter", "certspotter", answer)
              /\ found' = (found \/ Hits(answer)) /\ at' = at
              /\ pc' = "live"
LiveAsked ==
  \E answer : /\ Asked("live", "live", answer)
              /\ IF found \/ Hits(answer) THEN NextSeed ELSE Return("err")

CertshQuiet ==
  /\ UNCHANGED << asked, found, at >>
  /\ \/ pc' = pc \/ pc' = "dropped"
     \/ pc = "start" /\ pc' = "seed"
     \/ pc = "start" /\ pc' = "err" /\ asked = << >>
     \/ pc = "seed" /\ pc' = "ok"

\* What a call of certsh can do.
LEMMA CertshSteps ==
  ASSUME PlaceInv, call.plugin = "certsh", [Next]_vars
  PROVE  CertshQuiet \/ PassOver \/ CrtshAsked \/ CertspotterAsked \/ LiveAsked
<1>1. CASE ClientFails \/ Start \/ Finish \/ Cancel \/ Returned \/ UNCHANGED vars
  BY <1>1 DEF ClientFails, Start, Finish, Cancel, Returned, vars, Return, CertshQuiet, PlaceInv
<1>2. CASE AskCrtsh
  <2>1. pc = "seed" /\ IsSeed(at) /\ at' = at /\ pc' = IF found' THEN "live" ELSE "certspotter"
    BY <1>2 DEF AskCrtsh, AtSeed
  <2>2. PICK got \in FetchCrtsh :
          Ask("crt.sh", got.answer) /\ found' = (found \/ got.entities # {})
    BY <1>2 DEF AskCrtsh
  <2>3. got.entities # {} <=> Hits(got.answer)
    BY <2>1, CrtshGood DEF Hits
  <2> QED
    BY <2>1, <2>2, <2>3 DEF CrtshAsked, Asked
<1>3. CASE AskCertspotter
  <2>1. pc = "certspotter" /\ IsSeed(at) /\ at' = at /\ pc' = "live"
    BY <1>3 DEF AskCertspotter, PlaceInv
  <2>2. PICK got \in FetchCertspotter :
          Ask("certspotter", got.answer) /\ found' = (found \/ got.entities # {})
    BY <1>3 DEF AskCertspotter
  <2>3. got.entities # {} <=> Hits(got.answer)
    BY <2>1, CertspotterGood DEF Hits
  <2> QED
    BY <2>1, <2>2, <2>3 DEF CertspotterAsked, Asked
<1>4. CASE GrabLive
  <2>1. pc = "live" /\ IsSeed(at)
    BY <1>4 DEF GrabLive, PlaceInv
  <2>2. PICK got \in FetchTlsSan :
          /\ Ask("live", got.answer)
          /\ IF found \/ got.entities # {} THEN NextSeed ELSE Return("err")
    BY <1>4 DEF GrabLive
  <2>3. got.entities # {} <=> Hits(got.answer)
    BY <2>1, TlsSanGood DEF Hits
  <2> QED
    BY <2>1, <2>2, <2>3 DEF LiveAsked, Asked
<1>5. ~ (MissingBinary \/ Spawn \/ SpawnFails \/ Probe \/ Resolve)
  BY DEF MissingBinary, Spawn, SpawnFails, Probe, Resolve, AtSeed, NeedsBinary, Collectors
<1>6. ~ (StartLookup \/ LookupFails \/ Refer \/ LookedUp \/ ChildFails \/ ChildPrints)
  BY DEF StartLookup, LookupFails, Refer, LookedUp, ChildFails, ChildPrints, AtSeed,
         Collectors, PlaceInv
<1> QED
  BY <1>1, <1>2, <1>3, <1>4, <1>5, <1>6 DEF Next, Work

\* What a source is asked for, of question n.
InOrder(n) ==
  /\ FirstAbout(n) <=> asked[n].service = "crt.sh"
  /\ MoreAbout(n) =>
       /\ asked[n].service # "live"
       /\ asked[n + 1].service =
            IF asked[n].service = "crt.sh" /\ asked[n].answer.items = << >>
            THEN "certspotter" ELSE "live"
  /\ asked[n].seed < at \/ pc = "err" => MoreAbout(n) \/ asked[n].service = "live"

CertshInv == call.plugin = "certsh" => SourcesInv /\ CertshSources

\* Another question: what was asked stays in order, if the last one and the
\* new one are.
LEMMA OrderKept ==
  ASSUME PlaceInv, AskedInv, AskedSeq, \A n \in DOMAIN asked : InOrder(n), pc # "err",
         NEW service, NEW answer, Ask(service, answer), IsSeed(at), UNCHANGED call,
         at' = at \/ at' = at + 1,
         asked # << >> => IF asked[Len(asked)].seed = at
                          THEN /\ asked[Len(asked)].service # "live"
                               /\ service = IF /\ asked[Len(asked)].service = "crt.sh"
                                               /\ asked[Len(asked)].answer.items = << >>
                                            THEN "certspotter" ELSE "live"
                          ELSE service = "crt.sh",
         asked = << >> => service = "crt.sh",
         at' # at \/ pc' = "err" => service = "live"
  PROVE  \A n \in DOMAIN asked' : InOrder(n)'
<1>1. /\ Len(asked) \in Nat /\ Len(asked') = Len(asked) + 1
      /\ DOMAIN asked = 1 .. Len(asked) /\ DOMAIN asked' = 1 .. Len(asked) + 1
      /\ \A n \in DOMAIN asked : asked'[n] = asked[n]
      /\ asked'[Len(asked) + 1] = [seed |-> at, service |-> service, answer |-> answer]
  BY AskAppends
<1>2. asked'[Len(asked) + 1].seed = at /\ asked'[Len(asked) + 1].service = service
  BY <1>1
<1>3. at \in Nat /\ (asked = << >> <=> Len(asked) = 0)
  BY InputShape DEF PlaceInv, AskedSeq
<1>4. \A n \in DOMAIN asked : asked[n].seed \in Nat /\ asked[n].seed <= at
  BY InputShape DEF AskedInv, IsSeed, PlaceInv
<1>5. ASSUME NEW n \in DOMAIN asked, n # Len(asked) PROVE InOrder(n)'
  <2>1. n \in Nat \ {0} /\ n < Len(asked) /\ n + 1 \in DOMAIN asked /\ n < Len(asked')
    BY <1>1, <1>5
  <2>2. asked'[n] = asked[n] /\ asked'[n + 1] = asked[n + 1]
    BY <1>1, <2>1
  <2>3. n # 1 => asked'[n - 1] = asked[n - 1]
    BY <1>1, <2>1
  <2>4. FirstAbout(n)' = FirstAbout(n) /\ MoreAbout(n)' = MoreAbout(n)
    BY <2>1, <2>2, <2>3 DEF FirstAbout, MoreAbout
  <2>5. asked[n].seed <= asked[n + 1].seed /\ asked[n + 1].seed <= at
    BY <1>4, <2>1 DEF AskedInv
  <2>6. asked[n].seed = at => MoreAbout(n)
    BY <1>3, <1>4, <2>1, <2>5 DEF MoreAbout
  <2>7. asked[n].seed < at => MoreAbout(n) \/ asked[n].service = "live"
    BY DEF InOrder
  <2>8. asked[n].seed < at' \/ pc' = "err" => MoreAbout(n) \/ asked[n].service = "live"
    BY <1>3, <1>4, <2>6, <2>7
  <2> QED
    BY <2>2, <2>4, <2>8 DEF InOrder
<1>6. ASSUME NEW n \in DOMAIN asked, n = Len(asked) PROVE InOrder(n)'
  <2>1. n \in Nat \ {0} /\ n < Len(asked') /\ asked # << >> /\ asked'[n] = asked[n]
    BY <1>1, <1>3, <1>6
  <2>2. n # 1 => asked'[n - 1] = asked[n - 1]
    BY <1>1, <2>1
  <2>3. FirstAbout(n)' = FirstAbout(n) /\ ~ MoreAbout(n) /\ (MoreAbout(n)' <=> asked[n].seed = at)
    BY <1>1, <1>2, <1>6, <2>1, <2>2 DEF FirstAbout, MoreAbout
  <2>4. asked'[n + 1].service = service
    BY <1>2, <1>6
  <2>5. asked[n].seed # at => asked[n].seed < at
    BY <1>3, <1>4
  <2>6. asked[n].seed < at => asked[n].service = "live"
    BY <2>3 DEF InOrder
  <2> QED
    BY <1>6, <2>1, <2>3, <2>4, <2>5, <2>6 DEF InOrder
<1>7. ASSUME NEW n \in DOMAIN asked', n = Len(asked) + 1 PROVE InOrder(n)'
  <2>1. ~ MoreAbout(n)'
    BY <1>1, <1>7 DEF MoreAbout
  <2>2. FirstAbout(n)' <=> (Len(asked) = 0 \/ asked[Len(asked)].seed # at)
    <3>1. CASE Len(asked) = 0
      BY <1>7, <3>1 DEF FirstAbout
    <3>2. CASE Len(asked) # 0
      <4>1. n # 1 /\ n - 1 = Len(asked) /\ Len(asked) \in DOMAIN asked
        BY <1>1, <1>7, <3>2
      <4> QED
        BY <1>1, <1>2, <1>7, <3>2, <4>1 DEF FirstAbout
    <3> QED
      BY <3>1, <3>2
  <2>3. FirstAbout(n)' <=> service = "crt.sh"
    BY <1>3, <2>2
  <2>4. asked'[n].seed < at' \/ pc' = "err" => service = "live"
    BY <1>2, <1>3, <1>7
  <2> QED
    BY <1>2, <1>7, <2>1, <2>3, <2>4 DEF InOrder
<1> QED
  BY <1>1, <1>5, <1>6, <1>7

\* What a new answer changes about what is known.
LEMMA NamesAfter ==
  ASSUME AskedSeq, NEW service, NEW answer, Ask(service, answer), NEW k
  PROVE  HadNames(k)' <=> HadNames(k) \/ (k = at /\ Hits(answer))
<1>1. /\ Len(asked) \in Nat
      /\ DOMAIN asked = 1 .. Len(asked) /\ DOMAIN asked' = 1 .. Len(asked) + 1
      /\ \A n \in DOMAIN asked : asked'[n] = asked[n]
      /\ asked'[Len(asked) + 1] = [seed |-> at, service |-> service, answer |-> answer]
  BY AskAppends
<1>2. /\ asked'[Len(asked) + 1].seed = at
      /\ asked'[Len(asked) + 1].answer = answer
  BY <1>1
<1>3. HadNames(k)' => HadNames(k) \/ (k = at /\ Hits(answer))
  BY <1>1, <1>2 DEF HadNames, Hits
<1>4. HadNames(k) => HadNames(k)'
  BY <1>1 DEF HadNames
<1>5. k = at /\ Hits(answer) => HadNames(k)'
  <2>1. Len(asked) + 1 \in DOMAIN asked'
    BY <1>1
  <2> QED
    BY <1>2, <2>1 DEF HadNames, Hits
<1> QED
  BY <1>3, <1>4, <1>5

AllInOrder == \A n \in DOMAIN asked : InOrder(n)
AllNamed   == /\ \A k \in 1 .. at - 1 : IsSeed(k) => HadNames(k)
              /\ pc = "err" => ~ HadNames(at)

\* The property in two parts.
LEMMA SourcesParts == call.plugin = "certsh" => (CertshSources <=> AllInOrder /\ AllNamed)
BY DEF CertshSources, AllInOrder, AllNamed, InOrder

\* What is known when the call is at a domain: what was asked about it last.
LEMMA LastSource ==
  ASSUME PlaceInv, AskedInv, AskedSeq, SourcesInv, call.plugin = "certsh"
  PROVE  /\ at \in Nat
         /\ pc = "seed" /\ asked # << >> => asked[Len(asked)].seed < at
         /\ pc = "seed" => ~ found
<1>1. at \in Nat
  BY InputShape DEF PlaceInv
<1>2. \A n \in DOMAIN asked : asked[n].seed \in Nat
  BY InputShape DEF AskedInv, IsSeed, PlaceInv
<1>3. asked # << >> => Len(asked) \in DOMAIN asked
  BY DEF AskedSeq
<1>4. ASSUME pc = "seed" PROVE ~ found
  BY <1>1, <1>2, <1>4 DEF SourcesInv, AtNewSeed, HadNames
<1>5. pc = "seed" /\ asked # << >> => asked[Len(asked)].seed < at
  BY <1>3 DEF SourcesInv, AtNewSeed
<1> QED
  BY <1>1, <1>4, <1>5

\* The first part is kept.
LEMMA StepOrder ==
  ASSUME PlaceInv, AskedInv, AskedSeq, SourcesInv, AllInOrder, call.plugin = "certsh", [Next]_vars
  PROVE  AllInOrder'
<1>1. UNCHANGED call /\ at \in Nat
  BY NextKinds, LastSource
<1>2. \A n \in DOMAIN asked : asked[n].seed \in Nat
  BY InputShape DEF AskedInv, IsSeed, PlaceInv
<1>3. CASE CertshQuiet
  <2>1. CASE asked' = << >>
    BY <2>1 DEF AllInOrder
  <2>2. CASE UNCHANGED << asked, at >> /\ (pc' = "err" => pc = "err")
    BY <2>2 DEF AllInOrder, InOrder, FirstAbout, MoreAbout
  <2> QED
    BY <1>3, <2>1, <2>2 DEF CertshQuiet
<1>4. CASE PassOver
  <2>1. UNCHANGED asked /\ at' = at + 1 /\ pc' = "seed" /\ pc = "seed"
    BY <1>4 DEF PassOver, NextSeed
  <2>2. \A n \in DOMAIN asked : asked[n].seed < at
    BY <2>1 DEF SourcesInv, AtNewSeed
  <2> QED
    BY <2>1, <2>2 DEF AllInOrder, InOrder, FirstAbout, MoreAbout
<1>5. CASE CrtshAsked
  <2>1. PICK answer : Asked("seed", "crt.sh", answer) /\ at' = at /\ pc' # "err"
    BY <1>5 DEF CrtshAsked
  <2>2. asked # << >> => asked[Len(asked)].seed # at
    BY <1>1, <2>1, LastSource DEF Asked
  <2> QED
    BY <1>1, <2>1, <2>2, OrderKept DEF Asked, AllInOrder
<1>6. CASE CertspotterAsked
  <2>1. PICK answer : Asked("certspotter", "certspotter", answer) /\ at' = at /\ pc' # "err"
    BY <1>6 DEF CertspotterAsked
  <2>2. /\ asked # << >> /\ asked[Len(asked)].seed = at
        /\ asked[Len(asked)].service = "crt.sh" /\ asked[Len(asked)].answer.items = << >>
    BY <2>1 DEF SourcesInv, Asked
  <2> QED
    BY <1>1, <2>1, <2>2, OrderKept DEF Asked, AllInOrder
<1>7. CASE LiveAsked
  <2>1. PICK answer : /\ Asked("live", "live", answer)
                      /\ at' = at \/ at' = at + 1
    BY <1>7 DEF LiveAsked, NextSeed, Return
  <2>2. /\ asked # << >> /\ asked[Len(asked)].seed = at
        /\ asked[Len(asked)].service # "live"
        /\ ~ (asked[Len(asked)].service = "crt.sh" /\ asked[Len(asked)].answer.items = << >>)
    BY <2>1 DEF SourcesInv, Asked
  <2> QED
    BY <1>1, <2>1, <2>2, OrderKept DEF Asked, AllInOrder
<1> QED
  BY <1>3, <1>4, <1>5, <1>6, <1>7, CertshSteps

\* found says whether some source had anything.
LEMMA StepNamed ==
  ASSUME PlaceInv, AskedInv, AskedSeq, SourcesInv, AllNamed, call.plugin = "certsh", [Next]_vars
  PROVE  AllNamed' /\ (found' <=> HadNames(at)')
<1>1. UNCHANGED call /\ at \in Nat \ {0}
  BY NextKinds, InputShape DEF PlaceInv
<1>2. \A k : IsSeed(k)' = IsSeed(k)
  BY <1>1 DEF IsSeed
<1>3. /\ \A n \in DOMAIN asked : asked[n].seed \in Nat /\ asked[n].seed <= at
      /\ found <=> HadNames(at)
  BY InputShape DEF AskedInv, IsSeed, PlaceInv, SourcesInv
<1>4. ASSUME UNCHANGED asked, NEW k PROVE HadNames(k)' = HadNames(k)
  BY <1>4 DEF HadNames
<1>5. ~ HadNames(at + 1)
  BY <1>1, <1>3 DEF HadNames
<1>6. CASE CertshQuiet
  <2>1. (HadNames(at)' <=> HadNames(at)) /\ (pc' = "err" => pc = "err" \/ ~ HadNames(at))
    BY <1>6 DEF CertshQuiet, HadNames
  <2>2. AllNamed'
    BY <1>2, <1>4, <1>6, <2>1 DEF CertshQuiet, AllNamed
  <2> QED
    BY <1>3, <1>6, <2>1, <2>2 DEF CertshQuiet
<1>7. CASE PassOver
  <2>1. UNCHANGED asked /\ at' = at + 1 /\ pc' = "seed" /\ found' = FALSE /\ ~ IsSeed(at)
    BY <1>7 DEF PassOver, NextSeed
  <2>2. HadNames(at)' <=> HadNames(at + 1)
    BY <2>1 DEF HadNames
  <2>3. \A k \in 1 .. at' - 1 : k \in 1 .. at - 1 \/ k = at
    BY <1>1, <2>1
  <2> QED
    BY <1>2, <1>4, <1>5, <2>1, <2>2, <2>3 DEF AllNamed
<1>8. ASSUME NEW service, NEW answer, Ask(service, answer), at' = at
      PROVE  /\ HadNames(at)' <=> HadNames(at) \/ Hits(answer)
             /\ \A k \in 1 .. at' - 1 : IsSeed(k)' => HadNames(k)'
  <2>1. \A k : k = at' => (HadNames(at)' <=> HadNames(k)')
    BY DEF HadNames
  <2>2. \A k : HadNames(k)' <=> HadNames(k) \/ (k = at /\ Hits(answer))
    BY <1>8, NamesAfter
  <2>3. HadNames(at)' <=> HadNames(at) \/ Hits(answer)
    BY <1>8, <2>1, <2>2
  <2>4. \A k \in 1 .. at' - 1 : IsSeed(k)' => HadNames(k)'
    BY <1>2, <1>8, <2>2 DEF AllNamed
  <2> QED
    BY <2>3, <2>4
<1>9. CASE CrtshAsked \/ CertspotterAsked
  <2>1. PICK service, answer : /\ Ask(service, answer) /\ at' = at /\ pc' # "err"
                               /\ found' = (found \/ Hits(answer))
    BY <1>9 DEF CrtshAsked, CertspotterAsked, Asked
  <2> QED
    BY <1>3, <1>8, <2>1 DEF AllNamed
<1>10. CASE LiveAsked
  <2>1. PICK answer : /\ Ask("live", answer) /\ IsSeed(at)
                      /\ IF found \/ Hits(answer) THEN NextSeed ELSE Return("err")
    BY <1>10 DEF LiveAsked, Asked
  <2>2. CASE ~ (found \/ Hits(answer))
    BY <1>3, <1>8, <2>1, <2>2 DEF AllNamed, Return
  <2>3. CASE found \/ Hits(answer)
    <3>1. at' = at + 1 /\ found' = FALSE /\ pc' = "seed"
      BY <2>1, <2>3 DEF NextSeed
    <3>2. \A k : HadNames(k)' <=> HadNames(k) \/ (k = at /\ Hits(answer))
      BY <2>1, NamesAfter
    <3>3. ~ HadNames(at)'
      <4>2. \A k : k = at + 1 => ~ HadNames(k)'
        BY <1>1, <1>5, <3>2
      <4>3. \A k : k = at' => (HadNames(at)' <=> HadNames(k)')
        BY DEF HadNames
      <4> QED
        BY <3>1, <4>2, <4>3
    <3>4. \A k \in 1 .. at' - 1 : k \in 1 .. at - 1 \/ k = at
      BY <1>1, <3>1
    <3>5. \A k \in 1 .. at' - 1 : IsSeed(k)' => HadNames(k)'
      BY <1>2, <1>3, <2>3, <3>2, <3>4 DEF AllNamed
    <3> QED
      BY <3>1, <3>3, <3>5 DEF AllNamed
  <2> QED
    BY <2>2, <2>3
<1> QED
  BY <1>6, <1>7, <1>9, <1>10, CertshSteps

\* What is known of the last question is kept.
LEMMA StepSources ==
  ASSUME PlaceInv, AskedInv, AskedSeq, SourcesInv, call.plugin = "certsh", [Next]_vars,
         found' <=> HadNames(at)'
  PROVE  SourcesInv'
<1>1. UNCHANGED call /\ at \in Nat \ {0}
  BY NextKinds, InputShape DEF PlaceInv
<1>2. \A n \in DOMAIN asked : asked[n].seed \in Nat /\ asked[n].seed <= at
  BY InputShape DEF AskedInv, IsSeed, PlaceInv
<1> DEFINE FollowUp == LET last == asked[Len(asked)]
                      IN  /\ asked # << >> /\ last.seed = at
                          /\ pc = "certspotter" => last.service = "crt.sh" /\ last.answer.items = << >>
                          /\ pc = "live" => \/ last.service = "certspotter"
                                            \/ last.service = "crt.sh" /\ last.answer.items # << >>
<1>3. SUFFICES /\ pc' \in {"start", "seed", "ok"} => AtNewSeed'
               /\ pc' \in {"certspotter", "live"} => FollowUp'
  BY DEF SourcesInv
<1>4. ASSUME NEW service, NEW answer, Ask(service, answer), at' = at
      PROVE  /\ asked' # << >>
             /\ asked'[Len(asked')].seed = at'
             /\ asked'[Len(asked')].service = service
             /\ asked'[Len(asked')].answer = answer
  <2>1. /\ Len(asked) \in Nat /\ Len(asked') = Len(asked) + 1
        /\ asked'[Len(asked) + 1] = [seed |-> at, service |-> service, answer |-> answer]
        /\ AskedSeq'
    BY <1>4, AskAppends
  <2>2. asked' # << >>
    BY <2>1
  <2> QED
    BY <1>4, <2>1, <2>2
<1>5. CASE CertshQuiet
  BY <1>5 DEF CertshQuiet, SourcesInv, AtNewSeed
<1>6. CASE PassOver
  <2>1. UNCHANGED asked /\ at' = at + 1 /\ pc' = "seed"
    BY <1>6 DEF PassOver, NextSeed
  <2>2. AtNewSeed'
    BY <1>1, <1>2, <2>1 DEF AtNewSeed
  <2> QED
    BY <2>1, <2>2
<1>7. CASE CrtshAsked
  <2>1. PICK answer : /\ pc = "seed" /\ Ask("crt.sh", answer) /\ at' = at
                      /\ found' = (found \/ Hits(answer))
                      /\ pc' = IF found' THEN "live" ELSE "certspotter"
    BY <1>7 DEF CrtshAsked, Asked
  <2>2. ~ found
    BY <2>1, LastSource
  <2> QED
    BY <1>4, <2>1, <2>2 DEF Hits
<1>8. CASE CertspotterAsked
  <2>1. PICK answer : Ask("certspotter", answer)
    BY <1>8 DEF CertspotterAsked, Asked
  <2> QED
    BY <1>4, <1>8, <2>1 DEF CertspotterAsked, Asked
<1>9. CASE LiveAsked
  <2>1. PICK answer : /\ Ask("live", answer)
                      /\ IF found \/ Hits(answer) THEN NextSeed ELSE Return("err")
    BY <1>9 DEF LiveAsked, Asked
  <2>2. CASE pc' = "seed" /\ at' = at + 1
    <3>1. /\ DOMAIN asked = 1 .. Len(asked) /\ DOMAIN asked' = 1 .. Len(asked) + 1
          /\ \A n \in DOMAIN asked : asked'[n] = asked[n]
          /\ Len(asked) \in Nat
          /\ asked'[Len(asked) + 1] = [seed |-> at, service |-> "live", answer |-> answer]
      BY <2>1, AskAppends
    <3>2. \A n \in DOMAIN asked' : asked'[n].seed <= at
      BY <1>1, <1>2, <3>1
    <3>3. \A n \in DOMAIN asked' : asked'[n].seed \in Nat
      BY <1>1, <1>2, <3>1
    <3>4. AtNewSeed'
      BY <1>1, <2>2, <3>2, <3>3 DEF AtNewSeed
    <3> QED
      BY <2>2, <3>4
  <2>3. CASE pc' = "err"
    BY <2>3
  <2> QED
    BY <2>1, <2>2, <2>3 DEF NextSeed, Return
<1> QED
  BY <1>5, <1>6, <1>7, <1>8, <1>9, CertshSteps

\* Nothing has been asked at first.
LEMMA InitSources == Init => SourcesInv /\ CertshSources
<1> SUFFICES ASSUME Init PROVE SourcesInv /\ CertshSources
  OBVIOUS
<1>1. asked = << >> /\ pc = "start" /\ at = 1 /\ found = FALSE
  BY DEF Init
<1>2. DOMAIN asked = {}
  BY <1>1
<1>3. SourcesInv
  BY <1>1, <1>2 DEF SourcesInv, AtNewSeed, HadNames
<1>4. CertshSources
  BY <1>1, <1>2 DEF CertshSources, HadNames
<1> QED
  BY <1>3, <1>4

\* certsh asks crt.sh, certspotter only if that gave nothing, and then the server
\* itself; it gives up on a domain if and only if none of them had anything.
THEOREM SourcesInTurn == Spec => []CertshSources
<1>1. Init => SourcesInv /\ CertshSources
  BY InitSources
<1>2. ASSUME CallInv, SourcesInv, CertshSources, [Next]_vars PROVE SourcesInv' /\ CertshSources'
  <2>1. UNCHANGED call
    BY <1>2, NextKinds DEF CallInv
  <2>2. CASE call.plugin = "certsh"
    <3>1. AllInOrder /\ AllNamed
      BY <1>2, <2>2, SourcesParts
    <3>2. AllInOrder' /\ AllNamed' /\ SourcesInv'
      BY <1>2, <2>2, <3>1, StepOrder, StepNamed, StepSources DEF CallInv
    <3>3. AllInOrder' /\ AllNamed' => CertshSources'
      BY DEF CertshSources, AllInOrder, AllNamed, InOrder
    <3> QED
      BY <3>2, <3>3
  <2>3. CASE call.plugin # "certsh"
    BY <2>1, <2>3 DEF SourcesInv, CertshSources
  <2> QED
    BY <2>2, <2>3
<1> QED
  BY <1>1, <1>2, CallInvariance, PTL DEF Spec

-----------------------------------------------------------------------------
(* What an answer mentions                                                 *)

\* What ties a new entity to the seed the call is at, at once.
Tied(e) == (\E r \in e.relations : r.target = Seed.id) \/ SameName(e.value, Seed.value)

Question(service, answer) == [seed |-> at, service |-> service, answer |-> answer]

\* Every value of an answer is that of a new entity.
Covers(service, answer, new) ==
  \A v \in Mentions(Question(service, answer)) : \E e \in new : e.value = v /\ Tied(e)

\* A failure mentions nothing.
LEMMA FailedCovers == ASSUME NEW service PROVE Covers(service, Failed, {})
<1> DEFINE q == Question(service, Failed)
<1>1. q.answer.items = << >> /\ Range(q.answer.items) = {}
  BY DEF Question, Failed, Range
<1> HIDE DEF q
<1>2. Mentions(q) = {}
  BY <1>1 DEF Mentions
<1> QED
  BY <1>2 DEF Covers, q

\* What a program prints is reported.
LEMMA LinesCover ==
  ASSUME PlaceInv, IsSeed(at), call.plugin \in Collectors, NEW lines
  PROVE  Covers(Program, Answered(lines),
                {FromLine(lines[i], i) : i \in {i \in DOMAIN lines : Counts(lines[i])}})
<1> DEFINE q    == Question(Program, Answered(lines))
           good == {i \in DOMAIN lines : Counts(lines[i])}
           new  == {FromLine(lines[i], i) : i \in good}
<1>1. q.answer.items = lines
  BY DEF Question, Answered
<1>2. ASSUME NEW v \in Mentions(q) PROVE \E i \in good : Value(lines[i]) = v
  <2>1. CASE call.plugin = "subfinder"
    <3>1. PICK line \in Range(lines) : v = line.host /\ v # NoField
      BY <1>1, <1>2, <2>1 DEF Mentions
    <3>2. PICK i \in DOMAIN lines : line = lines[i]
      BY DEF Range
    <3> QED
      BY <2>1, <3>1, <3>2 DEF Counts, Value, Program
  <2>2. CASE call.plugin = "katana"
    <3>1. PICK line \in Range(lines) : v = ResolvedEndpoint(line) /\ v # NoField
      BY <1>1, <1>2, <2>2 DEF Mentions, ResolvedEndpoint
    <3>2. PICK i \in DOMAIN lines : line = lines[i]
      BY DEF Range
    <3> QED
      BY <2>2, <3>1, <3>2 DEF Counts, Value, Program
  <2>3. CASE call.plugin = "nuclei"
    <3>1. PICK line \in Range(lines) :
            /\ v = line.template_id \o "@" \o line.matched_at
            /\ NoField \notin {line.template_id, line.matched_at}
      BY <1>1, <1>2, <2>3 DEF Mentions
    <3>2. PICK i \in DOMAIN lines : line = lines[i]
      BY DEF Range
    <3>3. line.template_id # NoField /\ line.matched_at # NoField
      BY <3>1
    <3>4. Counts(line) /\ Value(line) = v
      BY <2>3, <3>1, <3>3 DEF Counts, Value, Program
    <3> QED
      BY <3>2, <3>4
  <2> QED
    BY <2>1, <2>2, <2>3 DEF Collectors
<1>3. ASSUME NEW i \in good
      PROVE  FromLine(lines[i], i).value = Value(lines[i]) /\ Tied(FromLine(lines[i], i))
  BY DEF FromLine, Entity, Relation, Tied, Collectors, Program
<1>4. \A i \in good : FromLine(lines[i], i) \in new
  OBVIOUS
<1> HIDE DEF q, good, new
<1>5. \A v \in Mentions(q) : \E e \in new : e.value = v /\ Tied(e)
  BY <1>2, <1>3, <1>4
<1> QED
  BY <1>5 DEF Covers, q, good, new

\* A page is reported.
LEMMA PageCovers ==
  ASSUME call.plugin = "httpx", NEW service, NEW url
  PROVE  Covers(service, Answered(<< url >>),
                {Entity(Fresh(1, 0), "Url", url, {Relation("DiscoveredFrom", Seed.id)})})
<1> DEFINE q == Question(service, Answered(<< url >>))
<1>1. q.answer.items = << url >> /\ Range(<< url >>) = {url}
  BY DEF Question, Answered, Range
<1> HIDE DEF q
<1>2. Mentions(q) \subseteq {url}
  BY <1>1 DEF Mentions
<1>3. \A v \in Mentions(q) :
        \E e \in {Entity(Fresh(1, 0), "Url", url, {Relation("DiscoveredFrom", Seed.id)})} :
          e.value = v /\ Tied(e)
  BY <1>2 DEF Tied, Entity, Relation
<1> QED
  BY <1>3 DEF Covers, q

\* The names that count are reported, next to their certificate.
LEMMA CertificatesCover ==
  ASSUME PlaceInv, IsSeed(at), call.plugin = "certsh",
         NEW S, NEW name, NEW hosts, NEW counted, NEW i \in S, NEW j \in counted[i]
  PROVE  \E e \in CertificatesOf(S, name, hosts, counted) : e.value = hosts[i][j] /\ Tied(e)
<1> DEFINE e == HostEntity(hosts[i][j], Fresh(i, 0), Fresh(i, j))
<1>1. e \in CertificatesOf(S, name, hosts, counted)
  BY DEF CertificatesOf, WithHosts
<1>2. /\ e.value = hosts[i][j]
      /\ SameName(hosts[i][j], Seed.value) \/ Relation("DiscoveredFrom", Seed.id) \in e.relations
  BY HostShape
<1> HIDE DEF e
<1> QED
  BY <1>1, <1>2 DEF Tied, Relation

\* All names of crt.sh are reported but the blank ones.
LEMMA CrtshCovers ==
  ASSUME PlaceInv, IsSeed(at), call.plugin = "certsh", NEW got \in FetchCrtsh
  PROVE  Covers("crt.sh", got.answer, got.entities)
<1>1. CASE got = NotFetched
  BY <1>1, FailedCovers DEF NotFetched, Fetched
<1>2. ASSUME NEW certs \in CertAnswers,
             got = Fetched(Answered(certs),
               UNION {WithHosts(certs[i].name, certs[i].hosts,
                            {j \in DOMAIN certs[i].hosts : certs[i].hosts[j] # Blank}, i) :
                    i \in DOMAIN certs})
      PROVE  Covers("crt.sh", got.answer, got.entities)
  <2> DEFINE name    == [i \in DOMAIN certs |-> certs[i].name]
             hosts   == [i \in DOMAIN certs |-> certs[i].hosts]
             counted == [i \in DOMAIN certs |->
                           {j \in DOMAIN certs[i].hosts : certs[i].hosts[j] # Blank}]
             new     == CertificatesOf(DOMAIN certs, name, hosts, counted)
             q       == Question("crt.sh", got.answer)
  <2>1. got.entities = new /\ q.answer.items = certs /\ q.service = "crt.sh"
    BY <1>2 DEF Fetched, Answered, CertificatesOf, Question
  <2>2. ASSUME NEW v \in Mentions(q)
        PROVE  \E i \in DOMAIN certs : \E j \in counted[i] : hosts[i][j] = v
    <3>1. PICK cert \in Range(certs) : v \in Range(cert.hosts) /\ v # Blank
      BY <2>1, <2>2 DEF Mentions
    <3>2. PICK i \in DOMAIN certs : cert = certs[i]
      BY DEF Range
    <3>3. PICK j \in DOMAIN certs[i].hosts : v = certs[i].hosts[j]
      BY <3>1, <3>2 DEF Range
    <3> QED
      BY <3>1, <3>2, <3>3
  <2> HIDE DEF name, hosts, counted, q
  <2>3. \A v \in Mentions(q) : \E e \in new : e.value = v /\ Tied(e)
    BY <2>2, CertificatesCover
  <2> QED
    BY <2>1, <2>3 DEF Covers, q
<1> QED
  BY <1>1, <1>2 DEF FetchCrtsh

\* All names of certspotter are reported.
LEMMA CertspotterCovers ==
  ASSUME PlaceInv, IsSeed(at), call.plugin = "certsh", NEW got \in FetchCertspotter
  PROVE  Covers("certspotter", got.answer, got.entities)
<1>1. CASE got = NotFetched
  BY <1>1, FailedCovers DEF NotFetched, Fetched
<1>2. ASSUME NEW certs \in CertAnswers,
             got = Fetched(Answered(certs),
               UNION {WithHosts(certs[i].name, certs[i].hosts, DOMAIN certs[i].hosts, i) :
                    i \in DOMAIN certs})
      PROVE  Covers("certspotter", got.answer, got.entities)
  <2> DEFINE name    == [i \in DOMAIN certs |-> certs[i].name]
             hosts   == [i \in DOMAIN certs |-> certs[i].hosts]
             counted == [i \in DOMAIN certs |-> DOMAIN certs[i].hosts]
             new     == CertificatesOf(DOMAIN certs, name, hosts, counted)
             q       == Question("certspotter", got.answer)
  <2>1. got.entities = new /\ q.answer.items = certs /\ q.service = "certspotter"
    BY <1>2 DEF Fetched, Answered, CertificatesOf, Question
  <2>2. ASSUME NEW v \in Mentions(q)
        PROVE  \E i \in DOMAIN certs : \E j \in counted[i] : hosts[i][j] = v
    <3>1. PICK cert \in Range(certs) : v \in Range(cert.hosts)
      BY <2>1, <2>2 DEF Mentions
    <3>2. PICK i \in DOMAIN certs : cert = certs[i]
      BY DEF Range
    <3>3. PICK j \in DOMAIN certs[i].hosts : v = certs[i].hosts[j]
      BY <3>1, <3>2 DEF Range
    <3> QED
      BY <3>1, <3>2, <3>3
  <2> HIDE DEF name, hosts, counted, q
  <2>3. \A v \in Mentions(q) : \E e \in new : e.value = v /\ Tied(e)
    BY <2>2, CertificatesCover
  <2> QED
    BY <2>1, <2>3 DEF Covers, q
<1> QED
  BY <1>1, <1>2 DEF FetchCertspotter

\* All names in the certificate of the server are reported.
LEMMA TlsSanCovers ==
  ASSUME PlaceInv, IsSeed(at), call.plugin = "certsh", NEW got \in FetchTlsSan
  PROVE  Covers("live", got.answer, got.entities)
<1>1. CASE got = NotFetched
  BY <1>1, FailedCovers DEF NotFetched, Fetched
<1>2. ASSUME NEW names \in LiveAnswers \ {<< >>},
             got = Fetched(Answered(names),
                     WithHosts("tls-live:" \o Seed.value, names, DOMAIN names, 1))
      PROVE  Covers("live", got.answer, got.entities)
  <2> DEFINE name    == [i \in {1} |-> "tls-live:" \o Seed.value]
             hosts   == [i \in {1} |-> names]
             counted == [i \in {1} |-> DOMAIN names]
             new     == CertificatesOf({1}, name, hosts, counted)
             q       == Question("live", got.answer)
  <2>1. got.entities = new /\ q.answer.items = names /\ q.service = "live"
    BY <1>2 DEF Fetched, Answered, CertificatesOf, Question
  <2>2. ASSUME NEW v \in Mentions(q)
        PROVE  \E j \in counted[1] : hosts[1][j] = v
    <3>1. v \in Range(names)
      BY <2>1, <2>2 DEF Mentions
    <3> QED
      BY <3>1 DEF Range
  <2> HIDE DEF name, hosts, counted, q
  <2>3. \A v \in Mentions(q) : \E e \in new : e.value = v /\ Tied(e)
    BY <2>2, CertificatesCover
  <2> QED
    BY <2>1, <2>3 DEF Covers, q
<1> QED
  BY <1>1, <1>2 DEF FetchTlsSan

-----------------------------------------------------------------------------
(* Nothing is lost on the way                                              *)

\* What a question mentions depends on the call only.
LEMMA MentionsKept ==
  ASSUME UNCHANGED call, NEW q
  PROVE  Mentions(q)' = Mentions(q)
BY DEF Mentions

\* Steps that ask: what is new among the results covers the answer.
AskedAndCovered ==
  \E service, answer, new :
    Ask(service, answer) /\ results' = results \cup new /\ Covers(service, answer, new)

\* Every answer is covered, except that dnsx links later.
LEMMA StepCovers ==
  ASSUME PlaceInv, call.plugin # "dnsx", [Next]_vars
  PROVE  UNCHANGED << asked, results >> \/ AskedAndCovered
<1>1. CASE MissingBinary \/ ClientFails \/ Start \/ Spawn \/ SpawnFails \/ PassOver \/ Finish
           \/ Cancel \/ Returned \/ StartLookup \/ UNCHANGED vars
  BY <1>1 DEF MissingBinary, ClientFails, Start, Spawn, SpawnFails, PassOver, Finish, Cancel,
              Returned, StartLookup, vars
<1>2. ASSUME NEW service, Ask(service, Failed), UNCHANGED results PROVE AskedAndCovered
  <2>1. results' = results \cup {}
    BY <1>2
  <2> QED
    BY <1>2, <2>1, FailedCovers DEF AskedAndCovered
<1>3. CASE ChildFails \/ LookupFails
  BY <1>2, <1>3 DEF ChildFails, LookupFails
<1>4. CASE ChildPrints
  <2>1. call.plugin \in Collectors /\ IsSeed(at)
    BY <1>4 DEF ChildPrints, PlaceInv
  <2>2. PICK lines :
          /\ Ask(Program, Answered(lines))
          /\ Emit({FromLine(lines[i], i) : i \in {i \in DOMAIN lines : Counts(lines[i])}})
    BY <1>4 DEF ChildPrints
  <2> DEFINE new == {FromLine(lines[i], i) : i \in {i \in DOMAIN lines : Counts(lines[i])}}
  <2>3. Covers(Program, Answered(lines), new)
    BY <2>1, LinesCover
  <2>4. results' = results \cup new
    BY <2>2 DEF Emit
  <2> HIDE DEF new
  <2> QED
    BY <2>2, <2>3, <2>4 DEF AskedAndCovered
<1>5. CASE Probe
  <2>1. call.plugin = "httpx"
    BY <1>5 DEF Probe, AtSeed
  <2>2. ASSUME NEW url, Ask(call.each[sub], Answered(<< url >>)),
               Emit({Entity(Fresh(1, 0), "Url", url, {Relation("DiscoveredFrom", Seed.id)})})
        PROVE  AskedAndCovered
    BY <2>1, <2>2, PageCovers DEF AskedAndCovered, Emit
  <2> QED
    BY <1>2, <1>5, <2>2 DEF Probe
<1>6. CASE AskCrtsh
  BY <1>6, CrtshCovers DEF AskCrtsh, AtSeed, AskedAndCovered, Emit
<1>7. CASE AskCertspotter
  <2>1. IsSeed(at) /\ call.plugin = "certsh"
    BY <1>7 DEF AskCertspotter, PlaceInv
  <2> QED
    BY <1>7, <2>1, CertspotterCovers DEF AskCertspotter, AskedAndCovered, Emit
<1>8. CASE GrabLive
  <2>1. IsSeed(at) /\ call.plugin = "certsh"
    BY <1>8 DEF GrabLive, PlaceInv
  <2> QED
    BY <1>8, <2>1, TlsSanCovers DEF GrabLive, AskedAndCovered, Emit
<1>9. CASE Refer \/ LookedUp
  <2>1. call.plugin = "whois"
    BY <1>9 DEF Refer, LookedUp, PlaceInv
  <2>2. \A service, answer, new : Covers(service, answer, new)
    BY <2>1 DEF Covers, Mentions
  <2>3. PICK service, answer : Ask(service, answer)
    BY <1>9 DEF Refer, LookedUp
  <2>4. PICK new : results' = results \cup new
    <3>1. CASE Refer
      <4>1. results' = results \cup {}
        BY <3>1 DEF Refer
      <4> QED
        BY <4>1
    <3>2. CASE LookedUp
      BY <3>2 DEF LookedUp, Emit
    <3> QED
      BY <1>9, <3>1, <3>2
  <2> QED
    BY <2>2, <2>3, <2>4 DEF AskedAndCovered
<1>10. ~ Resolve
  BY DEF Resolve, AtSeed
<1> QED
  BY <1>1, <1>3, <1>4, <1>5, <1>6, <1>7, <1>8, <1>9, <1>10 DEF Next, Work

\* An old question, about a seed that is still there.
LEMMA SeedStays ==
  ASSUME UNCHANGED call, NEW n \in DOMAIN asked, asked'[n] = asked[n]
  PROVE  SeedOf(n)' = SeedOf(n)
BY DEF SeedOf

\* Every step keeps ReportedInv, in other plugins than dnsx.
LEMMA StepReported ==
  ASSUME PlaceInv, AskedInv, AskedSeq, ReportedInv, call.plugin # "dnsx", [Next]_vars
  PROVE  ReportedInv'
<1>1. UNCHANGED call
  BY NextKinds
<1>2. CASE UNCHANGED << asked, results >>
  <2>1. \A q : Mentions(q)' = Mentions(q)
    BY <1>1, MentionsKept
  <2>2. \A n : SeedOf(n)' = SeedOf(n)
    BY <1>1, <1>2 DEF SeedOf
  <2> QED
    BY <1>1, <1>2, <2>1, <2>2 DEF ReportedInv, BelongsTo, SameKey
<1>3. ASSUME NEW service, NEW answer, NEW new,
             Ask(service, answer), results' = results \cup new, Covers(service, answer, new)
      PROVE  ReportedInv'
  <2>1. /\ Len(asked) \in Nat
        /\ DOMAIN asked = 1 .. Len(asked) /\ DOMAIN asked' = 1 .. Len(asked) + 1
        /\ \A n \in DOMAIN asked : asked'[n] = asked[n]
        /\ asked'[Len(asked) + 1] = [seed |-> at, service |-> service, answer |-> answer]
    BY <1>3, AskAppends
  <2>2. ASSUME NEW n \in DOMAIN asked, NEW v \in Mentions(asked[n])'
        PROVE  \E e \in results' : e.value = v /\ BelongsTo(e, SeedOf(n))'
    <3>1. v \in Mentions(asked[n])
      BY <1>1, <2>1 DEF Mentions
    <3>2. PICK e \in results : e.value = v /\ BelongsTo(e, SeedOf(n))
      BY <3>1 DEF ReportedInv
    <3>3. SeedOf(n)' = SeedOf(n)
      BY <1>1, <2>1, SeedStays
    <3>4. BelongsTo(e, SeedOf(n))'
      BY <1>3, <3>2, <3>3 DEF BelongsTo, SameKey
    <3> QED
      BY <1>3, <3>2, <3>4
  <2>3. ASSUME NEW n \in DOMAIN asked', n = Len(asked) + 1, NEW v \in Mentions(asked[n])'
        PROVE  \E e \in results' : e.value = v /\ BelongsTo(e, SeedOf(n))'
    <3>1. asked'[n] = Question(service, answer)
      BY <2>1, <2>3 DEF Question
    <3>2. v \in Mentions(Question(service, answer))
      <4> DEFINE q == Question(service, answer)
      <4>1. asked'[n] = q
        BY <3>1
      <4> HIDE DEF q
      <4>2. v \in Mentions(q)
        BY <1>1, <4>1, <2>3 DEF Mentions
      <4> QED
        BY <4>2 DEF q
    <3>3. PICK e \in new : e.value = v /\ Tied(e)
      BY <1>3, <3>2 DEF Covers
    <3>4. SeedOf(n)' = Seed
      BY <1>1, <2>1, <2>3 DEF SeedOf, Seed
    <3>5. BelongsTo(e, SeedOf(n))'
      BY <3>3, <3>4 DEF BelongsTo, Tied
    <3> QED
      BY <1>3, <3>3, <3>5
  <2>4. \A n \in DOMAIN asked' : n \in DOMAIN asked \/ n = Len(asked) + 1
    BY <2>1
  <2>5. \A n \in DOMAIN asked' : \A v \in Mentions(asked[n])' :
          \E e \in results' : e.value = v /\ BelongsTo(e, SeedOf(n))'
    BY <2>2, <2>3, <2>4
  <2> QED
    BY <2>5 DEF ReportedInv
<1> QED
  BY <1>2, <1>3, StepCovers DEF AskedAndCovered

\* What a call of dnsx can do.
LEMMA DnsxSteps ==
  ASSUME PlaceInv, call.plugin = "dnsx", [Next]_vars
  PROVE  PassOver \/ Resolve \/ UNCHANGED << asked, results, links, at >>
<1>1. CASE Start \/ Finish \/ Cancel \/ Returned \/ UNCHANGED vars
  BY <1>1 DEF Start, Finish, Cancel, Returned, vars, Return
<1>2. ~ (\/ MissingBinary \/ ClientFails \/ Spawn \/ SpawnFails \/ Probe
         \/ AskCrtsh \/ AskCertspotter \/ GrabLive)
  BY DEF MissingBinary, ClientFails, Spawn, SpawnFails, Probe, AskCrtsh, AskCertspotter, GrabLive,
         AtSeed, NeedsBinary, Collectors, PlaceInv
<1>3. ~ (StartLookup \/ LookupFails \/ Refer \/ LookedUp \/ ChildFails \/ ChildPrints)
  BY DEF StartLookup, LookupFails, Refer, LookedUp, ChildFails, ChildPrints, AtSeed,
         Collectors, PlaceInv
<1> QED
  BY <1>1, <1>2, <1>3 DEF Next, Work

\* The addresses of an answer are reported, and known to be there.
LEMMA AddressesCover ==
  ASSUME call.plugin = "dnsx", NEW service, NEW records
  PROVE  /\ \A v \in Mentions(Question(service, Answered(records))) :
              \E e \in FromRecords(records) : e.value = v
         /\ FromRecords(records) # {} => \E r \in Range(records) : r # Other
<1> DEFINE q == Question(service, Answered(records))
<1>1. q.answer.items = records
  BY DEF Question, Answered
<1>2. ASSUME NEW v \in Mentions(q) PROVE \E e \in FromRecords(records) : e.value = v
  <2>1. v \in Range(records) \ {Text, Other}
    <3> HIDE DEF q
    <3> QED
      BY <1>1, <1>2 DEF Mentions
  <2>2. PICK i \in DOMAIN records : v = records[i]
    BY <2>1 DEF Range
  <2>3. Entity(Fresh(i, 0), "IpAddress", records[i], {}) \in FromRecords(records)
    BY <2>1, <2>2 DEF FromRecords
  <2> QED
    BY <2>2, <2>3 DEF Entity
<1>3. ASSUME FromRecords(records) # {} PROVE \E r \in Range(records) : r # Other
  <2>1. PICK i \in DOMAIN records : records[i] \notin {Text, Other}
    BY <1>3 DEF FromRecords
  <2> QED
    BY <2>1 DEF Range
<1> QED
  BY <1>2, <1>3

\* The addresses of a host wait among its links until the host is reported.
LEMMA StepResolved ==
  ASSUME PlaceInv, AskedInv, AskedSeq, MadeInv, ReportedInv, Resolve, UNCHANGED call
  PROVE  ReportedInv'
<1>1. call.plugin = "dnsx" /\ at \in Nat
  BY InputShape DEF Resolve, AtSeed, PlaceInv
<1>2. PICK records \in Lookups :
        LET new   == FromRecords(records)
            known == \E r \in Range(records) : r # Other
        IN  /\ Ask(call.each[sub], Answered(records))
            /\ IF sub < Len(call.each)
               THEN links' = links \cup Ids(new) /\ Emit(new) /\ UNCHANGED at
               ELSE Emit(new \cup IF found \/ known
                                   THEN {UpdatedHost(links \cup Ids(new))} ELSE {})
  BY DEF Resolve
<1> DEFINE new  == FromRecords(records)
           q    == Question(call.each[sub], Answered(records))
           host == UpdatedHost(links \cup Ids(new))
<1>3. /\ Len(asked) \in Nat
      /\ DOMAIN asked = 1 .. Len(asked) /\ DOMAIN asked' = 1 .. Len(asked) + 1
      /\ \A n \in DOMAIN asked : asked'[n] = asked[n]
      /\ asked'[Len(asked) + 1] = q
  BY <1>2, AskAppends DEF Question
<1>4. /\ \A v \in Mentions(q) : \E e \in new : e.value = v
      /\ new # {} => \E r \in Range(records) : r # Other
  BY <1>1, AddressesCover
<1>5. /\ SameKey(host, Seed)
      /\ \A t \in links \cup Ids(new) : \E r \in host.relations : r.target = t
  <2>1. /\ host.type = Seed.type /\ host.value = Seed.value
        /\ host.relations = {Relation("ResolvesTo", t) : t \in links \cup Ids(new)}
    BY DEF UpdatedHost, Entity
  <2>2. \A t : Relation("ResolvesTo", t).target = t
    BY DEF Relation
  <2> HIDE DEF host, new
  <2> QED
    BY <2>1, <2>2 DEF SameKey
<1>6. results \cup new \subseteq results'
  BY <1>2 DEF Emit
<1>7. \/ at' = at /\ links \cup Ids(new) \subseteq links'
      \/ links \cup Ids(new) = {}
      \/ host \in results'
  <2>1. CASE sub < Len(call.each)
    BY <1>2, <2>1
  <2>2. CASE ~ (sub < Len(call.each)) /\ links \cup Ids(new) # {}
    <3>1. found \/ \E r \in Range(records) : r # Other
      BY <1>4, <2>2 DEF MadeInv, Ids
    <3> QED
      BY <1>2, <2>2, <3>1 DEF Emit
  <2> QED
    BY <2>1, <2>2
<1>8. q.seed = at
  BY DEF Question
<1> HIDE DEF new, q, host
<1>9. ASSUME NEW n \in DOMAIN asked', asked'[n].seed = at,
             NEW e \in results', e.id \in links \cup Ids(new)
      PROVE  BelongsTo(e, SeedOf(n))' \/ (asked'[n].seed = at' /\ e.id \in links')
  <2>1. SeedOf(n)' = Seed
    BY <1>9 DEF SeedOf, Seed
  <2>2. CASE host \in results'
    BY <1>5, <1>9, <2>1, <2>2 DEF BelongsTo, SameKey
  <2> QED
    BY <1>7, <1>9, <2>2
<1>10. ASSUME NEW n \in DOMAIN asked, NEW v \in Mentions(asked[n])'
       PROVE  \E e \in results' : e.value = v /\ (BelongsTo(e, SeedOf(n))'
                 \/ (asked'[n].seed = at' /\ e.id \in links'))
  <2>1. v \in Mentions(asked[n])
    BY <1>3 DEF Mentions
  <2>2. SeedOf(n)' = SeedOf(n) /\ asked'[n] = asked[n] /\ n \in DOMAIN asked'
    BY <1>3, SeedStays
  <2>3. PICK e \in results : e.value = v /\ \/ BelongsTo(e, SeedOf(n))
                                            \/ asked[n].seed = at /\ e.id \in links
    BY <2>1 DEF ReportedInv
  <2>4. CASE BelongsTo(e, SeedOf(n))
    <3>1. BelongsTo(e, SeedOf(n))'
      BY <1>6, <2>2, <2>4 DEF BelongsTo, SameKey
    <3> QED
      BY <1>6, <2>3, <3>1
  <2>5. CASE asked[n].seed = at /\ e.id \in links
    BY <1>6, <1>9, <2>2, <2>3, <2>5
  <2> QED
    BY <2>3, <2>4, <2>5
<1>11. ASSUME NEW n \in DOMAIN asked', n = Len(asked) + 1, NEW v \in Mentions(asked[n])'
       PROVE  \E e \in results' : e.value = v /\ (BelongsTo(e, SeedOf(n))'
                 \/ (asked'[n].seed = at' /\ e.id \in links'))
  <2>1. asked'[n] = q
    BY <1>3, <1>11
  <2>2. v \in Mentions(q)
    BY <1>11, <2>1 DEF Mentions
  <2>3. PICK e \in new : e.value = v
    BY <1>4, <2>2
  <2>4. e \in results' /\ e.id \in links \cup Ids(new)
    BY <1>6 DEF Ids
  <2> QED
    BY <1>8, <1>9, <2>1, <2>3, <2>4
<1>12. \A n \in DOMAIN asked' : n \in DOMAIN asked \/ n = Len(asked) + 1
  BY <1>3
<1>13. \A n \in DOMAIN asked' : \A v \in Mentions(asked[n])' :
         \E e \in results' : e.value = v /\ (BelongsTo(e, SeedOf(n))'
                 \/ (asked'[n].seed = at' /\ e.id \in links'))
  BY <1>10, <1>11, <1>12
<1> QED
  BY <1>1, <1>13 DEF ReportedInv

\* Every step keeps ReportedInv, in dnsx.
LEMMA StepReportedDnsx ==
  ASSUME PlaceInv, AskedInv, AskedSeq, MadeInv, ReportedInv, call.plugin = "dnsx", [Next]_vars
  PROVE  ReportedInv'
<1>1. UNCHANGED call
  BY NextKinds
<1>2. \A q : Mentions(q)' = Mentions(q)
  BY <1>1, MentionsKept
<1>3. CASE UNCHANGED << asked, results, links, at >>
  <2>1. \A n : SeedOf(n)' = SeedOf(n)
    BY <1>1, <1>3 DEF SeedOf
  <2> QED
    BY <1>1, <1>2, <1>3, <2>1 DEF ReportedInv, BelongsTo, SameKey
<1>4. CASE PassOver
  <2>1. UNCHANGED << asked, results >> /\ ~ IsSeed(at)
    BY <1>4 DEF PassOver
  <2>2. \A n : SeedOf(n)' = SeedOf(n)
    BY <1>1, <2>1 DEF SeedOf
  <2>3. \A n \in DOMAIN asked : asked[n].seed # at
    BY <2>1 DEF AskedInv
  <2> QED
    BY <1>1, <1>2, <2>1, <2>2, <2>3 DEF ReportedInv, BelongsTo, SameKey
<1> QED
  BY <1>1, <1>3, <1>4, DnsxSteps, StepResolved

\* Every value that a service answered is reported by a call that returns Ok, as an
\* entity that belongs to the seed it was asked for: however many seeds there are,
\* and in dnsx however many record types come before the host is reported.
THEOREM NothingIsLost == Spec => []AnswersReported
<1>1. Init => ReportedInv
  BY DEF Init, ReportedInv
<1>2. CallInv /\ ReportedInv /\ [Next]_vars => ReportedInv'
  BY StepReported, StepReportedDnsx DEF CallInv
<1>3. ASSUME CallInv, ReportedInv PROVE AnswersReported
  <2>1. ASSUME pc = "ok", NEW n \in DOMAIN asked PROVE asked[n].seed # at
    <3>1. /\ at = Len(call.input) + 1 /\ DOMAIN call.input = 1 .. Len(call.input)
          /\ Len(call.input) \in Nat
      BY <1>3, <2>1, InputShape DEF CallInv, PlaceInv
    <3>2. asked[n].seed \in DOMAIN call.input
      BY <1>3 DEF CallInv, AskedInv, IsSeed
    <3> QED
      BY <3>1, <3>2
  <2> QED
    BY <1>3, <2>1 DEF ReportedInv, AnswersReported
<1> QED
  BY <1>1, <1>2, <1>3, CallInvariance, PTL DEF Spec

-----------------------------------------------------------------------------
(* The first line that says something                                      *)

\* A set of natural numbers that is not empty has a least member.
LEMMA LeastOf ==
  ASSUME NEW S, S \subseteq Nat, S # {}
  PROVE  Min(S) \in S /\ \A y \in S : Min(S) <= y
<1> DEFINE Less == OpToRel(<, Nat)
<1>1. IsWellFoundedOn(Less, Nat)
  BY NatLessThanWellFounded
<1> HIDE DEF Less
<1>2. PICK x \in S : \A y \in S : << y, x >> \notin Less
  BY <1>1, WFMin
<1>3. \A y \in S : ~ (y < x)
  BY <1>2 DEF Less, OpToRel
<1>4. \E z \in S : \A y \in S : z <= y
  BY <1>3
<1> QED
  BY <1>4 DEF Min

\* FirstField is the value that the text says first, if there is one.
LEMMA FirstFieldSays ==
  ASSUME NEW text, IsList(text), NEW labels, NEW value
  PROVE  FirstSays(text, labels, value) <=> value # NoField /\ FirstField(text, labels) = value
<1> DEFINE having == {n \in DOMAIN text : text[n].label \in labels /\ text[n].value # NoField}
<1>1. DOMAIN text = 1 .. Len(text) /\ Len(text) \in Nat
  BY DEF IsList
<1>2. having \subseteq Nat
  BY <1>1
<1>3. /\ having = {} => FirstField(text, labels) = NoField
      /\ having # {} => FirstField(text, labels) = text[Min(having)].value
  BY DEF FirstField
<1>4. ASSUME NEW n \in DOMAIN text, text[n].label \in labels, text[n].value = value,
             value # NoField,
             \A m \in 1 .. n - 1 : text[m].label \in labels => text[m].value = NoField
      PROVE  FirstField(text, labels) = value
  <2>1. n \in having
    BY <1>4
  <2>2. Min(having) \in having /\ Min(having) <= n
    BY <1>2, <2>1, LeastOf
  <2>3. Min(having) \in Nat \ {0} /\ n \in Nat
    BY <1>1, <2>2
  <2>4. Min(having) \notin 1 .. n - 1
    BY <1>4, <2>2
  <2>5. Min(having) = n
    BY <2>2, <2>3, <2>4
  <2> QED
    BY <1>3, <1>4, <2>1, <2>5
<1>5. ASSUME value # NoField, FirstField(text, labels) = value
      PROVE  FirstSays(text, labels, value)
  <2>1. having # {}
    BY <1>3, <1>5
  <2> DEFINE n == Min(having)
  <2>2. n \in having /\ \A y \in having : n <= y
    BY <1>2, <2>1, LeastOf
  <2>3. text[n].value = value
    BY <1>3, <1>5, <2>1
  <2> HIDE DEF n
  <2>4. n \in DOMAIN text /\ n \in Nat /\ text[n].label \in labels
    BY <1>2, <2>2
  <2>5. ASSUME NEW m \in 1 .. n - 1, text[m].label \in labels PROVE text[m].value = NoField
    <3>1. m \in DOMAIN text /\ ~ (n <= m)
      BY <1>1, <2>4
    <3> QED
      BY <2>2, <2>5, <3>1
  <2> QED
    BY <1>5, <2>3, <2>4, <2>5 DEF FirstSays
<1> QED
  BY <1>4, <1>5 DEF FirstSays

-----------------------------------------------------------------------------
(* The hops of whois                                                       *)

\* What a text says of a network or of an origin.
SaysOf(text, value) == FirstSays(text, CidrLabels, value) \/ FirstSays(text, AsnLabels, value)

\* The seed of question n is among the results again, related to exactly what
\* the answer says.
SaidInFull(n) ==
  \E host \in results :
    /\ host.id[1] = n /\ SameKey(host, SeedOf(n))
    /\ \A v : (\E f \in results : f.value = v /\ \E r \in host.relations : r.target = f.id)
                <=> SaysOf(asked[n].answer.items[1], v)

Hops(n) ==
  /\ n > 4 => asked[n - 4].seed # asked[n].seed
  /\ FirstAbout(n) => asked[n].service = FirstServer(SeedOf(n).type)
  /\ MoreAbout(n) =>
       /\ FirstSays(asked[n].answer.items[1], ReferralLabels, asked[n + 1].service)
       /\ asked[n + 1].service # asked[n].service

Followed == \A n \in DOMAIN asked : Hops(n)
Told     == \A n \in DOMAIN asked : asked[n].seed < at /\ ~ MoreAbout(n) => SaidInFull(n)

\* The same, as the property has it.
Matches(n, host) ==
  {f.value : f \in {f \in results : \E r \in host.relations : r.target = f.id}}
    = {line.value : line \in {line \in Range(asked[n].answer.items[1]) :
         \/ FirstSays(asked[n].answer.items[1], CidrLabels, line.value)
         \/ FirstSays(asked[n].answer.items[1], AsnLabels, line.value)}}

\* The property in these terms.
LEMMA WhoisParts ==
  ASSUME call.plugin = "whois"
  PROVE  WhoisFollowsReferrals <=> Followed /\ Told
<1>1. ASSUME NEW n \in DOMAIN asked, NEW host \in results
      PROVE  Matches(n, host)
             <=> \A v :
                   (\E f \in results : f.value = v /\ \E r \in host.relations : r.target = f.id)
                     <=> SaysOf(asked[n].answer.items[1], v)
  <2> DEFINE text == asked[n].answer.items[1]
             made == {f.value : f \in {f \in results : \E r \in host.relations : r.target = f.id}}
             said == {line.value : line \in {line \in Range(text) :
                        \/ FirstSays(text, CidrLabels, line.value)
                        \/ FirstSays(text, AsnLabels, line.value)}}
  <2>1. \A v : v \in made <=> \E f \in results :
                                  f.value = v /\ \E r \in host.relations : r.target = f.id
    OBVIOUS
  <2>2. \A v : v \in said <=> SaysOf(text, v)
    <3>1. \A v : v \in said => SaysOf(text, v)
      BY DEF SaysOf
    <3>2. ASSUME NEW v, SaysOf(text, v) PROVE v \in said
      <4>1. PICK m \in DOMAIN text : text[m].value = v
        BY <3>2 DEF SaysOf, FirstSays
      <4>2. text[m] \in Range(text)
        BY DEF Range
      <4> QED
        BY <3>2, <4>1, <4>2 DEF SaysOf
    <3> QED
      BY <3>1, <3>2
  <2> HIDE DEF made, said
  <2>3. made = said <=> \A v : v \in made <=> v \in said
    OBVIOUS
  <2> QED
    BY <2>1, <2>2, <2>3 DEF made, said, text, Matches
<1>2. WhoisFollowsReferrals <=>
        \A n \in DOMAIN asked :
          /\ Hops(n)
          /\ asked[n].seed < at /\ ~ MoreAbout(n) =>
               \E host \in results :
                 host.id[1] = n /\ SameKey(host, SeedOf(n)) /\ Matches(n, host)
  BY DEF WhoisFollowsReferrals, Hops, Matches
<1>3. \A n \in DOMAIN asked :
        SaidInFull(n) <=> \E host \in results :
                            host.id[1] = n /\ SameKey(host, SeedOf(n)) /\ Matches(n, host)
  BY <1>1, Zenon DEF SaidInFull
<1> QED
  BY <1>2, <1>3, Zenon DEF Followed, Told

\* The steps of whois, and how each goes on.
WhoisQuiet ==
  /\ UNCHANGED << asked, results, at, server, sub >>
  /\ pc' = pc \/ pc' = "dropped" \/ (pc = "start" /\ pc' = "seed") \/ (pc = "seed" /\ pc' = "ok")

\* What a call of whois can do.
LEMMA WhoisSteps ==
  ASSUME PlaceInv, call.plugin = "whois", [Next]_vars
  PROVE  WhoisQuiet \/ PassOver \/ StartLookup \/ LookupFails \/ Refer \/ LookedUp
<1>1. CASE Start \/ Finish \/ Cancel \/ Returned \/ UNCHANGED vars
  BY <1>1 DEF Start, Finish, Cancel, Returned, vars, Return, WhoisQuiet
<1>2. ~ (\/ MissingBinary \/ ClientFails \/ Spawn \/ SpawnFails \/ Probe \/ Resolve
         \/ AskCrtsh \/ AskCertspotter \/ GrabLive)
  BY DEF MissingBinary, ClientFails, Spawn, SpawnFails, Probe, Resolve, AskCrtsh, AskCertspotter,
         GrabLive, AtSeed, NeedsBinary, Collectors, PlaceInv
<1>3. ~ (ChildFails \/ ChildPrints)
  BY DEF ChildFails, ChildPrints, Collectors, PlaceInv
<1> QED
  BY <1>1, <1>2, <1>3 DEF Next, Work

\* One more server is asked: the hops before stay as they are, and the new one
\* follows from what the call knows.
LEMMA HopsKept ==
  ASSUME PlaceInv, AskedInv, AskedSeq, LookupInv, Followed, call.plugin = "whois", pc = "lookup",
         UNCHANGED call, NEW answer, Ask(server, answer)
  PROVE  Followed'
<1>1. /\ Len(asked) \in Nat /\ Len(asked') = Len(asked) + 1
      /\ DOMAIN asked = 1 .. Len(asked) /\ DOMAIN asked' = 1 .. Len(asked) + 1
      /\ \A n \in DOMAIN asked : asked'[n] = asked[n]
      /\ asked'[Len(asked) + 1] = [seed |-> at, service |-> server, answer |-> answer]
  BY AskAppends
<1>2. asked'[Len(asked) + 1].seed = at /\ asked'[Len(asked) + 1].service = server
  BY <1>1
<1>3. /\ sub \in Nat \ {0} /\ sub <= 4 /\ sub <= Len(asked) + 1
      /\ \A n \in DOMAIN asked : asked[n].seed = at <=> n + sub > Len(asked) + 1
      /\ sub = 1 => server = FirstServer(Seed.type)
      /\ sub # 1 => /\ FirstSays(asked[Len(asked)].answer.items[1], ReferralLabels, server)
                    /\ server # asked[Len(asked)].service
  BY DEF LookupInv, PlaceInv
<1>4. ASSUME NEW n \in DOMAIN asked PROVE Hops(n)'
  <2>1. n \in Nat \ {0} /\ n < Len(asked') /\ asked'[n] = asked[n] /\ n <= Len(asked)
    BY <1>1
  <2>2. n # 1 => asked'[n - 1] = asked[n - 1]
    BY <1>1, <2>1
  <2>3. n > 4 => asked'[n - 4] = asked[n - 4]
    BY <1>1, <2>1
  <2>4. FirstAbout(n)' = FirstAbout(n) /\ SeedOf(n)' = SeedOf(n)
    BY <2>1, <2>2, SeedStays DEF FirstAbout
  <2>5. Hops(n)
    BY DEF Followed
  <2>6. ASSUME MoreAbout(n)'
        PROVE  /\ FirstSays(asked[n].answer.items[1], ReferralLabels, asked'[n + 1].service)
               /\ asked'[n + 1].service # asked[n].service
    <3>1. CASE n < Len(asked)
      <4>1. n + 1 \in DOMAIN asked /\ asked'[n + 1] = asked[n + 1]
        BY <1>1, <2>1, <3>1
      <4>2. MoreAbout(n)
        BY <2>1, <2>6, <3>1, <4>1 DEF MoreAbout
      <4> QED
        BY <2>5, <4>1, <4>2 DEF Hops
    <3>2. CASE n = Len(asked)
      <4>1. asked[n].seed = at
        BY <1>2, <2>1, <2>6, <3>2 DEF MoreAbout
      <4>2. sub # 1
        BY <1>3, <2>1, <3>2, <4>1
      <4> QED
        BY <1>2, <1>3, <3>2, <4>2
    <3> QED
      BY <1>1, <2>1, <3>1, <3>2
  <2> QED
    BY <2>1, <2>3, <2>4, <2>5, <2>6 DEF Hops
<1>5. ASSUME NEW n \in DOMAIN asked', n = Len(asked) + 1 PROVE Hops(n)'
  <2>1. ~ MoreAbout(n)'
    BY <1>1, <1>5 DEF MoreAbout
  <2>2. n > 4 => asked'[n - 4].seed # asked'[n].seed
    <3> SUFFICES ASSUME n > 4 PROVE asked'[n - 4].seed # at
      BY <1>2, <1>5
    <3>1. n - 4 \in DOMAIN asked /\ ~ (n - 4 + sub > Len(asked) + 1)
      BY <1>1, <1>3, <1>5
    <3> QED
      BY <1>1, <1>3, <3>1
  <2>3. ASSUME FirstAbout(n)' PROVE sub = 1
    <3>1. CASE Len(asked) = 0
      BY <1>3, <3>1
    <3>2. CASE Len(asked) # 0
      <4>1. n # 1 /\ n - 1 = Len(asked) /\ Len(asked) \in DOMAIN asked
        BY <1>1, <1>5, <3>2
      <4>2. asked[Len(asked)].seed # at
        BY <1>1, <1>2, <1>5, <2>3, <4>1 DEF FirstAbout
      <4> QED
        BY <1>1, <1>3, <4>1, <4>2
    <3> QED
      BY <3>1, <3>2
  <2>4. SeedOf(n)' = Seed
    BY <1>2, <1>5 DEF SeedOf, Seed
  <2> QED
    BY <1>2, <1>3, <1>5, <2>1, <2>2, <2>3, <2>4 DEF Hops
<1>6. \A n \in DOMAIN asked' : n \in DOMAIN asked \/ n = Len(asked) + 1
  BY <1>1
<1> QED
  BY <1>4, <1>5, <1>6 DEF Followed

-----------------------------------------------------------------------------
(* What whois reports                                                      *)

\* What a text says is what is made of it.
LEMMA SaidIsGiven ==
  ASSUME NEW text, IsList(text), NEW v
  PROVE  SaysOf(text, v) <=> \E f \in Given(text) : f.value = v
<1> DEFINE cidr == Field(1, "Cidr", "BelongsToCidr", FirstField(text, CidrLabels))
           asn  == Field(2, "Asn", "BelongsToAsn", FirstField(text, AsnLabels))
<1>1. cidr.value = FirstField(text, CidrLabels) /\ asn.value = FirstField(text, AsnLabels)
  BY DEF Field
<1>2. Given(text) = {f \in {cidr, asn} : f.value # NoField}
  BY DEF Given
<1>3. /\ FirstSays(text, CidrLabels, v) <=> v # NoField /\ cidr.value = v
      /\ FirstSays(text, AsnLabels, v) <=> v # NoField /\ asn.value = v
  BY <1>1, FirstFieldSays
<1> HIDE DEF cidr, asn
<1> QED
  BY <1>2, <1>3 DEF SaysOf

\* What is made of a new text, among the results before.
LEMMA MadeOfText ==
  ASSUME PlaceInv, IsSeed(at), call.plugin = "whois", NEW text, IsList(text),
         \A e \in results : e.id[1] # Len(asked) + 1
  PROVE  /\ Again(text).id[1] = Len(asked) + 1 /\ SameKey(Again(text), Seed)
         /\ \A v : (\E f \in results \cup FromText(text) :
                      f.value = v /\ \E r \in Again(text).relations : r.target = f.id)
                     <=> SaysOf(text, v)
<1>1. /\ Again(text).id = Fresh(0, 0)
      /\ Again(text).type = Seed.type /\ Again(text).value = Seed.value
      /\ Again(text).relations = {Relation(g.kind, Fresh(g.i, 0)) : g \in Given(text)}
  BY DEF Again, Entity
<1>2. \A g \in Given(text) : Made(g).id = Fresh(g.i, 0) /\ Made(g).value = g.value
  BY DEF Made, Entity
<1>3. /\ \A f \in FromText(text) : f = Again(text) \/ \E g \in Given(text) : f = Made(g)
      /\ \A g \in Given(text) : Made(g) \in FromText(text)
  BY TextShape
<1>4. \A g \in Given(text) : g.i # 0
  BY TextShape DEF Field
<1>5. \A g, h \in Given(text) : g.i = h.i => g = h
  BY TextShape DEF Field
<1>6. ASSUME NEW v, NEW f \in results \cup FromText(text), f.value = v,
             NEW r \in Again(text).relations, r.target = f.id
      PROVE  SaysOf(text, v)
  <2>1. PICK g \in Given(text) : r = Relation(g.kind, Fresh(g.i, 0))
    BY <1>1
  <2>2. f.id = Fresh(g.i, 0)
    BY <1>6, <2>1 DEF Relation
  <2>3. f \notin results
    BY <2>2, FreshIds
  <2>4. f # Again(text)
    BY <1>1, <1>4, <2>2, FreshIds
  <2>5. PICK h \in Given(text) : f = Made(h)
    BY <1>3, <2>3, <2>4
  <2> QED
    BY <1>2, <1>6, <2>5, SaidIsGiven
<1>7. ASSUME NEW v, SaysOf(text, v)
      PROVE  \E f \in results \cup FromText(text) :
               f.value = v /\ \E r \in Again(text).relations : r.target = f.id
  <2>1. PICK g \in Given(text) : g.value = v
    BY <1>7, SaidIsGiven
  <2>2. Relation(g.kind, Fresh(g.i, 0)) \in Again(text).relations
    BY <1>1
  <2>3. Relation(g.kind, Fresh(g.i, 0)).target = Made(g).id
    BY <1>2 DEF Relation
  <2> QED
    BY <1>2, <1>3, <2>1, <2>2, <2>3
<1>8. Again(text).id[1] = Len(asked) + 1 /\ SameKey(Again(text), Seed)
  BY <1>1, FreshIds DEF SameKey
<1> QED
  BY <1>6, <1>7, <1>8

\* What was told stays told, whatever is added.
LEMMA StaysTold ==
  ASSUME PlaceInv, AskedSeq, MadeInv, LinksMakeSense, UNCHANGED call,
         NEW new, results' = results \cup new, \A e \in new : e.id[1] = Len(asked) + 1,
         NEW n \in DOMAIN asked, asked'[n] = asked[n], SaidInFull(n)
  PROVE  SaidInFull(n)'
<1>1. PICK host \in results :
        /\ host.id[1] = n /\ SameKey(host, SeedOf(n))
        /\ \A v : (\E f \in results : f.value = v /\ \E r \in host.relations : r.target = f.id)
                    <=> SaysOf(asked[n].answer.items[1], v)
  BY DEF SaidInFull
<1>2. Len(asked) \in Nat /\ DOMAIN asked = 1 .. Len(asked)
  BY DEF AskedSeq
<1>3. \A e \in Known : e.id[1] # Len(asked) + 1
  <2>1. \A e \in Range(call.input) : e.id[1] = 0
    BY InputShape DEF PlaceInv
  <2>2. \A e \in results : e.id[1] \in 1 .. Len(asked)
    BY <1>2 DEF MadeInv
  <2> QED
    BY <1>2, <2>1, <2>2 DEF Known
<1>4. ASSUME NEW r \in host.relations, NEW f \in new PROVE r.target # f.id
  <2>1. PICK g \in Known : g.id = r.target
    BY DEF LinksMakeSense
  <2> QED
    BY <1>3, <2>1
<1>5. \A v : (\E f \in results' : f.value = v /\ \E r \in host.relations : r.target = f.id)
               <=> (\E f \in results : f.value = v /\ \E r \in host.relations : r.target = f.id)
  BY <1>4
<1>6. SeedOf(n)' = SeedOf(n)
  BY SeedStays
<1>7. SameKey(host, SeedOf(n))'
  BY <1>1, <1>6 DEF SameKey
<1>8. \A v : SaysOf(asked[n].answer.items[1], v)' <=> SaysOf(asked[n].answer.items[1], v)
  BY DEF SaysOf, FirstSays
<1>9. /\ host \in results' /\ host.id[1] = n
      /\ \A v : (\E f \in results' : f.value = v /\ \E r \in host.relations : r.target = f.id)
                  <=> SaysOf(asked[n].answer.items[1], v)'
  BY <1>1, <1>5, <1>8
<1> QED
  BY <1>7, <1>9 DEF SaidInFull

\* A new question leaves it told what was told before.
LEMMA ToldKept ==
  ASSUME PlaceInv, AskedInv, AskedSeq, MadeInv, LinksMakeSense, Told, UNCHANGED call,
         NEW service, NEW answer, Ask(service, answer),
         NEW new, results' = results \cup new, \A e \in new : e.id[1] = Len(asked) + 1,
         \/ at' = at
         \/ at' = at + 1 /\ \A n \in DOMAIN asked' : n = Len(asked) + 1 => SaidInFull(n)'
  PROVE  Told'
<1>1. /\ Len(asked) \in Nat /\ Len(asked') = Len(asked) + 1
      /\ DOMAIN asked = 1 .. Len(asked) /\ DOMAIN asked' = 1 .. Len(asked) + 1
      /\ \A n \in DOMAIN asked : asked'[n] = asked[n]
      /\ asked'[Len(asked) + 1] = [seed |-> at, service |-> service, answer |-> answer]
  BY AskAppends
<1>2. asked'[Len(asked) + 1].seed = at /\ at \in Nat
  BY <1>1, InputShape DEF PlaceInv
<1>3. \A n \in DOMAIN asked : asked[n].seed \in Nat /\ asked[n].seed <= at
  BY InputShape DEF AskedInv, IsSeed, PlaceInv
<1>4. ASSUME NEW n \in DOMAIN asked, asked'[n].seed < at', ~ MoreAbout(n)'
      PROVE  SaidInFull(n)'
  <2>1. n \in Nat \ {0} /\ n <= Len(asked) /\ n < Len(asked') /\ asked'[n] = asked[n]
    BY <1>1
  <2>2. asked'[n + 1].seed # asked[n].seed
    BY <1>4, <2>1 DEF MoreAbout
  <2>3. n < Len(asked) => /\ n + 1 \in DOMAIN asked /\ asked'[n + 1] = asked[n + 1]
                          /\ asked[n].seed <= asked[n + 1].seed
    BY <1>1, <2>1 DEF AskedInv
  <2>4. asked[n].seed # at
    <3>1. CASE n < Len(asked)
      BY <1>3, <2>2, <2>3, <3>1
    <3>2. CASE n = Len(asked)
      BY <1>2, <2>2, <3>2
    <3> QED
      BY <1>1, <2>1, <3>1, <3>2
  <2>5. asked[n].seed < at
    BY <1>2, <1>3, <2>4
  <2>6. ~ MoreAbout(n)
    BY <2>2, <2>3 DEF MoreAbout
  <2>7. SaidInFull(n)
    BY <2>5, <2>6 DEF Told
  <2> QED
    BY <2>1, <2>7, StaysTold
<1>5. ASSUME NEW n \in DOMAIN asked', n = Len(asked) + 1, asked'[n].seed < at'
      PROVE  SaidInFull(n)'
  BY <1>2, <1>5
<1>6. \A n \in DOMAIN asked' : n \in DOMAIN asked \/ n = Len(asked) + 1
  BY <1>1
<1> QED
  BY <1>4, <1>5, <1>6 DEF Told

\* Every step keeps what was told.
LEMMA StepTold ==
  ASSUME PlaceInv, AskedInv, AskedSeq, MadeInv, LinksMakeSense, Told,
         call.plugin = "whois", [Next]_vars
  PROVE  Told'
<1>1. UNCHANGED call /\ at \in Nat
  BY NextKinds, InputShape DEF PlaceInv
<1>2. CASE UNCHANGED << asked, results, at >>
  <2>1. \A n : SaidInFull(n)' = SaidInFull(n)
    BY <1>1, <1>2 DEF SaidInFull, SeedOf, SameKey, SaysOf, FirstSays
  <2> QED
    BY <1>2, <2>1 DEF Told, MoreAbout
<1>3. CASE PassOver
  <2>1. UNCHANGED << asked, results >> /\ ~ IsSeed(at) /\ at' = at + 1
    BY <1>3 DEF PassOver, NextSeed
  <2>2. \A n : SaidInFull(n)' = SaidInFull(n)
    BY <1>1, <2>1 DEF SaidInFull, SeedOf, SameKey, SaysOf, FirstSays
  <2>3. \A n \in DOMAIN asked : asked[n].seed \in Nat /\ asked[n].seed <= at /\ asked[n].seed # at
    BY <2>1, InputShape DEF AskedInv, IsSeed, PlaceInv
  <2> QED
    BY <1>1, <2>1, <2>2, <2>3 DEF Told, MoreAbout
<1>4. CASE LookupFails \/ Refer
  <2>1. results' = results \cup {} /\ at' = at
    BY <1>4 DEF LookupFails, Refer, Return
  <2>2. PICK answer : Ask(server, answer)
    BY <1>4 DEF LookupFails, Refer
  <2>3. \A e \in {} : e.id[1] = Len(asked) + 1
    OBVIOUS
  <2> QED
    BY <1>1, <2>1, <2>2, <2>3, ToldKept
<1>5. CASE LookedUp
  <2>1. at' = at + 1 /\ IsSeed(at)
    BY <1>5 DEF LookedUp, NextSeed, PlaceInv
  <2>2. PICK text \in WhoisAnswers :
          Ask(server, Answered(<< text >>)) /\ Emit(FromText(text))
    BY <1>5 DEF LookedUp
  <2>3. results' = results \cup FromText(text) /\ \A e \in FromText(text) : e.id[1] = Len(asked) + 1
    BY <2>1, <2>2, TextGood DEF Emit, GoodBatch
  <2>4. ASSUME NEW n \in DOMAIN asked', n = Len(asked) + 1 PROVE SaidInFull(n)'
    <3>1. /\ DOMAIN asked = 1 .. Len(asked) /\ Len(asked) \in Nat
          /\ asked'[n] = [seed |-> at, service |-> server, answer |-> Answered(<< text >>)]
      BY <2>2, <2>4, AskAppends
    <3>2. \A e \in results : e.id[1] # Len(asked) + 1
      BY <3>1 DEF MadeInv
    <3>3. IsList(text)
      BY WhoisAnswersAssumption
    <3>4. /\ Again(text).id[1] = n /\ SameKey(Again(text), Seed)
          /\ \A v : (\E f \in results' :
                       f.value = v /\ \E r \in Again(text).relations : r.target = f.id)
                      <=> SaysOf(text, v)
      BY <2>1, <2>3, <2>4, <3>2, <3>3, MadeOfText
    <3>5. asked'[n].answer.items[1] = text /\ SeedOf(n)' = Seed
      BY <1>1, <3>1 DEF Answered, SeedOf, Seed
    <3>6. Again(text) \in results'
      BY <2>3, TextShape
    <3> DEFINE host == Again(text)
    <3> HIDE DEF host
    <3>7. PICK h : h = host
      OBVIOUS
    <3>8. SameKey(h, SeedOf(n))'
      BY <3>4, <3>5, <3>7 DEF SameKey, host
    <3>9. \A v : SaysOf(asked[n].answer.items[1], v)' <=> SaysOf(text, v)
      BY <3>5 DEF SaysOf, FirstSays
    <3>10. /\ h \in results' /\ h.id[1] = n
           /\ \A v : (\E f \in results' : f.value = v /\ \E r \in h.relations : r.target = f.id)
                       <=> SaysOf(asked[n].answer.items[1], v)'
      BY <3>4, <3>6, <3>7, <3>9 DEF host
    <3> QED
      BY <3>8, <3>10 DEF SaidInFull
  <2> QED
    BY <1>1, <2>1, <2>2, <2>3, <2>4, ToldKept
<1> QED
  BY <1>2, <1>3, <1>4, <1>5, WhoisSteps DEF WhoisQuiet, StartLookup

\* Every step keeps the hops.
LEMMA StepFollowed ==
  ASSUME PlaceInv, AskedInv, AskedSeq, LookupInv, Followed, call.plugin = "whois", [Next]_vars
  PROVE  Followed'
<1>1. UNCHANGED call
  BY NextKinds
<1>2. CASE UNCHANGED asked
  BY <1>1, <1>2 DEF Followed, Hops, FirstAbout, MoreAbout, SeedOf, FirstSays, FirstServer
<1>3. CASE LookupFails \/ Refer \/ LookedUp
  <2>1. pc = "lookup"
    BY <1>3 DEF LookupFails, Refer, LookedUp
  <2>2. PICK answer : Ask(server, answer)
    BY <1>3 DEF LookupFails, Refer, LookedUp
  <2> QED
    BY <1>1, <2>1, <2>2, HopsKept
<1> QED
  BY <1>2, <1>3, WhoisSteps DEF WhoisQuiet, PassOver, StartLookup

\* Every step keeps LookupInv.
LEMMA StepLookup ==
  ASSUME PlaceInv, AskedInv, AskedSeq, LookupInv, call.plugin = "whois", [Next]_vars
  PROVE  LookupInv'
<1>1. UNCHANGED call /\ at \in Nat
  BY NextKinds, InputShape DEF PlaceInv
<1>2. \A n \in DOMAIN asked : asked[n].seed \in Nat /\ asked[n].seed <= at
  BY InputShape DEF AskedInv, IsSeed, PlaceInv
<1>3. ASSUME pc' = "seed", sub' = 1, AtNewSeed' PROVE LookupInv'
  BY <1>3 DEF LookupInv
<1>4. CASE WhoisQuiet
  BY <1>1, <1>4 DEF WhoisQuiet, LookupInv, AtNewSeed, Seed
<1>5. CASE PassOver
  <2>1. UNCHANGED asked /\ at' = at + 1 /\ pc' = "seed" /\ sub' = 1
    BY <1>5 DEF PassOver, NextSeed
  <2>2. AtNewSeed'
    BY <1>1, <1>2, <2>1 DEF AtNewSeed
  <2> QED
    BY <1>3, <2>1, <2>2
<1>6. CASE StartLookup
  <2>1. /\ pc = "seed" /\ pc' = "lookup" /\ UNCHANGED << at, sub, asked >>
        /\ server' = FirstServer(Seed.type)
    BY <1>6 DEF StartLookup, AtSeed
  <2>2. sub = 1 /\ \A n \in DOMAIN asked : asked[n].seed < at
    BY <2>1 DEF LookupInv, AtNewSeed
  <2>3. Len(asked) \in Nat /\ DOMAIN asked = 1 .. Len(asked)
    BY DEF AskedSeq
  <2>4. \A n \in DOMAIN asked : asked[n].seed = at <=> n + sub > Len(asked) + 1
    BY <1>1, <1>2, <2>2, <2>3
  <2>5. Seed' = Seed
    BY <1>1, <2>1 DEF Seed
  <2> QED
    BY <1>1, <2>1, <2>2, <2>3, <2>4, <2>5 DEF LookupInv
<1>7. CASE LookupFails
  BY <1>7 DEF LookupFails, Return, LookupInv
<1>8. ASSUME NEW answer, Ask(server, answer)
      PROVE  /\ Len(asked) \in Nat /\ Len(asked') = Len(asked) + 1
             /\ DOMAIN asked = 1 .. Len(asked) /\ DOMAIN asked' = 1 .. Len(asked) + 1
             /\ \A n \in DOMAIN asked : asked'[n] = asked[n]
             /\ asked'[Len(asked) + 1].seed = at
             /\ asked'[Len(asked) + 1].service = server
             /\ asked'[Len(asked) + 1].answer = answer
  <2>1. /\ Len(asked) \in Nat /\ Len(asked') = Len(asked) + 1
        /\ DOMAIN asked = 1 .. Len(asked) /\ DOMAIN asked' = 1 .. Len(asked) + 1
        /\ \A n \in DOMAIN asked : asked'[n] = asked[n]
        /\ asked'[Len(asked) + 1] = [seed |-> at, service |-> server, answer |-> answer]
    BY <1>8, AskAppends
  <2> QED
    BY <2>1
<1>9. CASE Refer
  <2>1. PICK text \in WhoisAnswers :
          Refers(text) /\ Ask(server, Answered(<< text >>)) /\ server' = Referral(text)
    BY <1>9 DEF Refer
  <2>2. pc = "lookup" /\ pc' = "lookup" /\ sub' = sub + 1 /\ at' = at
    BY <1>9 DEF Refer
  <2>3. /\ sub \in Nat \ {0} /\ sub <= 3 /\ sub <= Len(asked) + 1
        /\ \A n \in DOMAIN asked : asked[n].seed = at <=> n + sub > Len(asked) + 1
    BY <2>1, <2>2 DEF LookupInv, PlaceInv, Refers, MaxReferrals
  <2>4. IsList(text)
    BY WhoisAnswersAssumption
  <2>5. FirstSays(text, ReferralLabels, server') /\ server' # server
    BY <2>1, <2>4, FirstFieldSays DEF Refers, Referral
  <2>6. Answered(<< text >>).items[1] = text
    BY DEF Answered
  <2>7. /\ sub' # 1 /\ sub' <= 4 /\ sub' <= Len(asked') + 1
        /\ \A n \in DOMAIN asked' : asked'[n].seed = at' <=> n + sub' > Len(asked') + 1
    <3>1. \A n \in DOMAIN asked : asked'[n].seed = at' <=> n + sub' > Len(asked') + 1
      BY <1>8, <2>1, <2>2, <2>3
    <3>2. LET n == Len(asked) + 1 IN asked'[n].seed = at' <=> n + sub' > Len(asked') + 1
      BY <1>8, <2>1, <2>2, <2>3
    <3>3. sub' # 1 /\ sub' <= 4 /\ sub' <= Len(asked') + 1
      BY <1>8, <2>1, <2>2, <2>3
    <3>4. \A n \in DOMAIN asked' : n \in DOMAIN asked \/ n = Len(asked) + 1
      BY <1>8, <2>1
    <3> QED
      BY <3>1, <3>2, <3>3, <3>4
  <2>8. /\ FirstSays(asked'[Len(asked')].answer.items[1], ReferralLabels, server')
        /\ server' # asked'[Len(asked')].service
    BY <1>8, <2>1, <2>5, <2>6
  <2>9. FirstSays(asked[Len(asked)].answer.items[1], ReferralLabels, server)'
    BY <2>8 DEF FirstSays
  <2> QED
    BY <2>2, <2>7, <2>8, <2>9 DEF LookupInv
<1>10. CASE LookedUp
  <2>1. PICK text : Ask(server, Answered(<< text >>))
    BY <1>10 DEF LookedUp
  <2>2. pc' = "seed" /\ sub' = 1 /\ at' = at + 1
    BY <1>10 DEF LookedUp, NextSeed
  <2>3. /\ \A n \in DOMAIN asked : asked'[n].seed < at'
        /\ asked'[Len(asked) + 1].seed < at'
        /\ \A n \in DOMAIN asked' : n \in DOMAIN asked \/ n = Len(asked) + 1
    BY <1>1, <1>2, <1>8, <2>1, <2>2
  <2>4. AtNewSeed'
    BY <2>3 DEF AtNewSeed
  <2> QED
    BY <1>3, <2>2, <2>4
<1> QED
  BY <1>4, <1>5, <1>6, <1>7, <1>9, <1>10, WhoisSteps

HopsInv == call.plugin = "whois" => Followed /\ Told

\* Nothing has been asked at first.
LEMMA InitLookup == Init => LookupInv /\ HopsInv
<1> SUFFICES ASSUME Init PROVE LookupInv /\ HopsInv
  OBVIOUS
<1>1. asked = << >> /\ pc = "start" /\ sub = 1 /\ DOMAIN asked = {}
  BY DEF Init
<1> QED
  BY <1>1 DEF LookupInv, AtNewSeed, HopsInv, Followed, Told

\* whois asks at most four servers about a seed, each the one that the answer before
\* referred to first, and reports what the last one said and nothing else.
THEOREM ReferralsAreFollowed == Spec => []WhoisFollowsReferrals
<1>1. Init => LookupInv /\ HopsInv
  BY InitLookup
<1>2. ASSUME CallInv, LinksMakeSense, LookupInv, HopsInv, [Next]_vars
      PROVE  LookupInv' /\ HopsInv'
  <2>1. UNCHANGED call
    BY <1>2, NextKinds DEF CallInv
  <2>2. CASE call.plugin = "whois"
    <3>1. Followed /\ Told
      BY <1>2, <2>2 DEF HopsInv
    <3>2. Followed' /\ Told' /\ LookupInv'
      BY <1>2, <2>2, <3>1, StepFollowed, StepTold, StepLookup DEF CallInv
    <3> QED
      BY <3>2 DEF HopsInv
  <2>3. CASE call.plugin # "whois"
    BY <2>1, <2>3 DEF LookupInv, HopsInv
  <2> QED
    BY <2>2, <2>3
<1>3. HopsInv => WhoisFollowsReferrals
  <2>1. CASE call.plugin = "whois"
    BY <2>1, WhoisParts DEF HopsInv
  <2>2. CASE call.plugin # "whois"
    BY <2>2 DEF WhoisFollowsReferrals
  <2> QED
    BY <2>1, <2>2
<1> QED
  BY <1>1, <1>2, <1>3, CallInvariance, PTL DEF Spec

=============================================================================
