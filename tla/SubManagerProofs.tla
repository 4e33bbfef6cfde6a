-------------------------- MODULE SubManagerProofs --------------------------
(***************************************************************************)
(* What the subscription manager does for every set of symbols, demands and *)
(* bounds: its variables keep their domains, a quota reading is taken only  *)
(* while no admission is in flight, only a symbol OpenD refuses is ever     *)
(* quarantined, no slot is forgotten, what is believed live is served, and  *)
(* the headroom of the quota stays free.                                    *)
(*                                                                         *)
(* The barrier of the reading rests on two counters that every worker       *)
(* shares.  The invariant ties both to what they count: the slots reserved  *)
(* are the keys the jobs and the recorder's worker have still to finish,    *)
(* and the holds are the readings and replays under way.  A reading that    *)
(* found no slot reserved then keeps others from reserving one, because its *)
(* own hold leaves nothing free.  That a connection starts its resync once  *)
(* needs the order of the notices.                                          *)
(***************************************************************************)
EXTENDS SubManager, SumProofs

\* what a job has reserved and not yet finished
ReservedBy(job) == (UNION job.in) \cup job.group
TokensOf(js) == {t \in Jobs \X Keys : t[2] \in ReservedBy(js[t[1]])}
ReplaysOf(js) == {j \in Jobs : js[j].at = "replay"}

\* A job that has no pass has nothing, and no key is in two of its groups.
Tame(job) ==
  /\ job.at \in {"unborn", "idle", "wait", "plan"} =>
       job.in = {} /\ job.group = {} /\ job.out = {} /\ job.batches = {} /\ job.flight = NoFlight
  /\ \A g, h \in job.in : g # h => g \cap h = {}
  /\ \A g \in job.in : g \cap job.group = {}
Shape == \A j \in Jobs : Tame(jobs[j])

Counted ==
  /\ pending = Cardinality(TokensOf(jobs)) + (IF books.at = "admit" THEN 1 ELSE 0)
  /\ holds = Cardinality(ReplaysOf(jobs)) + (IF poll.at = "idle" THEN 0 ELSE 1)
  /\ books.at = "admit" => Cardinality(books.key) = 1
  /\ books.flight # NoFlight => books.at # "idle" /\ books.flight.keys = books.key
ReadingAlone == poll.at = "read" => pending = 0

\* The notices alternate, and the last one is the state of the connection.
Alternate ==
  /\ \A i \in 1 .. Len(notices) - 1 : notices[i] # notices[i + 1]
  /\ notices # <<>> => (notices[Len(notices)] = "up" <=> linked)
\* A connection is resynced once, after its notice.
ToResync == IF notices = <<>> THEN ~linked ELSE notices[1] = "up"
ResyncOnce ==
  /\ ToResync /\ generation <= MaxDrops => jobs[Resync(generation)].at = "unborn"
  /\ \A g \in 0 .. MaxDrops : g > generation => jobs[Resync(g)].at = "unborn"
\* Each drop is noticed once: the notices of drops are those not yet handled.
Up == IF linked THEN 1 ELSE 0
Drops == conn - Up
Noticed ==
  /\ Drops <= MaxDrops
  /\ IF notices = <<>> THEN generation = Drops
     ELSE 2 * (Drops - generation) + Up =
            IF notices[1] = "down" THEN Len(notices) + 1 ELSE Len(notices)

\* A symbol is blamed for an answer about it.
Blamed == \A j \in Jobs :
  jobs[j].flight.reply = "symbol" => SymbolsOf(jobs[j].flight.keys) \cap Bad # {}

Noticing == Alternate /\ ResyncOnce /\ Noticed
IInv == TypeOK /\ Shape /\ Counted /\ ReadingAlone /\ Noticing /\ Blamed /\ OnlyBadQuarantined
-----------------------------------------------------------------------------
(* The operators *)

LEMMA PairsAreFinite ==
  ASSUME NEW a, NEW b
  PROVE  IsFiniteSet({a, b})
<1>1. {a, b} = {a} \cup {b}
  OBVIOUS
<1>2. IsFiniteSet({a} \cup {b})
  BY FS_Singleton, FS_Union
<1> QED BY <1>1, <1>2

LEMMA Finite ==
  /\ IsFiniteSet(Jobs) /\ IsFiniteSet(Keys)
  /\ \A js : IsFiniteSet(TokensOf(js)) /\ Cardinality(TokensOf(js)) \in Nat
  /\ \A js : IsFiniteSet(ReplaysOf(js)) /\ Cardinality(ReplaysOf(js)) \in Nat
<1>1. IsFiniteSet(Keys)
  <2>1. IsFiniteSet(Symbols)
    BY FS_Interval, SubAssumption DEF Symbols
  <2>2. IsFiniteSet(Subs)
    BY PairsAreFinite DEF Subs
  <2> QED BY <2>1, <2>2, FS_Product DEF Keys
<1>2. IsFiniteSet(Jobs)
  <2> DEFINE G == 0 .. MaxDrops
  <2>1. IsFiniteSet(G)
    BY FS_Interval, SubAssumption
  <2>2. IsFiniteSet({"worker", "resync"})
    BY PairsAreFinite
  <2>3. IsFiniteSet({"worker", "resync"} \X G)
    BY <2>1, <2>2, FS_Product
  <2>4. Jobs \subseteq {"worker", "resync"} \X G
    BY SubAssumption DEF Jobs, Worker, Resync
  <2> QED BY <2>3, <2>4, FS_Subset
<1>3. IsFiniteSet(Jobs \X Keys)
  BY <1>1, <1>2, FS_Product
<1>4. \A js : TokensOf(js) \in SUBSET (Jobs \X Keys) /\ ReplaysOf(js) \in SUBSET Jobs
  BY DEF TokensOf, ReplaysOf
<1> QED BY <1>1, <1>2, <1>3, <1>4, FS_Subset, FS_CardinalityType

LEMMA KeySetsAreFinite ==
  ASSUME NEW ks \in SUBSET Keys
  PROVE  IsFiniteSet(ks) /\ Cardinality(ks) \in Nat
BY Finite, FS_Subset, FS_CardinalityType

LEMMA MinIsIn ==
  ASSUME NEW S \in SUBSET Symbols, S # {}
  PROVE  Min(S) \in S
<1>1. S \subseteq Nat
  BY SubAssumption DEF Symbols
<1>2. PICK m \in S : \A y \in S : ~(<<y, m>> \in OpToRel(<, Nat))
  BY <1>1, NatLessThanWellFounded, WFMin
<1>3. ASSUME NEW y \in S PROVE m <= y
  <2>1. <<y, m>> \notin OpToRel(<, Nat)
    BY <1>2
  <2>2. y \in Nat /\ m \in Nat
    BY <1>1
  <2>3. ~(y < m)
    BY <2>1, <2>2 DEF OpToRel
  <2> QED BY <2>2, <2>3
<1>4. \E x \in S : \A y \in S : x <= y
  BY <1>3
<1> QED BY <1>4 DEF Min

\* Symbols are grouped by what is asked of them (groupBySubTypeSet): the
\* groups of a set of keys cover it and are disjoint.
LEMMA GroupsPartition ==
  ASSUME NEW ks \in SUBSET Keys
  PROVE  /\ Groups(ks) \subseteq SUBSET ks
         /\ UNION Groups(ks) = ks
         /\ \A g, h \in Groups(ks) : g # h => g \cap h = {}
<1>1. Groups(ks) \subseteq SUBSET ks
  BY DEF Groups
<1>2. ks \subseteq UNION Groups(ks)
  BY DEF Groups, SymbolsOf
<1>3. ASSUME NEW g \in Groups(ks), NEW h \in Groups(ks), NEW k \in g, k \in h
      PROVE  g = h
  <2>1. PICK s \in SymbolsOf(ks) : g = {l \in ks : SubsIn(l[1], ks) = SubsIn(s, ks)}
    BY DEF Groups
  <2>2. PICK u \in SymbolsOf(ks) : h = {l \in ks : SubsIn(l[1], ks) = SubsIn(u, ks)}
    BY DEF Groups
  <2>3. SubsIn(s, ks) = SubsIn(u, ks)
    BY <1>3, <2>1, <2>2
  <2> QED BY <2>1, <2>2, <2>3
<1> QED BY <1>1, <1>2, <1>3

\* What a step of one job does to what all have reserved.
LEMMA TokensKept ==
  ASSUME NEW js, js \in [Jobs -> JobRecord], NEW j \in Jobs, NEW r, 
         ReservedBy(r) = ReservedBy(js[j])
  PROVE  TokensOf([js EXCEPT ![j] = r]) = TokensOf(js)
BY DEF TokensOf

LEMMA TokensAdded ==
  ASSUME NEW js, js \in [Jobs -> JobRecord], NEW j \in Jobs, NEW r,
         NEW ks \in SUBSET Keys, ReservedBy(js[j]) = {}, ReservedBy(r) = ks
  PROVE  Cardinality(TokensOf([js EXCEPT ![j] = r])) = Cardinality(TokensOf(js)) + Cardinality(ks)
<1> DEFINE T == {j} \X ks
<1>1. IsFiniteSet(T) /\ Cardinality(T) = Cardinality(ks) /\ Cardinality(ks) \in Nat
  <2>1. IsFiniteSet({j}) /\ Cardinality({j}) = 1
    BY FS_Singleton
  <2>2. IsFiniteSet(ks) /\ Cardinality(ks) \in Nat
    BY KeySetsAreFinite
  <2>3. IsFiniteSet(T) /\ Cardinality(T) = Cardinality({j}) * Cardinality(ks)
    BY <2>1, <2>2, FS_Product
  <2> QED BY <2>1, <2>2, <2>3
<1>2. TokensOf([js EXCEPT ![j] = r]) = TokensOf(js) \cup T
  BY DEF TokensOf
<1>3. TokensOf(js) \cap T = {}
  BY DEF TokensOf
<1>4. Cardinality(TokensOf(js) \cup T) = Cardinality(TokensOf(js)) + Cardinality(T) - Cardinality({})
  BY <1>1, <1>3, Finite, FS_Union
<1>5. Cardinality(TokensOf(js)) \in Nat /\ Cardinality({}) = 0
  BY Finite, FS_EmptySet
<1>6. Cardinality(TokensOf(js) \cup T) = Cardinality(TokensOf(js)) + Cardinality(ks)
  <2> HIDE DEF T
  <2> QED BY <1>1, <1>4, <1>5
<1> QED BY <1>2, <1>6

\* r reserves what job j does, but for ks
Sheds(js, j, r, ks) ==
  ReservedBy(js[j]) = ReservedBy(r) \cup ks /\ ReservedBy(r) \cap ks = {}

LEMMA TokensTaken ==
  ASSUME NEW js, js \in [Jobs -> JobRecord], NEW j \in Jobs, NEW r,
         NEW ks \in SUBSET Keys, Sheds(js, j, r, ks)
  PROVE  Cardinality(TokensOf([js EXCEPT ![j] = r])) + Cardinality(ks) = Cardinality(TokensOf(js))
<1> DEFINE T == {j} \X ks
           after == TokensOf([js EXCEPT ![j] = r])
<1>1. IsFiniteSet(T) /\ Cardinality(T) = Cardinality(ks) /\ Cardinality(ks) \in Nat
  <2>1. IsFiniteSet({j}) /\ Cardinality({j}) = 1
    BY FS_Singleton
  <2>2. IsFiniteSet(ks) /\ Cardinality(ks) \in Nat
    BY KeySetsAreFinite
  <2>3. IsFiniteSet(T) /\ Cardinality(T) = Cardinality({j}) * Cardinality(ks)
    BY <2>1, <2>2, FS_Product
  <2> QED BY <2>1, <2>2, <2>3
<1>2. TokensOf(js) = after \cup T
  BY DEF TokensOf, Sheds
<1>3. after \cap T = {}
  BY DEF TokensOf, Sheds
<1>4. Cardinality(after \cup T) = Cardinality(after) + Cardinality(T) - Cardinality({})
  <2>1. IsFiniteSet(after)
    BY Finite
  <2> HIDE DEF T, after
  <2> QED BY <1>1, <1>3, <2>1, FS_Union
<1>5. Cardinality(after) \in Nat /\ Cardinality({}) = 0
  BY Finite, FS_EmptySet
<1>6. Cardinality(TokensOf(js)) = Cardinality(after) + Cardinality(ks)
  <2> HIDE DEF T, after
  <2> QED BY <1>1, <1>2, <1>4, <1>5
<1> QED BY <1>5, <1>6

-----------------------------------------------------------------------------
(* Domains *)

LEMMA Naturals ==
  ASSUME NEW a \in Nat, NEW b \in Nat
  PROVE  Minus(a, b) \in Nat /\ Minus(a, b) <= a /\ Least(a, b) \in Nat
BY DEF Minus, Least

\* What somebody wants are keys, each of a symbol somebody demands.
LEMMA WantedAreKeys ==
  /\ Wanted \subseteq Keys
  /\ \A k \in Wanted : \E d \in DOMAIN Demands : demands[d] > 0 /\ Demands[d].symbol = k[1]
<1> SUFFICES ASSUME NEW k \in Wanted
             PROVE  /\ k \in Keys
                    /\ \E d \in DOMAIN Demands : demands[d] > 0 /\ Demands[d].symbol = k[1]
  OBVIOUS
<1>1. PICK d \in DOMAIN Demands : demands[d] > 0 /\ k \in KeysOf[d]
  BY DEF Wanted, WantedBy
<1>2. PICK x \in Demands[d].subs : k = <<Demands[d].symbol, x>>
  BY <1>1 DEF KeysOf
<1>3. Demands[d].symbol \in Symbols /\ Demands[d].subs \subseteq Subs
  BY SubAssumption
<1>4. k \in Keys /\ k[1] = Demands[d].symbol
  BY <1>2, <1>3 DEF Keys
<1> QED BY <1>1, <1>4

LEMMA DesiredIsWanted ==
  ASSUME NEW cap
  PROVE  Desired(cap) \subseteq Wanted \ quarantine /\ Wanted \subseteq Keys
<1> DEFINE Kept(ss) == {k \in Wanted \ quarantine : k[1] \in ss}
<1>1. \A ss : Kept(ss) \subseteq Wanted \ quarantine
  OBVIOUS
<1>2. Desired(cap) \subseteq Wanted \ quarantine
  BY <1>1 DEF Desired
<1> QED BY <1>2, WantedAreKeys

LEMMA AnswerType ==
  ASSUME TypeOK, NEW ks \in SUBSET Keys, NEW r \in Replies
  PROVE  Answer(ks, r) \in Flight /\ Answer(ks, r) # NoFlight
BY DEF TypeOK, Answer, Flight, NoFlight, Replies

LEMMA IdleType == Idle \in JobRecord /\ NoFlight \in Flight /\ Tame(Idle)
BY DEF Idle, JobRecord, Flight, NoFlight, Tame

LEMMA Tidies ==
  ASSUME NEW job \in JobRecord, job.at # "unborn"
  PROVE  /\ Tidy(job) \in JobRecord /\ Tidy(job).at # "unborn"
         /\ ReservedBy(Tidy(job)) = ReservedBy(job)
         /\ (Tidy(job).at = "replay") <=> (job.at = "replay")
         /\ Tame(job) => Tame(Tidy(job))
         /\ Tidy(job).flight = job.flight
<1>1. CASE Tidy(job) = job
  BY <1>1
<1>2. CASE Tidy(job) # job
  <2>1. /\ Tidy(job) = Idle
        /\ job.at = "pass" /\ job.in = {} /\ job.group = {} /\ job.flight = NoFlight
    BY <1>2 DEF Tidy
  <2> QED BY <2>1, IdleType DEF ReservedBy, Idle
<1> QED BY <1>1, <1>2

\* A request leaves OpenD's keys keys, and its answer is about them.
LEMMA RequestTypes ==
  ASSUME TypeOK, NEW ks \in SUBSET Keys, NEW r \in Replies,
         \/ Subscribes(ks, r)
         \/ Unsubscribes(ks, r)
         \/ UNCHANGED <<held, upsets>>
  PROVE  server' \in SUBSET Keys /\ adrift' \in SUBSET Keys /\ upsets' \in 0 .. MaxUpsets
BY SubAssumption, SMTT(60) DEF TypeOK, Subscribes, Unsubscribes, held, Upset

LEMMA SlotTypes ==
  ASSUME TypeOK, NEW ks \in SUBSET Keys,
         Forget(ks) \/ Admit(ks) \/ UNCHANGED slots \/ NoSlots
  PROVE  /\ active' \subseteq Keys /\ young' \subseteq active'
         /\ lapsed' \subseteq dropped' /\ dropped' \subseteq active'
BY DEF TypeOK, Forget, Admit, slots, NoSlots
-----------------------------------------------------------------------------
(* A step of one job *)

LEMMA JobStep ==
  ASSUME IInv, NEW j \in Jobs, NEW r \in JobRecord,
         jobs' = [jobs EXCEPT ![j] = r], jobs[j].at # "unborn", Tame(r),
         r.flight.reply = "symbol" => SymbolsOf(r.flight.keys) \cap Bad # {},
         UNCHANGED <<conn, linked, notices, generation>>
  PROVE  jobs' \in [Jobs -> JobRecord] /\ Shape' /\ Noticing' /\ Blamed'
<1>1. jobs \in [Jobs -> JobRecord]
  BY DEF IInv, TypeOK
<1>2. jobs' \in [Jobs -> JobRecord] /\ Shape' /\ Blamed'
  BY <1>1 DEF IInv, Shape, Blamed
<1>3. Alternate' /\ Noticed'
  BY DEF IInv, Noticing, Alternate, Noticed, Drops, Up
<1>4. ResyncOnce'
  <2>1. ToResync' = ToResync
    BY DEF ToResync
  <2>2. \A g \in 0 .. MaxDrops : Resync(g) \in Jobs
    BY DEF Jobs
  <2>3. generation \in 0 .. MaxDrops
    BY DEF IInv, TypeOK
  <2>4. \A i \in Jobs : jobs[i].at = "unborn" => jobs'[i].at = "unborn"
    BY <1>1
  <2> QED BY <2>1, <2>2, <2>3, <2>4 DEF IInv, Noticing, ResyncOnce
<1> QED BY <1>2, <1>3, <1>4 DEF Noticing

\* A step that touches no job and no notice.
LEMMA OtherStep ==
  ASSUME IInv, UNCHANGED <<jobs, conn, linked, notices, generation>>
  PROVE  Shape' /\ Noticing' /\ Blamed'
BY DEF IInv, Shape, Noticing, Alternate, Noticed, Drops, Up, ResyncOnce, ToResync, Blamed

\* Reservations of a job stay, are made and are finished.
LEMMA CountKept ==
  ASSUME IInv, NEW j \in Jobs, NEW r \in JobRecord,
         jobs' = [jobs EXCEPT ![j] = r], ReservedBy(r) = ReservedBy(jobs[j]),
         (r.at = "replay") <=> (jobs[j].at = "replay"),
         UNCHANGED <<pending, holds, books, poll>>
  PROVE  Counted' /\ ReadingAlone'
<1>1. jobs \in [Jobs -> JobRecord]
  BY DEF IInv, TypeOK
<1>2. TokensOf(jobs') = TokensOf(jobs)
  BY <1>1, TokensKept
<1>3. ReplaysOf(jobs') = ReplaysOf(jobs)
  BY <1>1 DEF ReplaysOf
<1> QED BY <1>2, <1>3 DEF IInv, Counted, ReadingAlone

LEMMA PlanStep ==
  ASSUME IInv, NEW j \in Jobs, Plan(j)
  PROVE  IInv'
<1> DEFINE stamped == (dropped \cup (active \ (Wanted \cup optional))) \ Wanted
           ripe == lapsed \ Wanted
           pinned == {k \in active \ Wanted : k \in optional \cup young}
           cap == Minus(Least(Budget, Cardinality(active) + Free), Cardinality(pinned))
           want == Desired(cap)
           new == want \ active
           adds == {k \in new : Cardinality({l \in new : KeyAhead(l, k)}) < Free}
           loose == active \ (optional \cup want \cup young)
           leave == {k \in loose : \/ k[1] \in Demanded /\ ~Ordinary(k[1])
                                   \/ k \in ripe}
           lingering == (loose \cap stamped) \ leave
           excess == Minus(Cardinality(active) + Cardinality(adds), Cardinality(leave) + Budget)
<1>1. PICK removes \in SUBSET active :
        /\ jobs' = [jobs EXCEPT ![j] = Tidy([Idle EXCEPT !.at = "pass", !.gen = generation,
                                               !.out = Groups(removes), !.in = Groups(adds)])]
        /\ pending' = pending + Cardinality(adds)
  <2>1. PICK evicted \in kSubset(Least(excess, Cardinality(lingering)), lingering) :
          jobs' = [jobs EXCEPT ![j] = Tidy([Idle EXCEPT !.at = "pass", !.gen = generation,
                                               !.out = Groups(leave \cup evicted),
                                               !.in = Groups(adds)])]
    BY DEF Plan
  <2>2. evicted \in SUBSET lingering
    <3> HIDE DEF lingering, excess
    <3> QED BY <2>1 DEF kSubset
  <2>3. leave \cup evicted \in SUBSET active
    BY <2>2
  <2>4. pending' = pending + Cardinality(adds)
    BY DEF Plan
  <2> HIDE DEF adds, leave
  <2> QED BY <2>1, <2>3, <2>4
<1>2. new \in SUBSET Keys /\ adds \in SUBSET Keys /\ Cardinality(adds) \in Nat
  <2>1. new \in SUBSET Keys
    BY DesiredIsWanted
  <2> QED BY <2>1, KeySetsAreFinite
<1>3. removes \in SUBSET Keys
  BY DEF IInv, TypeOK
<1> DEFINE job == [Idle EXCEPT !.at = "pass", !.gen = generation,
                               !.out = Groups(removes), !.in = Groups(adds)]
<1>4. job \in JobRecord /\ job.at = "pass" /\ ReservedBy(job) = adds /\ Tame(job)
      /\ job.flight = NoFlight
  <2>1. Groups(adds) \in SUBSET SUBSET Keys /\ UNION Groups(adds) = adds
        /\ Groups(removes) \in SUBSET SUBSET Keys
        /\ \A g, h \in Groups(adds) : g # h => g \cap h = {}
    <3> HIDE DEF adds, job
    <3>1. \A ks \in SUBSET Keys :
            /\ Groups(ks) \in SUBSET SUBSET Keys /\ UNION Groups(ks) = ks
            /\ \A g, h \in Groups(ks) : g # h => g \cap h = {}
      BY GroupsPartition
    <3> QED BY <1>2, <1>3, <3>1
  <2>2. generation \in Nat
    BY SubAssumption DEF IInv, TypeOK
  <2> HIDE DEF adds, new
  <2> QED BY <2>1, <2>2 DEF Idle, JobRecord, Tame, ReservedBy, Flight
<1>5. jobs[j].at \in {"idle", "plan"} /\ jobs \in [Jobs -> JobRecord]
  BY DEF Plan, IInv, TypeOK
<1>6. Tidy(job) \in JobRecord /\ Tame(Tidy(job)) /\ ReservedBy(Tidy(job)) = adds
      /\ Tidy(job).at # "replay" /\ Tidy(job).flight = NoFlight
  <2> HIDE DEF job, adds
  <2> QED BY <1>4, Tidies
<1>7. jobs' \in [Jobs -> JobRecord] /\ Shape' /\ Noticing' /\ Blamed'
  <2>1. UNCHANGED <<conn, linked, notices, generation>>
    BY DEF Plan, epoch, link
  <2>2. jobs' = [jobs EXCEPT ![j] = Tidy(job)]
    BY <1>1
  <2>3. NoFlight.reply # "symbol" /\ jobs[j].at # "unborn"
    BY <1>5 DEF NoFlight
  <2> HIDE DEF job, adds
  <2> QED BY <1>5, <1>6, <2>1, <2>2, <2>3, JobStep
<1>8. ReservedBy(jobs[j]) = {} /\ jobs[j].at # "replay"
  BY <1>5 DEF IInv, Shape, Tame, ReservedBy
<1>9. Counted'
  <2>1. Cardinality(TokensOf(jobs')) = Cardinality(TokensOf(jobs)) + Cardinality(adds)
    <3>1. jobs' = [jobs EXCEPT ![j] = Tidy(job)]
      BY <1>1
    <3> HIDE DEF job, adds
    <3> QED BY <1>2, <1>5, <1>6, <1>8, <3>1, TokensAdded
  <2>2. ReplaysOf(jobs') = ReplaysOf(jobs)
    <3>1. jobs' = [jobs EXCEPT ![j] = Tidy(job)]
      BY <1>1
    <3> HIDE DEF job, adds
    <3> QED BY <1>5, <1>6, <1>8, <3>1 DEF ReplaysOf
  <2>3. UNCHANGED <<holds, books, poll>> /\ pending' = pending + Cardinality(adds)
    BY <1>1 DEF Plan
  <2>4. Cardinality(TokensOf(jobs)) \in Nat
    BY Finite
  <2> HIDE DEF adds
  <2> QED BY <1>2, <2>1, <2>2, <2>3, <2>4 DEF IInv, Counted
\* nothing is free while somebody holds
<1>10. ReadingAlone'
  <2>1. CASE poll.at = "read"
    <3>1. holds > 0
      <4>1. Cardinality(ReplaysOf(jobs)) \in Nat
        BY Finite
      <4> QED BY <2>1, <4>1 DEF IInv, Counted
    <3>2. Free = 0
      BY <3>1 DEF Free, NoBudget
    <3>3. adds = {}
      <4>1. \A k : {l \in new : KeyAhead(l, k)} \in SUBSET Keys
        BY <1>2
      <4>2. \A k : Cardinality({l \in new : KeyAhead(l, k)}) \in Nat
        BY <4>1, KeySetsAreFinite
      <4> HIDE DEF new
      <4> QED BY <3>2, <4>2
    <3>4. Cardinality(adds) = 0
      BY <3>3, FS_EmptySet
    <3>5. pending = 0 /\ pending' = pending + Cardinality(adds)
      BY <1>1, <2>1 DEF IInv, ReadingAlone
    <3> HIDE DEF adds
    <3> QED BY <3>4, <3>5 DEF ReadingAlone
  <2>2. CASE poll.at # "read"
    BY <2>2 DEF Plan, ReadingAlone
  <2> QED BY <2>1, <2>2
<1>11. TypeOK' /\ OnlyBadQuarantined'
  <2>1. pending' \in Nat
    <3>1. pending' = pending + Cardinality(adds) /\ pending \in Nat
      BY <1>1 DEF IInv, TypeOK
    <3> HIDE DEF adds
    <3> QED BY <1>2, <3>1
  <2>2. dropped' = (dropped \cup (active \ (Wanted \cup optional))) \ Wanted /\ lapsed' = lapsed \ Wanted
    BY DEF Plan
  <2>3. UNCHANGED <<demands, active, young, optional, blame, bookFails, known, remain, spent, holds,
                     epoch, books, poll, link, held, odd, calls, upsets>>
    BY DEF Plan
  <2> QED BY <1>7, <2>1, <2>2, <2>3 DEF IInv, TypeOK, OnlyBadQuarantined, epoch, link, held, blame
<1> QED BY <1>7, <1>9, <1>10, <1>11 DEF IInv

\* The jobs that have something under way are at a pass or a replay.
LEMMA Busy ==
  ASSUME IInv, NEW j \in Jobs,
         \/ jobs[j].in # {} \/ jobs[j].group # {} \/ jobs[j].out # {}
         \/ jobs[j].batches # {} \/ jobs[j].flight # NoFlight
  PROVE  jobs[j] \in JobRecord /\ jobs[j].at \in {"pass", "replay"} /\ Tame(jobs[j])
<1>1. jobs[j] \in JobRecord
  BY DEF IInv, TypeOK
<1> QED BY <1>1 DEF IInv, Shape, Tame, JobRecord

\* A change of what is under way that keeps what is reserved.
LEMMA UnderWay ==
  ASSUME IInv, NEW j \in Jobs, jobs[j].at \in {"pass", "replay"},
         NEW out \in SUBSET SUBSET Keys, NEW batches \in SUBSET SUBSET Keys, NEW flight \in Flight,
         flight.reply = "symbol" => SymbolsOf(flight.keys) \cap Bad # {},
         \/ jobs' = [jobs EXCEPT ![j] = [@ EXCEPT !.out = out, !.batches = batches, !.flight = flight]]
         \/ jobs' = [jobs EXCEPT ![j] = Tidy([@ EXCEPT !.out = out, !.batches = batches, !.flight = flight])],
         UNCHANGED <<conn, linked, notices, generation, pending, holds, books, poll>>
  PROVE  jobs' \in [Jobs -> JobRecord] /\ Shape' /\ Noticing' /\ Blamed' /\ Counted' /\ ReadingAlone'
<1> DEFINE job == [jobs[j] EXCEPT !.out = out, !.batches = batches, !.flight = flight]
<1>1. jobs[j] \in JobRecord /\ Tame(jobs[j])
  BY DEF IInv, TypeOK, Shape
<1>2. /\ job \in JobRecord /\ job.at = jobs[j].at /\ Tame(job)
      /\ ReservedBy(job) = ReservedBy(jobs[j]) /\ job.flight = flight
  BY <1>1 DEF JobRecord, Tame, ReservedBy
<1>3. PICK r \in {job, Tidy(job)} : jobs' = [jobs EXCEPT ![j] = r]
  OBVIOUS
<1>4. /\ r \in JobRecord /\ Tame(r) /\ ReservedBy(r) = ReservedBy(jobs[j])
      /\ (r.at = "replay") <=> (jobs[j].at = "replay")
      /\ r.flight = flight
  <2> HIDE DEF job
  <2> QED BY <1>2, <1>3, Tidies
<1> HIDE DEF job
<1> QED BY <1>3, <1>4, JobStep, CountKept

LEMMA UnsubscribeStep ==
  ASSUME IInv, NEW j \in Jobs, Unsubscribe(j)
  PROVE  IInv'
<1>1. PICK g \in jobs[j].out, r \in Replies :
        /\ \/ r = "error" /\ UNCHANGED <<held, upsets>>
           \/ Unsubscribes(g, r)
        /\ jobs' = [jobs EXCEPT ![j].out = @ \ {g}, ![j].flight = Answer(g, r)]
  BY DEF Unsubscribe
<1>2. jobs[j] \in JobRecord /\ jobs[j].at \in {"pass", "replay"}
  BY Busy DEF Unsubscribe
<1>3. g \in SUBSET Keys /\ jobs[j].out \ {g} \in SUBSET SUBSET Keys /\ jobs[j].batches \in SUBSET SUBSET Keys
  BY <1>2 DEF JobRecord
<1>4. Answer(g, r) \in Flight /\ Answer(g, r).reply # "symbol"
  BY <1>1, <1>3, AnswerType DEF IInv, Answer, Unsubscribes
<1>5. jobs' = [jobs EXCEPT ![j] = [@ EXCEPT !.out = jobs[j].out \ {g}, !.batches = jobs[j].batches,
                                            !.flight = Answer(g, r)]]
  BY <1>1, <1>2 DEF JobRecord, IInv, TypeOK
<1>6. jobs' \in [Jobs -> JobRecord] /\ Shape' /\ Noticing' /\ Blamed' /\ Counted' /\ ReadingAlone'
  BY <1>2, <1>3, <1>4, <1>5, UnderWay DEF Unsubscribe, link, ledger, epoch
<1>7. server' \in SUBSET Keys /\ adrift' \in SUBSET Keys /\ upsets' \in 0 .. MaxUpsets
  BY <1>1, <1>3, RequestTypes DEF IInv
<1> QED BY <1>6, <1>7 DEF Unsubscribe, IInv, TypeOK, OnlyBadQuarantined, link, ledger, epoch, slots, blame

LEMMA UnsubscribedStep ==
  ASSUME IInv, NEW j \in Jobs, Unsubscribed(j)
  PROVE  IInv'
<1> DEFINE f == jobs[j].flight
<1>1. jobs[j] \in JobRecord /\ jobs[j].at \in {"pass", "replay"}
  BY Busy DEF Unsubscribed
<1>2. f.keys \in SUBSET Keys
  BY <1>1 DEF JobRecord, Flight, NoFlight
<1>3. Forget(f.keys) \/ UNCHANGED slots
  BY DEF Unsubscribed
<1>4. jobs' = [jobs EXCEPT ![j] = Tidy([@ EXCEPT !.out = jobs[j].out, !.batches = jobs[j].batches,
                                                 !.flight = NoFlight])]
  <2>1. [jobs[j] EXCEPT !.flight = NoFlight] =
          [jobs[j] EXCEPT !.out = jobs[j].out, !.batches = jobs[j].batches, !.flight = NoFlight]
    BY <1>1 DEF JobRecord
  <2>2. jobs' = [jobs EXCEPT ![j] = Tidy([jobs[j] EXCEPT !.flight = NoFlight])]
    BY DEF Unsubscribed
  <2> QED BY <2>1, <2>2
<1>5. jobs' \in [Jobs -> JobRecord] /\ Shape' /\ Noticing' /\ Blamed' /\ Counted' /\ ReadingAlone'
  <2>1. NoFlight \in Flight /\ NoFlight.reply # "symbol"
    BY IdleType DEF NoFlight
  <2>2. jobs[j].out \in SUBSET SUBSET Keys /\ jobs[j].batches \in SUBSET SUBSET Keys
    BY <1>1 DEF JobRecord
  <2>3. UNCHANGED <<conn, linked, notices, generation, pending, holds, books, poll>>
    BY DEF Unsubscribed, link, ledger, epoch
  <2> QED BY <1>1, <1>4, <2>1, <2>2, <2>3, UnderWay
<1>6. /\ active' \subseteq Keys /\ young' \subseteq active'
      /\ lapsed' \subseteq dropped' /\ dropped' \subseteq active'
  BY <1>2, <1>3, SlotTypes DEF IInv
<1> QED BY <1>5, <1>6
        DEF Unsubscribed, IInv, TypeOK, OnlyBadQuarantined, link, ledger, epoch, blame, held

LEMMA TakeGroupStep ==
  ASSUME IInv, NEW j \in Jobs, TakeGroup(j)
  PROVE  IInv'
<1>1. PICK g \in jobs[j].in : \E bs \in {{}, {g}} :
        jobs' = [jobs EXCEPT ![j].in = @ \ {g}, ![j].group = g, ![j].batches = bs]
  BY DEF TakeGroup
<1>2. PICK bs \in {{}, {g}} : jobs' = [jobs EXCEPT ![j].in = @ \ {g}, ![j].group = g, ![j].batches = bs]
  BY <1>1
<1>3. /\ jobs[j] \in JobRecord /\ Tame(jobs[j]) /\ jobs[j].at \in {"pass", "replay"}
      /\ jobs[j].group = {} /\ jobs[j].flight = NoFlight
  BY DEF TakeGroup, IInv, TypeOK, Shape
<1> DEFINE job == [jobs[j] EXCEPT !.in = jobs[j].in \ {g}, !.group = g, !.batches = bs]
<1>4. jobs' = [jobs EXCEPT ![j] = job]
  BY <1>2, <1>3 DEF JobRecord, IInv, TypeOK
<1>5. job \in JobRecord /\ Tame(job) /\ job.at = jobs[j].at /\ job.flight = NoFlight
      /\ ReservedBy(job) = ReservedBy(jobs[j])
  <2>1. job \in JobRecord /\ job.at = jobs[j].at /\ job.flight = NoFlight
        /\ job.in = jobs[j].in \ {g} /\ job.group = g
    BY ZenonT(40), <1>3 DEF JobRecord
  <2>2. Tame(job)
    <3> HIDE DEF job
    <3> QED BY <1>3, <2>1 DEF Tame
  <2>3. ReservedBy(job) = ReservedBy(jobs[j])
    <3>1. UNION jobs[j].in = (UNION (jobs[j].in \ {g})) \cup g
      OBVIOUS
    <3>2. UNION job.in = UNION (jobs[j].in \ {g}) /\ job.group = g
      BY <2>1
    <3> HIDE DEF job
    <3>3. (UNION job.in) \cup job.group = (UNION jobs[j].in) \cup jobs[j].group
      BY <1>3, <3>1, <3>2
    <3> QED BY <3>3 DEF ReservedBy
  <2> QED BY <2>1, <2>2, <2>3
<1>6. jobs' \in [Jobs -> JobRecord] /\ Shape' /\ Noticing' /\ Blamed' /\ Counted' /\ ReadingAlone'
  <2>1. NoFlight.reply # "symbol"
    BY DEF NoFlight
  <2> HIDE DEF job
  <2> QED BY <1>3, <1>4, <1>5, <2>1, JobStep, CountKept DEF TakeGroup, link, ledger, epoch
<1> QED BY <1>6
        DEF TakeGroup, IInv, TypeOK, OnlyBadQuarantined, link, ledger, epoch, slots, blame, held

LEMMA SubscribeStep ==
  ASSUME IInv, NEW j \in Jobs, Subscribe(j)
  PROVE  IInv'
<1>1. PICK b \in jobs[j].batches :
        \/ /\ jobs' = [jobs EXCEPT ![j].batches = @ \ {b}]
           /\ UNCHANGED <<held, upsets>>
        \/ \E r \in Replies :
             /\ Subscribes(b, r)
             /\ jobs' = [jobs EXCEPT ![j].batches = @ \ {b}, ![j].flight = Answer(b, r)]
  BY DEF Subscribe
<1>2. jobs[j] \in JobRecord /\ jobs[j].at \in {"pass", "replay"}
  BY Busy DEF Subscribe
<1>3. b \in SUBSET Keys /\ jobs[j].out \in SUBSET SUBSET Keys /\ jobs[j].flight \in Flight
      /\ jobs[j].batches \ {b} \in SUBSET SUBSET Keys
  BY <1>2 DEF JobRecord
<1>4. UNCHANGED <<conn, linked, notices, generation, pending, holds, books, poll>>
  BY DEF Subscribe, link, ledger, epoch
<1>5. CASE /\ jobs' = [jobs EXCEPT ![j].batches = @ \ {b}]
           /\ UNCHANGED <<held, upsets>>
  <2>1. jobs' = [jobs EXCEPT ![j] = [@ EXCEPT !.out = jobs[j].out, !.batches = jobs[j].batches \ {b},
                                              !.flight = jobs[j].flight]]
    BY <1>2, <1>5 DEF JobRecord, IInv, TypeOK
  <2>2. jobs[j].flight.reply = "symbol" => SymbolsOf(jobs[j].flight.keys) \cap Bad # {}
    BY DEF IInv, Blamed
  <2>3. jobs' \in [Jobs -> JobRecord] /\ Shape' /\ Noticing' /\ Blamed' /\ Counted' /\ ReadingAlone'
    BY <1>2, <1>3, <1>4, <2>1, <2>2, UnderWay
  <2> QED BY <1>5, <2>3
          DEF Subscribe, IInv, TypeOK, OnlyBadQuarantined, link, ledger, epoch, slots, blame, held
<1>6. CASE \E r \in Replies :
             /\ Subscribes(b, r)
             /\ jobs' = [jobs EXCEPT ![j].batches = @ \ {b}, ![j].flight = Answer(b, r)]
  <2>1. PICK r \in Replies :
             /\ Subscribes(b, r)
             /\ jobs' = [jobs EXCEPT ![j].batches = @ \ {b}, ![j].flight = Answer(b, r)]
    BY <1>6
  <2>2. jobs' = [jobs EXCEPT ![j] = [@ EXCEPT !.out = jobs[j].out, !.batches = jobs[j].batches \ {b},
                                              !.flight = Answer(b, r)]]
    BY <1>2, <2>1 DEF JobRecord, IInv, TypeOK
  <2>3. Answer(b, r) \in Flight
    BY <1>3, AnswerType DEF IInv
  <2>4. Answer(b, r).reply = "symbol" => SymbolsOf(Answer(b, r).keys) \cap Bad # {}
    BY <2>1 DEF Answer, Subscribes
  <2>5. jobs' \in [Jobs -> JobRecord] /\ Shape' /\ Noticing' /\ Blamed' /\ Counted' /\ ReadingAlone'
    BY <1>2, <1>3, <1>4, <2>2, <2>3, <2>4, UnderWay
  <2>6. server' \in SUBSET Keys /\ adrift' \in SUBSET Keys /\ upsets' \in 0 .. MaxUpsets
    BY <1>3, <2>1, RequestTypes DEF IInv
  <2> QED BY <2>5, <2>6
          DEF Subscribe, IInv, TypeOK, OnlyBadQuarantined, link, ledger, epoch, slots, blame
<1> QED BY <1>1, <1>5, <1>6

\* Keys of one symbol are blamed at most; it is one that OpenD refuses.
LEMMA BlameIsJust ==
  ASSUME IInv, NEW ks \in SUBSET Keys, Blame(ks),
         SymbolsOf(ks) \cap Bad # {}, ~(Cardinality(SymbolsOf(ks)) > 1)
  PROVE  /\ fails' \in [Keys -> 0 .. Threshold] /\ quarantine' \subseteq Keys
         /\ SymbolsOf(quarantine') \subseteq Bad
<1>1. SymbolsOf(ks) \subseteq Bad
  <2>1. SymbolsOf(ks) \in SUBSET Symbols
    BY DEF SymbolsOf, Keys
  <2>2. IsFiniteSet(Symbols)
    BY FS_Interval, SubAssumption DEF Symbols
  <2>3. IsFiniteSet(SymbolsOf(ks)) /\ Cardinality(SymbolsOf(ks)) \in Nat
    BY <2>1, <2>2, FS_Subset, FS_CardinalityType
  <2>4. Cardinality(SymbolsOf(ks)) = 1
    BY <2>3, FS_EmptySet
  <2>5. PICK s : SymbolsOf(ks) = {s}
    BY <2>3, <2>4, FS_Singleton
  <2> QED BY <2>5
<1>2. fails' \in [Keys -> 0 .. Threshold]
  BY SubAssumption, SMTT(60) DEF Blame, Least, IInv, TypeOK
<1>3. quarantine' \subseteq quarantine \cup ks
  BY DEF Blame
<1> QED BY <1>1, <1>2, <1>3 DEF IInv, TypeOK, OnlyBadQuarantined, SymbolsOf

LEMMA SubscribedStep ==
  ASSUME IInv, NEW j \in Jobs, Subscribed(j)
  PROVE  IInv'
<1> DEFINE f == jobs[j].flight
<1>1. jobs[j] \in JobRecord /\ jobs[j].at \in {"pass", "replay"}
  BY Busy DEF Subscribed
<1>2. f.keys \in SUBSET Keys /\ jobs[j].out \in SUBSET SUBSET Keys
      /\ jobs[j].batches \in SUBSET SUBSET Keys
  BY <1>1 DEF JobRecord, Flight, NoFlight
<1>3. PICK bs \in SUBSET SUBSET Keys :
        jobs' = [jobs EXCEPT ![j].flight = NoFlight, ![j].batches = @ \cup bs]
  <2>1. Halves(f.keys) \in SUBSET SUBSET Keys /\ {} \in SUBSET SUBSET Keys
    BY <1>2 DEF Halves
  <2> QED BY <2>1 DEF Subscribed
<1>4. jobs' = [jobs EXCEPT ![j] = [@ EXCEPT !.out = jobs[j].out, !.batches = jobs[j].batches \cup bs,
                                            !.flight = NoFlight]]
  BY <1>1, <1>3 DEF JobRecord, IInv, TypeOK
<1>5. jobs' \in [Jobs -> JobRecord] /\ Shape' /\ Noticing' /\ Blamed' /\ Counted' /\ ReadingAlone'
  <2>1. NoFlight \in Flight /\ NoFlight.reply # "symbol"
    BY IdleType DEF NoFlight
  <2>2. jobs[j].batches \cup bs \in SUBSET SUBSET Keys
    BY <1>2
  <2>3. UNCHANGED <<conn, linked, notices, generation, pending, holds, books, poll>>
    BY DEF Subscribed, link, ledger, epoch
  <2> QED BY <1>1, <1>2, <1>4, <2>1, <2>2, <2>3, UnderWay
<1>6. /\ active' \subseteq Keys /\ young' \subseteq active'
      /\ lapsed' \subseteq dropped' /\ dropped' \subseteq active'
  <2>1. Admit(f.keys) \/ UNCHANGED slots
    BY DEF Subscribed
  <2> QED BY <1>2, <2>1, SlotTypes DEF IInv
<1>7. /\ fails' \in [Keys -> 0 .. Threshold] /\ quarantine' \subseteq Keys
      /\ SymbolsOf(quarantine') \subseteq Bad
  <2>1. CASE UNCHANGED blame
    BY <2>1 DEF IInv, TypeOK, OnlyBadQuarantined, blame
  <2>2. CASE UNCHANGED quarantine /\ fails' = [k \in Keys |-> IF k \in f.keys THEN 0 ELSE fails[k]]
    BY SMTT(40), <2>2, SubAssumption DEF IInv, TypeOK, OnlyBadQuarantined
  <2>3. CASE f.reply = "symbol" /\ ~Split(f) /\ Blame(f.keys)
    BY <1>2, <2>3, BlameIsJust DEF Split, IInv, Blamed
  <2> QED BY <2>1, <2>2, <2>3 DEF Subscribed
<1> QED BY <1>5, <1>6, <1>7
        DEF Subscribed, IInv, TypeOK, OnlyBadQuarantined, link, ledger, epoch, held

LEMMA FinishStep ==
  ASSUME IInv, NEW j \in Jobs, Finish(j)
  PROVE  IInv'
<1>1. jobs[j] \in JobRecord /\ jobs[j].at \in {"pass", "replay"} /\ Tame(jobs[j])
      /\ jobs[j].flight = NoFlight /\ jobs \in [Jobs -> JobRecord]
  BY Busy DEF Finish, IInv, TypeOK
<1>0. PICK ks \in SUBSET Keys : ks = jobs[j].group
  BY <1>1 DEF JobRecord
<1> DEFINE job == [jobs[j] EXCEPT !.group = {}]
<1>2. Cardinality(ks) \in Nat /\ Cardinality(ks \cap active) \in Nat
  BY KeySetsAreFinite
<1>3. /\ job \in JobRecord /\ job.at = jobs[j].at /\ job.flight = NoFlight
      /\ job.in = jobs[j].in /\ job.group = {}
  BY <1>1 DEF JobRecord
<1>4. Tame(job)
  <2> HIDE DEF job
  <2> QED BY <1>1, <1>3 DEF Tame
<1>5. ReservedBy(jobs[j]) = ReservedBy(job) \cup ks /\ ReservedBy(job) \cap ks = {}
  <2>1. ReservedBy(job) = UNION jobs[j].in
    BY <1>3 DEF ReservedBy
  <2>2. \A g \in jobs[j].in : g \cap ks = {}
    BY <1>1, <1>0 DEF Tame
  <2> HIDE DEF job
  <2> QED BY <1>0, <2>1, <2>2 DEF ReservedBy
<1>6. /\ Tidy(job) \in JobRecord /\ Tame(Tidy(job)) /\ ReservedBy(Tidy(job)) = ReservedBy(job)
      /\ (Tidy(job).at = "replay") <=> (jobs[j].at = "replay")
      /\ Tidy(job).flight = NoFlight
  <2> HIDE DEF job
  <2> QED BY <1>1, <1>3, <1>4, Tidies
<1>7. jobs' = [jobs EXCEPT ![j] = Tidy(job)]
  BY DEF Finish
<1> HIDE DEF job
<1>8. jobs' \in [Jobs -> JobRecord] /\ Shape' /\ Noticing' /\ Blamed'
  <2>1. NoFlight.reply # "symbol"
    BY DEF NoFlight
  <2> QED BY <1>1, <1>6, <1>7, <2>1, JobStep DEF Finish, link, epoch
<1>9. Cardinality(TokensOf(jobs')) + Cardinality(ks) = Cardinality(TokensOf(jobs))
  <2>1. Sheds(jobs, j, Tidy(job), ks)
    BY <1>5, <1>6 DEF Sheds
  <2> QED BY <1>1, <1>7, <2>1, TokensTaken
<1>10. /\ spent' = spent + Cardinality(ks \cap active)
       /\ pending' = Minus(pending, Cardinality(ks))
       /\ UNCHANGED <<holds, books, poll>>
  BY <1>0 DEF Finish, Finishes
<1>11. Counted' /\ ReadingAlone' /\ pending' \in Nat
  <2>1. Cardinality(TokensOf(jobs')) \in Nat /\ Cardinality(TokensOf(jobs)) \in Nat
    BY Finite
  <2>2. ReplaysOf(jobs') = ReplaysOf(jobs)
    BY <1>1, <1>6, <1>7 DEF ReplaysOf
  <2>3. pending = Cardinality(TokensOf(jobs)) + (IF books.at = "admit" THEN 1 ELSE 0)
        /\ holds = Cardinality(ReplaysOf(jobs)) + (IF poll.at = "idle" THEN 0 ELSE 1)
        /\ pending \in Nat
    BY DEF IInv, Counted, TypeOK
  <2>4. pending' = pending - Cardinality(ks) /\ pending' \in Nat
    BY <1>2, <1>9, <1>10, <2>1, <2>3 DEF Minus
  <2>5. Counted'
    BY <1>2, <1>9, <1>10, <2>1, <2>2, <2>3, <2>4 DEF IInv, Counted
  <2>6. ReadingAlone'
    BY <1>2, <1>10, <2>4 DEF IInv, ReadingAlone, TypeOK
  <2> QED BY <2>4, <2>5, <2>6
<1>12. spent' \in Nat
  <2> QED BY <1>2, <1>10 DEF IInv, TypeOK
<1> QED BY <1>8, <1>11, <1>12
        DEF Finish, IInv, TypeOK, OnlyBadQuarantined, link, epoch, slots, blame, held

Replaying(job) == IF job.at = "replay" THEN 1 ELSE 0
LEMMA ReplaysAre ==
  ASSUME NEW js, js \in [Jobs -> JobRecord], NEW j \in Jobs, NEW r
  PROVE  Cardinality(ReplaysOf([js EXCEPT ![j] = r])) =
           Cardinality(ReplaysOf(js)) + Replaying(r) - Replaying(js[j])
<1> DEFINE after == ReplaysOf([js EXCEPT ![j] = r])
<1>1. /\ Cardinality(ReplaysOf(js)) \in Nat /\ IsFiniteSet(ReplaysOf(js))
      /\ Cardinality(after) \in Nat /\ IsFiniteSet(after)
  BY Finite
<1>2. CASE r.at = "replay"
  <2>1. after = ReplaysOf(js) \cup {j}
    BY <1>2 DEF ReplaysOf
  <2>2. j \in ReplaysOf(js) <=> js[j].at = "replay"
    BY DEF ReplaysOf
  <2>3. Cardinality(ReplaysOf(js) \cup {j}) =
          IF j \in ReplaysOf(js) THEN Cardinality(ReplaysOf(js)) ELSE Cardinality(ReplaysOf(js)) + 1
    BY <1>1, FS_AddElement
  <2>4. Cardinality(after) = Cardinality(ReplaysOf(js)) + Replaying(r) - Replaying(js[j])
    <3> HIDE DEF after
    <3> QED BY <1>1, <1>2, <2>1, <2>2, <2>3 DEF Replaying
  <2> QED BY <2>4
<1>3. CASE r.at # "replay"
  <2>1. after = ReplaysOf(js) \ {j}
    BY <1>3 DEF ReplaysOf
  <2>2. j \in ReplaysOf(js) <=> js[j].at = "replay"
    BY DEF ReplaysOf
  <2>3. Cardinality(ReplaysOf(js) \ {j}) =
          IF j \in ReplaysOf(js) THEN Cardinality(ReplaysOf(js)) - 1 ELSE Cardinality(ReplaysOf(js))
    BY <1>1, FS_RemoveElement
  <2>4. Cardinality(after) = Cardinality(ReplaysOf(js)) + Replaying(r) - Replaying(js[j])
    <3> HIDE DEF after
    <3> QED BY <1>1, <1>3, <2>1, <2>2, <2>3 DEF Replaying
  <2> QED BY <2>4
<1> QED BY <1>2, <1>3

\* A turn of ResubscribeAll reserves ks, and holds if it replays.
Turns(j, ks, r) ==
  /\ jobs' = [jobs EXCEPT ![j] = r]
  /\ r.at # "unborn" /\ r.flight = NoFlight /\ Tame(r) /\ ReservedBy(r) = ks
  /\ pending' = pending + Cardinality(ks) /\ holds' = holds + Replaying(r)
  /\ ks # {} => holds = 0
  /\ UNCHANGED <<books, poll>> /\ down' \in BOOLEAN

LEMMA ReplayStep ==
  ASSUME IInv, NEW j \in Jobs, Replay(j)
  PROVE  IInv'
<1>1. jobs \in [Jobs -> JobRecord] /\ jobs[j] \in JobRecord /\ jobs[j].at = "wait" /\ Tame(jobs[j])
      /\ jobs[j].flight = NoFlight /\ ReservedBy(jobs[j]) = {}
  BY DEF Replay, IInv, TypeOK, Shape, Tame, ReservedBy
<1>turns. \E ks \in SUBSET Keys, r \in JobRecord : Turns(j, ks, r)
  <2> DEFINE keys == active \cap Wanted \cap Desired(Minus(remain, Headroom + spent + pending))
             replay == [jobs[j] EXCEPT !.at = "replay", !.gen = generation, !.in = Groups(keys)]
  <2>0. UNCHANGED <<books, poll>> /\ pending \in Nat /\ holds \in Nat /\ generation \in Nat
    BY SubAssumption DEF Replay, IInv, TypeOK
  <2>1. CASE jobs' = [jobs EXCEPT ![j] = Idle] /\ UNCHANGED <<pending, holds>> /\ down' = FALSE
    <3>1. Idle.at = "idle" /\ Idle.flight = NoFlight /\ ReservedBy(Idle) = {}
      BY DEF Idle, ReservedBy
    <3>2. Cardinality({}) = 0 /\ {} \in SUBSET Keys
      BY FS_EmptySet
    <3>3. Idle \in JobRecord /\ Tame(Idle)
      BY IdleType
    <3>4. Replaying(Idle) = 0
      BY <3>1 DEF Replaying
    <3>5. Turns(j, {}, Idle)
      <4>1. pending' = pending + Cardinality({}) /\ holds' = holds + Replaying(Idle)
        BY <2>0, <2>1, <3>2, <3>4
      <4>2. down' \in BOOLEAN
        BY <2>1
      <4> QED BY <2>0, <2>1, <3>1, <3>3, <4>1, <4>2 DEF Turns
    <3> QED BY <3>2, <3>3, <3>5
  <2>2. CASE jobs' = [jobs EXCEPT ![j].at = "plan"] /\ UNCHANGED <<pending, holds>> /\ down' = FALSE
    <3> DEFINE planned == [jobs[j] EXCEPT !.at = "plan"]
    <3>1. planned \in JobRecord /\ planned.at = "plan" /\ planned.flight = NoFlight /\ planned.in = jobs[j].in
          /\ planned.group = jobs[j].group /\ planned.out = jobs[j].out /\ planned.batches = jobs[j].batches
      BY <1>1 DEF JobRecord
    <3>2. Tame(planned) /\ ReservedBy(planned) = {}
      <4> HIDE DEF planned
      <4> QED BY <1>1, <3>1 DEF Tame, ReservedBy
    <3>3. Cardinality({}) = 0 /\ {} \in SUBSET Keys
      BY FS_EmptySet
    <3>4. jobs' = [jobs EXCEPT ![j] = planned]
      BY <1>1, <2>2
    <3> HIDE DEF planned
    <3>5. Replaying(planned) = 0
      BY <3>1 DEF Replaying
    <3>6. Turns(j, {}, planned)
      <4>1. pending' = pending + Cardinality({}) /\ holds' = holds + Replaying(planned)
        BY <2>0, <2>2, <3>3, <3>5
      <4>2. down' \in BOOLEAN
        BY <2>2
      <4> QED BY <2>0, <3>1, <3>2, <3>4, <4>1, <4>2 DEF Turns
    <3> QED BY <3>1, <3>3, <3>6
  <2>3. CASE /\ jobs' = [jobs EXCEPT ![j].at = "replay", ![j].gen = generation, ![j].in = Groups(keys)]
             /\ pending' = pending + Cardinality(keys) /\ holds' = holds + 1 /\ holds = 0
             /\ UNCHANGED down
    <3>1. keys \in SUBSET Keys
      BY DesiredIsWanted
    <3>2. /\ Groups(keys) \in SUBSET SUBSET Keys /\ UNION Groups(keys) = keys
          /\ \A g, h \in Groups(keys) : g # h => g \cap h = {}
      <4> HIDE DEF keys
      <4> QED BY <3>1, GroupsPartition
    <3> HIDE DEF keys
    <3>3. /\ replay \in JobRecord /\ replay.at = "replay" /\ replay.flight = NoFlight
          /\ replay.in = Groups(keys) /\ replay.group = {}
      BY <1>1, <2>0, <3>2 DEF JobRecord, Tame
    <3>4. jobs' = [jobs EXCEPT ![j] = replay]
      BY <1>1, <2>3 DEF JobRecord
    <3> HIDE DEF replay
    <3>5. Tame(replay)
      BY <3>2, <3>3 DEF Tame
    <3>6. ReservedBy(replay) = keys
      <4>1. UNION replay.in = keys /\ replay.group = {}
        BY <3>2, <3>3
      <4> QED BY <4>1 DEF ReservedBy
    <3>7. down' \in BOOLEAN
      BY <2>3 DEF IInv, TypeOK
    <3>8. Replaying(replay) = 1
      BY <3>3 DEF Replaying
    <3>9. Turns(j, keys, replay)
      BY <2>0, <2>3, <3>3, <3>4, <3>5, <3>6, <3>7, <3>8 DEF Turns
    <3> QED BY <3>1, <3>3, <3>9
  <2> HIDE DEF keys, replay
  <2> QED BY <2>1, <2>2, <2>3 DEF Replay, keys
<1>turn. PICK ks \in SUBSET Keys, r \in JobRecord : Turns(j, ks, r)
  BY <1>turns
<1>2. /\ jobs' = [jobs EXCEPT ![j] = r]
      /\ r.at # "unborn" /\ r.flight = NoFlight /\ Tame(r) /\ ReservedBy(r) = ks
      /\ pending' = pending + Cardinality(ks) /\ holds' = holds + Replaying(r)
      /\ ks # {} => holds = 0
      /\ UNCHANGED <<books, poll>> /\ down' \in BOOLEAN
  BY <1>turn DEF Turns
<1>3. jobs' \in [Jobs -> JobRecord] /\ Shape' /\ Noticing' /\ Blamed'
  <2>1. NoFlight.reply # "symbol" /\ jobs[j].at # "unborn"
    BY <1>1 DEF NoFlight
  <2>2. UNCHANGED <<conn, linked, notices, generation>>
    BY DEF Replay, link
  <2> QED BY <1>2, <2>1, <2>2, JobStep
<1>4. Counted'
  <2>1. Cardinality(TokensOf(jobs')) = Cardinality(TokensOf(jobs)) + Cardinality(ks)
    BY <1>1, <1>2, TokensAdded
  <2>2. Cardinality(ReplaysOf(jobs')) = Cardinality(ReplaysOf(jobs)) + Replaying(r)
    <3>1. Cardinality(ReplaysOf(jobs)) \in Nat /\ jobs[j].at # "replay"
      BY <1>1, Finite
    <3>2. Cardinality(ReplaysOf([jobs EXCEPT ![j] = r])) =
            Cardinality(ReplaysOf(jobs)) + Replaying(r) - Replaying(jobs[j])
      BY <1>1, ReplaysAre
    <3> QED BY <1>2, <3>1, <3>2 DEF Replaying
  <2>3. Cardinality(TokensOf(jobs)) \in Nat /\ Cardinality(ReplaysOf(jobs)) \in Nat
        /\ Cardinality(ks) \in Nat /\ Replaying(r) \in Nat
    BY Finite, KeySetsAreFinite DEF Replaying
  <2> QED BY <1>2, <2>1, <2>2, <2>3 DEF IInv, Counted
\* a replay holds, so it waits for the reading
<1>5. ReadingAlone'
  <2>1. CASE poll.at = "read"
    <3>1. holds > 0
      <4>1. Cardinality(ReplaysOf(jobs)) \in Nat
        BY Finite
      <4> QED BY <2>1, <4>1 DEF IInv, Counted
    <3>2. ks = {}
      BY <1>2, <3>1
    <3> QED BY <1>2, <2>1, <3>2, FS_EmptySet DEF IInv, ReadingAlone
  <2>2. CASE poll.at # "read"
    BY <1>2, <2>2 DEF ReadingAlone
  <2> QED BY <2>1, <2>2
<1>6. pending' \in Nat /\ holds' \in Nat
  <2>1. Cardinality(ks) \in Nat /\ Replaying(r) \in Nat /\ pending \in Nat /\ holds \in Nat
    BY KeySetsAreFinite DEF Replaying, IInv, TypeOK
  <2> QED BY <1>2, <2>1
<1>7. /\ active' \subseteq Keys /\ young' \subseteq active'
      /\ lapsed' \subseteq dropped' /\ dropped' \subseteq active'
      /\ quarantine' = {} /\ fails' \in [Keys -> 0 .. Threshold]
  BY SubAssumption DEF Replay, NoSlots, NoBlame
<1>8. UNCHANGED <<demands, optional, bookFails, known, remain, spent, generation, books, poll,
                  link, held, calls, upsets>>
  BY DEF Replay
<1> QED BY <1>2, <1>3, <1>4, <1>5, <1>6, <1>7, <1>8
        DEF IInv, TypeOK, OnlyBadQuarantined, SymbolsOf, link, held

LEMMA GivesUpStep ==
  ASSUME IInv, NEW j \in Jobs, GivesUp(j)
  PROVE  IInv'
<1>1. jobs \in [Jobs -> JobRecord] /\ jobs[j].at = "wait" /\ ReservedBy(jobs[j]) = {}
  BY DEF GivesUp, IInv, TypeOK, Shape, Tame, ReservedBy
<1>2. Idle.at = "idle" /\ Idle.flight.reply # "symbol" /\ ReservedBy(Idle) = {}
  BY DEF Idle, NoFlight, ReservedBy
<1>3. jobs' = [jobs EXCEPT ![j] = Idle]
      /\ UNCHANGED <<conn, linked, notices, generation, pending, holds, books, poll>>
  BY DEF GivesUp, link, epoch, ledger
<1>4. jobs' \in [Jobs -> JobRecord] /\ Shape' /\ Noticing' /\ Blamed'
  BY <1>1, <1>2, <1>3, IdleType, JobStep
<1>5. Counted' /\ ReadingAlone'
  BY <1>1, <1>2, <1>3, IdleType, CountKept
<1> QED BY <1>4, <1>5
        DEF GivesUp, IInv, TypeOK, OnlyBadQuarantined, link, ledger, epoch, slots, blame, held

LEMMA ReplayedStep ==
  ASSUME IInv, NEW j \in Jobs, Replayed(j)
  PROVE  IInv'
<1>1. jobs \in [Jobs -> JobRecord] /\ jobs[j].at = "replay" /\ ReservedBy(jobs[j]) = {}
  BY DEF Replayed, IInv, TypeOK, ReservedBy
<1>2. PICK r \in JobRecord :
        /\ jobs' = [jobs EXCEPT ![j] = r]
        /\ r.at \in {"plan", "idle"} /\ Tame(r) /\ ReservedBy(r) = {} /\ r.flight = NoFlight
  <2> DEFINE job == [Idle EXCEPT !.at = IF Current(j) THEN "plan" ELSE "idle"]
  <2>1. job \in JobRecord /\ job.at \in {"plan", "idle"} /\ Tame(job) /\ ReservedBy(job) = {}
        /\ job.flight = NoFlight
    BY DEF Idle, JobRecord, Tame, ReservedBy, Flight
  <2>2. jobs' = [jobs EXCEPT ![j] = job]
    BY DEF Replayed
  <2> HIDE DEF job
  <2> QED BY <2>1, <2>2
<1>3. UNCHANGED <<conn, linked, notices, generation, pending, books, poll>> /\ holds' = holds - 1
  BY DEF Replayed, link
<1>4. jobs' \in [Jobs -> JobRecord] /\ Shape' /\ Noticing' /\ Blamed'
  <2>1. NoFlight.reply # "symbol"
    BY DEF NoFlight
  <2> QED BY <1>1, <1>2, <1>3, <2>1, JobStep
<1>5. Counted' /\ ReadingAlone' /\ holds' \in Nat
  <2>1. TokensOf(jobs') = TokensOf(jobs)
    BY <1>1, <1>2, TokensKept
  <2>2. Cardinality(ReplaysOf(jobs')) = Cardinality(ReplaysOf(jobs)) - 1
    <3>1. Cardinality(ReplaysOf(jobs)) \in Nat
      BY Finite
    <3>2. Cardinality(ReplaysOf([jobs EXCEPT ![j] = r])) =
            Cardinality(ReplaysOf(jobs)) + Replaying(r) - Replaying(jobs[j])
      BY <1>1, ReplaysAre
    <3> QED BY <1>1, <1>2, <3>1, <3>2 DEF Replaying
  <2>3. Cardinality(ReplaysOf(jobs)) \in Nat /\ Cardinality(ReplaysOf(jobs')) \in Nat
    BY Finite
  <2> QED BY <1>3, <2>1, <2>2, <2>3 DEF IInv, Counted, ReadingAlone
<1> QED BY <1>4, <1>5
        DEF Replayed, IInv, TypeOK, OnlyBadQuarantined, link, slots, blame, held
-----------------------------------------------------------------------------
(* The notices of the connection *)

LEMMA NoticeTaken ==
  ASSUME TypeOK, Alternate, notices # <<>>, notices' = Tail(notices), UNCHANGED linked
  PROVE  /\ Alternate' /\ notices' \in Seq({"up", "down"})
         /\ Len(notices') = Len(notices) - 1 /\ Len(notices) \in Nat \ {0}
         /\ notices[1] \in {"up", "down"} /\ Head(notices) = notices[1]
         /\ IF notices' = <<>> THEN Len(notices) = 1 /\ (notices[1] = "up" <=> linked)
                               ELSE notices'[1] \in {"up", "down"} /\ notices'[1] # notices[1]
<1> DEFINE n == Len(notices)
<1>1. /\ notices \in Seq({"up", "down"}) /\ n \in Nat \ {0}
      /\ notices[1] \in {"up", "down"} /\ Head(notices) = notices[1]
      /\ linked \in BOOLEAN
  BY DEF TypeOK
<1>2. /\ notices' \in Seq({"up", "down"}) /\ Len(notices') = n - 1
      /\ \A i \in 1 .. n - 1 : notices'[i] = notices[i + 1]
  BY <1>1
<1>3. Alternate'
  <2>1. ASSUME NEW i \in 1 .. Len(notices') - 1
        PROVE  notices'[i] # notices'[i + 1]
    BY <1>1, <1>2 DEF Alternate
  <2>2. notices' # <<>> => notices'[Len(notices')] = notices[n]
    BY <1>1, <1>2
  <2> QED BY <1>1, <2>1, <2>2 DEF Alternate
<1>4. CASE notices' = <<>>
  <2>1. n = 1
    BY <1>1, <1>2, <1>4
  <2> QED BY <1>1, <1>2, <1>3, <1>4, <2>1 DEF Alternate
<1>5. CASE notices' # <<>>
  <2>1. n > 1
    BY <1>1, <1>2, <1>5
  <2>2. notices'[1] = notices[2] /\ notices[2] # notices[1] /\ notices[2] \in {"up", "down"}
    BY <1>1, <1>2, <2>1 DEF Alternate
  <2> QED BY <1>1, <1>2, <1>3, <1>5, <2>2
<1> QED BY <1>4, <1>5

LEMMA NoticeAdded ==
  ASSUME TypeOK, Alternate, linked' = ~linked,
         notices' = Append(notices, IF linked THEN "down" ELSE "up")
  PROVE  /\ Alternate' /\ notices' \in Seq({"up", "down"})
         /\ notices' # <<>> /\ Len(notices') = Len(notices) + 1 /\ Len(notices) \in Nat
         /\ notices'[1] = IF notices # <<>> THEN notices[1] ELSE IF linked THEN "down" ELSE "up"
<1> DEFINE n == Len(notices)
           s == IF linked THEN "down" ELSE "up"
<1>1. notices \in Seq({"up", "down"}) /\ n \in Nat /\ linked \in BOOLEAN /\ s \in {"up", "down"}
  BY DEF TypeOK
<1>2. /\ notices' \in Seq({"up", "down"}) /\ Len(notices') = n + 1 /\ notices' # <<>>
      /\ \A i \in 1 .. n : notices'[i] = notices[i]
      /\ notices'[n + 1] = s
  BY <1>1
<1>3. ASSUME notices # <<>> PROVE notices[n] # s
  <2>1. notices[n] \in {"up", "down"}
    BY <1>1, <1>3
  <2> QED BY <1>1, <1>3, <2>1 DEF Alternate
<1>4. ASSUME NEW i \in 1 .. Len(notices') - 1
      PROVE  notices'[i] # notices'[i + 1]
  <2>1. CASE i = n
    <3>1. notices # <<>>
      BY <1>1, <1>2, <2>1
    <3> QED BY <1>1, <1>2, <1>3, <2>1, <3>1
  <2>2. CASE i # n
    BY <1>1, <1>2, <2>2 DEF Alternate
  <2> QED BY <2>1, <2>2
<1>5. notices'[Len(notices')] = "up" <=> linked'
  BY <1>1, <1>2
<1>6. Alternate'
  BY <1>4, <1>5 DEF Alternate
<1>7. notices'[1] = IF notices # <<>> THEN notices[1] ELSE s
  <2>1. CASE notices # <<>>
    BY <1>1, <1>2, <2>1
  <2>2. CASE notices = <<>>
    BY <1>1, <1>2, <2>2
  <2> QED BY <2>1, <2>2
<1> QED BY <1>1, <1>2, <1>6, <1>7

\* A resync that is due stays unborn while the notices go on.
LEMMA DropStep ==
  ASSUME IInv, Drop
  PROVE  IInv'
<1>1. /\ linked = TRUE /\ linked' = FALSE /\ conn <= MaxDrops /\ conn' = conn
      /\ notices' = Append(notices, "down") /\ server' = {} /\ adrift' = {}
      /\ UNCHANGED <<jobs, generation, room>>
  BY DEF Drop, epoch
<1>2. /\ TypeOK /\ Alternate /\ ResyncOnce /\ Noticed /\ conn \in Nat /\ generation \in 0 .. MaxDrops
      /\ MaxDrops \in Nat /\ notices \in Seq({"up", "down"})
  <2>1. MaxDrops \in Nat
    BY SubAssumption
  <2> QED BY <2>1 DEF IInv, Noticing, TypeOK
<1>3. /\ Alternate' /\ notices' \in Seq({"up", "down"})
      /\ notices' # <<>> /\ Len(notices') = Len(notices) + 1 /\ Len(notices) \in Nat
      /\ notices'[1] = IF notices # <<>> THEN notices[1] ELSE "down"
  BY <1>1, <1>2, NoticeAdded
<1>4. ResyncOnce'
  BY <1>1, <1>2, <1>3 DEF ResyncOnce, ToResync
<1>5. Noticed'
  <2>1. CASE notices = <<>>
    BY <1>1, <1>2, <1>3, <2>1 DEF Noticed, Drops, Up
  <2>2. CASE notices # <<>>
    BY <1>1, <1>2, <1>3, <2>2 DEF Noticed, Drops, Up
  <2> QED BY <2>1, <2>2
<1>6. Shape' /\ Counted' /\ ReadingAlone' /\ Blamed'
  BY <1>1 DEF Drop, IInv, Shape, Counted, ReadingAlone, Blamed, ledger
<1>7. UNCHANGED <<demands, slots, optional, blame, bookFails, ledger, epoch, jobs, books, poll, conn,
                  room, odd, calls, upsets>>
  BY DEF Drop
<1> QED BY <1>1, <1>3, <1>4, <1>5, <1>6, <1>7
        DEF IInv, Noticing, TypeOK, OnlyBadQuarantined, slots, blame, ledger, epoch

LEMMA ConnectStep ==
  ASSUME IInv, Connect
  PROVE  IInv'
<1>1. /\ linked = FALSE /\ linked' = TRUE /\ conn' = conn + 1
      /\ notices' = Append(notices, "up")
      /\ UNCHANGED <<jobs, generation, server, adrift>>
  BY DEF Connect, epoch, held, IInv, TypeOK
<1>2. /\ TypeOK /\ Alternate /\ ResyncOnce /\ Noticed /\ conn \in Nat /\ generation \in 0 .. MaxDrops
      /\ MaxDrops \in Nat /\ notices \in Seq({"up", "down"})
  <2>1. MaxDrops \in Nat
    BY SubAssumption
  <2> QED BY <2>1 DEF IInv, Noticing, TypeOK
<1>3. /\ Alternate' /\ notices' \in Seq({"up", "down"})
      /\ notices' # <<>> /\ Len(notices') = Len(notices) + 1 /\ Len(notices) \in Nat
      /\ notices'[1] = IF notices # <<>> THEN notices[1] ELSE "up"
  BY <1>1, <1>2, NoticeAdded
<1>4. ResyncOnce'
  BY <1>1, <1>2, <1>3 DEF ResyncOnce, ToResync
<1>5. Noticed'
  <2>1. CASE notices = <<>>
    BY <1>1, <1>2, <1>3, <2>1 DEF Noticed, Drops, Up
  <2>2. CASE notices # <<>>
    BY <1>1, <1>2, <1>3, <2>2 DEF Noticed, Drops, Up
  <2> QED BY <2>1, <2>2
<1>6. UNCHANGED <<demands, slots, optional, blame, bookFails, ledger, epoch, jobs, books, poll, held,
                 calls>>
  BY DEF Connect
<1>7. Shape' /\ Counted' /\ ReadingAlone' /\ Blamed'
  BY <1>6 DEF IInv, Shape, Counted, ReadingAlone, Blamed, ledger
<1>8. room' \in 0 .. MaxRoom /\ upsets' \in 0 .. MaxUpsets
  BY SubAssumption, SMTT(60) DEF Connect, Upset, IInv, TypeOK
<1> QED BY <1>1, <1>2, <1>3, <1>4, <1>5, <1>6, <1>7, <1>8, SMTT(30)
        DEF IInv, Noticing, TypeOK, OnlyBadQuarantined, slots, blame, ledger, epoch, held

LEMMA StateDownStep ==
  ASSUME IInv, StateDown
  PROVE  IInv'
<1>1. /\ notices # <<>> /\ Head(notices) = "down" /\ notices' = Tail(notices)
      /\ generation' = generation + 1
      /\ UNCHANGED <<jobs, conn, linked>>
  BY DEF StateDown
<1>2. /\ TypeOK /\ Alternate /\ ResyncOnce /\ Noticed /\ conn \in Nat /\ generation \in 0 .. MaxDrops
      /\ MaxDrops \in Nat /\ linked \in BOOLEAN
  <2>1. MaxDrops \in Nat
    BY SubAssumption
  <2> QED BY <2>1 DEF IInv, Noticing, TypeOK
<1>3. /\ Alternate' /\ notices' \in Seq({"up", "down"})
      /\ Len(notices') = Len(notices) - 1 /\ Len(notices) \in Nat \ {0} /\ notices[1] = "down"
      /\ IF notices' = <<>> THEN Len(notices) = 1 /\ ~linked
                            ELSE notices'[1] = "up"
  BY <1>1, <1>2, NoticeTaken
<1>4. Noticed' /\ generation' <= MaxDrops
  <2>1. Drops' = Drops /\ Up' = Up /\ Up = (IF linked THEN 1 ELSE 0) /\ Drops \in Int
    BY <1>1, <1>2 DEF Drops, Up
  <2>2. Drops <= MaxDrops /\ 2 * (Drops - generation) + Up = Len(notices) + 1
    BY <1>1, <1>2, <1>3 DEF Noticed
  <2>3. CASE notices' = <<>>
    BY <1>1, <1>2, <1>3, <2>1, <2>2, <2>3 DEF Noticed
  <2>4. CASE notices' # <<>>
    <3>1. Len(notices) > 1
      BY <1>3, <2>4
    <3> QED BY <1>1, <1>2, <1>3, <2>1, <2>2, <2>4, <3>1 DEF Noticed
  <2> QED BY <2>3, <2>4
<1>5. ResyncOnce'
  <2>1. ASSUME NEW g \in 0 .. MaxDrops, g > generation
        PROVE  jobs'[Resync(g)].at = "unborn"
    BY <1>1, <1>2, <2>1 DEF ResyncOnce
  <2> QED BY <1>1, <1>2, <1>4, <2>1 DEF ResyncOnce
<1>6. UNCHANGED <<demands, slots, blame, remain, pending, holds, jobs, poll, conn, linked, room,
                 held, odd, calls, upsets>>
      /\ books'.at = books.at /\ books'.key = books.key /\ books'.flight = books.flight
      /\ books' \in BookRecord
      /\ down' \in BOOLEAN /\ known' \in BOOLEAN /\ spent' \in Nat /\ optional' = {}
      /\ bookFails' \in [Symbols -> 0 .. Threshold]
  <2>1. /\ books'.at = books.at /\ books'.key = books.key /\ books'.flight = books.flight
        /\ books' \in BookRecord
    BY DEF StateDown, IInv, TypeOK, BookRecord
  <2>2. bookFails' \in [Symbols -> 0 .. Threshold]
    BY SubAssumption DEF StateDown
  <2>3. down' = TRUE /\ known' = FALSE /\ spent' = 0 /\ optional' = {}
    BY DEF StateDown
  <2>4. down' \in BOOLEAN /\ known' \in BOOLEAN /\ spent' \in Nat
    BY <2>3
  <2> QED BY <2>1, <2>2, <2>3, <2>4 DEF StateDown
<1>7. Shape' /\ Counted' /\ ReadingAlone' /\ Blamed'
  BY <1>6 DEF IInv, Shape, Counted, ReadingAlone, Blamed
<1>8. generation' \in 0 .. MaxDrops
  BY <1>1, <1>2, <1>4
<1> QED BY <1>1, <1>3, <1>4, <1>5, <1>6, <1>7, <1>8
        DEF IInv, Noticing, TypeOK, OnlyBadQuarantined, slots, blame, held

LEMMA StateUpStep ==
  ASSUME IInv, StateUp
  PROVE  IInv'
<1>1. /\ notices # <<>> /\ Head(notices) = "up" /\ notices' = Tail(notices)
      /\ jobs' = [jobs EXCEPT ![Resync(generation)].at = "wait"]
      /\ UNCHANGED <<generation, conn, linked>>
  BY DEF StateUp, epoch
<1>2. /\ TypeOK /\ Alternate /\ ResyncOnce /\ Noticed /\ conn \in Nat
      /\ generation \in 0 .. MaxDrops
      /\ MaxDrops \in Nat /\ linked \in BOOLEAN /\ jobs \in [Jobs -> JobRecord]
  BY SubAssumption DEF IInv, Noticing, TypeOK
<1>3. /\ Alternate' /\ notices' \in Seq({"up", "down"})
      /\ Len(notices') = Len(notices) - 1 /\ Len(notices) \in Nat \ {0} /\ notices[1] = "up"
      /\ IF notices' = <<>> THEN Len(notices) = 1 /\ linked
                            ELSE notices'[1] = "down"
  BY <1>1, <1>2, NoticeTaken
<1>4. Noticed'
  <2>1. Drops' = Drops /\ Up' = Up /\ Up = (IF linked THEN 1 ELSE 0) /\ Drops \in Int
    BY <1>1, <1>2 DEF Drops, Up
  <2>2. Drops <= MaxDrops /\ 2 * (Drops - generation) + Up = Len(notices)
    BY <1>1, <1>2, <1>3 DEF Noticed
  <2>3. CASE notices' = <<>>
    <3>1. Len(notices) = 1 /\ Up = 1 /\ generation \in Int
      BY <1>2, <1>3, <2>1, <2>3
    <3>2. generation = Drops
      BY <2>1, <2>2, <3>1
    <3> QED BY <1>1, <2>1, <2>2, <2>3, <3>2 DEF Noticed
  <2>4. CASE notices' # <<>>
    BY <1>1, <1>2, <1>3, <2>1, <2>2, <2>4 DEF Noticed
  <2> QED BY <2>3, <2>4
<1> DEFINE j == Resync(generation)
           job == [jobs[j] EXCEPT !.at = "wait"]
<1>5. j \in Jobs /\ jobs[j].at = "unborn" /\ jobs[j] \in JobRecord /\ Tame(jobs[j])
  <2>1. j \in Jobs
    BY <1>2 DEF Jobs
  <2>2. ToResync
    BY <1>1, <1>3 DEF ToResync
  <2> QED BY <1>2, <2>1, <2>2 DEF ResyncOnce, IInv, Shape
<1>6. /\ jobs' = [jobs EXCEPT ![j] = job] /\ job \in JobRecord /\ job.at = "wait"
      /\ job.in = jobs[j].in /\ job.group = jobs[j].group /\ job.out = jobs[j].out
      /\ job.batches = jobs[j].batches /\ job.flight = jobs[j].flight
  BY <1>1, <1>2, <1>5 DEF JobRecord
<1> HIDE DEF job
<1>7. Tame(job) /\ ReservedBy(job) = ReservedBy(jobs[j]) /\ job.flight = NoFlight
  <2>1. Tame(job) /\ job.flight = NoFlight
    BY <1>5, <1>6 DEF Tame
  <2>2. UNION job.in = UNION jobs[j].in /\ job.group = jobs[j].group
    BY <1>6
  <2> QED BY <2>1, <2>2 DEF ReservedBy
<1>8. jobs' \in [Jobs -> JobRecord] /\ Shape' /\ Blamed'
  <2>1. NoFlight.reply # "symbol"
    BY DEF NoFlight
  <2> HIDE DEF j
  <2> QED BY <1>2, <1>5, <1>6, <1>7, <2>1 DEF IInv, Shape, Blamed
<1>9. ResyncOnce'
  <2>1. ~ToResync'
    BY <1>1, <1>3 DEF ToResync
  <2>2. ASSUME NEW g \in 0 .. MaxDrops, g > generation
        PROVE  jobs'[Resync(g)].at = "unborn"
    <3>1. Resync(g) \in Jobs /\ Resync(g) # j
      BY <1>2, <2>2 DEF Jobs, Resync
    <3>2. jobs[Resync(g)].at = "unborn"
      BY <1>2, <2>2 DEF ResyncOnce
    <3> HIDE DEF j
    <3> QED BY <1>2, <1>6, <3>1, <3>2
  <2> QED BY <1>1, <2>1, <2>2 DEF ResyncOnce
<1>10. UNCHANGED <<demands, slots, optional, blame, bookFails, ledger, epoch, books, poll, conn,
                 linked, room, held, odd, calls, upsets>>
  BY DEF StateUp
<1>11. Counted' /\ ReadingAlone'
  <2>1. UNCHANGED <<pending, holds, books, poll>>
    BY <1>10 DEF ledger
  <2> HIDE DEF j
  <2> QED BY <1>5, <1>6, <1>7, <2>1, CountKept
<1> QED BY <1>3, <1>4, <1>8, <1>9, <1>10, <1>11
        DEF IInv, Noticing, TypeOK, OnlyBadQuarantined, slots, blame, ledger, epoch, held
-----------------------------------------------------------------------------
(* Callers, the poller, the recorder's books, time *)

LEMMA CallerSteps ==
  ASSUME IInv, NEW d \in DOMAIN Demands, Ensure(d) \/ Release(d)
  PROVE  IInv'
<1>1. /\ UNCHANGED <<slots, optional, blame, bookFails, ledger, epoch, jobs, poll, link, held, odd,
                     upsets>>
      /\ calls' = calls + 1 /\ calls < MaxCalls
  BY DEF Ensure, Release, Called
<1>2. calls' \in 0 .. MaxCalls /\ calls + 1 \in 0 .. MaxCalls /\ 0 \in 0 .. MaxCalls
  <2>1. calls \in 0 .. MaxCalls /\ MaxCalls \in Nat
    BY SubAssumption DEF IInv, TypeOK
  <2> QED BY <1>1, <2>1
<1>3. demands' \in [DOMAIN Demands -> 0 .. MaxCalls]
  <2>1. demands \in [DOMAIN Demands -> 0 .. MaxCalls]
    BY DEF IInv, TypeOK
  <2>2. PICK n \in 0 .. MaxCalls : demands' = [demands EXCEPT ![d] = n]
    BY <1>2 DEF Ensure, Release
  <2> QED BY <2>1, <2>2
<1>4. books' \in BookRecord /\ books'.at = books.at /\ books'.key = books.key /\ books'.flight = books.flight
  BY ZenonT(40) DEF Ensure, Release, IInv, TypeOK, BookRecord
<1>5. Shape' /\ Noticing' /\ Blamed'
  BY <1>1, OtherStep DEF link, epoch
<1>6. Counted' /\ ReadingAlone'
  BY <1>1, <1>4 DEF IInv, Counted, ReadingAlone, ledger
<1> QED BY <1>1, <1>2, <1>3, <1>4, <1>5, <1>6
        DEF IInv, TypeOK, OnlyBadQuarantined, slots, blame, ledger, epoch, link, held

LEMMA PollSteps ==
  ASSUME IInv, Polls
  PROVE  IInv'
<1>1. UNCHANGED <<demands, slots, optional, blame, bookFails, pending, epoch, jobs, books, link, held, calls>>
  BY DEF Polls, PollBegin, PollAsk, PollSet, PollEnd, ledger
<1>2. Shape' /\ Noticing' /\ Blamed'
  BY <1>1, OtherStep DEF link, epoch
<1>3. /\ pending \in Nat /\ holds \in Nat /\ poll \in PollRecord /\ Cardinality(ReplaysOf(jobs)) \in Nat
      /\ holds = Cardinality(ReplaysOf(jobs)) + (IF poll.at = "idle" THEN 0 ELSE 1)
  BY Finite DEF IInv, TypeOK, Counted
<1> DEFINE Rest == /\ holds' \in Nat /\ holds' = Cardinality(ReplaysOf(jobs)) + (IF poll'.at = "idle" THEN 0 ELSE 1)
                   /\ poll' \in PollRecord /\ ReadingAlone'
                   /\ known' \in BOOLEAN /\ remain' \in Nat /\ spent' \in Nat /\ upsets' \in 0 .. MaxUpsets
<1>4. ASSUME PollBegin PROVE Rest
  <2>1. /\ poll.at = "idle" /\ holds' = holds + 1 /\ poll' = [poll EXCEPT !.at = "wait"]
        /\ UNCHANGED <<known, remain, spent, upsets>>
    BY <1>4 DEF PollBegin
  <2>2. poll' \in PollRecord /\ poll'.at = "wait"
    BY <1>3, <2>1 DEF PollRecord
  <2>3. ReadingAlone'
    BY <2>2 DEF ReadingAlone
  <2> QED BY <1>3, <2>1, <2>2, <2>3 DEF IInv, TypeOK
<1>5. ASSUME PollAsk PROVE Rest
  <2>1. /\ poll.at = "wait" /\ pending = 0
        /\ UNCHANGED <<pending, holds, known, remain, spent>>
    BY <1>5 DEF PollAsk, ledger
  <2>2. upsets' \in 0 .. MaxUpsets
    BY <1>5, SubAssumption, SMTT(30) DEF PollAsk, Upset, IInv, TypeOK
  <2>3. poll' \in PollRecord /\ poll'.at # "idle"
    <3>1. generation \in Nat /\ conn \in Nat /\ Cardinality(server) \in Nat /\ room \in Nat
      BY SubAssumption, KeySetsAreFinite, SMTT(30) DEF IInv, TypeOK
    <3>2. Minus(room, Cardinality(server)) \in Nat
      BY <3>1, Naturals
    <3> QED BY <1>5, <3>1, <3>2 DEF PollAsk, NoPoll, PollRecord
  <2>4. ReadingAlone'
    BY <2>1 DEF ReadingAlone
  <2> QED BY <1>3, <2>1, <2>2, <2>3, <2>4 DEF IInv, TypeOK
<1>6. ASSUME PollSet PROVE Rest
  <2>1. /\ poll.at = "read" /\ poll' = [NoPoll EXCEPT !.at = "end"]
        /\ UNCHANGED <<pending, holds, upsets>>
    BY <1>6 DEF PollSet
  <2>2. poll' \in PollRecord /\ poll'.at = "end"
    BY <2>1 DEF NoPoll, PollRecord
  <2>3. known' \in BOOLEAN /\ remain' \in Nat /\ spent' \in Nat
    BY <1>3, <1>6 DEF PollSet, PollRecord, IInv, TypeOK
  <2> QED BY <1>3, <2>1, <2>2, <2>3 DEF ReadingAlone, IInv, TypeOK
<1>7. ASSUME PollEnd PROVE Rest
  <2>1. /\ poll.at = "end" /\ poll' = NoPoll /\ holds' = Minus(holds, 1)
        /\ UNCHANGED <<pending, known, remain, spent, upsets>>
    BY <1>7 DEF PollEnd
  <2>2. poll' \in PollRecord /\ poll'.at = "idle"
    BY <2>1 DEF NoPoll, PollRecord
  <2>3. holds' = holds - 1
    BY <1>3, <2>1 DEF Minus
  <2> QED BY <1>3, <2>1, <2>2, <2>3 DEF ReadingAlone, IInv, TypeOK
<1>8. Rest
  BY <1>4, <1>5, <1>6, <1>7 DEF Polls
<1>9. Counted'
  BY <1>1, <1>8 DEF IInv, Counted
<1> QED BY <1>1, <1>2, <1>8, <1>9
        DEF IInv, TypeOK, OnlyBadQuarantined, slots, blame, epoch, link, held

LEMMA TimeSteps ==
  ASSUME IInv, \/ \E k \in Keys : HoldEnds(k) \/ Lapses(k)
               \/ ReadingAges
  PROVE  IInv'
<1>1. UNCHANGED <<demands, active, dropped, optional, blame, bookFails, remain, spent, pending, holds,
                  epoch, jobs, books, poll, link, held, odd, calls>>
  BY DEF HoldEnds, Lapses, ReadingAges, ledger, slots
<1>2. young' \subseteq active /\ lapsed' \subseteq dropped /\ known' \in BOOLEAN
  BY DEF HoldEnds, Lapses, ReadingAges, ledger, slots, IInv, TypeOK
<1>3. upsets' \in 0 .. MaxUpsets
  BY SubAssumption, SMTT(60) DEF HoldEnds, Lapses, ReadingAges, Upset, IInv, TypeOK
<1>4. Shape' /\ Noticing' /\ Blamed'
  BY <1>1, OtherStep DEF link, epoch
<1>5. Counted' /\ ReadingAlone'
  BY <1>1 DEF IInv, Counted, ReadingAlone
<1> QED BY <1>1, <1>2, <1>3, <1>4, <1>5
        DEF IInv, TypeOK, OnlyBadQuarantined, blame, epoch, link, held

LEMMA BooksPassStep ==
  ASSUME IInv, BooksPass
  PROVE  IInv'
<1> DEFINE adjusted == remain - spent - pending
           pressure == \/ PendingOrdinary(demands) \/ NoBudget
                       \/ Cardinality(active) > Budget \/ adjusted < Headroom
           owned == (optional \ Wanted) \cap active
           releases == {k \in owned : (pressure \/ k[1] \notin Ticks) /\ k \notin young}
           full == pressure \/ pending > 0 \/ Cardinality(active) >= Budget \/ adjusted <= Headroom
           next == IF full THEN {}
                   ELSE {s \in Ticks : Book(s) \notin active /\ bookFails[s] < Threshold}
           spare == IF pressure THEN {}
                    ELSE {Book(s) : s \in {t \in Ticks : \A n \in next : t < n}} \cap (active \ Wanted)
<1>1. UNCHANGED <<demands, slots, blame, bookFails, known, remain, spent, holds, epoch, jobs,
                  poll, link, held, odd, calls, upsets>>
  BY DEF BooksPass
<1>2. owned \subseteq Keys /\ owned \cup spare \subseteq Keys /\ releases \subseteq Keys /\ next \subseteq Symbols
  <2>1. active \subseteq Keys
    BY DEF IInv, TypeOK
  <2>2. Ticks \subseteq Symbols
    BY DEF Ticks
  <2> QED BY <2>1, <2>2
<1>3. generation \in Nat /\ pending \in Nat /\ books.at = "idle"
  BY SubAssumption DEF BooksPass, IInv, TypeOK
<1>4. \A s \in Symbols : {Book(s)} \in SUBSET Keys
  BY DEF Book, Keys, Subs
<1>5. CASE releases # {} /\ optional' = owned /\ pending' = pending
           /\ books' = [NoBook EXCEPT !.at = "release", !.gen = generation,
                                      !.key = {Book(Min(SymbolsOf(releases)))}]
  <2>1. SymbolsOf(releases) \in SUBSET Symbols /\ SymbolsOf(releases) # {}
    <3> HIDE DEF releases
    <3> QED BY <1>2, <1>5 DEF SymbolsOf, Keys
  <2>2. Min(SymbolsOf(releases)) \in Symbols
    <3> HIDE DEF releases
    <3> QED BY <2>1, MinIsIn
  <2>3. {Book(Min(SymbolsOf(releases)))} \in SUBSET Keys
    <3> HIDE DEF releases
    <3> QED BY <1>4, <2>2
  <2> DEFINE ks == {Book(Min(SymbolsOf(releases)))}
  <2> HIDE DEF ks, releases, owned, spare
  <2>4. books' = [NoBook EXCEPT !.at = "release", !.gen = generation, !.key = ks] /\ ks \in SUBSET Keys
    BY <1>5, <2>3 DEF ks
  <2>5. books' \in BookRecord /\ books'.at = "release" /\ books'.flight = NoFlight
    BY <1>3, <2>4 DEF NoBook, BookRecord, Flight
  <2>6. optional' \subseteq Keys /\ pending' = pending
    BY <1>2, <1>5
  <2>7. Shape' /\ Noticing' /\ Blamed'
    BY <1>1, OtherStep DEF link, epoch
  <2>8. Counted' /\ ReadingAlone'
    BY <1>1, <1>3, <2>5, <2>6 DEF IInv, Counted, ReadingAlone
  <2> QED BY <1>1, <2>5, <2>6, <2>7, <2>8
          DEF IInv, TypeOK, OnlyBadQuarantined, slots, blame, epoch, link, held
<1>6. CASE next # {} /\ optional' = owned \cup spare /\ pending' = pending + 1
           /\ books' = [NoBook EXCEPT !.at = "admit", !.gen = generation, !.key = {Book(Min(next))}]
  <2>1. Min(next) \in Symbols
    <3> HIDE DEF next
    <3> QED BY <1>2, <1>6, MinIsIn
  <2>2. {Book(Min(next))} \in SUBSET Keys
    <3> HIDE DEF next
    <3> QED BY <1>4, <2>1
  <2>3. poll.at # "read"
    <3>1. ~NoBudget
      BY <1>6
    <3>2. holds = 0
      BY <3>1 DEF NoBudget, IInv, TypeOK
    <3>3. Cardinality(ReplaysOf(jobs)) \in Nat
      BY Finite
    <3> QED BY <3>2, <3>3 DEF IInv, Counted
  <2> DEFINE ks == {Book(Min(next))}
  <2> HIDE DEF ks, next, owned, spare
  <2>4. books' = [NoBook EXCEPT !.at = "admit", !.gen = generation, !.key = ks] /\ ks \in SUBSET Keys
    BY <1>6, <2>2 DEF ks
  <2>5. /\ books' \in BookRecord /\ books'.at = "admit" /\ books'.flight = NoFlight
        /\ Cardinality(books'.key) = 1
    <3>1. books'.key = ks /\ books'.at = "admit" /\ books'.flight = NoFlight
      BY <2>4 DEF NoBook
    <3>2. Cardinality(ks) = 1
      BY FS_Singleton DEF ks
    <3>3. books' \in BookRecord
      BY <1>3, <2>4 DEF NoBook, BookRecord, Flight
    <3> QED BY <3>1, <3>2, <3>3
  <2>6. optional' \subseteq Keys /\ pending' = pending + 1
    BY <1>2, <1>6
  <2>7. Shape' /\ Noticing' /\ Blamed'
    BY <1>1, OtherStep DEF link, epoch
  <2>8. Counted' /\ ReadingAlone'
    <3>1. Cardinality(TokensOf(jobs)) \in Nat
      BY Finite
    <3> QED BY <1>1, <1>3, <2>3, <2>5, <2>6, <3>1 DEF IInv, Counted, ReadingAlone
  <2> QED BY <1>1, <1>3, <2>5, <2>6, <2>7, <2>8
          DEF IInv, TypeOK, OnlyBadQuarantined, slots, blame, epoch, link, held
<1>7. CASE optional' = owned \cup spare /\ UNCHANGED <<books, pending>>
  <2>1. Shape' /\ Noticing' /\ Blamed'
    BY <1>1, OtherStep DEF link, epoch
  <2>2. optional' \subseteq Keys
    BY <1>2, <1>7
  <2>3. Counted' /\ ReadingAlone'
    BY <1>1, <1>7 DEF IInv, Counted, ReadingAlone
  <2> HIDE DEF owned, spare
  <2> QED BY <1>1, <1>7, <2>1, <2>2, <2>3
          DEF IInv, TypeOK, OnlyBadQuarantined, slots, blame, epoch, link, held
<1> QED
  <2> HIDE DEF next, releases, owned, spare
  <2> QED BY <1>5, <1>6, <1>7 DEF BooksPass, next, releases, owned, spare

LEMMA BooksSendStep ==
  ASSUME IInv, BooksSend
  PROVE  IInv'
<1>1. PICK r \in Replies :
        /\ \/ Subscribes(books.key, r)
           \/ Unsubscribes(books.key, r)
           \/ UNCHANGED <<held, upsets>>
        /\ books' = [books EXCEPT !.flight = Answer(books.key, r)]
  BY DEF BooksSend
<1>2. books \in BookRecord /\ books.key \in SUBSET Keys
  BY DEF IInv, TypeOK, BookRecord
<1>3. Answer(books.key, r) \in Flight
  BY <1>2, AnswerType DEF IInv
<1>4. /\ books' \in BookRecord /\ books'.at = books.at /\ books'.key = books.key
      /\ books'.flight.keys = books.key
  BY <1>1, <1>2, <1>3 DEF BookRecord, Answer
<1>5. server' \in SUBSET Keys /\ adrift' \in SUBSET Keys /\ upsets' \in 0 .. MaxUpsets
  BY <1>1, <1>2, RequestTypes DEF IInv
<1>6. UNCHANGED <<demands, slots, optional, blame, bookFails, ledger, epoch, jobs, poll, link, odd,
                 calls>>
  BY DEF BooksSend
<1>7. Shape' /\ Noticing' /\ Blamed'
  BY <1>6, OtherStep DEF link, epoch
<1>8. Counted' /\ ReadingAlone'
  <2>1. books.at # "idle"
    BY DEF BooksSend
  <2> QED BY <1>4, <1>6, <2>1 DEF IInv, Counted, ReadingAlone, ledger
<1> QED BY <1>4, <1>5, <1>6, <1>7, <1>8
        DEF IInv, TypeOK, OnlyBadQuarantined, slots, blame, ledger, epoch, link

LEMMA BooksDoneStep ==
  ASSUME IInv, BooksDone
  PROVE  IInv'
<1> DEFINE ks == books.flight.keys
<1>1. ks \in SUBSET Keys /\ books \in BookRecord /\ server \in SUBSET Keys
  BY DEF IInv, TypeOK, BookRecord, Flight, NoFlight
<1>2. UNCHANGED <<demands, blame, remain, holds, epoch, jobs, poll, link, server, odd, calls, upsets>>
      /\ books' = NoBook
  BY DEF BooksDone
<1>3. books' \in BookRecord /\ books'.at = "idle" /\ books'.flight = NoFlight
  BY <1>2, IdleType DEF NoBook, BookRecord
<1>4. adrift' \subseteq Keys
  BY <1>1 DEF BooksDone, IInv, TypeOK
<1>5. known' \in BOOLEAN
  BY DEF BooksDone, IInv, TypeOK
<1>6. /\ active' \subseteq Keys /\ young' \subseteq active'
      /\ lapsed' \subseteq dropped' /\ dropped' \subseteq active'
  <2>1. Forget(ks) \/ Admit(ks) \/ UNCHANGED slots
    BY DEF BooksDone
  <2> QED BY <1>1, <2>1, SlotTypes DEF IInv
<1>7. optional' \subseteq Keys
  BY <1>1 DEF BooksDone, IInv, TypeOK
<1>8. bookFails' \in [Symbols -> 0 .. Threshold]
  <2>1. bookFails \in [Symbols -> 0 .. Threshold] /\ Threshold \in Nat
    BY SubAssumption DEF IInv, TypeOK
  <2>2. CASE UNCHANGED bookFails
    BY <2>1, <2>2
  <2>3. CASE bookFails' = [s \in Symbols |-> IF Book(s) \in ks THEN 0 ELSE bookFails[s]]
    BY <2>1, <2>3
  <2>4. ASSUME NEW reply, bookFails' = [s \in Symbols |->
                    IF reply \in {"symbol", "other"} /\ Book(s) \in ks /\ bookFails[s] < Threshold
                    THEN bookFails[s] + 1 ELSE bookFails[s]]
        PROVE  bookFails' \in [Symbols -> 0 .. Threshold]
    BY <2>1, <2>4
  <2> QED BY <2>2, <2>3, <2>4 DEF BooksDone
<1>9. /\ spent' \in Nat /\ pending' \in Nat
      /\ pending' = pending - (IF books.at = "admit" THEN 1 ELSE 0)
  <2>1. books.at # "idle" /\ (books.at = "admit" => Cardinality(ks) = 1)
    BY DEF BooksDone, IInv, Counted
  <2>2. spent \in Nat /\ pending \in Nat /\ Cardinality(ks \cap active) \in Nat
    <3>1. ks \cap active \in SUBSET Keys
      BY <1>1
    <3> QED BY <3>1, KeySetsAreFinite DEF IInv, TypeOK
  <2>3. books.at = "admit" => pending >= 1
    <3>1. Cardinality(TokensOf(jobs)) \in Nat
      BY Finite
    <3> QED BY <2>2, <3>1 DEF IInv, Counted
  <2>4. CASE books.at = "release" /\ UNCHANGED <<spent, pending>>
    BY <2>2, <2>4
  <2>5. CASE books.at = "admit" /\ spent' = spent + 1 /\ pending' = Minus(pending, 1)
    BY <2>2, <2>3, <2>5 DEF Minus
  <2>6. CASE books.at = "admit" /\ Finishes(ks)
    BY <2>1, <2>2, <2>3, <2>6 DEF Finishes, Minus
  <2> QED BY <2>4, <2>5, <2>6 DEF BooksDone
<1>10. Shape' /\ Noticing' /\ Blamed'
  BY <1>2, OtherStep DEF link, epoch
<1>11. Counted' /\ ReadingAlone'
  <2>1. Cardinality(TokensOf(jobs)) \in Nat
    BY Finite
  <2> QED BY SMTT(40), <1>2, <1>3, <1>9, <2>1 DEF IInv, Counted, ReadingAlone, TypeOK
<1> QED BY <1>2, <1>3, <1>4, <1>5, <1>6, <1>7, <1>8, <1>9, <1>10, <1>11
        DEF IInv, TypeOK, OnlyBadQuarantined, blame, epoch, link
-----------------------------------------------------------------------------

LEMMA InitHolds == Init => IInv
<1> SUFFICES ASSUME Init PROVE IInv
  OBVIOUS
<1>1. \A j \in Jobs : /\ jobs[j] \in JobRecord /\ Tame(jobs[j]) /\ ReservedBy(jobs[j]) = {}
                      /\ jobs[j].at # "replay" /\ jobs[j].flight = NoFlight
  BY DEF Init, Idle, JobRecord, Tame, ReservedBy, Flight
<1>2. \A g \in 0 .. MaxDrops : Resync(g) \in Jobs /\ jobs[Resync(g)].at = "unborn"
  BY DEF Init, Jobs, Resync, Worker, Idle
<1>3. TypeOK
  <2>1. /\ MaxCalls \in Nat /\ MaxUpsets \in Nat /\ MaxDrops \in Nat /\ MaxRoom \in Nat /\ Threshold \in Nat
    BY SubAssumption
  <2>2. NoBook \in BookRecord /\ NoPoll \in PollRecord
    BY IdleType DEF NoBook, BookRecord, NoPoll, PollRecord
  <2>3. jobs \in [Jobs -> JobRecord]
    BY <1>1 DEF Init
  <2>4. /\ demands \in [DOMAIN Demands -> 0 .. MaxCalls] /\ fails \in [Keys -> 0 .. Threshold]
        /\ bookFails \in [Symbols -> 0 .. Threshold]
    BY <2>1 DEF Init
  <2>5. /\ generation \in 0 .. MaxDrops /\ room \in 0 .. MaxRoom /\ calls \in 0 .. MaxCalls
        /\ upsets \in 0 .. MaxUpsets /\ conn \in Nat
    BY <2>1 DEF Init
  <2>6. /\ known \in BOOLEAN /\ down \in BOOLEAN /\ linked \in BOOLEAN
        /\ notices \in Seq({"up", "down"})
    <3>1. known = FALSE /\ down = FALSE /\ linked = FALSE
      BY DEF Init
    <3>2. known \in BOOLEAN /\ down \in BOOLEAN /\ linked \in BOOLEAN
      BY <3>1
    <3>3. notices \in Seq({"up", "down"})
      BY DEF Init
    <3> QED BY <3>2, <3>3
  <2>7. /\ active = {} /\ young = {} /\ dropped = {} /\ lapsed = {} /\ optional = {}
        /\ quarantine = {} /\ server = {} /\ adrift = {}
        /\ remain = 0 /\ spent = 0 /\ pending = 0 /\ holds = 0
        /\ books = NoBook /\ poll = NoPoll
    BY DEF Init
  <2> QED BY <2>2, <2>3, <2>4, <2>5, <2>6, <2>7 DEF TypeOK
<1>4. Shape /\ Blamed
  BY <1>1 DEF Shape, Blamed, NoFlight
<1>5. Counted /\ ReadingAlone
  <2>1. TokensOf(jobs) = {} /\ ReplaysOf(jobs) = {}
    BY <1>1 DEF TokensOf, ReplaysOf
  <2>2. /\ pending = 0 /\ holds = 0 /\ books.at = "idle" /\ books.flight = NoFlight
        /\ poll.at = "idle"
    BY DEF Init, NoBook, NoPoll
  <2>3. Cardinality({}) = 0
    BY FS_EmptySet
  <2> QED BY <2>1, <2>2, <2>3 DEF Counted, ReadingAlone
<1>6. Noticing
  <2>1. MaxDrops \in Nat /\ notices = <<>> /\ Len(notices) = 0 /\ generation = 0 /\ conn = 0 /\ ~linked
    BY SubAssumption DEF Init
  <2>2. Alternate
    BY <2>1 DEF Alternate
  <2>3. ResyncOnce
    BY <1>2, <2>1 DEF ResyncOnce
  <2>4. Noticed
    <3>1. Up = 0
      BY <2>1 DEF Up
    <3>2. Drops = 0
      BY <2>1, <3>1 DEF Drops
    <3> QED BY <2>1, <3>2 DEF Noticed
  <2> QED BY <2>2, <2>3, <2>4 DEF Noticing
<1>7. OnlyBadQuarantined
  BY DEF Init, OnlyBadQuarantined, SymbolsOf
<1> QED BY <1>3, <1>4, <1>5, <1>6, <1>7 DEF IInv

LEMMA StepHolds == IInv /\ [Next]_vars => IInv'
<1> SUFFICES ASSUME IInv, [Next]_vars PROVE IInv'
  OBVIOUS
<1>1. CASE UNCHANGED vars
  <2>1. UNCHANGED <<demands, slots, optional, blame, bookFails, ledger, epoch, jobs, books, poll,
                    link, held, odd, calls, upsets>>
    BY <1>1 DEF vars
  <2>2. Shape' /\ Noticing' /\ Blamed'
    BY <2>1, OtherStep DEF link, epoch
  <2>3. Counted' /\ ReadingAlone'
    BY <2>1 DEF IInv, Counted, ReadingAlone, ledger
  <2> QED BY <2>1, <2>2, <2>3
          DEF IInv, TypeOK, OnlyBadQuarantined, slots, blame, ledger, epoch, link, held
<1>2. CASE \E d \in DOMAIN Demands : Ensure(d) \/ Release(d)
  BY <1>2, CallerSteps
<1>3. CASE \E j \in Jobs : Runs(j)
  <2>1. PICK j \in Jobs : Runs(j)
    BY <1>3
  <2> QED BY <2>1, PlanStep, UnsubscribeStep, UnsubscribedStep, TakeGroupStep, SubscribeStep,
             SubscribedStep, FinishStep, ReplayStep, GivesUpStep, ReplayedStep DEF Runs
<1>4. CASE Polls
  BY <1>4, PollSteps
<1>5. CASE Books
  BY <1>5, BooksPassStep, BooksSendStep, BooksDoneStep DEF Books
<1>6. CASE Drop \/ Connect \/ StateDown \/ StateUp
  BY <1>6, DropStep, ConnectStep, StateDownStep, StateUpStep
<1>7. CASE (\E k \in Keys : HoldEnds(k) \/ Lapses(k)) \/ ReadingAges
  BY <1>7, TimeSteps
<1> QED BY <1>1, <1>2, <1>3, <1>4, <1>5, <1>6, <1>7 DEF Next

LEMMA Invariance == Spec => []IInv
BY InitHolds, StepHolds, PTL DEF Spec

\* Every variable of the subscription manager keeps its domain, whatever the
\* symbols, the demands and the failures (the fields of subManager).
THEOREM SubTypes == Spec => []TypeOK
<1>1. IInv => TypeOK
  BY DEF IInv
<1> QED BY <1>1, Invariance, PTL

\* The poller's barrier is sound for any number of workers and replays:
\* between the request and its answer no admission is in flight
\* (BeginSubscriptionQuotaRefresh, reserveQuotaAdmissionsLocked).
THEOREM ReadingIsSettled == Spec => []ReadingSettled
<1>1. IInv => ReadingSettled
  <2> SUFFICES ASSUME IInv, poll.at = "read", NEW j \in Jobs
               PROVE  jobs[j].group = {}
    BY DEF ReadingSettled
  <2>1. IsFiniteSet(TokensOf(jobs)) /\ Cardinality(TokensOf(jobs)) \in Nat
    BY Finite
  <2>2. Cardinality(TokensOf(jobs)) = 0
    BY <2>1 DEF IInv, Counted, ReadingAlone
  <2>3. TokensOf(jobs) = {}
    BY <2>1, <2>2, FS_EmptySet
  <2>4. jobs[j].group \in SUBSET Keys
    BY DEF IInv, TypeOK, JobRecord
  <2>5. ASSUME NEW k \in jobs[j].group PROVE FALSE
    <3>1. <<j, k>> \in Jobs \X Keys /\ k \in ReservedBy(jobs[j])
      BY <2>4, <2>5 DEF ReservedBy
    <3>2. <<j, k>> \in TokensOf(jobs)
      BY <3>1 DEF TokensOf
    <3> QED BY <2>3, <3>2
  <2> QED BY <2>5
<1> QED BY <1>1, Invariance, PTL

\* However batches are halved and refusals interleave with reconnects, a
\* symbol OpenD accepts is never quarantined (trySubscribe).
THEOREM OnlyBadIsQuarantined == Spec => []OnlyBadQuarantined
<1>1. IInv => OnlyBadQuarantined
  BY DEF IInv
<1> QED BY <1>1, Invariance, PTL

-----------------------------------------------------------------------------
(***************************************************************************)
(* What OpenD has subscribed and what the manager believes agree, for every *)
(* set of symbols, demands and bounds, as long as no drop is noticed after  *)
(* the reconnect, no reading of an earlier connection is taken and no       *)
(* resync clears what was admitted before it.                               *)
(*                                                                         *)
(* An answer changes the books only if the connection it came on is still   *)
(* the one, which generation stands for.  The invariant says why: on a      *)
(* connection in order, whatever is in flight was sent on it, and while the *)
(* manager knows the connection is down nobody but its resync admits.       *)
(***************************************************************************)

Calm == odd = {}
SubsOk(job) == job.group # {} /\ job.flight.reply = "ok"
UnsubsOk(job) == job.group = {} /\ job.flight.reply = "ok"
BookOk(at) == books.at = at /\ books.flight.reply = "ok"
\* what OpenD has done that its asker has not yet seen
Arriving == {k \in Keys : \/ \E j \in Jobs : SubsOk(jobs[j]) /\ k \in jobs[j].flight.keys
                          \/ BookOk("admit") /\ k \in books.flight.keys}
Leaving == {k \in Keys : \/ \E j \in Jobs : UnsubsOk(jobs[j]) /\ k \in jobs[j].flight.keys
                         \/ BookOk("release") /\ k \in books.flight.keys}
Replays(j) == jobs[j].at = "replay" /\ jobs[j].gen = generation

\* Generations are those of the connections so far, and a request of the
\* recorder is of the present one unless it is canceled.
Generations ==
  /\ jobs[Worker].at \in {"idle", "pass"}
  /\ \A j \in Jobs : /\ jobs[j].gen <= generation
                     /\ {} \notin jobs[j].in
                     /\ jobs[j].group = {} => jobs[j].batches = {}
                     /\ jobs[j].group # {} => jobs[j].out = {}
  /\ poll.gen <= generation
  /\ books.at # "idle" => books.gen <= generation /\ (books.canceled \/ books.gen = generation)
\* Nobody but a resync admits while the connection is down.
DownAdmitsNone ==
  down => /\ books.at = "admit" => books.canceled
          /\ \A j \in Jobs : jobs[j].at = "pass" /\ jobs[j].gen = generation =>
               jobs[j].in = {} /\ jobs[j].group = {}
\* OpenD has none of what an unsubscription in flight took away.
Gone ==
  /\ \A j \in Jobs : UnsubsOk(jobs[j]) => jobs[j].flight.keys \cap server = {}
  /\ BookOk("release") => books.flight.keys \cap server = {}
\* A connection in order: what is in flight was sent on it, its drop is not
\* under way, and earlier resyncs have ended.
InOrder ==
  Calm /\ linked =>
    /\ notices \in {<<>>, <<"up">>}
    /\ \A j \in Jobs : Canceled(j) => jobs[j].at \in {"unborn", "idle"}
    /\ \A j \in Jobs : jobs[j].flight # NoFlight =>
         /\ jobs[j].flight.conn = conn
         /\ jobs[j].group # {} => jobs[j].gen = generation
    /\ books.flight # NoFlight /\ books.flight.reply # "error" =>
         books.flight.conn = conn /\ books.gen = generation
    /\ \A j \in Jobs : SubsOk(jobs[j]) => jobs[j].flight.keys \subseteq server
    /\ BookOk("admit") => books.flight.keys \subseteq server
\* A connection that is gone and noticed has left nothing that could be taken
\* for the next one.
Parted ==
  /\ ~linked => server = {} /\ adrift = {}
  /\ Calm /\ ~linked /\ notices = <<>> =>
       /\ down \/ active = {}
       /\ ~known /\ (poll.at = "read" => poll.gen # generation)
       /\ \A j \in Jobs : (SubsOk(jobs[j]) => jobs[j].gen # generation) /\ ~Replays(j)
       /\ BookOk("admit") => books.gen # generation
\* Until its resync OpenD has nothing on a connection that was down.
Bare == Calm /\ down /\ linked /\ (\A j \in Jobs : ~Replays(j)) => server = {}
Believed == Calm => server \subseteq active \cup adrift \cup Arriving
Served == Calm /\ linked /\ (~down \/ \E j \in Jobs : Replays(j)) =>
            active \subseteq server \cup adrift \cup Leaving

SInv == Generations /\ DownAdmitsNone /\ Gone /\ InOrder /\ Parted /\ Bare /\ Believed /\ Served
-----------------------------------------------------------------------------
(* A step of a job that sends nothing *)

\* what such a step leaves alone
Quiet == UNCHANGED <<server, adrift, link, epoch, known, books, poll, odd>>
\* A job at work is not an earlier one, on a connection in order.
LEMMA AtWork ==
  ASSUME IInv, SInv, Calm, linked, NEW j \in Jobs, jobs[j].at \notin {"unborn", "idle"}
  PROVE  ~Canceled(j)
BY DEF SInv, InOrder

LEMMA InFlightCurrent ==
  ASSUME IInv, SInv, Calm, linked, NEW j \in Jobs, jobs[j].flight # NoFlight
  PROVE  ~Over(jobs[j].flight) /\ ~Canceled(j) /\ (jobs[j].group # {} => Current(j))
<1>1. jobs[j].at \notin {"unborn", "idle"}
  BY Busy
<1> QED BY <1>1, AtWork DEF SInv, InOrder, Over, Current

\* A job turns to r with nothing left in flight, and takes note at most of an
\* answer that is of the present connection.
Turned(j, r) ==
  /\ Quiet /\ jobs' = [jobs EXCEPT ![j] = r]
  /\ jobs[j].at \notin {"unborn", "idle"} \/ j = Worker
  /\ r.gen <= generation /\ {} \notin r.in /\ r.flight = NoFlight
  /\ r.group = {} => r.batches = {}
  /\ r.group # {} => r.out = {}
  /\ j = Worker => r.at \in {"idle", "pass"}
  /\ down /\ r.at = "pass" /\ r.gen = generation => r.in = {} /\ r.group = {}
  /\ (r.at = "replay" /\ r.gen = generation) <=> Replays(j)
Notes(j) ==
  \/ UNCHANGED active /\ (Calm /\ linked => jobs[j].flight.reply # "ok")
  \/ SubsOk(jobs[j]) /\ Current(j) /\ active' = active \cup jobs[j].flight.keys
  \/ UnsubsOk(jobs[j]) /\ active' = active \ jobs[j].flight.keys

LEMMA QuietStep ==
  ASSUME IInv, SInv, NEW j \in Jobs, NEW r \in JobRecord, Turned(j, r), Notes(j)
  PROVE  Generations' /\ DownAdmitsNone' /\ Gone' /\ InOrder' /\ Parted' /\ Bare'
<1> /\ jobs' = [jobs EXCEPT ![j] = r]
    /\ jobs[j].at \notin {"unborn", "idle"} \/ j = Worker
    /\ r.gen <= generation /\ {} \notin r.in /\ r.flight = NoFlight
    /\ r.group = {} => r.batches = {}
    /\ r.group # {} => r.out = {}
    /\ j = Worker => r.at \in {"idle", "pass"}
    /\ down /\ r.at = "pass" /\ r.gen = generation => r.in = {} /\ r.group = {}
    /\ ((r.at = "replay" /\ r.gen = generation) <=> Replays(j))
  BY DEF Turned
<1> active' \subseteq active \/ (SubsOk(jobs[j]) /\ Current(j))
  BY DEF Notes
<1>1. /\ jobs \in [Jobs -> JobRecord] /\ jobs'[j] = r /\ \A i \in Jobs : i # j => jobs'[i] = jobs[i]
      /\ Worker \in Jobs
  BY DEF IInv, TypeOK, Jobs
<1>2. UNCHANGED <<server, adrift, conn, linked, notices, generation, down, known, books, poll, odd>>
  BY DEF Turned, Quiet, link, epoch
<1>3. NoFlight.reply = "none"
  BY DEF NoFlight
<1>4. \A i \in Jobs : Replays(i)' <=> Replays(i)
  BY <1>1, <1>2 DEF Replays
<1>5. \A i \in Jobs : /\ SubsOk(jobs'[i]) => SubsOk(jobs[i]) /\ jobs'[i].flight = jobs[i].flight
                                             /\ jobs'[i].gen = jobs[i].gen
                      /\ UnsubsOk(jobs'[i]) => UnsubsOk(jobs[i]) /\ jobs'[i].flight = jobs[i].flight
  BY <1>1, <1>3 DEF SubsOk, UnsubsOk
<1>6. Generations'
  BY <1>1, <1>2 DEF SInv, Generations
<1>7. DownAdmitsNone'
  BY <1>1, <1>2 DEF SInv, DownAdmitsNone
<1>8. Gone'
  BY <1>2, <1>5 DEF SInv, Gone, BookOk
<1>9. InOrder'
  <2> SUFFICES ASSUME Calm', linked' PROVE InOrder'
    BY DEF InOrder
  <2>1. Calm /\ linked
    BY <1>2 DEF Calm
  <2>2. ~Canceled(j)
    BY <2>1, AtWork DEF Canceled
  <2>3. \A i \in Jobs : Canceled(i)' <=> Canceled(i)
    BY <1>2 DEF Canceled, Resync
  <2>4. \A i \in Jobs : Canceled(i)' => jobs'[i].at \in {"unborn", "idle"}
    BY <1>1, <2>1, <2>2, <2>3 DEF SInv, InOrder
  <2>5. \A i \in Jobs : jobs'[i].flight # NoFlight =>
         /\ jobs'[i].flight.conn = conn
         /\ jobs'[i].group # {} => jobs'[i].gen = generation
    BY <1>1, <2>1 DEF SInv, InOrder
  <2>6. \A i \in Jobs : SubsOk(jobs'[i]) => jobs'[i].flight.keys \subseteq server
    BY <1>5, <2>1 DEF SInv, InOrder
  <2> QED BY <1>2, <2>1, <2>4, <2>5, <2>6 DEF SInv, InOrder, BookOk
<1>10. Parted'
  <2>1. ~linked' => server' = {} /\ adrift' = {}
    BY <1>2 DEF SInv, Parted
  <2>2. ASSUME Calm', ~linked', notices' = <<>>
        PROVE  /\ down' \/ active' = {}
               /\ ~known' /\ (poll'.at = "read" => poll'.gen # generation')
               /\ \A i \in Jobs : (SubsOk(jobs'[i]) => jobs'[i].gen # generation') /\ ~Replays(i)'
               /\ BookOk("admit")' => books'.gen # generation'
    <3>1. Calm /\ ~linked /\ notices = <<>>
      BY <1>2, <2>2 DEF Calm
    <3>2. /\ down \/ active = {}
          /\ ~known /\ (poll.at = "read" => poll.gen # generation)
          /\ \A i \in Jobs : (SubsOk(jobs[i]) => jobs[i].gen # generation) /\ ~Replays(i)
          /\ BookOk("admit") => books.gen # generation
      BY <3>1 DEF SInv, Parted
    <3>3. ~(SubsOk(jobs[j]) /\ Current(j))
      BY <3>2 DEF Current
    <3> QED BY <1>2, <1>4, <1>5, <3>2, <3>3 DEF BookOk
  <2> QED BY <2>1, <2>2 DEF Parted
<1>11. Bare'
  BY <1>2, <1>4 DEF SInv, Bare, Calm
<1> QED BY <1>6, <1>7, <1>8, <1>9, <1>10, <1>11

\* Either the step changes nothing OpenD has done, or it takes note of it.
LEMMA QuietAgrees ==
  ASSUME IInv, SInv, NEW j \in Jobs, NEW r \in JobRecord, Turned(j, r), Notes(j)
  PROVE  Believed' /\ Served'
<1> /\ jobs' = [jobs EXCEPT ![j] = r] /\ r.flight = NoFlight
    /\ (r.at = "replay" /\ r.gen = generation) <=> Replays(j)
  BY DEF Turned
<1>1. /\ jobs \in [Jobs -> JobRecord] /\ jobs'[j] = r /\ \A i \in Jobs : i # j => jobs'[i] = jobs[i]
      /\ server \in SUBSET Keys /\ active \in SUBSET Keys
  BY DEF IInv, TypeOK
<1>2. UNCHANGED <<server, adrift, conn, linked, notices, generation, down, known, books, poll, odd>>
  BY DEF Turned, Quiet, link, epoch
<1>3. NoFlight.reply = "none"
  BY DEF NoFlight
<1>4. \A i \in Jobs : Replays(i)' <=> Replays(i)
  BY <1>1, <1>2 DEF Replays
<1>5. CASE ~Calm
  BY <1>2, <1>5 DEF Believed, Served, Calm
<1>6. CASE ~linked
  <2>1. server' = {} /\ ~linked'
    BY <1>2, <1>6 DEF SInv, Parted
  <2> QED BY <2>1 DEF Believed, Served
<1>7. CASE Calm /\ linked
  <2>1. /\ server \subseteq active \cup adrift \cup Arriving
        /\ (~down \/ \E i \in Jobs : Replays(i)) => active \subseteq server \cup adrift \cup Leaving
    BY <1>7 DEF SInv, Believed, Served
  <2>2. CASE UNCHANGED active /\ jobs[j].flight.reply # "ok"
    <3>1. Arriving' = Arriving /\ Leaving' = Leaving
      <4>1. \A i \in Jobs : /\ SubsOk(jobs'[i]) <=> SubsOk(jobs[i])
                            /\ UnsubsOk(jobs'[i]) <=> UnsubsOk(jobs[i])
                            /\ SubsOk(jobs[i]) \/ UnsubsOk(jobs[i]) => jobs'[i].flight = jobs[i].flight
        BY <1>1, <1>3, <2>2 DEF SubsOk, UnsubsOk
      <4> QED BY <1>2, <4>1 DEF Arriving, Leaving, BookOk
    <3> QED BY <1>2, <1>4, <2>1, <2>2, <3>1 DEF Believed, Served
  <2>3. CASE SubsOk(jobs[j]) /\ active' = active \cup jobs[j].flight.keys
    <3>1. jobs[j].flight.keys \subseteq server
      BY <1>7, <2>3 DEF SInv, InOrder
    <3>2. Arriving \subseteq Arriving' \cup jobs[j].flight.keys
      BY <1>1, <1>2 DEF Arriving, BookOk
    <3>3. Leaving' = Leaving
      <4>1. \A i \in Jobs : /\ UnsubsOk(jobs'[i]) <=> UnsubsOk(jobs[i])
                            /\ UnsubsOk(jobs[i]) => jobs'[i].flight = jobs[i].flight
        BY <1>1, <1>3, <2>3 DEF SubsOk, UnsubsOk
      <4> QED BY <1>2, <4>1 DEF Leaving, BookOk
    <3> QED BY <1>2, <1>4, <2>1, <2>3, <3>1, <3>2, <3>3 DEF Believed, Served
  <2>4. CASE UnsubsOk(jobs[j]) /\ active' = active \ jobs[j].flight.keys
    <3>1. jobs[j].flight.keys \cap server = {}
      BY <2>4 DEF SInv, Gone
    <3>2. Leaving \subseteq Leaving' \cup jobs[j].flight.keys
      BY <1>1, <1>2 DEF Leaving, BookOk
    <3>3. Arriving' = Arriving
      <4>1. \A i \in Jobs : /\ SubsOk(jobs'[i]) <=> SubsOk(jobs[i])
                            /\ SubsOk(jobs[i]) => jobs'[i].flight = jobs[i].flight
        BY <1>1, <1>3, <2>4 DEF SubsOk, UnsubsOk
      <4> QED BY <1>2, <4>1 DEF Arriving, BookOk
    <3> QED BY <1>2, <1>4, <2>1, <2>4, <3>1, <3>2, <3>3 DEF Believed, Served
  <2> QED BY <1>7, <2>2, <2>3, <2>4 DEF Notes
<1> QED BY <1>5, <1>6, <1>7

LEMMA QuietHolds ==
  ASSUME IInv, SInv, NEW j \in Jobs, NEW r \in JobRecord, Turned(j, r), Notes(j)
  PROVE  SInv'
BY QuietStep, QuietAgrees DEF SInv

LEMMA Tidied ==
  ASSUME NEW job
  PROVE  Tidy(job) = job \/ (Tidy(job) = Idle /\ job.at = "pass")
BY DEF Tidy

\* The jobs' records, and what the invariants say of one.
LEMMA JobFacts ==
  ASSUME IInv, SInv, NEW j \in Jobs
  PROVE  /\ jobs \in [Jobs -> JobRecord] /\ jobs[j] \in JobRecord
         /\ jobs[j].gen \in Nat /\ jobs[j].gen <= generation /\ generation \in Nat
         /\ {} \notin jobs[j].in /\ (jobs[j].group = {} => jobs[j].batches = {})
      /\ (jobs[j].group # {} => jobs[j].out = {})
         /\ (jobs[j].group # {} => jobs[j].out = {})
         /\ (j = Worker => jobs[j].at \in {"idle", "pass"})
         /\ NoFlight.reply = "none" /\ Idle \in JobRecord
<1>1. jobs \in [Jobs -> JobRecord] /\ jobs[j] \in JobRecord
  BY DEF IInv, TypeOK
<1>2. jobs[j].gen \in Nat
  BY <1>1 DEF JobRecord
<1>3. generation \in Nat
  BY SubAssumption DEF IInv, TypeOK
<1>4. /\ jobs[j].gen <= generation
      /\ {} \notin jobs[j].in /\ (jobs[j].group = {} => jobs[j].batches = {})
      /\ (jobs[j].group # {} => jobs[j].out = {})
      /\ (j = Worker => jobs[j].at \in {"idle", "pass"})
  BY DEF SInv, Generations
<1>5. NoFlight.reply = "none" /\ Idle \in JobRecord
  BY IdleType DEF NoFlight
<1> QED BY <1>1, <1>2, <1>3, <1>4, <1>5

\* A job at its pass or replay that goes on with nothing in flight.
LEMMA Continues ==
  ASSUME IInv, SInv, NEW j \in Jobs, NEW job \in JobRecord, Quiet,
         jobs' = [jobs EXCEPT ![j] = Tidy(job)] \/ jobs' = [jobs EXCEPT ![j] = job],
         jobs[j].at \in {"pass", "replay"},
         job.at = jobs[j].at, job.gen = jobs[j].gen, job.flight = NoFlight,
         job.in \subseteq jobs[j].in, job.group # {} => jobs[j].in # {} \/ jobs[j].group # {},
         job.group = {} => job.batches = {}, job.group # {} => job.out = {},
         Notes(j)
  PROVE  SInv'
<1>1. PICK r \in {job, Idle} : jobs' = [jobs EXCEPT ![j] = r] /\ (r = job \/ job.at = "pass")
  BY Tidied
<1>2. r \in JobRecord
  BY IdleType
<1>3. /\ Idle.at = "idle" /\ Idle.flight = NoFlight /\ Idle.gen = 0 /\ Idle.in = {} /\ Idle.batches = {}
      /\ Idle.group = {}
  BY DEF Idle
<1>4. Turned(j, r)
  <2>1. r.gen <= generation /\ {} \notin r.in /\ r.flight = NoFlight
    BY <1>3, JobFacts
  <2>2. (r.group = {} => r.batches = {}) /\ (r.group # {} => r.out = {})
    BY <1>3
  <2>3. j = Worker => r.at \in {"idle", "pass"}
    BY <1>3, JobFacts
  <2>4. down /\ r.at = "pass" /\ r.gen = generation => r.in = {} /\ r.group = {}
    <3>1. SUFFICES ASSUME down, r.at = "pass", r.gen = generation PROVE r.in = {} /\ r.group = {}
      OBVIOUS
    <3>2. r = job
      BY <1>3, <3>1
    <3>3. jobs[j].in = {} /\ jobs[j].group = {}
      BY <3>1, <3>2 DEF SInv, DownAdmitsNone
    <3> QED BY <3>2, <3>3
  <2>5. (r.at = "replay" /\ r.gen = generation) <=> Replays(j)
    BY <1>1, <1>3 DEF Replays
  <2> QED BY <1>1, <2>1, <2>2, <2>3, <2>4, <2>5 DEF Turned
<1> QED BY <1>2, <1>4, QuietHolds

LEMMA TakeGroupServes ==
  ASSUME IInv, SInv, NEW j \in Jobs, TakeGroup(j)
  PROVE  SInv'
<1>0. PICK g \in jobs[j].in : \E bs \in {{}, {g}} :
        jobs' = [jobs EXCEPT ![j].in = @ \ {g}, ![j].group = g, ![j].batches = bs]
  BY DEF TakeGroup
<1>1. PICK bs \in {{}, {g}} : jobs' = [jobs EXCEPT ![j].in = @ \ {g}, ![j].group = g, ![j].batches = bs]
  BY <1>0
<1>2. /\ jobs[j].at \in {"pass", "replay"} /\ jobs[j].flight = NoFlight /\ UNCHANGED active
      /\ jobs[j].out = {}
  BY DEF TakeGroup, slots
<1> DEFINE job == [jobs[j] EXCEPT !.in = jobs[j].in \ {g}, !.group = g, !.batches = bs]
<1>3. /\ job \in JobRecord /\ job.at = jobs[j].at /\ job.gen = jobs[j].gen
      /\ job.flight = NoFlight /\ job.in = jobs[j].in \ {g} /\ job.group = g /\ job.out = jobs[j].out /\ jobs[j].out = {}
  <2>1. jobs[j] \in JobRecord
    BY JobFacts
  <2>2. g \in SUBSET Keys /\ bs \in SUBSET SUBSET Keys /\ jobs[j].in \ {g} \in SUBSET SUBSET Keys
    BY <2>1 DEF JobRecord
  <2> QED BY <1>2, <2>1, <2>2 DEF JobRecord
<1>7. job.in \subseteq jobs[j].in /\ g # {} /\ jobs[j].in # {}
  BY <1>3, JobFacts
<1>4. jobs' = [jobs EXCEPT ![j] = job]
  BY <1>1, JobFacts DEF JobRecord
<1>5. Quiet
  BY DEF TakeGroup, Quiet, held, ledger
<1>6. Notes(j)
  BY <1>2, JobFacts DEF Notes
<1> HIDE DEF job
<1> QED BY <1>2, <1>3, <1>4, <1>5, <1>6, <1>7, Continues

LEMMA SkipServes ==
  ASSUME IInv, SInv, NEW j \in Jobs, Subscribe(j), ~Current(j) \/ Canceled(j)
  PROVE  SInv'
<1>1. PICK b \in jobs[j].batches : jobs' = [jobs EXCEPT ![j].batches = @ \ {b}]
  BY DEF Subscribe
<1>2. /\ jobs[j].at \in {"pass", "replay"} /\ jobs[j].flight = NoFlight /\ UNCHANGED active
  BY Busy DEF Subscribe, slots, Paced
<1> DEFINE job == [jobs[j] EXCEPT !.batches = jobs[j].batches \ {b}]
<1>3. /\ job \in JobRecord /\ job.at = jobs[j].at /\ job.gen = jobs[j].gen /\ job.flight = NoFlight
      /\ job.in = jobs[j].in /\ job.group = jobs[j].group /\ job.out = jobs[j].out /\ job.group # {}
  BY <1>2, JobFacts DEF JobRecord
<1>4. jobs' = [jobs EXCEPT ![j] = job]
  BY <1>1, JobFacts DEF JobRecord
<1>5. Quiet
  BY DEF Subscribe, Quiet, held, ledger
<1>6. Notes(j)
  BY <1>2, JobFacts DEF Notes
<1> HIDE DEF job
<1> QED BY <1>2, <1>3, <1>4, <1>5, <1>6, JobFacts, Continues

LEMMA FinishServes ==
  ASSUME IInv, SInv, NEW j \in Jobs, Finish(j)
  PROVE  SInv'
<1>1. /\ jobs[j].at \in {"pass", "replay"} /\ jobs[j].flight = NoFlight /\ UNCHANGED active
      /\ jobs[j].batches = {} /\ jobs[j].group # {}
  BY Busy DEF Finish, slots
<1> DEFINE job == [jobs[j] EXCEPT !.group = {}]
<1>2. /\ job \in JobRecord /\ job.at = jobs[j].at /\ job.gen = jobs[j].gen /\ job.flight = NoFlight
      /\ job.in = jobs[j].in /\ job.group = {} /\ job.batches = {}
  BY <1>1, JobFacts DEF JobRecord
<1>3. jobs' = [jobs EXCEPT ![j] = Tidy(job)]
  BY DEF Finish
<1>4. Quiet
  BY DEF Finish, Quiet, held
<1>5. Notes(j)
  BY <1>1, JobFacts DEF Notes
<1> HIDE DEF job
<1> QED BY <1>1, <1>2, <1>3, <1>4, <1>5, Continues

LEMMA UnsubscribedServes ==
  ASSUME IInv, SInv, NEW j \in Jobs, Unsubscribed(j)
  PROVE  SInv'
<1>1. /\ jobs[j].at \in {"pass", "replay"} /\ jobs[j].flight # NoFlight /\ jobs[j].group = {}
  BY Busy DEF Unsubscribed
<1> DEFINE job == [jobs[j] EXCEPT !.flight = NoFlight]
<1>2. /\ job \in JobRecord /\ job.at = jobs[j].at /\ job.gen = jobs[j].gen /\ job.flight = NoFlight
      /\ job.in = jobs[j].in /\ job.group = jobs[j].group /\ job.out = jobs[j].out /\ job.batches = jobs[j].batches
  BY <1>1, JobFacts, IdleType DEF JobRecord
<1>3. jobs' = [jobs EXCEPT ![j] = Tidy(job)]
  BY DEF Unsubscribed
<1>4. Quiet
  BY DEF Unsubscribed, Quiet, held, ledger
<1>5. Notes(j)
  <2>1. CASE Done(jobs[j].flight) /\ Forget(jobs[j].flight.keys)
    BY <1>1, <2>1 DEF Notes, Done, UnsubsOk, Forget
  <2>2. CASE ~Done(jobs[j].flight) /\ UNCHANGED slots
    BY <2>2 DEF Notes, Done, slots
  <2>3. CASE (Over(jobs[j].flight) \/ Canceled(j)) /\ UNCHANGED slots
    BY <1>1, <2>3, InFlightCurrent DEF Notes, slots
  <2> QED BY <2>1, <2>2, <2>3 DEF Unsubscribed
<1> HIDE DEF job
<1> QED BY <1>1, <1>2, <1>3, <1>4, <1>5, JobFacts, Continues

LEMMA SubscribedServes ==
  ASSUME IInv, SInv, NEW j \in Jobs, Subscribed(j)
  PROVE  SInv'
<1> DEFINE f == jobs[j].flight
<1>1. /\ jobs[j].at \in {"pass", "replay"} /\ f # NoFlight /\ jobs[j].group # {}
      /\ f.keys \in SUBSET Keys
  BY Busy DEF Subscribed, JobRecord, Flight, NoFlight
<1>2. PICK bs \in SUBSET SUBSET Keys :
        jobs' = [jobs EXCEPT ![j].flight = NoFlight, ![j].batches = @ \cup bs]
  <2>1. Halves(f.keys) \in SUBSET SUBSET Keys /\ {} \in SUBSET SUBSET Keys
    BY <1>1 DEF Halves
  <2> QED BY <2>1 DEF Subscribed
<1> DEFINE job == [jobs[j] EXCEPT !.flight = NoFlight, !.batches = jobs[j].batches \cup bs]
<1>3. /\ job \in JobRecord /\ job.at = jobs[j].at /\ job.gen = jobs[j].gen /\ job.flight = NoFlight
      /\ job.in = jobs[j].in /\ job.group = jobs[j].group /\ job.out = jobs[j].out
  BY <1>1, JobFacts, IdleType DEF JobRecord
<1>4. jobs' = [jobs EXCEPT ![j] = job]
  BY <1>2, JobFacts DEF JobRecord
<1>5. Quiet
  BY DEF Subscribed, Quiet, held, ledger
<1>6. Notes(j)
  <2>1. CASE Done(f) /\ Current(j) /\ Admit(f.keys)
    BY <1>1, <2>1 DEF Notes, Done, SubsOk, Admit
  <2>2. CASE f.reply # "ok" /\ UNCHANGED slots
    BY <2>2 DEF Notes, slots
  <2>3. CASE (Over(f) \/ ~Current(j)) /\ UNCHANGED slots
    BY <1>1, <2>3, InFlightCurrent DEF Notes, slots
  <2>4. Split(f) => f.reply # "ok"
    BY DEF Split
  <2> QED BY <2>1, <2>2, <2>3, <2>4 DEF Subscribed
<1> HIDE DEF job
<1> QED BY <1>1, <1>3, <1>4, <1>5, <1>6, JobFacts, Continues

LEMMA GivesUpServes ==
  ASSUME IInv, SInv, NEW j \in Jobs, GivesUp(j)
  PROVE  SInv'
<1>1. jobs[j].at = "wait" /\ jobs' = [jobs EXCEPT ![j] = Idle] /\ UNCHANGED active /\ Quiet
  BY DEF GivesUp, slots, Quiet, held, ledger
<1>2. jobs[j].flight = NoFlight
  BY <1>1 DEF IInv, Shape, Tame
<1>3. /\ Idle.at = "idle" /\ Idle.flight = NoFlight /\ Idle.gen = 0 /\ Idle.in = {} /\ Idle.batches = {}
      /\ Idle.group = {}
  BY DEF Idle
<1>4. Turned(j, Idle)
  BY <1>1, <1>3, JobFacts DEF Turned, Replays
<1>5. Notes(j)
  BY <1>1, <1>2, JobFacts DEF Notes
<1> QED BY <1>4, <1>5, JobFacts, QuietHolds

\* While the connection is down nothing is free.
LEMMA PlanServes ==
  ASSUME IInv, SInv, NEW j \in Jobs, Plan(j)
  PROVE  SInv'
<1> DEFINE new == Desired(Minus(Least(Budget, Cardinality(active) + Free),
                    Cardinality({k \in active \ Wanted : k \in optional \cup young}))) \ active
           adds == {k \in new : Cardinality({l \in new : KeyAhead(l, k)}) < Free}
<1>1. PICK removes :
        jobs' = [jobs EXCEPT ![j] = Tidy([Idle EXCEPT !.at = "pass", !.gen = generation,
                                               !.out = Groups(removes), !.in = Groups(adds)])]
  BY DEF Plan
<1>2. new \in SUBSET Keys /\ adds \in SUBSET Keys
  BY DesiredIsWanted
<1>3. down => adds = {}
  <2>1. \A k : {l \in new : KeyAhead(l, k)} \in SUBSET Keys
    BY <1>2
  <2>2. \A k : Cardinality({l \in new : KeyAhead(l, k)}) \in Nat
    BY <2>1, KeySetsAreFinite
  <2>3. down => Free = 0
    BY DEF Free, NoBudget
  <2> HIDE DEF new
  <2> QED BY <2>2, <2>3
<1> HIDE DEF adds
<1>4. {} \notin Groups(adds) /\ (adds = {} => Groups(adds) = {})
  BY DEF Groups, SymbolsOf
<1> DEFINE job == [Idle EXCEPT !.at = "pass", !.gen = generation,
                               !.out = Groups(removes), !.in = Groups(adds)]
<1>5. /\ job.at = "pass" /\ job.gen = generation /\ job.in = Groups(adds) /\ job.flight = NoFlight
      /\ job.group = {} /\ job.batches = {}
      /\ Idle.at = "idle" /\ Idle.flight = NoFlight /\ Idle.gen = 0 /\ Idle.in = {} /\ Idle.batches = {}
      /\ Idle.group = {}
  BY DEF Idle
<1> HIDE DEF job
<1>6. PICK r \in {job, Idle} : jobs' = [jobs EXCEPT ![j] = r]
  BY <1>1, Tidied DEF job
<1>7. jobs[j].at \in {"idle", "plan"} /\ (jobs[j].at = "idle" => j = Worker) /\ UNCHANGED active /\ Quiet
  BY DEF Plan, Quiet, held
<1>8. jobs[j].flight = NoFlight
  BY <1>7 DEF IInv, Shape, Tame
<1>9. Turned(j, r)
  <2>1. down => Groups(adds) = {}
    BY <1>3, <1>4
  <2>2. /\ r.gen <= generation /\ {} \notin r.in /\ r.flight = NoFlight /\ r.batches = {} /\ r.group = {}
        /\ r.at \in {"idle", "pass"}
    BY <1>4, <1>5, <1>6, JobFacts
  <2>3. down /\ r.at = "pass" => r.in = {} /\ r.group = {}
    BY <1>5, <1>6, <2>1
  <2> QED BY <1>6, <1>7, <2>2, <2>3 DEF Turned, Replays
<1>10. r \in JobRecord
  <2>1. jobs'[j] = r
    BY <1>6, JobFacts
  <2>2. IInv'
    BY PlanStep
  <2>3. jobs' \in [Jobs -> JobRecord]
    BY <2>2 DEF IInv, TypeOK
  <2> QED BY <2>1, <2>3
<1>11. Notes(j)
  BY <1>7, <1>8, JobFacts DEF Notes
<1> QED BY <1>9, <1>10, <1>11, QuietHolds, SMTT(30)
-----------------------------------------------------------------------------
(* A request *)

\* One request is in flight at a time.
LEMMA Alone ==
  ASSUME Paced
  PROVE  /\ \A i \in Jobs : /\ jobs[i].flight = NoFlight
                            /\ ~SubsOk(jobs[i]) /\ ~UnsubsOk(jobs[i])
         /\ \A at : ~BookOk(at)
         /\ books.flight = NoFlight /\ Arriving = {} /\ Leaving = {}
<1>1. NoFlight.reply = "none"
  BY DEF NoFlight
<1>2. /\ \A i \in Jobs : /\ jobs[i].flight = NoFlight
                         /\ ~SubsOk(jobs[i]) /\ ~UnsubsOk(jobs[i])
      /\ \A at : ~BookOk(at)
      /\ books.flight = NoFlight
  BY <1>1 DEF Paced, SubsOk, UnsubsOk, BookOk
<1> QED BY <1>2 DEF Arriving, Leaving

Still == UNCHANGED <<active, odd, down, linked, generation>> /\ \A i \in Jobs : Replays(i)' <=> Replays(i)

LEMMA SubAgrees ==
  ASSUME IInv, SInv, Paced, Still, NEW ks \in SUBSET Keys, NEW r \in Replies, Subscribes(ks, r),
         down /\ linked => \E i \in Jobs : Replays(i),
         r = "ok" => ks \subseteq Arriving'
  PROVE  /\ Believed' /\ Served' /\ Bare'
         /\ ~linked => r = "error" /\ UNCHANGED held
         /\ r = "ok" => ks \subseteq server'
<1>1. /\ Calm => server \subseteq active \cup adrift
      /\ Calm /\ linked /\ (~down \/ \E i \in Jobs : Replays(i)) => active \subseteq server \cup adrift
  BY Alone DEF SInv, Believed, Served
<1>2. \/ UNCHANGED held
      \/ server' = server \cup ks /\ r = "ok" /\ adrift' = adrift \ ks
      \/ server' = server \cup ks /\ adrift' = adrift \cup ks
  BY DEF Subscribes
<1>3. (~linked => r = "error" /\ UNCHANGED held) /\ (r = "ok" => ks \subseteq server')
  BY DEF Subscribes
<1>4. Believed' /\ Served'
  BY <1>1, <1>2 DEF Believed, Served, Calm, held, Still
<1>5. Bare'
  BY DEF Bare, Still
<1> QED BY <1>3, <1>4, <1>5

LEMMA UnsubAgrees ==
  ASSUME IInv, SInv, Paced, Still, NEW ks \in SUBSET Keys, NEW r \in Replies,
         Unsubscribes(ks, r) \/ (r = "error" /\ UNCHANGED held),
         r = "ok" => ks \subseteq Leaving'
  PROVE  /\ Believed' /\ Served' /\ Bare'
         /\ ~linked => r = "error" /\ UNCHANGED held
         /\ r = "ok" => ks \cap server' = {}
<1>1. /\ Calm => server \subseteq active \cup adrift
      /\ Calm /\ linked /\ (~down \/ \E i \in Jobs : Replays(i)) => active \subseteq server \cup adrift
  BY Alone DEF SInv, Believed, Served
<1>2. \/ UNCHANGED held
      \/ server' = server \ ks /\ r = "ok" /\ adrift' = adrift \ ks
      \/ server' = server \ ks /\ adrift' = adrift \cup ks
  BY DEF Unsubscribes
<1>3. (~linked => r = "error" /\ UNCHANGED held) /\ (r = "ok" => ks \cap server' = {})
  BY DEF Unsubscribes
<1>4. Believed' /\ Served'
  BY <1>1, <1>2 DEF Believed, Served, Calm, held, Still
<1>5. Bare'
  BY <1>2 DEF SInv, Bare, Calm, held, Still
<1> QED BY <1>3, <1>4, <1>5

\* What a job's request changes besides.
LEMMA JobAsks ==
  ASSUME IInv, SInv, NEW j \in Jobs, Paced, NEW job \in JobRecord, NEW ks \in SUBSET Keys, NEW r \in Replies,
         jobs' = [jobs EXCEPT ![j] = job], job.flight = Answer(ks, r),
         job.at = jobs[j].at, job.gen = jobs[j].gen, job.in = jobs[j].in, job.group = jobs[j].group,
         job.out \subseteq jobs[j].out, job.batches \subseteq jobs[j].batches,
         jobs[j].at \in {"pass", "replay"},
         UNCHANGED <<active, link, epoch, known, books, poll, odd>>,
         ~linked => r = "error" /\ UNCHANGED held,
         IF jobs[j].group = {} THEN r = "ok" => ks \cap server' = {}
                               ELSE Current(j) /\ (r = "ok" => ks \subseteq server')
  PROVE  /\ Generations' /\ DownAdmitsNone' /\ Gone' /\ InOrder' /\ Parted' /\ Still
         /\ r = "ok" => ks \subseteq IF jobs[j].group = {} THEN Leaving' ELSE Arriving'
<1>1. /\ jobs \in [Jobs -> JobRecord] /\ jobs'[j] = job /\ \A i \in Jobs : i # j => jobs'[i] = jobs[i]
      /\ Worker \in Jobs
  BY DEF IInv, TypeOK, Jobs
<1>2. UNCHANGED <<conn, linked, notices, generation, down, known, books, poll, odd, active>>
  BY DEF link, epoch
<1>3. job.flight.keys = ks /\ job.flight.conn = conn /\ job.flight.reply = r
  BY DEF Answer
<1>4. Still
  BY <1>1, <1>2 DEF Still, Replays
<1>5. Generations' /\ DownAdmitsNone'
  BY <1>1, <1>2 DEF SInv, Generations, DownAdmitsNone
<1>6. \A i \in Jobs : i # j => jobs'[i].flight = NoFlight /\ ~SubsOk(jobs'[i]) /\ ~UnsubsOk(jobs'[i])
  BY <1>1, Alone DEF SubsOk, UnsubsOk
<1>7. \A at : ~BookOk(at)' /\ books'.flight = NoFlight
  BY <1>2, Alone DEF BookOk
<1>8. /\ SubsOk(jobs'[j]) <=> jobs[j].group # {} /\ r = "ok"
      /\ UnsubsOk(jobs'[j]) <=> jobs[j].group = {} /\ r = "ok"
  BY <1>1, <1>3 DEF SubsOk, UnsubsOk
<1>9. Gone'
  BY <1>1, <1>3, <1>6, <1>7, <1>8 DEF Gone
<1>10. InOrder'
  <2> SUFFICES ASSUME Calm', linked' PROVE InOrder'
    BY DEF InOrder
  <2>1. Calm /\ linked
    BY <1>2 DEF Calm
  <2>2. \A i \in Jobs : (Canceled(i)' <=> Canceled(i)) /\ jobs'[i].at = jobs[i].at
    BY <1>1, <1>2 DEF Canceled, Resync
  <2>3. \A i \in Jobs : jobs'[i].flight # NoFlight =>
         /\ jobs'[i].flight.conn = conn
         /\ jobs'[i].group # {} => jobs'[i].gen = generation
    BY <1>1, <1>3, <1>6 DEF Current
  <2>4. \A i \in Jobs : SubsOk(jobs'[i]) => jobs'[i].flight.keys \subseteq server'
    BY <1>1, <1>3, <1>6, <1>8
  <2> QED BY <1>2, <1>7, <2>1, <2>2, <2>3, <2>4 DEF SInv, InOrder
<1>11. Parted'
  <2>1. ~linked' => server' = {} /\ adrift' = {}
    BY <1>2 DEF SInv, Parted, held
  <2>2. ~linked => \A i \in Jobs : ~SubsOk(jobs'[i])
    BY <1>6, <1>8
  <2> QED BY <1>2, <1>4, <1>7, <2>1, <2>2 DEF SInv, Parted, Calm, Still
<1>12. r = "ok" => ks \subseteq IF jobs[j].group = {} THEN Leaving' ELSE Arriving'
  BY <1>1, <1>3, <1>8 DEF Leaving, Arriving
<1> QED BY <1>4, <1>5, <1>9, <1>10, <1>11, <1>12

LEMMA UnsubscribeServes ==
  ASSUME IInv, SInv, NEW j \in Jobs, Unsubscribe(j)
  PROVE  SInv'
<1>1. PICK g \in jobs[j].out, r \in Replies :
        /\ (r = "error" /\ UNCHANGED held) \/ Unsubscribes(g, r)
        /\ jobs' = [jobs EXCEPT ![j].out = @ \ {g}, ![j].flight = Answer(g, r)]
  BY DEF Unsubscribe
<1>2. jobs[j] \in JobRecord /\ jobs[j].at = "pass" /\ Paced /\ jobs[j].group = {}
      /\ UNCHANGED <<active, link, epoch, known, books, poll, odd>>
  BY JobFacts DEF Unsubscribe, slots, ledger
<1>3. g \in SUBSET Keys /\ Answer(g, r) \in Flight
  BY <1>2, AnswerType DEF JobRecord, IInv
<1> DEFINE job == [jobs[j] EXCEPT !.out = jobs[j].out \ {g}, !.flight = Answer(g, r)]
<1>4. /\ job \in JobRecord /\ job.at = jobs[j].at /\ job.gen = jobs[j].gen /\ job.in = jobs[j].in
      /\ job.group = jobs[j].group /\ job.out = jobs[j].out \ {g} /\ job.batches = jobs[j].batches
      /\ job.flight = Answer(g, r)
  BY <1>2, <1>3 DEF JobRecord
<1>5. jobs' = [jobs EXCEPT ![j] = job]
  BY <1>1, JobFacts DEF JobRecord
<1>6. (~linked => r = "error" /\ UNCHANGED held) /\ (r = "ok" => g \cap server' = {})
  BY <1>1 DEF Unsubscribes
<1> HIDE DEF job
<1>7. /\ Generations' /\ DownAdmitsNone' /\ Gone' /\ InOrder' /\ Parted' /\ Still
      /\ r = "ok" => g \subseteq Leaving'
  BY ZenonT(40), <1>2, <1>3, <1>4, <1>5, <1>6, JobAsks
<1>8. Believed' /\ Served' /\ Bare'
  BY <1>1, <1>2, <1>3, <1>7, UnsubAgrees
<1> QED BY <1>7, <1>8 DEF SInv

\* While the connection is down only its resync subscribes.
LEMMA SubscribeServes ==
  ASSUME IInv, SInv, NEW j \in Jobs, Subscribe(j)
  PROVE  SInv'
<1>1. CASE ~Current(j) \/ Canceled(j)
  BY <1>1, SkipServes
<1>2. CASE Current(j) /\ ~Canceled(j)
  <2>1. PICK b \in jobs[j].batches, r \in Replies :
          /\ Subscribes(b, r)
          /\ jobs' = [jobs EXCEPT ![j].batches = @ \ {b}, ![j].flight = Answer(b, r)]
    BY <1>2 DEF Subscribe
  <2>2. /\ jobs[j] \in JobRecord /\ jobs[j].at \in {"pass", "replay"} /\ Paced /\ jobs[j].group # {}
        /\ UNCHANGED <<active, link, epoch, known, books, poll, odd>>
    BY <2>1, Busy, JobFacts DEF Subscribe, slots, ledger
  <2>3. b \in SUBSET Keys /\ Answer(b, r) \in Flight
    BY <2>2, AnswerType DEF JobRecord, IInv
  <2> DEFINE job == [jobs[j] EXCEPT !.batches = jobs[j].batches \ {b}, !.flight = Answer(b, r)]
  <2>4. /\ job \in JobRecord /\ job.at = jobs[j].at /\ job.gen = jobs[j].gen /\ job.in = jobs[j].in
        /\ job.group = jobs[j].group /\ job.out = jobs[j].out /\ job.batches = jobs[j].batches \ {b}
        /\ job.flight = Answer(b, r)
    BY <2>2, <2>3 DEF JobRecord
  <2>5. jobs' = [jobs EXCEPT ![j] = job]
    BY <2>1, JobFacts DEF JobRecord
  <2>6. (~linked => r = "error" /\ UNCHANGED held) /\ (r = "ok" => b \subseteq server')
    BY <2>1 DEF Subscribes
  <2>7. down => Replays(j)
    BY <1>2, <2>2 DEF SInv, DownAdmitsNone, Current, Replays
  <2> HIDE DEF job
  <2>8. /\ Generations' /\ DownAdmitsNone' /\ Gone' /\ InOrder' /\ Parted' /\ Still
        /\ r = "ok" => b \subseteq Arriving'
    BY ZenonT(40), <1>2, <2>2, <2>3, <2>4, <2>5, <2>6, JobAsks
  <2>9. Believed' /\ Served' /\ Bare'
    BY <2>1, <2>2, <2>3, <2>7, <2>8, SubAgrees
  <2> QED BY <2>8, <2>9 DEF SInv
<1> QED BY <1>1, <1>2

LEMMA BooksSendServes ==
  ASSUME IInv, SInv, BooksSend
  PROVE  SInv'
<1> DEFINE ks == books.key
<1>1. PICK r \in Replies :
        /\ IF books.canceled THEN r = "error" /\ UNCHANGED held
           ELSE IF books.at = "admit" THEN Subscribes(ks, r) ELSE Unsubscribes(ks, r)
        /\ books' = [books EXCEPT !.flight = Answer(ks, r)]
  BY DEF BooksSend
<1>2. /\ books \in BookRecord /\ ks \in SUBSET Keys /\ books.at \in {"admit", "release"} /\ Paced
      /\ UNCHANGED <<active, link, epoch, known, jobs, poll, odd>>
  BY DEF BooksSend, IInv, TypeOK, BookRecord, slots, ledger
<1>3. /\ books'.at = books.at /\ books'.key = ks /\ books'.gen = books.gen /\ books'.canceled = books.canceled
      /\ books'.flight.keys = ks /\ books'.flight.conn = conn /\ books'.flight.reply = r
  BY <1>1, <1>2 DEF BookRecord, Answer
<1>4. UNCHANGED <<conn, linked, notices, generation, down, known, jobs, poll, odd, active>>
  BY <1>2 DEF link, epoch
<1>5. (~linked => r = "error" /\ UNCHANGED held)
      /\ (r = "ok" => IF books.at = "admit" THEN ks \subseteq server' ELSE ks \cap server' = {})
  BY <1>1 DEF Subscribes, Unsubscribes
<1>6. Still
  BY <1>4 DEF Still, Replays
<1>7. Generations' /\ DownAdmitsNone'
  BY <1>3, <1>4 DEF SInv, Generations, DownAdmitsNone
<1>8. \A i \in Jobs : ~SubsOk(jobs'[i]) /\ ~UnsubsOk(jobs'[i]) /\ jobs'[i].flight = NoFlight
  BY <1>2, <1>4, Alone
<1>9. r # "error" => ~books.canceled /\ books.gen = generation
  BY <1>1, <1>2 DEF SInv, Generations
<1>10. Gone'
  BY <1>3, <1>5, <1>8 DEF Gone, BookOk
<1>11. InOrder'
  <2> SUFFICES ASSUME Calm', linked' PROVE InOrder'
    BY DEF InOrder
  <2>1. Calm /\ linked
    BY <1>4 DEF Calm
  <2>2. \A i \in Jobs : Canceled(i)' <=> Canceled(i)
    BY <1>4 DEF Canceled, Resync
  <2>3. books'.flight.reply # "error" => books'.flight.conn = conn' /\ books'.gen = generation'
    BY <1>3, <1>4, <1>9
  <2>4. BookOk("admit")' => books'.flight.keys \subseteq server'
    BY <1>3, <1>5 DEF BookOk
  <2> QED BY <1>4, <1>8, <2>1, <2>2, <2>3, <2>4 DEF SInv, InOrder
<1>12. Parted'
  <2>1. ~linked' => server' = {} /\ adrift' = {}
    BY <1>4, <1>5 DEF SInv, Parted, held
  <2>2. ~linked => ~BookOk("admit")'
    BY <1>3, <1>5 DEF BookOk
  <2> QED BY <1>4, <1>6, <1>8, <2>1, <2>2 DEF SInv, Parted, Calm, Still
<1>13. Believed' /\ Served' /\ Bare'
  <2>1. CASE books.at = "admit" /\ ~books.canceled
    <3>1. ~down
      BY <2>1 DEF SInv, DownAdmitsNone
    <3>2. r = "ok" => ks \subseteq Arriving'
      BY <1>2, <1>3, <2>1 DEF Arriving, BookOk
    <3> QED BY <1>1, <1>2, <1>6, <2>1, <3>1, <3>2, SubAgrees
  <2>2. CASE books.at = "release" \/ books.canceled
    <3>1. Unsubscribes(ks, r) \/ (r = "error" /\ UNCHANGED held)
      BY <1>1, <2>2
    <3>2. r = "ok" => ks \subseteq Leaving'
      BY <1>1, <1>2, <1>3, <2>2 DEF Leaving, BookOk
    <3> QED BY <1>2, <1>6, <3>1, <3>2, UnsubAgrees
  <2> QED BY <1>2, <2>1, <2>2
<1> QED BY <1>7, <1>10, <1>11, <1>12, <1>13 DEF SInv
-----------------------------------------------------------------------------
(* A resync *)

\* A turn of it leaves what is in flight alone.
LEMMA TurnKeeps ==
  ASSUME IInv, SInv, NEW j \in Jobs, NEW r \in JobRecord, jobs' = [jobs EXCEPT ![j] = r],
         jobs[j].at \in {"wait", "replay"}, jobs[j].flight = NoFlight, r.flight = NoFlight,
         r.at # "pass", r.gen <= generation, {} \notin r.in, r.group = {}, r.batches = {},
         odd \subseteq odd', down' => down,
         UNCHANGED <<server, adrift, link, generation, known, books, poll>>
  PROVE  /\ Generations' /\ DownAdmitsNone' /\ Gone' /\ InOrder'
         /\ Arriving' = Arriving /\ Leaving' = Leaving
         /\ \A i \in Jobs : SubsOk(jobs'[i]) => SubsOk(jobs[i]) /\ jobs'[i].gen = jobs[i].gen
         /\ \A i \in Jobs : i # j => (Replays(i)' <=> Replays(i))
         /\ jobs'[j] = r
         /\ Calm /\ linked => j = Resync(generation)
<1>1. /\ jobs \in [Jobs -> JobRecord] /\ jobs'[j] = r /\ \A i \in Jobs : i # j => jobs'[i] = jobs[i]
      /\ Worker \in Jobs /\ j # Worker
  BY JobFacts DEF Jobs
<1>2. UNCHANGED <<server, adrift, conn, linked, notices, generation, known, books, poll>>
      /\ (Calm' => Calm)
  BY DEF link, Calm
<1>3. NoFlight.reply = "none"
  BY DEF NoFlight
<1>4. \A i \in Jobs : /\ SubsOk(jobs'[i]) <=> SubsOk(jobs[i])
                      /\ UnsubsOk(jobs'[i]) <=> UnsubsOk(jobs[i])
                      /\ SubsOk(jobs[i]) \/ UnsubsOk(jobs[i]) => jobs'[i] = jobs[i]
  BY <1>1, <1>3 DEF SubsOk, UnsubsOk
<1>5. Generations' /\ DownAdmitsNone'
  BY <1>1, <1>2 DEF SInv, Generations, DownAdmitsNone
<1>6. Gone'
  BY <1>2, <1>4 DEF SInv, Gone, BookOk
<1>7. Calm /\ linked => ~Canceled(j)
  BY AtWork
<1>8. InOrder'
  <2> SUFFICES ASSUME Calm', linked' PROVE InOrder'
    BY DEF InOrder
  <2>1. Calm /\ linked
    BY <1>2
  <2>2. \A i \in Jobs : Canceled(i)' <=> Canceled(i)
    BY <1>2 DEF Canceled, Resync
  <2>3. \A i \in Jobs : Canceled(i)' => jobs'[i].at \in {"unborn", "idle"}
    BY <1>1, <1>7, <2>1, <2>2 DEF SInv, InOrder
  <2>4. \A i \in Jobs : jobs'[i].flight # NoFlight =>
         /\ jobs'[i].flight.conn = conn
         /\ jobs'[i].group # {} => jobs'[i].gen = generation
    BY <1>1, <2>1 DEF SInv, InOrder
  <2>5. \A i \in Jobs : SubsOk(jobs'[i]) => jobs'[i].flight.keys \subseteq server
    BY <1>4, <2>1 DEF SInv, InOrder
  <2> QED BY <1>2, <2>1, <2>3, <2>4, <2>5 DEF SInv, InOrder, BookOk
<1>9. Arriving' = Arriving /\ Leaving' = Leaving
  BY <1>2, <1>4 DEF Arriving, Leaving, BookOk
<1>10. \A i \in Jobs : i # j => (Replays(i)' <=> Replays(i))
  BY <1>1, <1>2 DEF Replays
<1>11. Calm /\ linked => j = Resync(generation)
  BY <1>1, <1>7 DEF Canceled
<1> QED BY <1>1, <1>4, <1>5, <1>6, <1>8, <1>9, <1>10, <1>11

LEMMA ReplayServes ==
  ASSUME IInv, SInv, NEW j \in Jobs, Replay(j)
  PROVE  SInv'
<1> DEFINE keys == active \cap Wanted \cap Desired(Minus(remain, Headroom + spent + pending))
<1>1. /\ jobs \in [Jobs -> JobRecord] /\ jobs[j] \in JobRecord /\ jobs[j].at = "wait"
      /\ jobs[j].flight = NoFlight /\ jobs[j].group = {} /\ jobs[j].in = {} /\ jobs[j].batches = {}
  BY JobFacts DEF Replay, IInv, Shape, Tame
<1>2. /\ active' = {} /\ UNCHANGED <<server, adrift, link, generation, known, books, poll>>
      /\ odd \subseteq odd' /\ (Calm' => Calm /\ (down \/ active = {}))
  BY DEF Replay, NoSlots, Calm, held
<1>3. \E r \in JobRecord :
        /\ jobs' = [jobs EXCEPT ![j] = r] /\ r.flight = NoFlight
        /\ r.at # "pass" /\ r.gen <= generation /\ {} \notin r.in /\ r.group = {} /\ r.batches = {}
        /\ \/ down' = FALSE /\ r.at \in {"idle", "plan"}
           \/ down' = down /\ r.at = "replay" /\ r.gen = generation
        /\ r.at = "idle" \/ known
  <2>1. CASE jobs' = [jobs EXCEPT ![j] = Idle] /\ down' = FALSE
    <3>1. Idle.at = "idle" /\ Idle.flight = NoFlight /\ Idle.gen = 0 /\ Idle.in = {} /\ Idle.batches = {}
          /\ Idle.group = {}
      BY DEF Idle
    <3>2. Idle.gen <= generation /\ Idle \in JobRecord
      BY <3>1, JobFacts
    <3> QED BY <2>1, <3>1, <3>2
  <2>2. CASE jobs' = [jobs EXCEPT ![j].at = "plan"] /\ down' = FALSE /\ known
    <3> DEFINE r == [jobs[j] EXCEPT !.at = "plan"]
    <3>1. r \in JobRecord /\ r.at = "plan" /\ r.flight = NoFlight /\ r.gen = jobs[j].gen /\ r.in = {}
          /\ r.group = {} /\ r.batches = {}
      BY <1>1 DEF JobRecord
    <3>2. jobs' = [jobs EXCEPT ![j] = r]
      BY <1>1, <2>2
    <3> HIDE DEF r
    <3> QED BY <2>2, <3>1, <3>2, JobFacts
  <2>3. CASE /\ jobs' = [jobs EXCEPT ![j].at = "replay", ![j].gen = generation, ![j].in = Groups(keys)]
             /\ down' = down /\ known
    <3>1. keys \in SUBSET Keys
      BY DesiredIsWanted
    <3> HIDE DEF keys
    <3>2. Groups(keys) \in SUBSET SUBSET Keys /\ {} \notin Groups(keys)
      BY <3>1 DEF Groups, SymbolsOf
    <3> DEFINE r == [jobs[j] EXCEPT !.at = "replay", !.gen = generation, !.in = Groups(keys)]
    <3>3. r \in JobRecord /\ r.at = "replay" /\ r.flight = NoFlight /\ r.gen = generation
          /\ r.in = Groups(keys) /\ r.group = {} /\ r.batches = {}
      BY <1>1, <3>2, JobFacts DEF JobRecord
    <3>4. jobs' = [jobs EXCEPT ![j] = r]
      BY <1>1, <2>3 DEF JobRecord
    <3> HIDE DEF r
    <3>5. r.gen <= generation
      BY <3>3, JobFacts
    <3> QED BY <2>3, <3>2, <3>3, <3>4, <3>5
  <2> HIDE DEF keys
  <2> QED BY <2>1, <2>2, <2>3 DEF Replay, keys
<1>4. PICK r \in JobRecord :
        /\ jobs' = [jobs EXCEPT ![j] = r] /\ r.flight = NoFlight
        /\ r.at # "pass" /\ r.gen <= generation /\ {} \notin r.in /\ r.group = {} /\ r.batches = {}
        /\ \/ down' = FALSE /\ r.at \in {"idle", "plan"}
           \/ down' = down /\ r.at = "replay" /\ r.gen = generation
        /\ r.at = "idle" \/ known
  BY <1>3
<1>5. down' => down
  BY <1>4
<1>6. /\ Generations' /\ DownAdmitsNone' /\ Gone' /\ InOrder'
      /\ Arriving' = Arriving /\ Leaving' = Leaving
      /\ \A i \in Jobs : SubsOk(jobs'[i]) => SubsOk(jobs[i]) /\ jobs'[i].gen = jobs[i].gen
      /\ \A i \in Jobs : i # j => (Replays(i)' <=> Replays(i))
      /\ jobs'[j] = r
      /\ Calm /\ linked => j = Resync(generation)
  BY <1>1, <1>2, <1>4, <1>5, TurnKeeps
<1>7. UNCHANGED <<conn, linked, notices>>
  BY <1>2 DEF link
<1>8. Parted'
  <2>1. ~linked' => server' = {} /\ adrift' = {}
    BY <1>2, <1>7 DEF SInv, Parted
  <2>2. ASSUME Calm', ~linked', notices' = <<>>
        PROVE  /\ ~known' /\ (poll'.at = "read" => poll'.gen # generation')
               /\ \A i \in Jobs : (SubsOk(jobs'[i]) => jobs'[i].gen # generation') /\ ~Replays(i)'
               /\ BookOk("admit")' => books'.gen # generation'
    <3>1. Calm /\ ~linked /\ notices = <<>>
      BY <1>2, <1>7, <2>2
    <3>2. /\ ~known /\ (poll.at = "read" => poll.gen # generation)
          /\ \A i \in Jobs : (SubsOk(jobs[i]) => jobs[i].gen # generation) /\ ~Replays(i)
          /\ BookOk("admit") => books.gen # generation
      BY <3>1 DEF SInv, Parted
    <3>3. ~Replays(j)'
      BY <1>4, <1>6, <3>2 DEF Replays
    <3> QED BY <1>2, <1>6, <3>2, <3>3 DEF BookOk
  <2> QED BY <1>2, <2>1, <2>2 DEF Parted
<1>9. Bare'
  <2>1. down' => Replays(j)'
    BY <1>2, <1>4, <1>6 DEF Replays
  <2> QED BY <2>1 DEF Bare
<1>10. Believed'
  <2> SUFFICES ASSUME Calm' PROVE server \subseteq adrift \cup Arriving
    BY <1>2, <1>6 DEF Believed
  <2>1. CASE active = {}
    BY <1>2, <2>1 DEF SInv, Believed
  <2>2. CASE down /\ linked
    <3>1. \A i \in Jobs : ~Replays(i)
      <4> SUFFICES ASSUME NEW i \in Jobs, Replays(i) PROVE FALSE
        OBVIOUS
      <4>1. jobs[i].at = "replay" /\ i # Worker
        BY JobFacts DEF Replays
      <4>2. ~Canceled(i)
        BY <1>2, <2>2, <4>1, AtWork
      <4>3. i = j
        BY <1>2, <1>6, <2>2, <4>1, <4>2 DEF Canceled
      <4> QED BY <1>1, <4>1, <4>3
    <3> QED BY <1>2, <2>2, <3>1 DEF SInv, Bare
  <2>3. CASE ~linked
    BY <2>3 DEF SInv, Parted
  <2> QED BY <1>2, <2>1, <2>2, <2>3
<1>11. Served'
  BY <1>2 DEF Served
<1> QED BY <1>6, <1>8, <1>9, <1>10, <1>11 DEF SInv

LEMMA ReplayedServes ==
  ASSUME IInv, SInv, NEW j \in Jobs, Replayed(j)
  PROVE  SInv'
<1>1. /\ jobs \in [Jobs -> JobRecord] /\ jobs[j].at = "replay" /\ jobs[j].flight = NoFlight
      /\ UNCHANGED <<active, server, adrift, link, generation, known, books, poll, odd>>
      /\ down' = (down /\ ~Current(j))
  BY JobFacts DEF Replayed, slots, held
<1>2. PICK r \in JobRecord :
        /\ jobs' = [jobs EXCEPT ![j] = r]
        /\ r.at \in {"plan", "idle"} /\ r.flight = NoFlight /\ r.gen = 0 /\ r.in = {} /\ r.group = {}
        /\ r.batches = {}
  <2> DEFINE job == [Idle EXCEPT !.at = IF Current(j) THEN "plan" ELSE "idle"]
  <2>1. job \in JobRecord /\ job.at \in {"plan", "idle"} /\ job.flight = NoFlight /\ job.gen = 0
        /\ job.in = {} /\ job.group = {} /\ job.batches = {}
    BY DEF Idle, JobRecord, Flight
  <2>2. jobs' = [jobs EXCEPT ![j] = job]
    BY DEF Replayed
  <2> HIDE DEF job
  <2> QED BY <2>1, <2>2
<1>3. r.gen <= generation /\ (down' => down)
  <2>1. r.gen <= generation
    BY <1>2, JobFacts
  <2>2. down' => down
    BY <1>1
  <2> QED BY <2>1, <2>2
<1>4. /\ Generations' /\ DownAdmitsNone' /\ Gone' /\ InOrder'
      /\ Arriving' = Arriving /\ Leaving' = Leaving
      /\ \A i \in Jobs : SubsOk(jobs'[i]) => SubsOk(jobs[i]) /\ jobs'[i].gen = jobs[i].gen
      /\ \A i \in Jobs : i # j => (Replays(i)' <=> Replays(i))
      /\ jobs'[j] = r
  BY <1>1, <1>2, <1>3, TurnKeeps
<1>5. UNCHANGED <<conn, linked, notices>>
  BY <1>1 DEF link
<1>6. ~Replays(j)' /\ (Replays(j) <=> Current(j))
  BY <1>1, <1>2, <1>4 DEF Replays, Current
<1>7. Parted'
  <2>1. ~linked' => server' = {} /\ adrift' = {}
    BY <1>1, <1>5 DEF SInv, Parted
  <2>2. ASSUME Calm', ~linked', notices' = <<>>
        PROVE  /\ down' \/ active' = {}
               /\ ~known' /\ (poll'.at = "read" => poll'.gen # generation')
               /\ \A i \in Jobs : (SubsOk(jobs'[i]) => jobs'[i].gen # generation') /\ ~Replays(i)'
               /\ BookOk("admit")' => books'.gen # generation'
    <3>1. Calm /\ ~linked /\ notices = <<>>
      BY <1>1, <1>5, <2>2 DEF Calm
    <3>2. /\ down \/ active = {}
          /\ ~known /\ (poll.at = "read" => poll.gen # generation)
          /\ \A i \in Jobs : (SubsOk(jobs[i]) => jobs[i].gen # generation) /\ ~Replays(i)
          /\ BookOk("admit") => books.gen # generation
      BY <3>1 DEF SInv, Parted
    <3> QED BY <1>1, <1>4, <1>6, <3>2 DEF BookOk
  <2> QED BY <2>1, <2>2 DEF Parted
<1>8. Bare'
  BY <1>1, <1>4, <1>5, <1>6 DEF SInv, Bare, Calm
<1>9. Believed'
  BY <1>1, <1>4 DEF SInv, Believed, Calm
<1>10. Served'
  BY <1>1, <1>4, <1>5, <1>6 DEF SInv, Served, Calm
<1> QED BY <1>4, <1>7, <1>8, <1>9, <1>10 DEF SInv
-----------------------------------------------------------------------------
(* The connection *)

LEMMA DropServes ==
  ASSUME IInv, SInv, Drop
  PROVE  SInv'
<1>1. /\ ~linked' /\ server' = {} /\ adrift' = {} /\ notices' # <<>>
      /\ UNCHANGED <<active, epoch, jobs, books, poll, odd>>
  BY DEF Drop, slots, IInv, TypeOK
<1>2. UNCHANGED <<generation, down>>
  BY <1>1 DEF epoch
<1>3. Generations' /\ DownAdmitsNone'
  BY <1>1, <1>2 DEF SInv, Generations, DownAdmitsNone
<1>4. Gone' /\ InOrder' /\ Parted' /\ Bare' /\ Believed' /\ Served'
  BY <1>1 DEF Gone, InOrder, Parted, Bare, Believed, Served
<1> QED BY <1>3, <1>4 DEF SInv

LEMMA ConnectServes ==
  ASSUME IInv, SInv, Connect
  PROVE  SInv'
<1>1. /\ ~linked /\ linked' = TRUE /\ notices' = Append(notices, "up")
      /\ UNCHANGED <<active, server, adrift, epoch, jobs, books, poll>>
  BY DEF Connect, slots, held
<1>2. UNCHANGED <<generation, down>>
  BY <1>1 DEF epoch
<1>3. server = {} /\ server' = {} /\ adrift' = {}
  BY <1>1 DEF SInv, Parted
<1>4. Generations' /\ DownAdmitsNone'
  BY <1>1, <1>2 DEF SInv, Generations, DownAdmitsNone
<1>5. Gone' /\ Parted' /\ Bare' /\ Believed'
  BY <1>1, <1>3 DEF Gone, Parted, Bare, Believed
<1>6. CASE Settled /\ UNCHANGED odd
  <2>1. notices = <<>> /\ Paced /\ \A i \in Jobs : Canceled(i) => jobs[i].at \in {"unborn", "idle"}
    BY <1>6 DEF Settled
  <2>2. \A i \in Jobs : Canceled(i)' <=> Canceled(i)
    BY <1>2 DEF Canceled, Resync
  <2>3. notices' = <<"up">>
    BY <1>1, <2>1
  <2>4. InOrder'
    <3>1. ~BookOk("admit")'
      BY <1>1, <2>1, Alone DEF BookOk
    <3> QED BY <1>1, <2>1, <2>2, <2>3, <3>1, Alone DEF InOrder
  <2>5. Served'
    <3>1. \A i \in Jobs : Replays(i)' <=> Replays(i)
      BY <1>1, <1>2 DEF Replays
    <3> QED BY <1>1, <1>2, <1>6, <2>1, <3>1 DEF SInv, Parted, Served, Calm
  <2> QED BY <1>4, <1>5, <2>4, <2>5 DEF SInv
<1>7. CASE odd' = odd \cup {"lag"}
  <2>1. ~Calm'
    BY <1>7 DEF Calm
  <2> QED BY <1>4, <1>5, <2>1 DEF SInv, InOrder, Served
<1> QED BY <1>6, <1>7 DEF Connect

LEMMA StateDownServes ==
  ASSUME IInv, SInv, StateDown
  PROVE  SInv'
<1>1. /\ notices # <<>> /\ Head(notices) = "down"
      /\ generation' = generation + 1 /\ down' = TRUE /\ known' = FALSE
      /\ UNCHANGED <<active, jobs, poll, linked, server, adrift, odd>>
  BY DEF StateDown, slots, held
<1>2. /\ books'.at = books.at /\ books'.gen = books.gen /\ books'.flight = books.flight
      /\ books.at # "idle" => books'.canceled = TRUE
  BY DEF StateDown, IInv, TypeOK, BookRecord
<1>3. ~(Calm /\ linked)
  BY <1>1 DEF SInv, InOrder
<1>4. /\ generation \in Nat /\ poll.gen \in Nat /\ poll.gen <= generation
      /\ \A j \in Jobs : jobs[j].gen \in Nat /\ jobs[j].gen <= generation
      /\ books.gen \in Nat /\ (books.at # "idle" => books.gen <= generation)
  <2>1. \A j \in Jobs : jobs[j].gen \in Nat /\ jobs[j].gen <= generation
    BY JobFacts
  <2>2. poll.gen \in Nat /\ books.gen \in Nat /\ generation \in Nat
    BY SubAssumption DEF IInv, TypeOK, PollRecord, BookRecord
  <2> QED BY <2>1, <2>2 DEF SInv, Generations
<1>5. /\ \A j \in Jobs : jobs'[j].gen <= generation' /\ jobs'[j].gen # generation'
      /\ poll'.gen <= generation' /\ poll'.gen # generation'
      /\ books'.at # "idle" => books'.gen <= generation' /\ books'.gen # generation'
  BY <1>1, <1>2, <1>4
<1>6. Generations' /\ DownAdmitsNone'
  BY <1>1, <1>2, <1>5 DEF SInv, Generations, DownAdmitsNone
<1>7. Gone'
  BY <1>1, <1>2 DEF SInv, Gone, BookOk
<1>8. ~(Calm' /\ linked')
  BY <1>1, <1>3 DEF Calm
<1>9. Parted'
  <2>1. ~linked' => server' = {} /\ adrift' = {}
    BY <1>1 DEF SInv, Parted
  <2> QED BY <1>1, <1>5, <2>1 DEF Parted, Replays, BookOk
<1>10. Believed'
  BY <1>8, <1>9 DEF Parted, Believed
<1> QED BY <1>6, <1>7, <1>8, <1>9, <1>10 DEF SInv, InOrder, Bare, Served

LEMMA StateUpServes ==
  ASSUME IInv, SInv, StateUp
  PROVE  SInv'
<1>0. PICK j \in Jobs : j = Resync(generation) /\ j # Worker
  <2>1. Resync(generation) \in Jobs
    BY DEF IInv, TypeOK, Jobs
  <2>2. Resync(generation) # Worker
    BY DEF Resync, Worker
  <2> QED BY <2>1, <2>2
<1>1. /\ notices # <<>> /\ Head(notices) = "up" /\ notices' = Tail(notices)
      /\ jobs' = [jobs EXCEPT ![j].at = "wait"]
      /\ UNCHANGED <<active, server, adrift, generation, down, known, books, poll, conn, linked, odd>>
  BY <1>0 DEF StateUp, slots, held, epoch, ledger
<1>2. /\ TypeOK /\ Alternate /\ ResyncOnce /\ generation \in 0 .. MaxDrops
      /\ MaxDrops \in Nat /\ jobs \in [Jobs -> JobRecord]
  BY SubAssumption DEF IInv, Noticing, TypeOK
<1>3. Len(notices) \in Nat \ {0} /\ notices[1] = "up" /\ (notices' = <<>> => linked)
  BY <1>1, <1>2, NoticeTaken
<1>4. jobs[j].at = "unborn"
  <2>1. ToResync
    BY <1>1, <1>3 DEF ToResync
  <2> QED BY <1>0, <1>2, <2>1 DEF ResyncOnce
<1>5. /\ \A i \in Jobs : /\ jobs'[i].gen = jobs[i].gen /\ jobs'[i].in = jobs[i].in
                          /\ jobs'[i].group = jobs[i].group /\ jobs'[i].out = jobs[i].out
                          /\ jobs'[i].batches = jobs[i].batches /\ jobs'[i].flight = jobs[i].flight
      /\ \A i \in Jobs : i # j => jobs'[i] = jobs[i]
      /\ jobs'[j].at = "wait" /\ Worker \in Jobs
  BY <1>1, <1>2, <1>4 DEF JobRecord, Jobs
<1>6. Generations' /\ DownAdmitsNone'
  BY <1>0, <1>1, <1>5 DEF SInv, Generations, DownAdmitsNone
<1>7. \A i \in Jobs : /\ SubsOk(jobs'[i]) <=> SubsOk(jobs[i])
                      /\ UnsubsOk(jobs'[i]) <=> UnsubsOk(jobs[i])
                      /\ Replays(i)' <=> Replays(i)
  BY <1>1, <1>4, <1>5 DEF SubsOk, UnsubsOk, Replays
<1>8. Gone'
  BY <1>1, <1>5, <1>7 DEF SInv, Gone, BookOk
<1>9. InOrder'
  <2> SUFFICES ASSUME Calm', linked' PROVE InOrder'
    BY DEF InOrder
  <2>1. Calm /\ linked
    BY <1>1 DEF Calm
  <2>2. notices' = <<>>
    <3>1. notices = <<"up">>
      BY <1>1, <2>1 DEF SInv, InOrder
    <3> QED BY <1>1, <3>1
  <2>3. \A i \in Jobs : (Canceled(i)' <=> Canceled(i)) /\ ~Canceled(j)
    BY <1>0, <1>1 DEF Canceled, Resync
  <2>4. \A i \in Jobs : Canceled(i)' => jobs'[i].at \in {"unborn", "idle"}
    <3> SUFFICES ASSUME NEW i \in Jobs, Canceled(i)' PROVE jobs'[i].at \in {"unborn", "idle"}
      OBVIOUS
    <3>1. Canceled(i) /\ i # j
      BY <2>3
    <3>2. jobs[i].at \in {"unborn", "idle"}
      BY <2>1, <3>1 DEF SInv, InOrder
    <3>3. jobs'[i].at = jobs[i].at
      BY <1>5, <3>1
    <3> QED BY <3>2, <3>3
  <2> QED BY <1>1, <1>5, <1>7, <2>1, <2>2, <2>4 DEF SInv, InOrder, BookOk
<1>10. Parted'
  <2>1. ~linked' => server' = {} /\ adrift' = {}
    BY <1>1 DEF SInv, Parted
  <2> QED BY <1>1, <1>3, <2>1 DEF Parted
<1>11. Arriving' = Arriving /\ Leaving' = Leaving
  BY <1>1, <1>5, <1>7 DEF Arriving, Leaving, BookOk
<1>12. Bare' /\ Believed' /\ Served'
  BY <1>1, <1>7, <1>11 DEF SInv, Bare, Believed, Served, Calm
<1> QED BY <1>6, <1>8, <1>9, <1>10, <1>12 DEF SInv
-----------------------------------------------------------------------------
(* Callers, the poller, the recorder's books, time *)

\* A step that leaves the slots, the jobs and OpenD alone, and of the
\* recorder's worker what is in flight.
LEMMA Aside ==
  ASSUME IInv, SInv, UNCHANGED <<active, held, conn, linked, notices, epoch, jobs>>, odd \subseteq odd',
         books'.at # "idle" => books'.gen <= generation /\ (books'.canceled \/ books'.gen = generation),
         down /\ books'.at = "admit" => books'.canceled,
         \/ books'.at = books.at /\ books'.gen = books.gen /\ books'.flight = books.flight
         \/ books.flight = NoFlight /\ books'.flight = NoFlight,
         poll'.gen <= generation,
         Calm' /\ ~linked /\ notices = <<>> => ~known' /\ (poll'.at = "read" => poll'.gen # generation)
  PROVE  SInv'
<1>1. /\ UNCHANGED <<active, server, adrift, conn, linked, notices, generation, down, jobs>>
      /\ (Calm' => Calm)
  BY DEF held, epoch, Calm
<1>2. NoFlight.reply = "none"
  BY DEF NoFlight
<1>3. /\ \A at : BookOk(at)' => BookOk(at) /\ books'.flight = books.flight /\ books'.gen = books.gen
      /\ \A at : BookOk(at) => BookOk(at)'
  BY <1>2 DEF BookOk
<1>4. Arriving' = Arriving /\ Leaving' = Leaving
  BY <1>1, <1>3 DEF Arriving, Leaving
<1>5. \A i \in Jobs : (Replays(i)' <=> Replays(i)) /\ (Canceled(i)' <=> Canceled(i))
  BY <1>1 DEF Replays, Canceled, Resync
<1>6. Generations' /\ DownAdmitsNone'
  BY <1>1 DEF SInv, Generations, DownAdmitsNone
<1>7. Gone'
  BY <1>1, <1>3 DEF SInv, Gone
<1>8. InOrder'
  <2> SUFFICES ASSUME Calm', linked' PROVE InOrder'
    BY DEF InOrder
  <2>1. Calm /\ linked
    BY <1>1
  <2>2. books'.flight # NoFlight /\ books'.flight.reply # "error" =>
          books'.flight.conn = conn /\ books'.gen = generation
    BY <2>1 DEF SInv, InOrder
  <2>3. BookOk("admit")' => books'.flight.keys \subseteq server
    BY <1>3, <2>1 DEF SInv, InOrder
  <2> QED BY <1>1, <1>5, <2>1, <2>2, <2>3 DEF SInv, InOrder
<1>9. Parted'
  <2>1. ~linked' => server' = {} /\ adrift' = {}
    BY <1>1 DEF SInv, Parted
  <2>2. ASSUME Calm', ~linked', notices' = <<>>
        PROVE  /\ down' \/ active' = {}
               /\ ~known' /\ (poll'.at = "read" => poll'.gen # generation')
               /\ \A i \in Jobs : (SubsOk(jobs'[i]) => jobs'[i].gen # generation') /\ ~Replays(i)'
               /\ BookOk("admit")' => books'.gen # generation'
    <3>1. Calm /\ ~linked /\ notices = <<>>
      BY <1>1, <2>2
    <3>2. /\ down \/ active = {}
          /\ \A i \in Jobs : (SubsOk(jobs[i]) => jobs[i].gen # generation) /\ ~Replays(i)
          /\ BookOk("admit") => books.gen # generation
      BY <3>1 DEF SInv, Parted
    <3>3. ~known' /\ (poll'.at = "read" => poll'.gen # generation)
      BY <2>2, <3>1
    <3> QED BY <1>1, <1>3, <1>5, <3>2, <3>3
  <2> QED BY <2>1, <2>2 DEF Parted
<1>10. Bare' /\ Believed' /\ Served'
  BY <1>1, <1>4, <1>5 DEF SInv, Bare, Believed, Served
<1> QED BY <1>6, <1>7, <1>8, <1>9, <1>10 DEF SInv

\* What Aside asks of the books and of the poller while they do nothing.
LEMMA BooksRest ==
  ASSUME IInv, SInv
  PROVE  /\ books.at # "idle" => books.gen <= generation /\ (books.canceled \/ books.gen = generation)
         /\ down /\ books.at = "admit" => books.canceled
         /\ poll.gen <= generation
         /\ Calm /\ ~linked /\ notices = <<>> => ~known /\ (poll.at = "read" => poll.gen # generation)
         /\ 0 <= generation
BY SMTT(40), SubAssumption DEF SInv, Generations, DownAdmitsNone, Parted, IInv, TypeOK

LEMMA CallersServe ==
  ASSUME IInv, SInv, NEW d \in DOMAIN Demands, Ensure(d) \/ Release(d)
  PROVE  SInv'
<1>1. UNCHANGED <<active, held, conn, linked, notices, epoch, jobs, odd, known, poll>>
  BY DEF Ensure, Release, slots, link, ledger
<1>2. /\ books'.at = books.at /\ books'.gen = books.gen /\ books'.flight = books.flight
      /\ books.canceled => books'.canceled
  <2>1. books \in BookRecord
    BY DEF IInv, TypeOK
  <2>2. books' = books \/ books' = [books EXCEPT !.canceled = TRUE]
    BY DEF Ensure, Release
  <2> QED BY <2>1, <2>2 DEF BookRecord
<1>3. (Calm' => Calm) /\ odd \subseteq odd'
  BY <1>1 DEF Calm
<1> QED BY <1>1, <1>2, <1>3, BooksRest, Aside

LEMMA TimeServes ==
  ASSUME IInv, SInv, \/ \E k \in Keys : HoldEnds(k) \/ Lapses(k)
                     \/ ReadingAges
  PROVE  SInv'
<1>1. UNCHANGED <<active, held, conn, linked, notices, epoch, jobs, odd, poll, books>>
      /\ (known' => known)
  BY DEF HoldEnds, Lapses, ReadingAges, slots, link, ledger
<1>2. (Calm' => Calm) /\ odd \subseteq odd'
  BY <1>1 DEF Calm
<1> QED BY <1>1, <1>2, BooksRest, Aside

\* A reading of an earlier connection is the odd case.
LEMMA PollsServe ==
  ASSUME IInv, SInv, Polls
  PROVE  SInv'
<1>1. UNCHANGED <<active, held, conn, linked, notices, epoch, jobs, books>>
  BY DEF Polls, PollBegin, PollAsk, PollSet, PollEnd, slots, link, ledger
<1>2. NoPoll.at = "idle" /\ NoPoll.gen = 0
  BY DEF NoPoll
<1>3. odd \subseteq odd' /\ (Calm' => Calm)
  BY DEF Polls, PollBegin, PollAsk, PollSet, PollEnd, Calm
<1>4. poll \in PollRecord
  BY DEF IInv, TypeOK
<1>5. CASE PollBegin \/ PollEnd
  <2>1. known' = known /\ poll'.at # "read" /\ (poll'.gen = poll.gen \/ poll'.gen = 0)
    BY <1>2, <1>4, <1>5 DEF PollBegin, PollEnd, PollRecord
  <2> QED BY <1>1, <1>3, <2>1, BooksRest, Aside
<1>6. CASE PollAsk
  <2>1. /\ known' = known
        /\ poll'.gen = generation \/ poll'.gen = 0
        /\ poll'.at = "read" => linked
    BY <1>2, <1>6 DEF PollAsk, ledger, NoPoll
  <2>2. poll'.gen <= generation
    BY <2>1, BooksRest DEF IInv, TypeOK
  <2> QED BY <1>1, <1>3, <2>1, <2>2, BooksRest, Aside
<1>7. CASE PollSet
  <2>1. poll.at = "read" /\ poll'.at # "read" /\ poll'.gen = 0
    BY <1>7 DEF PollSet, NoPoll
  <2>2. ASSUME Calm', ~linked, notices = <<>> PROVE ~known'
    <3>1. ~known /\ poll.gen # generation
      BY <1>3, <2>1, <2>2, BooksRest
    <3>2. odd' # odd \cup {"stale"}
      BY <2>2 DEF Calm
    <3> QED BY <1>7, <3>1, <3>2 DEF PollSet
  <2> QED BY <1>1, <1>3, <2>1, <2>2, BooksRest, Aside
<1> QED BY <1>5, <1>6, <1>7 DEF Polls

\* The recorder asks for a book only while something is free.
LEMMA BooksPassServes ==
  ASSUME IInv, SInv, BooksPass
  PROVE  SInv'
<1>1. /\ UNCHANGED <<active, held, conn, linked, notices, epoch, jobs, odd, poll, known>>
      /\ books.at = "idle"
  BY DEF BooksPass, slots, link
<1>2. odd \subseteq odd' /\ (Calm' => Calm)
  BY <1>1 DEF Calm
<1>3. CASE books' = books
  BY <1>1, <1>2, <1>3, BooksRest, Aside
<1>4. ASSUME NEW at \in {"admit", "release"}, NEW key, at = "admit" => ~NoBudget,
             books' = [NoBook EXCEPT !.at = at, !.gen = generation, !.key = key]
      PROVE  SInv'
  <2>1. books'.at = at /\ books'.gen = generation /\ books'.flight = NoFlight
    BY <1>4 DEF NoBook
  <2>2. books.flight = NoFlight
    BY <1>1 DEF IInv, Counted
  <2>3. ~(down /\ books'.at = "admit")
    BY <1>4, <2>1 DEF NoBudget
  <2>4. generation <= generation
    BY SubAssumption DEF IInv, TypeOK
  <2> QED BY <1>1, <1>2, <2>1, <2>2, <2>3, <2>4, BooksRest, Aside
<1> QED
  <2>1. \/ books' = books
        \/ \E key : books' = [NoBook EXCEPT !.at = "release", !.gen = generation, !.key = key]
        \/ ~NoBudget /\ \E key : books' = [NoBook EXCEPT !.at = "admit", !.gen = generation, !.key = key]
    BY DEF BooksPass
  <2> QED BY <1>3, <1>4, <2>1

\* An answer cut off leaves its keys adrift; a whole one is of this connection.
LEMMA BooksDoneServes ==
  ASSUME IInv, SInv, BooksDone
  PROVE  SInv'
<1> DEFINE f == books.flight
<1>1. /\ f # NoFlight /\ books' = NoBook
      /\ UNCHANGED <<epoch, jobs, poll, link, server, odd>>
      /\ books \in BookRecord /\ books.at # "idle" /\ f.keys \in SUBSET Keys /\ f.reply \in Replies
  BY DEF BooksDone, IInv, TypeOK, BookRecord, Counted, Flight, NoFlight
<1>2. UNCHANGED <<conn, linked, notices, generation, down>>
  BY <1>1 DEF link, epoch
<1>3. books'.at = "idle" /\ books'.flight = NoFlight /\ ~BookOk("admit")' /\ ~BookOk("release")'
  BY <1>1 DEF NoBook, NoFlight, BookOk
<1>4. PICK reply :
        /\ reply = f.reply \/ (reply = "error" /\ f.reply # "error" /\ (books.canceled \/ Over(f)))
        /\ adrift' = IF reply = "error" THEN adrift \cup (f.keys \cap server) ELSE adrift
        /\ known' => known
        /\ \/ /\ books.at = "release" /\ books.gen = generation /\ reply \in {"ok", "error"}
              /\ active' = active \ f.keys
           \/ /\ books.at = "admit" /\ books.gen = generation /\ reply = "ok"
              /\ active' = active \cup f.keys
           \/ /\ active' = active
              /\ books.gen = generation => IF books.at = "admit" THEN reply # "ok" ELSE reply \notin {"ok", "error"}
  <2> DEFINE current == books.gen = generation
  <2>1. PICK reply \in IF f.reply # "error" /\ (books.canceled \/ Over(f)) THEN {f.reply, "error"} ELSE {f.reply} :
          /\ adrift' = IF reply = "error" THEN adrift \cup (f.keys \cap server) ELSE adrift
          /\ \/ /\ books.at = "release"
                /\ IF current /\ reply \in {"ok", "error"} THEN active' = active \ f.keys ELSE active' = active
                /\ known' = (known /\ ~(current /\ reply = "error"))
             \/ /\ books.at = "admit" /\ current /\ reply = "ok"
                /\ active' = active \cup f.keys /\ known' = known
             \/ /\ books.at = "admit" /\ ~(current /\ reply = "ok")
                /\ active' = active
                /\ known' = (known /\ ~(current /\ reply = "error"))
    BY DEF BooksDone, Forget, Admit, slots
  <2>2. reply = f.reply \/ (reply = "error" /\ f.reply # "error" /\ (books.canceled \/ Over(f)))
    BY <2>1
  <2>3. known' => known
    BY <2>1
  <2>4. \/ /\ books.at = "release" /\ current /\ reply \in {"ok", "error"}
           /\ active' = active \ f.keys
        \/ /\ books.at = "admit" /\ current /\ reply = "ok"
           /\ active' = active \cup f.keys
        \/ /\ active' = active
           /\ current => IF books.at = "admit" THEN reply # "ok" ELSE reply \notin {"ok", "error"}
    BY <2>1
  <2> QED BY <2>1, <2>2, <2>3, <2>4
<1>5. Generations' /\ DownAdmitsNone'
  BY <1>1, <1>2, <1>3 DEF SInv, Generations, DownAdmitsNone
<1>6. Gone'
  BY <1>1, <1>3 DEF SInv, Gone
<1>7. \A i \in Jobs : (Replays(i)' <=> Replays(i)) /\ (Canceled(i)' <=> Canceled(i))
  BY <1>1, <1>2 DEF Replays, Canceled, Resync
<1>8. InOrder'
  <2> SUFFICES ASSUME Calm', linked' PROVE InOrder'
    BY DEF InOrder
  <2>1. Calm /\ linked
    BY <1>1, <1>2 DEF Calm
  <2> QED BY <1>1, <1>2, <1>3, <1>7, <2>1 DEF SInv, InOrder
<1>9. Parted'
  <2>1. ~linked' => server' = {} /\ adrift' = {}
    BY <1>1, <1>2, <1>4 DEF SInv, Parted
  <2>2. ASSUME Calm', ~linked', notices' = <<>>
        PROVE  /\ down' \/ active' = {}
               /\ ~known' /\ (poll'.at = "read" => poll'.gen # generation')
               /\ \A i \in Jobs : (SubsOk(jobs'[i]) => jobs'[i].gen # generation') /\ ~Replays(i)'
               /\ BookOk("admit")' => books'.gen # generation'
    <3>1. Calm /\ ~linked /\ notices = <<>>
      BY <1>1, <1>2, <2>2 DEF Calm
    <3>2. /\ down \/ active = {}
          /\ ~known /\ (poll.at = "read" => poll.gen # generation)
          /\ \A i \in Jobs : (SubsOk(jobs[i]) => jobs[i].gen # generation) /\ ~Replays(i)
          /\ BookOk("admit") => books.gen # generation
      BY <3>1 DEF SInv, Parted
    <3>3. active' \subseteq active
      BY <1>4, <3>2 DEF BookOk
    <3> QED BY <1>1, <1>2, <1>3, <1>4, <1>7, <3>2, <3>3
  <2> QED BY <2>1, <2>2 DEF Parted
<1>10. Bare'
  BY <1>1, <1>2, <1>7 DEF SInv, Bare, Calm
<1>11. Calm /\ linked /\ f.reply = "ok" =>
          books.gen = generation /\ (books.at = "admit" => f.keys \subseteq server)
  BY <1>1 DEF SInv, InOrder, BookOk
<1>12. Believed'
  <2> SUFFICES ASSUME Calm PROVE server \subseteq active' \cup adrift' \cup Arriving'
    BY <1>1 DEF Believed, Calm
  <2>1. server \subseteq active \cup adrift \cup Arriving
    BY DEF SInv, Believed
  <2>2. Arriving \subseteq Arriving' \cup (IF BookOk("admit") THEN f.keys ELSE {})
    BY <1>1 DEF Arriving
  <2>3. CASE ~linked
    BY <2>3 DEF SInv, Parted
  <2>4. CASE reply = "error"
    <3>1. adrift' = adrift \cup (f.keys \cap server)
      BY <1>4, <2>4
    <3>2. active \subseteq active' \cup f.keys
      BY <1>4
    <3> QED BY <2>1, <2>2, <3>1, <3>2
  <2>5. CASE linked /\ reply # "error"
    <3>1. reply = f.reply /\ adrift' = adrift
      BY <1>4, <2>5
    <3>2. CASE books.at = "release"
      <4>1. f.reply = "ok" => f.keys \cap server = {}
        BY <3>2 DEF SInv, Gone, BookOk
      <4>2. ~BookOk("admit")
        BY <3>2 DEF BookOk
      <4>3. active' = active \/ (active' = active \ f.keys /\ f.reply = "ok")
        BY <1>4, <2>5, <3>1, <3>2
      <4> QED BY <2>1, <2>2, <3>1, <4>1, <4>2, <4>3
    <3>3. CASE books.at = "admit"
      <4>1. f.reply = "ok" => active' = active \cup f.keys
        BY <1>4, <1>11, <2>5, <3>1, <3>3
      <4>2. active \subseteq active'
        BY <1>4, <3>3
      <4>3. BookOk("admit") => f.reply = "ok"
        BY DEF BookOk
      <4> QED BY <2>1, <2>2, <3>1, <4>1, <4>2, <4>3
    <3> QED BY <1>1, <3>2, <3>3 DEF BookRecord
  <2> QED BY <2>3, <2>4, <2>5
<1>13. Served'
  <2> SUFFICES ASSUME Calm, linked, ~down \/ \E i \in Jobs : Replays(i)
               PROVE  active' \subseteq server \cup adrift' \cup Leaving'
    BY <1>1, <1>2, <1>7 DEF Served, Calm
  <2>1. active \subseteq server \cup adrift \cup Leaving
    BY DEF SInv, Served
  <2>2. Leaving \subseteq Leaving' \cup (IF BookOk("release") THEN f.keys ELSE {})
    BY <1>1 DEF Leaving
  <2>3. adrift \subseteq adrift'
    BY <1>4
  <2>4. CASE books.at = "release"
    <3>1. active' \subseteq active
      BY <1>4, <2>4
    <3>2. BookOk("release") => active' = active \ f.keys
      <4>1. BookOk("release") => f.reply = "ok"
        BY DEF BookOk
      <4> QED BY <1>4, <1>11, <2>4, <4>1
    <3> QED BY <2>1, <2>2, <2>3, <3>1, <3>2
  <2>5. CASE books.at = "admit"
    <3>1. ~BookOk("release")
      BY <2>5 DEF BookOk
    <3>2. active' = active \/ (active' = active \cup f.keys /\ f.reply = "ok")
      BY <1>4, <2>5
    <3>3. active' \subseteq active \cup server
      BY <1>11, <2>5, <3>2
    <3> QED BY <2>1, <2>2, <2>3, <3>1, <3>3
  <2> QED BY <1>1, <2>4, <2>5 DEF BookRecord
<1> QED BY <1>5, <1>6, <1>8, <1>9, <1>10, <1>12, <1>13 DEF SInv
-----------------------------------------------------------------------------

LEMMA InitServes == Init => SInv
<1> SUFFICES ASSUME Init PROVE SInv
  OBVIOUS
<1>1. /\ ~linked /\ notices = <<>> /\ active = {} /\ server = {} /\ adrift = {} /\ ~known /\ ~down
      /\ generation = 0
      /\ books.at = "idle" /\ books.flight = NoFlight /\ poll.at = "idle" /\ poll.gen = 0
  BY DEF Init, NoBook, NoPoll
<1>2. \A j \in Jobs : /\ jobs[j].gen = 0 /\ jobs[j].in = {} /\ jobs[j].group = {} /\ jobs[j].batches = {}
                      /\ jobs[j].flight = NoFlight /\ jobs[j].at \in {"idle", "unborn"}
  BY DEF Init, Idle
<1>3. Worker \in Jobs /\ jobs[Worker].at = "idle"
  BY DEF Init, Idle, Jobs
<1>4. NoFlight.reply = "none"
  BY DEF NoFlight
<1>5. Generations /\ DownAdmitsNone
  BY <1>1, <1>2, <1>3 DEF Generations, DownAdmitsNone
<1>6. Gone /\ InOrder /\ Bare /\ Believed /\ Served
  BY <1>1, <1>2, <1>4 DEF Gone, InOrder, Bare, Believed, Served, BookOk
<1>7. Parted
  BY <1>1, <1>2, <1>4 DEF Parted, SubsOk, Replays, BookOk
<1> QED BY <1>5, <1>6, <1>7 DEF SInv

LEMMA StepServes == IInv /\ SInv /\ [Next]_vars => SInv'
<1> SUFFICES ASSUME IInv, SInv, [Next]_vars PROVE SInv'
  OBVIOUS
<1>1. CASE UNCHANGED vars
  <2>1. UNCHANGED <<active, held, conn, linked, notices, epoch, jobs, odd, known, poll, books>>
    BY <1>1 DEF vars, slots, link, ledger
  <2>2. odd \subseteq odd' /\ (Calm' => Calm)
    BY <2>1 DEF Calm
  <2> QED BY <2>1, <2>2, BooksRest, Aside
<1>2. CASE \E d \in DOMAIN Demands : Ensure(d) \/ Release(d)
  BY <1>2, CallersServe
<1>3. CASE \E j \in Jobs : Runs(j)
  <2>1. PICK j \in Jobs : Runs(j)
    BY <1>3
  <2> QED BY <2>1, PlanServes, UnsubscribeServes, UnsubscribedServes, TakeGroupServes, SubscribeServes,
             SubscribedServes, FinishServes, ReplayServes, GivesUpServes, ReplayedServes DEF Runs
<1>4. CASE Polls
  BY <1>4, PollsServe
<1>5. CASE Books
  BY <1>5, BooksPassServes, BooksSendServes, BooksDoneServes DEF Books
<1>6. CASE Drop \/ Connect \/ StateDown \/ StateUp
  BY <1>6, DropServes, ConnectServes, StateDownServes, StateUpServes
<1>7. CASE (\E k \in Keys : HoldEnds(k) \/ Lapses(k)) \/ ReadingAges
  BY <1>7, TimeServes
<1> QED BY <1>1, <1>2, <1>3, <1>4, <1>5, <1>6, <1>7 DEF Next

LEMMA BothHold == Spec => [](IInv /\ SInv)
<1>1. Init => IInv /\ SInv
  BY InitHolds, InitServes
<1>2. (IInv /\ SInv) /\ [Next]_vars => (IInv /\ SInv)'
  BY StepHolds, StepServes
<1> QED BY <1>1, <1>2, PTL DEF Spec

\* What a job or the recorder's worker has in flight, it is asking about.
LEMMA FlightsArePending ==
  ASSUME IInv
  PROVE  Arriving \subseteq Pending /\ Leaving \subseteq Pending
<1>1. \A j \in Jobs : jobs[j].flight.keys \subseteq Pending
  BY DEF Pending, InFlight
<1>2. ASSUME NEW at, BookOk(at) PROVE books.flight.keys \subseteq Pending
  <2>1. books.flight # NoFlight
    BY <1>2 DEF BookOk, NoFlight
  <2> QED BY <2>1 DEF IInv, Counted, Pending
<1> QED BY <1>1, <1>2 DEF Arriving, Leaving

\* No slot is forgotten, for any demands and however drops, retries and the
\* recorder's cancelled requests interleave (pass, trySubscribe,
\* optionalBookPass).
THEOREM NoSlotIsForgotten == Spec => []SlotsKnown
<1>1. IInv /\ SInv => SlotsKnown
  <2> SUFFICES ASSUME IInv, SInv, odd = {} PROVE server \subseteq active \cup Pending \cup adrift
    BY DEF SlotsKnown
  <2>1. server \subseteq active \cup adrift \cup Arriving
    BY DEF SInv, Believed, Calm
  <2> QED BY <2>1, FlightsArePending
<1> QED BY <1>1, BothHold, PTL

\* What the manager believes live on a resynced connection OpenD serves: the
\* generation keeps answers of earlier connections out (trySubscribe,
\* ResubscribeAll).
THEOREM TheLiveAreServed == Spec => []LiveIsServed
<1>1. IInv /\ SInv => LiveIsServed
  <2> SUFFICES ASSUME IInv, SInv, odd = {}, linked, ~down
               PROVE  active \subseteq server \cup Pending \cup adrift
    BY DEF LiveIsServed
  <2>1. active \subseteq server \cup adrift \cup Leaving
    BY DEF SInv, Served, Calm
  <2> QED BY <2>1, FlightsArePending
<1> QED BY <1>1, BothHold, PTL

-----------------------------------------------------------------------------
(***************************************************************************)
(* Headroom: however much is asked for, what OpenD has subscribed for the   *)
(* process leaves the headroom of the account's quota free.                 *)
(*                                                                         *)
(* The invariant counts what is reserved with what is live: a reservation   *)
(* of the present connection may become a subscription at any time, so both *)
(* together stay within the room (Within).  A pass or a replay reserves no  *)
(* more than the last reading leaves after what was debited since           *)
(* (AddsFit, DesiredFits), which is sound because the reading less the      *)
(* debits never promises more than there is (Debited): a reading is taken   *)
(* with nothing reserved (ReadRight), and a reservation that ends is        *)
(* debited before it is given back.                                        *)
(***************************************************************************)
(* How much is admitted *)

\* A set of numbers with a bound has a greatest one.
LEMMA MaxIsIn ==
  ASSUME NEW S \in SUBSET Nat, S # {}, NEW n \in Nat, \A x \in S : x <= n
  PROVE  Max(S) \in S /\ \A x \in S : x <= Max(S)
<1> DEFINE R == {n - x : x \in S}
<1>1. R \subseteq Nat /\ R # {}
  <2>1. \A x \in S : n - x \in Nat
    OBVIOUS
  <2> QED BY <2>1
<1>2. PICK m \in R : \A y \in R : ~(<<y, m>> \in OpToRel(<, Nat))
  <2> HIDE DEF R
  <2> QED BY <1>1, NatLessThanWellFounded, WFMin
<1>3. PICK x \in S : m = n - x
  OBVIOUS
<1>4. ASSUME NEW y \in S PROVE y <= x
  <2>1. n - y \in R /\ n - y \in Nat /\ m \in Nat /\ x \in Nat /\ y \in Nat
    BY <1>1, <1>3
  <2>2. ~(n - y < m)
    BY <1>2, <2>1 DEF OpToRel
  <2> QED BY <1>3, <2>1, <2>2
<1>5. \E z \in S : \A y \in S : z >= y
  BY <1>4
<1>6. Max(S) \in S /\ \A y \in S : Max(S) >= y
  BY <1>5 DEF Max
<1> QED BY <1>6

-----------------------------------------------------------------------------
(* The order of the demands *)

\* No two calls have the same date.
Dated == \A d \in DOMAIN Demands :
  /\ demands[d] <= calls
  /\ \A e \in DOMAIN Demands : d # e /\ demands[d] > 0 => demands[d] # demands[e]

LEMMA DemandTypes ==
  ASSUME TypeOK
  PROVE  \A d \in DOMAIN Demands : demands[d] \in Nat /\ demands[d] <= MaxCalls
BY SubAssumption DEF TypeOK

\* The latest call for a symbol is one for this symbol.
LEMMA LatestIsOf ==
  ASSUME TypeOK, NEW s \in Demanded
  PROVE  \E d \in Of(s) : Latest(s) = demands[d]
<1> DEFINE S == {demands[d] : d \in Of(s)}
<1>1. S # {}
  BY DEF Demanded, Of
<1>2. S \subseteq Nat /\ \A x \in S : x <= MaxCalls
  BY DemandTypes DEF Of
<1>3. MaxCalls \in Nat
  BY SubAssumption
<1>4. Latest(s) = Max(S)
  BY DEF Latest
<1> HIDE DEF S
<1>5. Max(S) \in S
  BY <1>1, <1>2, <1>3, MaxIsIn
<1> QED BY <1>4, <1>5 DEF S

LEMMA LatestDiffer ==
  ASSUME TypeOK, Dated, NEW s \in Demanded, NEW t \in Demanded
  PROVE  Latest(s) \in Nat /\ (s # t => Latest(s) # Latest(t))
<1>1. PICK d \in Of(s) : Latest(s) = demands[d]
  BY LatestIsOf
<1>2. PICK e \in Of(t) : Latest(t) = demands[e]
  BY LatestIsOf
<1>3. /\ d \in DOMAIN Demands /\ demands[d] > 0 /\ Demands[d].symbol = s
      /\ e \in DOMAIN Demands /\ Demands[e].symbol = t
  BY DEF Of
<1> QED BY <1>1, <1>2, <1>3, DemandTypes DEF Dated

\* Ahead is a strict total order of the symbols somebody demands.
LEMMA SymbolsInOrder ==
  ASSUME TypeOK, Dated
  PROVE  /\ \A s \in Demanded : ~Ahead(s, s)
         /\ \A s, t \in Demanded : s # t => Ahead(s, t) \/ Ahead(t, s)
         /\ \A s, t, u \in Demanded : Ahead(s, t) /\ Ahead(t, u) => Ahead(s, u)
<1>1. \A s, t \in Demanded : Latest(s) \in Nat /\ (s # t => Latest(s) # Latest(t))
  BY LatestDiffer
<1>2. \A s \in Demanded : Ordinary(s) \in BOOLEAN /\ Focused(s) \in BOOLEAN
  BY DEF Ordinary, Focused
<1>3. \A s \in Demanded : ~Ahead(s, s)
  BY <1>1 DEF Ahead
<1>4. \A s, t \in Demanded : s # t => Ahead(s, t) \/ Ahead(t, s)
  BY <1>1, <1>2 DEF Ahead
<1>5. \A s, t, u \in Demanded : Ahead(s, t) /\ Ahead(t, u) => Ahead(s, u)
  <2> TAKE s, t, u \in Demanded
  <2>1. \A a, b, c \in Nat : a > b /\ b > c => a > c
    OBVIOUS
  <2>2. Latest(s) \in Nat /\ Latest(t) \in Nat /\ Latest(u) \in Nat
    BY <1>1
  <2>3. /\ Ordinary(s) \in BOOLEAN /\ Ordinary(t) \in BOOLEAN /\ Ordinary(u) \in BOOLEAN
        /\ Focused(s) \in BOOLEAN /\ Focused(t) \in BOOLEAN /\ Focused(u) \in BOOLEAN
    BY <1>2
  <2>4. Latest(s) > Latest(t) /\ Latest(t) > Latest(u) => Latest(s) > Latest(u)
    BY <2>1, <2>2
  <2> QED BY <2>3, <2>4 DEF Ahead
<1> QED BY <1>3, <1>4, <1>5

\* KeyAhead is a strict total order of the keys somebody wants.
LEMMA KeysInOrder ==
  ASSUME TypeOK, Dated
  PROVE  /\ \A k \in Wanted : ~KeyAhead(k, k)
         /\ \A k, l \in Wanted : k # l => KeyAhead(k, l) \/ KeyAhead(l, k)
         /\ \A k, l, m \in Wanted : KeyAhead(k, l) /\ KeyAhead(l, m) => KeyAhead(k, m)
<1>1. \A k \in Wanted : /\ k[1] \in Demanded /\ k[2] \in Subs /\ k = <<k[1], k[2]>>
  <2> TAKE k \in Wanted
  <2>1. k \in Keys /\ k[1] \in Symbols /\ k[2] \in Subs /\ k = <<k[1], k[2]>>
    BY WantedAreKeys DEF Keys
  <2>2. k[1] \in Demanded
    BY WantedAreKeys DEF Demanded
  <2> QED BY <2>1, <2>2
<1>4. \A s \in Demanded : ~Ahead(s, s)
  BY SymbolsInOrder
<1>5. \A s, t \in Demanded : s # t => Ahead(s, t) \/ Ahead(t, s)
  BY SymbolsInOrder
<1>6. \A s, t, u \in Demanded : Ahead(s, t) /\ Ahead(t, u) => Ahead(s, u)
  BY SymbolsInOrder
<1>7. \A k \in Wanted : ~KeyAhead(k, k)
  BY DEF KeyAhead
<1>8. ASSUME NEW k \in Wanted, NEW l \in Wanted, k # l
      PROVE  KeyAhead(k, l) \/ KeyAhead(l, k)
  BY <1>1, <1>5, <1>8 DEF KeyAhead, Subs
<1>9. ASSUME NEW k \in Wanted, NEW l \in Wanted, NEW m \in Wanted, KeyAhead(k, l), KeyAhead(l, m)
      PROVE  KeyAhead(k, m)
  <2>1. /\ k[1] \in Demanded /\ l[1] \in Demanded /\ m[1] \in Demanded
    BY <1>1
  <2>2. k[1] = m[1] /\ k[1] # l[1] => FALSE
    BY <1>4, <1>6, <1>9, <2>1 DEF KeyAhead
  <2> QED BY <1>6, <1>9, <2>1, <2>2 DEF KeyAhead
<1> QED BY <1>7, <1>8, <1>9

\* A finite set with an order has a last element.
LEMMA LastExists ==
  ASSUME NEW A, IsFiniteSet(A), A # {}, NEW B,
         \A k \in A : <<k, k>> \notin B,
         \A k, l, m \in A : <<k, l>> \in B /\ <<l, m>> \in B => <<k, m>> \in B
  PROVE  \E k \in A : \A l \in A : <<k, l>> \notin B
<1> DEFINE After(k) == {l \in A : <<k, l>> \in B}
           Size(k) == Cardinality(After(k))
<1>2. \A k : After(k) \in SUBSET A /\ IsFiniteSet(After(k)) /\ Size(k) \in Nat
  <2>1. \A k : After(k) \in SUBSET A
    OBVIOUS
  <2> HIDE DEF After
  <2> QED BY <2>1, FS_Subset, FS_CardinalityType
<1> DEFINE Sizes == {Size(k) : k \in A}
<1>3. Sizes \subseteq Nat /\ Sizes # {}
  <2>1. \A k : Size(k) \in Nat
    BY <1>2
  <2> HIDE DEF Size
  <2> QED BY <2>1
<1>4. PICK c \in Sizes : \A y \in Sizes : ~(<<y, c>> \in OpToRel(<, Nat))
  <2> HIDE DEF Sizes
  <2> QED BY <1>3, NatLessThanWellFounded, WFMin
<1>5. PICK k \in A : c = Size(k)
  OBVIOUS
<1>6. ASSUME NEW l \in A PROVE ~(Size(l) < Size(k))
  <2>1. Size(l) \in Sizes /\ Size(l) \in Nat /\ Size(k) \in Nat
    <3> HIDE DEF Size
    <3> QED BY <1>2
  <2> HIDE DEF Sizes, Size
  <2> QED BY <1>4, <1>5, <2>1 DEF OpToRel
<1>7. ASSUME NEW l \in A, <<k, l>> \in B PROVE FALSE
  <2>1. After(l) \subseteq After(k) /\ l \notin After(l) /\ l \in After(k)
    BY <1>7
  <2>2. After(l) # After(k)
    BY <2>1
  <2> HIDE DEF After
  <2>3. Size(l) <= Size(k) /\ Size(l) # Size(k)
    BY <1>2, <2>1, <2>2, FS_Subset
  <2>4. Size(l) < Size(k)
    <3> HIDE DEF Size
    <3> QED BY <1>2, <2>3
  <2> QED BY <1>6, <2>4
<1> QED BY <1>7

\* Of a set with an order fewer than n + 1 elements have fewer than n before them.
Firsts(S, B, n) == {k \in S : Cardinality({l \in S : <<l, k>> \in B}) < n}
LEMMA FirstsFit ==
  ASSUME NEW S, IsFiniteSet(S), NEW n \in Nat, NEW B,
         \A k \in S : <<k, k>> \notin B,
         \A k, l \in S : k # l => <<k, l>> \in B \/ <<l, k>> \in B,
         \A k, l, m \in S : <<k, l>> \in B /\ <<l, m>> \in B => <<k, m>> \in B
  PROVE  Cardinality(Firsts(S, B, n)) <= n
<1> DEFINE A == {k \in S : Cardinality({l \in S : <<l, k>> \in B}) < n}
<1> SUFFICES Cardinality(A) <= n
  BY DEF Firsts
<1>1. IsFiniteSet(A) /\ Cardinality(A) \in Nat /\ A \subseteq S
  BY FS_Subset, FS_CardinalityType
<1>3. CASE A = {}
  <2>1. Cardinality(A) = 0
    BY <1>3, FS_EmptySet
  <2> QED BY <2>1
<1>4. CASE A # {}
  <2>1. PICK k \in A : \A l \in A : <<k, l>> \notin B
    <3>1. \A l \in A : <<l, l>> \notin B
      BY <1>1
    <3>2. \A l, m, o \in A : <<l, m>> \in B /\ <<m, o>> \in B => <<l, o>> \in B
      BY <1>1
    <3> HIDE DEF A
    <3> QED BY <1>1, <1>4, <3>1, <3>2, LastExists
  <2> DEFINE Before == {l \in S : <<l, k>> \in B}
  <2>6. A \ {k} \subseteq Before
    BY <2>1
  <2>7. IsFiniteSet(Before) /\ Cardinality(Before) \in Nat /\ Cardinality(Before) < n
    BY FS_Subset, FS_CardinalityType
  <2> HIDE DEF A, Before
  <2>8. Cardinality(A \ {k}) = Cardinality(A) - 1
    BY <1>1, FS_RemoveElement
  <2>9. Cardinality(A \ {k}) <= Cardinality(Before)
    BY <2>6, <2>7, FS_Subset
  <2>10. Cardinality(A) <= n
    BY <1>1, <2>7, <2>8, <2>9
  <2> QED BY <2>10 DEF A
<1> QED BY <1>3, <1>4

LEMMA DemandedIsFinite == IsFiniteSet(Demanded)
<1>1. Demanded \subseteq Symbols
  BY SubAssumption DEF Demanded
<1>2. IsFiniteSet(Symbols)
  BY FS_Interval, SubAssumption DEF Symbols
<1> QED BY <1>1, <1>2, FS_Subset

LEMMA HindmostIsOf ==
  ASSUME TypeOK, Dated, NEW T \in SUBSET Demanded, T # {}
  PROVE  Hindmost(T) \in T
<1> DEFINE B == {st \in T \X T : Ahead(st[1], st[2])}
<1>1. IsFiniteSet(T)
  BY DemandedIsFinite, FS_Subset
<1>2. \A s \in T : <<s, s>> \notin B
  BY SymbolsInOrder
<1>3. \A s, t \in T : <<s, t>> \in B <=> Ahead(s, t)
  OBVIOUS
<1>4. \A s, t, u \in T : <<s, t>> \in B /\ <<t, u>> \in B => <<s, u>> \in B
  BY <1>3, SymbolsInOrder
<1> HIDE DEF B
<1>5. PICK s \in T : \A t \in T : <<s, t>> \notin B
  BY <1>1, <1>2, <1>4, LastExists
<1>6. \A t \in T \ {s} : Ahead(t, s)
  BY <1>3, <1>5, SymbolsInOrder
<1> QED BY <1>6 DEF Hindmost

Kept(ss) == {k \in Wanted \ quarantine : k[1] \in ss}
Take(cap, ss, s) == IF Cardinality(Kept(ss \cup {s})) > cap THEN ss ELSE ss \cup {s}
\* what the fold of desired has taken of the symbols in t
Takes(cap, g, t) == IF t = {} THEN {} ELSE Take(cap, g[t \ {Hindmost(t)}], Hindmost(t))
Folds(cap, S, g) == g = [t \in SUBSET S |-> Takes(cap, g, t)]

LEMMA FoldExists ==
  ASSUME NEW cap, NEW S, IsFiniteSet(S), \A T \in SUBSET S : T # {} => Hindmost(T) \in T
  PROVE  \E g : Folds(cap, S, g)
<1>1. \A T \in SUBSET S : IsFiniteSet(T) /\ Cardinality(T) \in Nat
  BY FS_Subset, FS_CardinalityType
<1> DEFINE UpTo(m, g) == /\ g = [t \in SUBSET S |-> g[t]]
                         /\ \A t \in SUBSET S : Cardinality(t) < m => g[t] = Takes(cap, g, t)
           N == {m \in Nat : \E g : UpTo(m, g)}
<1>3. 0 \in N
  <2>1. UpTo(0, [t \in SUBSET S |-> 0])
    BY <1>1
  <2> QED BY <2>1
<1>4. ASSUME NEW m \in N PROVE m + 1 \in N
  <2>1. PICK g : UpTo(m, g)
    OBVIOUS
  <2> DEFINE h == [t \in SUBSET S |-> Takes(cap, g, t)]
  <2>2. ASSUME NEW t \in SUBSET S, Cardinality(t) < m + 1 PROVE h[t] = Takes(cap, h, t)
    <3>1. CASE t = {}
      BY <3>1 DEF Takes
    <3>2. CASE t # {}
      <4> DEFINE u == t \ {Hindmost(t)}
      <4>1. Cardinality(u) = Cardinality(t) - 1 /\ u \in SUBSET S
        BY <1>1, <3>2, FS_RemoveElement
      <4>2. g[u] = Takes(cap, g, u)
        <5>1. Cardinality(u) < m
          BY <1>1, <2>2, <4>1
        <5> QED BY <2>1, <4>1, <5>1
      <4>3. h[u] = g[u]
        BY <4>1, <4>2
      <4> QED BY <3>2, <4>3 DEF Takes
    <3> QED BY <3>1, <3>2
  <2>3. UpTo(m + 1, h)
    BY <2>2
  <2> HIDE DEF UpTo, h
  <2> QED BY <2>3
<1> HIDE DEF N
<1>5. \A m \in Nat : m \in N
  BY <1>3, <1>4, NatReached DEF N
<1>6. Cardinality(S) + 1 \in N
  BY <1>1, <1>5
<1>7. PICK g : UpTo(Cardinality(S) + 1, g)
  BY <1>6 DEF N
<1>8. \A t \in SUBSET S : Cardinality(t) < Cardinality(S) + 1
  <2>1. \A t \in SUBSET S : Cardinality(t) <= Cardinality(S)
    BY FS_Subset
  <2> QED BY <1>1, <2>1
<1>9. g = [t \in SUBSET S |-> Takes(cap, g, t)]
  BY <1>7, <1>8
<1> QED BY <1>9 DEF Folds

\* desired keeps within its cap.
LEMMA DesiredFits ==
  ASSUME TypeOK, Dated, NEW cap \in Nat
  PROVE  Cardinality(Desired(cap)) <= cap
<1> DEFINE S == Demanded
<1>1. IsFiniteSet(S) /\ \A T \in SUBSET S : T # {} => Hindmost(T) \in T
  BY DemandedIsFinite, HindmostIsOf
<1> DEFINE g == CHOOSE h : Folds(cap, S, h)
<1>2. Folds(cap, S, g)
  <2>1. \E h : Folds(cap, S, h)
    <3> HIDE DEF S
    <3> QED BY <1>1, FoldExists
  <2> QED BY <2>1
<1>3. Desired(cap) = Kept(g[S])
  BY DEF Desired, MapThenFoldSet, Folds, Takes, Take, Kept
<1>4. \A T \in SUBSET S : g[T] = Takes(cap, g, T)
  BY <1>2 DEF Folds
<1>5. \A ss : Cardinality(Kept(ss)) \in Nat
  <2>1. \A ss : Kept(ss) \in SUBSET Keys
    BY WantedAreKeys DEF Kept
  <2> QED BY <2>1, KeySetsAreFinite
<1>6. Cardinality(Kept({})) = 0
  <2>1. Kept({}) = {}
    BY DEF Kept
  <2> QED BY <2>1, FS_EmptySet
<1> HIDE DEF S, g
<1>7. \A T \in SUBSET S : IsFiniteSet(T) /\ Cardinality(T) \in Nat
  BY <1>1, FS_Subset, FS_CardinalityType
<1> DEFINE N == {m \in Nat : \A T \in SUBSET S : Cardinality(T) = m => Cardinality(Kept(g[T])) <= cap}
<1>9. 0 \in N
  <2>1. \A T \in SUBSET S : Cardinality(T) = 0 => T = {}
    BY <1>7, FS_EmptySet
  <2>2. g[{}] = {}
    BY <1>4 DEF Takes
  <2> QED BY <1>6, <2>1, <2>2
<1>10. ASSUME NEW m \in N PROVE m + 1 \in N
  <2> SUFFICES ASSUME NEW T \in SUBSET S, Cardinality(T) = m + 1 PROVE Cardinality(Kept(g[T])) <= cap
    OBVIOUS
  <2>1. T # {}
    BY FS_EmptySet
  <2> DEFINE U == T \ {Hindmost(T)}
  <2>2. Cardinality(U) = m /\ U \in SUBSET S
    <3>1. Cardinality(U) = Cardinality(T) - 1
      BY <1>1, <1>7, <2>1, FS_RemoveElement
    <3> QED BY <3>1
  <2>3. Cardinality(Kept(g[U])) <= cap
    BY <2>2
  <2>4. g[T] = Take(cap, g[U], Hindmost(T))
    BY <1>4, <2>1 DEF Takes
  <2>5. \/ g[T] = g[U]
        \/ ~(Cardinality(Kept(g[T])) > cap)
    BY <2>4 DEF Take
  <2> QED BY <1>5, <2>3, <2>5
<1> HIDE DEF N
<1>11. \A m \in Nat : m \in N
  BY <1>9, <1>10, NatReached DEF N
<1>12. Cardinality(Kept(g[S])) <= cap
  BY <1>7, <1>11 DEF N
<1> QED BY <1>3, <1>12

\* pass asks for no more than is free.
LEMMA AddsFit ==
  ASSUME TypeOK, Dated, NEW new \in SUBSET Wanted, NEW n \in Nat
  PROVE  Cardinality({k \in new : Cardinality({l \in new : KeyAhead(l, k)}) < n}) <= n
<1> DEFINE B == {p \in new \X new : KeyAhead(p[1], p[2])}
<1>1. \A k, l \in new : <<k, l>> \in B <=> KeyAhead(k, l)
  OBVIOUS
<1>2. /\ \A k \in new : ~KeyAhead(k, k)
      /\ \A k, l \in new : k # l => KeyAhead(k, l) \/ KeyAhead(l, k)
      /\ \A k, l, m \in new : KeyAhead(k, l) /\ KeyAhead(l, m) => KeyAhead(k, m)
  BY KeysInOrder
<1>3. IsFiniteSet(new)
  <2>1. new \in SUBSET Keys
    BY WantedAreKeys
  <2> QED BY <2>1, KeySetsAreFinite
<1> HIDE DEF B
<1>4. /\ \A k \in new : <<k, k>> \notin B
      /\ \A k, l \in new : k # l => <<k, l>> \in B \/ <<l, k>> \in B
  BY <1>1, <1>2
<1>8. ASSUME NEW k \in new, NEW l \in new, NEW m \in new, <<k, l>> \in B, <<l, m>> \in B
      PROVE  <<k, m>> \in B
  <2>1. KeyAhead(k, l) /\ KeyAhead(l, m)
    BY <1>1, <1>8
  <2>2. KeyAhead(k, m)
    BY <1>2, <2>1
  <2> QED BY <1>1, <2>2
<1>5. Cardinality(Firsts(new, B, n)) <= n
  <2>1. \A k, l, m \in new : <<k, l>> \in B /\ <<l, m>> \in B => <<k, m>> \in B
    BY <1>8
  <2>2. \A k \in new : <<k, k>> \notin B
    BY <1>4
  <2>3. \A k, l \in new : k # l => <<k, l>> \in B \/ <<l, k>> \in B
    BY <1>4
  <2> QED BY <1>3, <2>1, <2>2, <2>3, FirstsFit
<1>6. \A k \in new : {l \in new : <<l, k>> \in B} = {l \in new : KeyAhead(l, k)}
  BY <1>1
<1>7. Firsts(new, B, n)
        = {k \in new : Cardinality({l \in new : KeyAhead(l, k)}) < n}
  BY <1>6 DEF Firsts
<1> QED BY <1>5, <1>7

-----------------------------------------------------------------------------
(* What is reserved, and what it leaves *)

\* the keys the present connection may still be asked to subscribe
Reserving == {k \in Keys : \/ \E j \in Jobs : Current(j) /\ k \in ReservedBy(jobs[j])
                           \/ books.at = "admit" /\ books.gen = generation /\ k \in books.key}
Live == server \ adrift

\* What OpenD has and what it may be asked for leaves the headroom free.
Within == Calm => Cardinality(Live \cup Reserving) <= Minus(room, Headroom)
\* The reading, less what has been debited since, is left.
Debited == Calm /\ known /\ remain > 0 => Cardinality(Live \ Reserving) + remain <= room + spent
\* A reading knows of no reservation of an earlier connection.
OfNow == known => /\ \A j \in Jobs : ReservedBy(jobs[j]) # {} => Current(j)
                  /\ books.at = "admit" => books.gen = generation
\* What the poller has read is still left.
ReadRight == Calm /\ poll.at = "read" /\ poll.gen = generation /\ poll.value > 0 =>
               poll.value + Cardinality(server) <= room
\* Nothing is reserved between two connections.
NoneApart == Calm /\ ~linked /\ notices = <<>> => Reserving = {}
\* A job asks for keys it has reserved.
Asked == \A j \in Jobs : /\ \A b \in jobs[j].batches : b \subseteq jobs[j].group
                         /\ jobs[j].group # {} => jobs[j].flight.keys \subseteq jobs[j].group

HInv == Dated /\ Within /\ Debited /\ OfNow /\ ReadRight /\ NoneApart /\ Asked

\* The state before the step and after it, where the other invariants hold.
Bases == IInv /\ SInv /\ HInv /\ IInv' /\ SInv'

LEMMA Amounts ==
  ASSUME TypeOK
  PROVE  /\ remain \in Nat /\ spent \in Nat /\ pending \in Nat /\ holds \in Nat
         /\ room \in Nat /\ generation \in Nat /\ Headroom \in Nat
         /\ server \in SUBSET Keys /\ active \in SUBSET Keys
         /\ Live \in SUBSET Keys /\ Reserving \in SUBSET Keys
BY SMTT(40), SubAssumption DEF TypeOK, Live, Reserving

LEMMA AmountsAfter ==
  ASSUME TypeOK'
  PROVE  /\ remain' \in Nat /\ spent' \in Nat /\ pending' \in Nat
         /\ room' \in Nat /\ generation' \in Nat
         /\ server' \in SUBSET Keys /\ active' \in SUBSET Keys
         /\ Live' \in SUBSET Keys /\ Reserving' \in SUBSET Keys
BY SMTT(40), SubAssumption DEF TypeOK, Live, Reserving

LEMMA PartsCount ==
  ASSUME NEW a \in SUBSET Keys, NEW b \in SUBSET Keys
  PROVE  /\ a \subseteq b => Cardinality(a) <= Cardinality(b)
         /\ Cardinality(a \cup b) <= Cardinality(a) + Cardinality(b)
         /\ Cardinality(a) \in Nat /\ Cardinality(b) \in Nat /\ Cardinality(a \cup b) \in Nat
<1>1. IsFiniteSet(a) /\ IsFiniteSet(b) /\ Cardinality(a) \in Nat /\ Cardinality(b) \in Nat
  BY KeySetsAreFinite
<1>2. a \cup b \in SUBSET Keys /\ a \cap b \in SUBSET Keys
  OBVIOUS
<1>3. Cardinality(a \cup b) \in Nat /\ Cardinality(a \cap b) \in Nat
  BY <1>2, KeySetsAreFinite
<1>4. Cardinality(a \cup b) = Cardinality(a) + Cardinality(b) - Cardinality(a \cap b)
  BY <1>1, FS_Union
<1>5. a \subseteq b => Cardinality(a) <= Cardinality(b)
  BY <1>1, FS_Subset
<1> QED BY <1>1, <1>3, <1>4, <1>5

\* The reservations of the present connection are among those that count.
LEMMA ReservingCounts ==
  ASSUME IInv
  PROVE  Cardinality(Reserving) <= pending
<1> DEFINE T == TokensOf(jobs)
           f == [t \in T |-> t[2]]
           mine == {t[2] : t \in T}
           book == IF books.at = "admit" THEN books.key ELSE {}
<1>1. IsFiniteSet(T) /\ Cardinality(T) \in Nat
  BY Finite
<1>2. mine \in SUBSET Keys /\ book \in SUBSET Keys
  BY DEF TokensOf, IInv, TypeOK, BookRecord
<1>3. Cardinality(mine) <= Cardinality(T)
  <2>1. f \in Surjection(T, mine)
    BY DEF Surjection
  <2> HIDE DEF f, T, mine
  <2> QED BY <1>1, <2>1, FS_Surjection DEF ExistsSurjection
<1>4. Cardinality(book) = IF books.at = "admit" THEN 1 ELSE 0
  BY FS_EmptySet DEF IInv, Counted
<1>5. Reserving \subseteq mine \cup book
  <2> SUFFICES ASSUME NEW k \in Reserving, k \notin book PROVE k \in mine
    OBVIOUS
  <2>1. PICK j \in Jobs : k \in ReservedBy(jobs[j])
    BY DEF Reserving
  <2>2. k \in Keys
    BY DEF Reserving
  <2>3. <<j, k>> \in T /\ <<j, k>>[2] = k
    BY <2>1, <2>2 DEF TokensOf
  <2> QED BY <2>3
<1>6. pending = Cardinality(T) + (IF books.at = "admit" THEN 1 ELSE 0)
  BY DEF IInv, Counted
<1> HIDE DEF T, mine, book
<1>7. Reserving \in SUBSET Keys /\ mine \cup book \in SUBSET Keys
  BY <1>2 DEF Reserving
<1>8. Cardinality(Reserving) <= Cardinality(mine \cup book)
  BY <1>5, <1>7, PartsCount
<1>9. /\ Cardinality(mine \cup book) <= Cardinality(mine) + Cardinality(book)
      /\ Cardinality(mine) \in Nat /\ Cardinality(book) \in Nat /\ Cardinality(mine \cup book) \in Nat
      /\ Cardinality(Reserving) \in Nat
  BY <1>2, <1>7, PartsCount
<1> QED BY <1>1, <1>3, <1>4, <1>6, <1>8, <1>9

\* What is reserved and finished comes out of the reading.
LEMMA Passes ==
  ASSUME Bases, Calm' => Calm, room' = room, remain' = remain, NEW ks \in SUBSET Keys,
         Live' \subseteq Live \cup Reserving, Reserving' \subseteq Reserving,
         known' => /\ known /\ spent' = spent + Cardinality(ks)
                   /\ Calm => Live' \ Reserving' \subseteq (Live \ Reserving) \cup ks
  PROVE  Within' /\ Debited'
<1>1. /\ remain \in Nat /\ spent \in Nat /\ room \in Nat
      /\ Live \in SUBSET Keys /\ Reserving \in SUBSET Keys
      /\ Live' \in SUBSET Keys /\ Reserving' \in SUBSET Keys
  BY Amounts, AmountsAfter DEF Bases, IInv
<1>2. Within'
  <2> DEFINE a == Live' \cup Reserving'
             b == Live \cup Reserving
  <2>1. a \in SUBSET Keys /\ b \in SUBSET Keys /\ a \subseteq b
    BY <1>1
  <2> HIDE DEF a, b
  <2>2. Cardinality(a) <= Cardinality(b) /\ Cardinality(a) \in Nat /\ Cardinality(b) \in Nat
    BY <2>1, PartsCount
  <2>3. Calm => Cardinality(b) <= Minus(room, Headroom)
    BY DEF Bases, HInv, Within, b
  <2>4. Minus(room, Headroom) \in Nat
    BY <1>1, SubAssumption, Naturals
  <2>5. Calm => Cardinality(a) <= Minus(room, Headroom)
    BY <2>2, <2>3, <2>4
  <2>6. Minus(room, Headroom)' = Minus(room, Headroom)
    BY DEF Minus
  <2> QED BY <2>5, <2>6 DEF Within, a
<1>3. Debited'
  <2> SUFFICES ASSUME Calm', known', remain' > 0
               PROVE  Cardinality(Live' \ Reserving') + remain' <= room' + spent'
    BY DEF Debited
  <2>1. Calm /\ known /\ remain > 0
    OBVIOUS
  <2> DEFINE a == Live' \ Reserving'
             b == Live \ Reserving
  <2>2. Cardinality(b) + remain <= room + spent
    BY <2>1 DEF Bases, HInv, Debited
  <2>3. a \in SUBSET Keys /\ b \in SUBSET Keys /\ a \subseteq b \cup ks
    BY <1>1, <2>1
  <2>4. spent' = spent + Cardinality(ks)
    OBVIOUS
  <2> HIDE DEF a, b
  <2>5. b \cup ks \in SUBSET Keys
    BY <2>3
  <2>6. Cardinality(a) <= Cardinality(b \cup ks) /\ Cardinality(a) \in Nat
    BY <2>3, <2>5, PartsCount
  <2>7. /\ Cardinality(b \cup ks) <= Cardinality(b) + Cardinality(ks)
        /\ Cardinality(b) \in Nat /\ Cardinality(ks) \in Nat /\ Cardinality(b \cup ks) \in Nat
    BY <2>3, PartsCount
  <2>8. \A x, y, z, c, r, o, s \in Nat :
          x <= y /\ y <= z + c /\ z + r <= o + s => x + r <= o + (s + c)
    OBVIOUS
  <2>9. Cardinality(a) + remain <= room + (spent + Cardinality(ks))
    BY <1>1, <2>2, <2>6, <2>7, <2>8
  <2> QED BY <2>4, <2>9 DEF a
<1> QED BY <1>2, <1>3

\* What is newly reserved is left of the reading above the headroom.
LEMMA Reserves ==
  ASSUME Bases, Calm' => Calm, UNCHANGED <<server, adrift, room, known, remain, spent>>,
         NEW ks \in SUBSET Keys, Reserving' = Reserving \cup ks,
         ks # {} => known /\ Cardinality(ks) <= Minus(remain, Headroom + spent + pending)
  PROVE  Within' /\ Debited'
<1>1. /\ remain \in Nat /\ spent \in Nat /\ pending \in Nat /\ room \in Nat /\ Headroom \in Nat
      /\ Live \in SUBSET Keys /\ Reserving \in SUBSET Keys
  BY Amounts DEF Bases, IInv
<1>2. Live' = Live
  BY DEF Live
<1>3. CASE ks = {}
  <2>1. Reserving' = Reserving
    BY <1>3
  <2> HIDE DEF Live
  <2> QED BY <1>2, <2>1 DEF Bases, HInv, Within, Debited, Minus
<1>4. CASE ks # {}
  <2> DEFINE a == Live \ Reserving
             n == Cardinality(ks)
  <2>1. n \in Nat /\ n # 0
    <3>1. IsFiniteSet(ks) /\ Cardinality(ks) \in Nat
      BY KeySetsAreFinite
    <3> QED BY <1>4, <3>1, FS_EmptySet
  <2>2. known /\ n <= Minus(remain, Headroom + spent + pending)
    BY <1>4
  <2> HIDE DEF n
  <2>3. remain >= Headroom + spent + pending + n /\ remain > 0
    <3>1. \A r, m, c \in Nat : c # 0 /\ c <= Minus(r, m) => r >= m + c /\ r > 0
      BY DEF Minus
    <3>2. Headroom + spent + pending \in Nat
      BY <1>1
    <3> QED BY <1>1, <2>1, <2>2, <3>1, <3>2
  <2>4. Calm => Cardinality(a) + remain <= room + spent
    BY <2>2, <2>3 DEF Bases, HInv, Debited
  <2>5. a \in SUBSET Keys /\ Reserving \cup ks \in SUBSET Keys
    BY <1>1
  <2>6. Cardinality(Reserving) <= pending
    BY ReservingCounts DEF Bases
  <2> DEFINE all == a \cup (Reserving \cup ks)
  <2>7. all = Live' \cup Reserving'
    BY <1>2
  <2>8. a' \subseteq a
    BY <1>2
  <2> HIDE DEF a
  <2>9. /\ Cardinality(all) <= Cardinality(a) + Cardinality(Reserving \cup ks)
        /\ Cardinality(a) \in Nat /\ Cardinality(Reserving \cup ks) \in Nat /\ Cardinality(all) \in Nat
    BY <2>5, PartsCount
  <2>10. Cardinality(Reserving \cup ks) <= Cardinality(Reserving) + n /\ Cardinality(Reserving) \in Nat
    BY <1>1, PartsCount DEF n
  <2>11. Calm => Cardinality(all) <= Minus(room, Headroom)
    <3>1. \A x, y, z, c, p, r, o, s, h \in Nat :
            x <= y + z /\ z <= p + c /\ y + r <= o + s /\ r >= h + s + p + c => x <= Minus(o, h)
      BY DEF Minus
    <3>2. Cardinality(Reserving \cup ks) <= pending + n
      BY <1>1, <2>1, <2>6, <2>9, <2>10
    <3> HIDE DEF all
    <3> QED BY <1>1, <2>1, <2>3, <2>4, <2>9, <3>1, <3>2
  <2>12. Within'
    <3>1. Minus(room, Headroom)' = Minus(room, Headroom)
      BY DEF Minus
    <3> HIDE DEF all
    <3> QED BY <2>7, <2>11, <3>1 DEF Within
  <2>13. Debited'
    <3>1. a' \in SUBSET Keys
      BY <2>5, <2>8
    <3>2. Cardinality(a') <= Cardinality(a) /\ Cardinality(a') \in Nat
      BY <2>5, <2>8, <3>1, PartsCount
    <3>3. Calm' => Cardinality(a') + remain <= room + spent
      BY <1>1, <2>4, <2>9, <3>2
    <3> QED BY <3>3 DEF Debited, a
  <2> QED BY <2>12, <2>13
<1> QED BY <1>3, <1>4

-----------------------------------------------------------------------------
(* The steps *)

\* How what is reserved follows from the step of a job.
LEMMA ReservingAfter ==
  ASSUME Bases, NEW j \in Jobs, NEW r, jobs' = [jobs EXCEPT ![j] = r],
         UNCHANGED <<generation, books>>
  PROVE  /\ ReservedBy(r) \subseteq ReservedBy(jobs[j]) /\ (r.gen = jobs[j].gen \/ ReservedBy(r) = {})
              => Reserving' \subseteq Reserving
         /\ ReservedBy(r) = ReservedBy(jobs[j]) /\ (r.gen = jobs[j].gen \/ ReservedBy(r) = {})
              => Reserving' = Reserving
         /\ ReservedBy(jobs[j]) = {} /\ ReservedBy(r) \subseteq Keys
              /\ (r.gen = generation \/ ReservedBy(r) = {})
              => Reserving' = Reserving \cup ReservedBy(r)
<1>1. /\ jobs \in [Jobs -> JobRecord] /\ jobs'[j] = r /\ \A i \in Jobs : i # j => jobs'[i] = jobs[i]
  BY DEF Bases, IInv, TypeOK
<1>2. \A i \in Jobs : i # j => (Current(i)' <=> Current(i)) /\ ReservedBy(jobs'[i]) = ReservedBy(jobs[i])
  BY <1>1 DEF Current
<1>3. Current(j)' <=> r.gen = generation
  BY <1>1 DEF Current
<1>4. \A k : k \in Reserving' <=>
        k \in Keys /\ \/ \E i \in Jobs : i # j /\ Current(i) /\ k \in ReservedBy(jobs[i])
                      \/ r.gen = generation /\ k \in ReservedBy(r)
                      \/ books.at = "admit" /\ books.gen = generation /\ k \in books.key
  <2> TAKE k
  <2>1. (\E i \in Jobs : Current(i)' /\ k \in ReservedBy(jobs'[i])) <=>
          \/ \E i \in Jobs : i # j /\ Current(i) /\ k \in ReservedBy(jobs[i])
          \/ r.gen = generation /\ k \in ReservedBy(r)
    BY <1>1, <1>2, <1>3
  <2> QED BY <2>1 DEF Reserving
<1>5. \A k : k \in Reserving <=>
        k \in Keys /\ \/ \E i \in Jobs : i # j /\ Current(i) /\ k \in ReservedBy(jobs[i])
                      \/ jobs[j].gen = generation /\ k \in ReservedBy(jobs[j])
                      \/ books.at = "admit" /\ books.gen = generation /\ k \in books.key
  BY DEF Reserving, Current
<1> DEFINE Others(k) == \E i \in Jobs : i # j /\ Current(i) /\ k \in ReservedBy(jobs[i])
           Ours(k) == books.at = "admit" /\ books.gen = generation /\ k \in books.key
<1> HIDE DEF Others, Ours
<1>6. \A k : k \in Reserving' <=>
        k \in Keys /\ (Others(k) \/ (r.gen = generation /\ k \in ReservedBy(r)) \/ Ours(k))
  BY <1>4 DEF Others, Ours
<1>7. \A k : k \in Reserving <=>
        k \in Keys /\ (Others(k) \/ (jobs[j].gen = generation /\ k \in ReservedBy(jobs[j])) \/ Ours(k))
  BY <1>5 DEF Others, Ours
<1> QED BY <1>6, <1>7

\* A job that turns to r, with no more reserved than before.
LEMMA JobKeeps ==
  ASSUME Bases, NEW j \in Jobs, NEW r, jobs' = [jobs EXCEPT ![j] = r],
         UNCHANGED <<generation, books, poll, link, odd, known, demands, calls>>,
         r.gen = jobs[j].gen \/ ReservedBy(r) = {},
         ReservedBy(r) \subseteq ReservedBy(jobs[j]),
         \A b \in r.batches : b \subseteq r.group,
         r.group # {} => r.flight.keys \subseteq r.group
  PROVE  /\ Dated' /\ OfNow' /\ NoneApart' /\ Asked'
         /\ Reserving' \subseteq Reserving
         /\ ReservedBy(r) = ReservedBy(jobs[j]) => Reserving' = Reserving
<1>1. /\ jobs \in [Jobs -> JobRecord] /\ jobs'[j] = r /\ \A i \in Jobs : i # j => jobs'[i] = jobs[i]
  BY DEF Bases, IInv, TypeOK
<1>2. Reserving' \subseteq Reserving /\ (ReservedBy(r) = ReservedBy(jobs[j]) => Reserving' = Reserving)
  BY ReservingAfter
<1>3. Dated'
  BY DEF Bases, HInv, Dated
<1>4. OfNow'
  <2>1. ASSUME known PROVE \A i \in Jobs : ReservedBy(jobs'[i]) # {} => jobs'[i].gen = generation
    BY <1>1, <2>1 DEF Bases, HInv, OfNow, Current
  <2> QED BY <2>1 DEF Bases, HInv, OfNow, Current
<1>5. NoneApart'
  BY <1>2 DEF Bases, HInv, NoneApart, Calm, link
<1>6. Asked'
  BY <1>1 DEF Bases, HInv, Asked
<1> QED BY <1>2, <1>3, <1>4, <1>5, <1>6

\* A reading stays right while OpenD has no more than it read.
LEMMA ReadKeeps ==
  ASSUME Bases, Calm' => Calm, UNCHANGED <<generation, poll, room>>,
         server' \subseteq server \/ pending > 0
  PROVE  ReadRight'
<1> SUFFICES ASSUME Calm', poll'.at = "read", poll'.gen = generation', poll'.value > 0
             PROVE  poll'.value + Cardinality(server') <= room'
  BY DEF ReadRight
<1>1. pending = 0
  BY DEF Bases, IInv, ReadingAlone
<1>2. /\ server' \subseteq server /\ server \in SUBSET Keys /\ server' \in SUBSET Keys /\ room \in Nat
      /\ poll.value \in Nat
  <2>1. /\ server \in SUBSET Keys /\ server' \in SUBSET Keys /\ room \in Nat
    BY Amounts, AmountsAfter DEF Bases, IInv
  <2>2. poll.value \in Nat
    BY DEF Bases, IInv, TypeOK, PollRecord
  <2> QED BY <1>1, <2>1, <2>2
<1>3. Cardinality(server') <= Cardinality(server) /\ Cardinality(server) \in Nat /\ Cardinality(server') \in Nat
  BY <1>2, PartsCount
<1>4. poll.value + Cardinality(server) <= room
  BY DEF Bases, HInv, ReadRight, Calm
<1> QED BY <1>2, <1>3, <1>4

\* A step of a job that keeps what it has reserved.
LEMMA JobHolds ==
  ASSUME Bases, NEW j \in Jobs, NEW r, jobs' = [jobs EXCEPT ![j] = r],
         UNCHANGED <<generation, books, poll, link, odd, known, remain, spent, demands, calls>>,
         r.gen = jobs[j].gen \/ ReservedBy(r) = {},
         ReservedBy(r) = ReservedBy(jobs[j]),
         \A b \in r.batches : b \subseteq r.group,
         r.group # {} => r.flight.keys \subseteq r.group,
         Live' \subseteq Live \cup Reserving, server' \subseteq server \/ pending > 0
  PROVE  HInv'
<1>1. Dated' /\ OfNow' /\ NoneApart' /\ Asked' /\ Reserving' = Reserving
  BY JobKeeps
<1>2. ReadRight'
  BY ReadKeeps DEF link, Calm
<1>3. Within' /\ Debited'
  <2>1. {} \in SUBSET Keys /\ Cardinality({}) = 0
    BY FS_EmptySet
  <2>2. spent \in Nat
    BY Amounts DEF Bases, IInv
  <2>3. spent' = spent + Cardinality({})
    BY <2>1, <2>2
  <2>4. Live' \ Reserving' \subseteq (Live \ Reserving) \cup {}
    BY <1>1
  <2>5. (Calm' => Calm) /\ room' = room /\ remain' = remain /\ known' = known
    BY DEF Calm, link
  <2> QED BY <1>1, <2>1, <2>3, <2>4, <2>5, Passes
<1> QED BY <1>1, <1>2, <1>3 DEF HInv

LEMMA HeldStays ==
  ASSUME UNCHANGED held
  PROVE  Live' = Live /\ server' = server
BY DEF held, Live

LEMMA TakeGroupKeeps ==
  ASSUME Bases, NEW j \in Jobs, TakeGroup(j)
  PROVE  HInv'
<1>0. PICK g \in jobs[j].in : \E bs \in {{}, {g}} :
        jobs' = [jobs EXCEPT ![j].in = @ \ {g}, ![j].group = g, ![j].batches = bs]
  BY DEF TakeGroup
<1>1. PICK bs \in {{}, {g}} : jobs' = [jobs EXCEPT ![j].in = @ \ {g}, ![j].group = g, ![j].batches = bs]
  BY <1>0
<1>2. jobs[j] \in JobRecord /\ jobs[j].flight = NoFlight /\ jobs[j].group = {}
  BY DEF TakeGroup, Bases, IInv, TypeOK
<1> DEFINE job == [jobs[j] EXCEPT !.in = jobs[j].in \ {g}, !.group = g, !.batches = bs]
<1>3. /\ job.in = jobs[j].in \ {g} /\ job.group = g /\ job.batches = bs
      /\ job.flight = NoFlight /\ job.gen = jobs[j].gen
  BY <1>2 DEF JobRecord
<1>4. jobs' = [jobs EXCEPT ![j] = job]
  BY <1>1, <1>2 DEF JobRecord, Bases, IInv, TypeOK
<1> HIDE DEF job
<1>5. ReservedBy(job) = ReservedBy(jobs[j])
  BY <1>2, <1>3 DEF ReservedBy
<1>6. /\ \A b \in job.batches : b \subseteq job.group
      /\ job.flight.keys \subseteq job.group
  BY <1>1, <1>3 DEF NoFlight
<1>7. Live' = Live /\ server' = server
  BY HeldStays DEF TakeGroup
<1>8. UNCHANGED <<generation, books, poll, link, odd, known, remain, spent, demands, calls>>
  BY DEF TakeGroup, epoch, ledger
<1> QED BY <1>3, <1>4, <1>5, <1>6, <1>7, <1>8, JobHolds

LEMMA GroupIsPending ==
  ASSUME IInv, NEW j \in Jobs, jobs[j].group # {}
  PROVE  pending > 0
<1>1. PICK k \in jobs[j].group : TRUE
  OBVIOUS
<1>2. k \in Keys
  BY Busy DEF JobRecord
<1>3. <<j, k>> \in TokensOf(jobs)
  BY <1>1, <1>2 DEF TokensOf, ReservedBy
<1>4. Cardinality(TokensOf(jobs)) \in Nat /\ Cardinality(TokensOf(jobs)) # 0
  <2>1. TokensOf(jobs) # {}
    BY <1>3
  <2> QED BY <2>1, Finite, FS_EmptySet
<1> QED BY <1>4 DEF IInv, Counted

\* What a subscription of ks may add to what OpenD has.
LEMMA SubscribesLive ==
  ASSUME NEW ks, NEW r, Subscribes(ks, r) \/ UNCHANGED <<held, upsets>>
  PROVE  Live' \subseteq Live \cup ks
BY DEF Subscribes, held, Live

LEMMA UnsubscribesLive ==
  ASSUME NEW ks, NEW r, Unsubscribes(ks, r) \/ UNCHANGED <<held, upsets>>
  PROVE  Live' \subseteq Live /\ server' \subseteq server
BY DEF Unsubscribes, held, Live

LEMMA SubscribeKeeps ==
  ASSUME Bases, NEW j \in Jobs, Subscribe(j)
  PROVE  HInv'
<1>1. PICK b \in jobs[j].batches : \E f \in {jobs[j].flight} \cup {Answer(b, r) : r \in Replies} :
        /\ jobs' = [jobs EXCEPT ![j].batches = @ \ {b}, ![j].flight = f]
        /\ f # jobs[j].flight => Current(j)
        /\ UNCHANGED <<held, upsets>> \/ (Current(j) /\ \E r \in Replies : Subscribes(b, r))
  <2>1. jobs[j] \in JobRecord
    BY DEF Bases, IInv, TypeOK
  <2>2. \A b : [jobs EXCEPT ![j].batches = @ \ {b}] = [jobs EXCEPT ![j].batches = @ \ {b}, ![j].flight = jobs[j].flight]
    BY <2>1 DEF JobRecord, Bases, IInv, TypeOK
  <2>3. PICK b \in jobs[j].batches :
       \/ /\ jobs' = [jobs EXCEPT ![j].batches = @ \ {b}]
          /\ UNCHANGED <<held, upsets>>
       \/ /\ Current(j)
          /\ \E r \in Replies :
               /\ Subscribes(b, r)
               /\ jobs' = [jobs EXCEPT ![j].batches = @ \ {b}, ![j].flight = Answer(b, r)]
    BY DEF Subscribe
  <2> QED BY <2>2, <2>3
<1>2. PICK f \in {jobs[j].flight} \cup {Answer(b, r) : r \in Replies} :
        /\ jobs' = [jobs EXCEPT ![j].batches = @ \ {b}, ![j].flight = f]
        /\ UNCHANGED <<held, upsets>> \/ (Current(j) /\ \E r \in Replies : Subscribes(b, r))
  BY <1>1
<1>3. jobs[j] \in JobRecord /\ jobs[j].group # {} /\ pending > 0
  <2>1. jobs[j] \in JobRecord /\ jobs[j].group # {}
    BY DEF Bases, IInv, TypeOK, SInv, Generations
  <2> QED BY <2>1, GroupIsPending DEF Bases
<1>4. /\ b \subseteq jobs[j].group /\ f.keys \subseteq jobs[j].group
      /\ \A c \in jobs[j].batches : c \subseteq jobs[j].group
  BY <1>3 DEF Bases, HInv, Asked, Answer
<1> DEFINE job == [jobs[j] EXCEPT !.batches = jobs[j].batches \ {b}, !.flight = f]
<1>5. /\ job.in = jobs[j].in /\ job.group = jobs[j].group /\ job.batches = jobs[j].batches \ {b}
      /\ job.flight = f /\ job.gen = jobs[j].gen
  BY <1>3 DEF JobRecord
<1>6. jobs' = [jobs EXCEPT ![j] = job]
  BY <1>2, <1>3 DEF JobRecord, Bases, IInv, TypeOK
<1> HIDE DEF job
<1>7. ReservedBy(job) = ReservedBy(jobs[j])
  BY <1>5 DEF ReservedBy
<1>8. Live' \subseteq Live \cup Reserving
  <2>1. CASE UNCHANGED <<held, upsets>>
    BY <2>1, HeldStays
  <2>2. ASSUME NEW r \in Replies, Subscribes(b, r), Current(j) PROVE Live' \subseteq Live \cup Reserving
    <3>1. Live' \subseteq Live \cup b
      BY <2>2, SubscribesLive
    <3>2. b \subseteq Reserving
      <4>1. jobs[j].group \subseteq Keys
        BY <1>3 DEF JobRecord
      <4> QED BY <1>4, <2>2, <4>1 DEF Reserving, ReservedBy
    <3> QED BY <3>1, <3>2
  <2> QED BY <1>2, <2>1, <2>2
<1>9. UNCHANGED <<generation, books, poll, link, odd, known, remain, spent, demands, calls>>
  BY DEF Subscribe, epoch, ledger
<1> QED BY <1>3, <1>4, <1>5, <1>6, <1>7, <1>8, <1>9, JobHolds

LEMMA SubscribedKeeps ==
  ASSUME Bases, NEW j \in Jobs, Subscribed(j)
  PROVE  HInv'
<1> DEFINE f == jobs[j].flight
<1>1. jobs[j] \in JobRecord /\ jobs[j].group # {}
  BY DEF Subscribed, Bases, IInv, TypeOK
<1>2. f.keys \subseteq jobs[j].group /\ \A c \in jobs[j].batches : c \subseteq jobs[j].group
  BY <1>1 DEF Bases, HInv, Asked
<1>3. PICK bs \in {{}, Halves(f.keys)} :
        jobs' = [jobs EXCEPT ![j].flight = NoFlight, ![j].batches = @ \cup bs]
  BY DEF Subscribed
<1>4. \A c \in bs : c \subseteq jobs[j].group
  <2>1. \A c \in Halves(f.keys) : c \subseteq f.keys
    BY DEF Halves
  <2> QED BY <1>2, <2>1
<1> DEFINE job == [jobs[j] EXCEPT !.flight = NoFlight, !.batches = jobs[j].batches \cup bs]
<1>5. /\ job.in = jobs[j].in /\ job.group = jobs[j].group /\ job.batches = jobs[j].batches \cup bs
      /\ job.flight = NoFlight /\ job.gen = jobs[j].gen /\ NoFlight.keys = {}
  BY <1>1 DEF JobRecord, NoFlight
<1>6. jobs' = [jobs EXCEPT ![j] = job]
  BY <1>1, <1>3 DEF JobRecord, Bases, IInv, TypeOK
<1> HIDE DEF job
<1>7. ReservedBy(job) = ReservedBy(jobs[j])
  BY <1>5 DEF ReservedBy
<1>8. Live' = Live /\ server' = server
  BY HeldStays DEF Subscribed
<1>9. UNCHANGED <<generation, books, poll, link, odd, known, remain, spent, demands, calls>>
  BY DEF Subscribed, epoch, ledger
<1>10. /\ \A b \in job.batches : b \subseteq job.group
       /\ job.flight.keys \subseteq job.group
  BY <1>2, <1>4, <1>5
<1> QED BY <1>5, <1>6, <1>7, <1>8, <1>9, <1>10, JobHolds

LEMMA UnsubscribeKeeps ==
  ASSUME Bases, NEW j \in Jobs, Unsubscribe(j)
  PROVE  HInv'
<1>1. PICK g \in jobs[j].out, r \in Replies :
        /\ Unsubscribes(g, r) \/ UNCHANGED <<held, upsets>>
        /\ jobs' = [jobs EXCEPT ![j].out = @ \ {g}, ![j].flight = Answer(g, r)]
  BY DEF Unsubscribe
<1>2. jobs[j] \in JobRecord /\ jobs[j].group = {} /\ jobs[j].batches = {}
  BY DEF Bases, IInv, TypeOK, SInv, Generations
<1> DEFINE f == Answer(g, r)
           job == [jobs[j] EXCEPT !.out = jobs[j].out \ {g}, !.flight = f]
<1> HIDE DEF f
<1>3. /\ job.in = jobs[j].in /\ job.group = {} /\ job.batches = {} /\ job.gen = jobs[j].gen
  BY <1>2 DEF JobRecord
<1>4. jobs' = [jobs EXCEPT ![j] = job]
  BY <1>1, <1>2 DEF JobRecord, Bases, IInv, TypeOK, f
<1> HIDE DEF job
<1>5. ReservedBy(job) = ReservedBy(jobs[j])
  BY <1>2, <1>3 DEF ReservedBy
<1>6. Live' \subseteq Live /\ server' \subseteq server
  BY <1>1, UnsubscribesLive
<1>7. UNCHANGED <<generation, books, poll, link, odd, known, remain, spent, demands, calls>>
  BY DEF Unsubscribe, epoch, ledger
<1> QED BY <1>3, <1>4, <1>5, <1>6, <1>7, JobHolds

\* A pass that tidies up keeps nothing reserved.
LEMMA TidyKeeps ==
  ASSUME NEW job \in JobRecord, job.at # "unborn", job.flight = NoFlight,
         \A b \in job.batches : b \subseteq job.group
  PROVE  /\ Tidy(job).gen = job.gen \/ ReservedBy(Tidy(job)) = {}
         /\ ReservedBy(Tidy(job)) = ReservedBy(job)
         /\ \A b \in Tidy(job).batches : b \subseteq Tidy(job).group
         /\ Tidy(job).flight.keys \subseteq Tidy(job).group
<1>1. NoFlight.keys = {} /\ Idle.batches = {} /\ ReservedBy(Idle) = {}
  BY DEF NoFlight, Idle, ReservedBy
<1>2. Tidy(job).flight = NoFlight /\ ReservedBy(Tidy(job)) = ReservedBy(job)
  BY Tidies
<1>3. Tidy(job) = job \/ Tidy(job) = Idle
  BY Tidied
<1> QED BY <1>1, <1>2, <1>3

LEMMA UnsubscribedKeeps ==
  ASSUME Bases, NEW j \in Jobs, Unsubscribed(j)
  PROVE  HInv'
<1>1. jobs[j] \in JobRecord /\ jobs[j].group = {} /\ jobs[j].batches = {} /\ jobs[j].at # "unborn"
  <2>1. jobs[j] \in JobRecord /\ jobs[j].group = {} /\ jobs[j].batches = {}
    BY DEF Unsubscribed, Bases, IInv, TypeOK, SInv, Generations
  <2>2. jobs[j].at \in {"pass", "replay"}
    BY Busy DEF Bases, Unsubscribed
  <2> QED BY <2>1, <2>2
<1> DEFINE job == [jobs[j] EXCEPT !.flight = NoFlight]
<1>2. /\ job \in JobRecord /\ job.at = jobs[j].at /\ job.in = jobs[j].in /\ job.group = {}
      /\ job.batches = {} /\ job.gen = jobs[j].gen /\ job.flight = NoFlight
  BY <1>1, IdleType DEF JobRecord
<1>3. jobs' = [jobs EXCEPT ![j] = Tidy(job)]
  BY DEF Unsubscribed
<1> HIDE DEF job
<1>4. ReservedBy(job) = ReservedBy(jobs[j])
  BY <1>1, <1>2 DEF ReservedBy
<1>5. /\ Tidy(job).gen = jobs[j].gen \/ ReservedBy(Tidy(job)) = {}
      /\ ReservedBy(Tidy(job)) = ReservedBy(jobs[j])
      /\ \A b \in Tidy(job).batches : b \subseteq Tidy(job).group
      /\ Tidy(job).flight.keys \subseteq Tidy(job).group
  BY <1>1, <1>2, <1>4, TidyKeeps
<1>6. Live' = Live /\ server' = server
  BY HeldStays DEF Unsubscribed
<1>7. UNCHANGED <<generation, books, poll, link, odd, known, remain, spent, demands, calls>>
  BY DEF Unsubscribed, epoch, ledger
<1> QED BY <1>3, <1>5, <1>6, <1>7, JobHolds

LEMMA GivesUpKeeps ==
  ASSUME Bases, NEW j \in Jobs, GivesUp(j)
  PROVE  HInv'
<1>1. jobs' = [jobs EXCEPT ![j] = Idle]
  BY DEF GivesUp
<1>2. ReservedBy(jobs[j]) = {}
  BY DEF GivesUp, Bases, IInv, Shape, Tame, ReservedBy
<1>3. ReservedBy(Idle) = {} /\ Idle.batches = {} /\ Idle.group = {}
  BY DEF Idle, ReservedBy
<1>4. Live' = Live /\ server' = server
  BY HeldStays DEF GivesUp
<1>5. UNCHANGED <<generation, books, poll, link, odd, known, remain, spent, demands, calls>>
  BY DEF GivesUp, epoch, ledger
<1> QED BY <1>1, <1>2, <1>3, <1>4, <1>5, JobHolds

LEMMA ReplayedKeeps ==
  ASSUME Bases, NEW j \in Jobs, Replayed(j)
  PROVE  HInv'
<1> DEFINE job == [Idle EXCEPT !.at = IF Current(j) THEN "plan" ELSE "idle"]
<1>1. jobs' = [jobs EXCEPT ![j] = job]
  BY DEF Replayed
<1>2. ReservedBy(jobs[j]) = {}
  BY DEF Replayed, ReservedBy
<1>3. job.in = {} /\ job.batches = {} /\ job.group = {}
  BY DEF Idle
<1> HIDE DEF job
<1>4. ReservedBy(job) = {}
  BY <1>3 DEF ReservedBy
<1>5. Live' = Live /\ server' = server
  BY HeldStays DEF Replayed
<1>6. UNCHANGED <<generation, books, poll, link, odd, known, remain, spent, demands, calls>>
  BY DEF Replayed
<1> QED BY <1>1, <1>2, <1>3, <1>4, <1>5, <1>6, JobHolds

\* What OpenD has and nobody is still asked for, the manager believes active.
LEMMA LiveIsActive ==
  ASSUME IInv, SInv, Asked, Calm
  PROVE  Live \subseteq active \cup {k \in Keys :
           \/ \E i \in Jobs : Current(i) /\ jobs[i].flight # NoFlight /\ k \in jobs[i].group
           \/ BookOk("admit") /\ books.gen = generation /\ k \in books.key}
<1>1. CASE ~linked
  <2>1. server = {}
    BY <1>1 DEF SInv, Parted
  <2> QED BY <2>1 DEF Live
<1>2. CASE linked
  <2> SUFFICES ASSUME NEW k \in Live, k \notin active
               PROVE  k \in {l \in Keys :
                 \/ \E i \in Jobs : Current(i) /\ jobs[i].flight # NoFlight /\ l \in jobs[i].group
                 \/ BookOk("admit") /\ books.gen = generation /\ l \in books.key}
    OBVIOUS
  <2>1. k \in Arriving /\ k \in Keys
    BY DEF SInv, Believed, Live, Arriving
  <2>2. CASE \E i \in Jobs : SubsOk(jobs[i]) /\ k \in jobs[i].flight.keys
    <3>1. PICK i \in Jobs : SubsOk(jobs[i]) /\ k \in jobs[i].flight.keys
      BY <2>2
    <3>2. jobs[i].flight # NoFlight
      BY <3>1 DEF SubsOk, NoFlight
    <3>3. Current(i) /\ k \in jobs[i].group
      BY <1>2, <3>1, <3>2, InFlightCurrent DEF SubsOk, Asked
    <3> QED BY <2>1, <3>2, <3>3
  <2>3. CASE BookOk("admit") /\ k \in books.flight.keys
    <3>1. books.flight # NoFlight /\ books.flight.reply # "error"
      BY <2>3 DEF BookOk, NoFlight
    <3>2. books.gen = generation /\ books.flight.keys = books.key
      BY <1>2, <3>1 DEF SInv, InOrder, IInv, Counted
    <3> QED BY <2>1, <2>3, <3>2
  <2> QED BY <2>1, <2>2, <2>3 DEF Arriving
<1> QED BY <1>1, <1>2

LEMMA FinishKeeps ==
  ASSUME Bases, NEW j \in Jobs, Finish(j)
  PROVE  HInv'
<1>1. /\ jobs[j] \in JobRecord /\ jobs[j].group # {} /\ jobs[j].batches = {}
      /\ jobs[j].flight = NoFlight /\ jobs[j].at # "unborn" /\ jobs \in [Jobs -> JobRecord]
  <2>1. jobs[j].at \in {"pass", "replay"}
    BY Busy DEF Bases, Finish
  <2> QED BY <2>1 DEF Finish, Bases, IInv, TypeOK
<1>0. PICK g \in SUBSET Keys : g = jobs[j].group
  BY <1>1 DEF JobRecord
<1> DEFINE job == [jobs[j] EXCEPT !.group = {}]
<1>2. /\ job \in JobRecord /\ job.at = jobs[j].at /\ job.in = jobs[j].in /\ job.group = {}
      /\ job.batches = {} /\ job.gen = jobs[j].gen /\ job.flight = NoFlight
  BY <1>1 DEF JobRecord
<1> DEFINE r == Tidy(job)
<1>3. jobs' = [jobs EXCEPT ![j] = r]
  BY DEF Finish
<1> HIDE DEF job
<1>4. /\ r.gen = jobs[j].gen \/ ReservedBy(r) = {}
      /\ ReservedBy(r) = UNION jobs[j].in
      /\ \A b \in r.batches : b \subseteq r.group
      /\ r.flight.keys \subseteq r.group
  <2>1. ReservedBy(job) = UNION jobs[j].in
    BY <1>2 DEF ReservedBy
  <2> QED BY <1>1, <1>2, <2>1, TidyKeeps
<1> HIDE DEF r
<1>5. ReservedBy(r) \subseteq ReservedBy(jobs[j])
  BY <1>4 DEF ReservedBy
<1>6. UNCHANGED <<generation, books, poll, link, odd, known, demands, calls>> /\ remain' = remain
      /\ UNCHANGED held /\ spent' = spent + Cardinality(g \cap active)
  BY <1>0 DEF Finish, epoch, Finishes
<1>7. Dated' /\ OfNow' /\ NoneApart' /\ Asked' /\ Reserving' \subseteq Reserving
  BY <1>3, <1>4, <1>5, <1>6, JobKeeps
<1>8. Live' = Live /\ server' = server
  BY <1>6, HeldStays
<1>9. ReadRight'
  BY <1>6, <1>8, ReadKeeps DEF link, Calm
<1>10. Within' /\ Debited'
  <2> DEFINE ks == g \cap active
  <2>1. ASSUME Calm, known PROVE Live' \ Reserving' \subseteq (Live \ Reserving) \cup ks
    <3> SUFFICES ASSUME NEW k \in Live, k \notin Reserving', k \notin active \/ k \notin g
                 PROVE  k \notin Reserving
      BY <1>8
    <3>1. jobs'[j] = r /\ \A i \in Jobs : i # j => jobs'[i] = jobs[i]
      BY <1>1, <1>3
    <3>2. CASE k \notin active
      <4>1. k \in Keys /\ \/ \E i \in Jobs : Current(i) /\ jobs[i].flight # NoFlight /\ k \in jobs[i].group
                          \/ BookOk("admit") /\ books.gen = generation /\ k \in books.key
        BY <2>1, <3>2, LiveIsActive DEF Bases, HInv
      <4>2. ASSUME NEW i \in Jobs, Current(i), jobs[i].flight # NoFlight, k \in jobs[i].group PROVE FALSE
        <5>1. i # j /\ jobs'[i] = jobs[i]
          BY <1>1, <3>1, <4>2
        <5>2. Current(i)' /\ k \in ReservedBy(jobs'[i])
          BY <1>6, <4>2, <5>1 DEF Current, ReservedBy
        <5> QED BY <4>1, <5>2 DEF Reserving
      <4>3. ~(BookOk("admit") /\ books.gen = generation /\ k \in books.key)
        BY <1>6, <4>1 DEF Reserving, BookOk
      <4> QED BY <4>1, <4>2, <4>3
    <3>3. CASE k \notin g
      <4> SUFFICES ASSUME k \in Reserving PROVE FALSE
        OBVIOUS
      <4>1. k \in Keys
        BY DEF Reserving
      <4>2. CASE books.at = "admit" /\ books.gen = generation /\ k \in books.key
        BY <1>6, <4>1, <4>2 DEF Reserving
      <4>3. ASSUME NEW i \in Jobs, Current(i), k \in ReservedBy(jobs[i]) PROVE FALSE
        <5>1. CASE i # j
          <6>1. Current(i)' /\ k \in ReservedBy(jobs'[i])
            BY <1>6, <3>1, <4>3, <5>1 DEF Current
          <6> QED BY <4>1, <6>1 DEF Reserving
        <5>2. CASE i = j
          <6>1. k \in UNION jobs[j].in
            BY <1>0, <3>3, <4>3, <5>2 DEF ReservedBy
          <6>2. k \in ReservedBy(r) /\ r.gen = generation
            BY <1>4, <4>3, <5>2, <6>1 DEF Current
          <6>3. Current(j)' /\ k \in ReservedBy(jobs'[j])
            BY <1>6, <3>1, <6>2 DEF Current
          <6> QED BY <4>1, <6>3 DEF Reserving
        <5> QED BY <5>1, <5>2
      <4> QED BY <4>2, <4>3 DEF Reserving
    <3> QED BY <3>2, <3>3
  <2>2. ks \in SUBSET Keys /\ spent' = spent + Cardinality(ks)
    BY <1>6
  <2>3. (Calm' <=> Calm) /\ room' = room /\ remain' = remain /\ known' = known
    BY <1>6 DEF Calm, link
  <2> HIDE DEF ks
  <2> QED BY <1>7, <1>8, <2>1, <2>2, <2>3, Passes
<1> QED BY <1>7, <1>9, <1>10 DEF HInv

\* A job that had nothing reserved turns to r, which reserves what is free.
LEMMA JobReserves ==
  ASSUME Bases, Calm' => Calm, NEW j \in Jobs, NEW r, jobs' = [jobs EXCEPT ![j] = r],
         UNCHANGED <<generation, books, poll, link, held, known, remain, spent, demands, calls>>,
         ReservedBy(jobs[j]) = {}, NEW ks \in SUBSET Keys, ReservedBy(r) = ks,
         r.gen = generation \/ ks = {},
         \A b \in r.batches : b \subseteq r.group,
         r.group # {} => r.flight.keys \subseteq r.group,
         ks # {} => known /\ Cardinality(ks) <= Minus(remain, Headroom + spent + pending)
  PROVE  HInv'
<1>1. /\ jobs \in [Jobs -> JobRecord] /\ jobs'[j] = r /\ \A i \in Jobs : i # j => jobs'[i] = jobs[i]
  BY DEF Bases, IInv, TypeOK
<1>2. UNCHANGED <<server, adrift, conn, linked, notices, room>>
  BY DEF link, held
<1>3. Reserving' = Reserving \cup ks
  BY ReservingAfter
<1>4. Within' /\ Debited'
  BY <1>2, <1>3, Reserves
<1>5. Dated'
  BY DEF Bases, HInv, Dated
<1>6. OfNow'
  <2>1. ASSUME known PROVE \A i \in Jobs : ReservedBy(jobs'[i]) # {} => jobs'[i].gen = generation
    BY <1>1, <2>1 DEF Bases, HInv, OfNow, Current
  <2> QED BY <2>1 DEF Bases, HInv, OfNow, Current
<1>7. NoneApart'
  <2> SUFFICES ASSUME Calm', ~linked', notices' = <<>> PROVE Reserving' = {}
    BY DEF NoneApart
  <2>1. Calm /\ ~linked /\ notices = <<>>
    BY <1>2
  <2>2. Reserving = {} /\ ~known
    BY <2>1 DEF Bases, HInv, NoneApart, SInv, Parted
  <2> QED BY <1>3, <2>2
<1>8. Asked'
  BY <1>1 DEF Bases, HInv, Asked
<1>9. ReadRight'
  BY <1>2, ReadKeeps
<1> QED BY <1>4, <1>5, <1>6, <1>7, <1>8, <1>9 DEF HInv

LEMMA PlanKeeps ==
  ASSUME Bases, NEW j \in Jobs, Plan(j)
  PROVE  HInv'
<1> DEFINE stamped == (dropped \cup (active \ (Wanted \cup optional))) \ Wanted
           ripe == lapsed \ Wanted
           pinned == {k \in active \ Wanted : k \in optional \cup young}
           cap == Minus(Least(Budget, Cardinality(active) + Free), Cardinality(pinned))
           want == Desired(cap)
           new == want \ active
           adds == {k \in new : Cardinality({l \in new : KeyAhead(l, k)}) < Free}
           loose == active \ (optional \cup want \cup young)
           removes == {k \in loose : \/ k[1] \in Demanded /\ ~Ordinary(k[1])
                                     \/ k \in ripe}
<1>1. \E out : jobs' = [jobs EXCEPT ![j] = Tidy([Idle EXCEPT !.at = "pass", !.gen = generation, !.out = out,
                                                            !.in = Groups(adds)])]
  BY DEF Plan
<1>2. new \in SUBSET Wanted /\ new \in SUBSET Keys
  BY DesiredIsWanted
<1>3. adds \in SUBSET Keys
  BY <1>2
<1>4. Free \in Nat /\ (Free # 0 => known /\ Free = Minus(remain, Headroom + spent + pending))
  <2>1. /\ remain \in Nat /\ spent \in Nat /\ pending \in Nat /\ Headroom \in Nat
    BY Amounts DEF Bases, IInv
  <2>2. Headroom + spent + pending \in Nat
    BY <2>1
  <2>3. Minus(remain, Headroom + spent + pending) \in Nat
    BY <2>1, <2>2, Naturals
  <2> QED BY <2>3 DEF Free, NoBudget
<1>5. Cardinality(adds) <= Free
  <2>1. TypeOK /\ Dated
    BY DEF Bases, IInv, HInv
  <2> HIDE DEF new
  <2> QED BY <1>2, <1>4, <2>1, AddsFit
<1> HIDE DEF adds
<1>6. adds # {} => known /\ Cardinality(adds) <= Minus(remain, Headroom + spent + pending)
  <2>1. adds # {} => Cardinality(adds) # 0 /\ Cardinality(adds) \in Nat
    BY <1>3, KeySetsAreFinite, FS_EmptySet
  <2> QED BY <1>4, <1>5, <2>1
<1>7. PICK out : jobs' = [jobs EXCEPT ![j] = Tidy([Idle EXCEPT !.at = "pass", !.gen = generation, !.out = out,
                                                              !.in = Groups(adds)])]
  BY <1>1
<1> DEFINE job == [Idle EXCEPT !.at = "pass", !.gen = generation, !.out = out, !.in = Groups(adds)]
           r == Tidy(job)
<1>8. /\ job.gen = generation /\ job.in = Groups(adds) /\ job.group = {} /\ job.batches = {}
  BY DEF Idle
<1>9. r = job \/ (r = Idle /\ job.in = {})
  BY DEF Tidy
<1> HIDE DEF job
<1>10. UNION Groups(adds) = adds
  BY <1>3, GroupsPartition
<1>11. ReservedBy(job) = adds
  BY <1>8, <1>10 DEF ReservedBy
<1>12. /\ ReservedBy(r) = adds /\ (r.gen = generation \/ adds = {})
       /\ r.batches = {} /\ r.group = {}
  <2>1. CASE r = job
    BY <1>8, <1>11, <2>1
  <2>2. CASE r = Idle /\ job.in = {}
    <3>1. adds = {}
      BY <1>8, <1>10, <2>2
    <3>2. ReservedBy(Idle) = {} /\ Idle.batches = {} /\ Idle.group = {}
      BY DEF ReservedBy, Idle
    <3> QED BY <2>2, <3>1, <3>2
  <2> QED BY <1>9, <2>1, <2>2
<1>13. ReservedBy(jobs[j]) = {}
  BY DEF Plan, Bases, IInv, Shape, Tame, ReservedBy
<1>14. UNCHANGED <<generation, books, poll, link, held, odd, known, remain, spent, demands, calls>>
  BY DEF Plan, epoch
<1>15. Calm' <=> Calm
  BY <1>14 DEF Calm
<1>16. jobs' = [jobs EXCEPT ![j] = r]
  BY <1>7 DEF job
<1> HIDE DEF r
<1> QED BY <1>3, <1>6, <1>12, <1>13, <1>14, <1>15, <1>16, JobReserves

LEMMA ReplayKeeps ==
  ASSUME Bases, NEW j \in Jobs, Replay(j)
  PROVE  HInv'
<1> DEFINE cap == Minus(remain, Headroom + spent + pending)
           keys == active \cap Wanted \cap Desired(cap)
<1>1. /\ jobs \in [Jobs -> JobRecord] /\ jobs[j] \in JobRecord
      /\ jobs[j].group = {} /\ jobs[j].in = {} /\ jobs[j].batches = {}
  BY DEF Replay, Bases, IInv, TypeOK, Shape, Tame
<1>2. ReservedBy(jobs[j]) = {}
  BY <1>1 DEF ReservedBy
<1>3. UNCHANGED <<generation, books, poll, link, held, known, remain, spent, demands, calls>> /\ (Calm' => Calm)
  BY DEF Replay, Calm
<1>4. cap \in Nat
  <2>1. /\ remain \in Nat /\ spent \in Nat /\ pending \in Nat /\ Headroom \in Nat
    BY Amounts DEF Bases, IInv
  <2>2. Headroom + spent + pending \in Nat
    BY <2>1
  <2> QED BY <2>1, <2>2, Naturals
<1> HIDE DEF cap
<1>5. keys \in SUBSET Keys /\ Cardinality(keys) <= cap
  <2>1. Desired(cap) \in SUBSET Keys
    BY DesiredIsWanted
  <2>2. keys \in SUBSET Keys /\ keys \subseteq Desired(cap)
    BY <2>1
  <2>3. Cardinality(keys) <= Cardinality(Desired(cap)) /\ Cardinality(keys) \in Nat
        /\ Cardinality(Desired(cap)) \in Nat
    BY <2>1, <2>2, PartsCount
  <2>4. Cardinality(Desired(cap)) <= cap
    BY <1>4, DesiredFits DEF Bases, IInv, HInv
  <2> QED BY <1>4, <2>2, <2>3, <2>4
<1> HIDE DEF keys
<1>6. ASSUME NEW r, jobs' = [jobs EXCEPT ![j] = r], r.in = {}, r.group = {}, r.batches = {}
      PROVE  HInv'
  <2>1. ReservedBy(r) = {}
    BY <1>6 DEF ReservedBy
  <2> QED BY <1>2, <1>3, <1>6, <2>1, JobReserves
<1>7. CASE jobs' = [jobs EXCEPT ![j] = Idle]
  <2>1. Idle.in = {} /\ Idle.group = {} /\ Idle.batches = {}
    BY DEF Idle
  <2> QED BY <1>6, <1>7, <2>1
<1>8. CASE jobs' = [jobs EXCEPT ![j].at = "plan"]
  <2> DEFINE r == [jobs[j] EXCEPT !.at = "plan"]
  <2>1. r.in = {} /\ r.group = {} /\ r.batches = {}
    BY <1>1 DEF JobRecord
  <2>2. jobs' = [jobs EXCEPT ![j] = r]
    BY <1>1, <1>8
  <2> HIDE DEF r
  <2> QED BY <1>6, <2>1, <2>2
<1>9. CASE /\ jobs' = [jobs EXCEPT ![j].at = "replay", ![j].gen = generation, ![j].in = Groups(keys)]
           /\ known
  <2> DEFINE r == [jobs[j] EXCEPT !.at = "replay", !.gen = generation, !.in = Groups(keys)]
  <2>1. r.gen = generation /\ r.in = Groups(keys) /\ r.group = {} /\ r.batches = {}
    BY <1>1 DEF JobRecord
  <2>2. jobs' = [jobs EXCEPT ![j] = r]
    BY <1>1, <1>9 DEF JobRecord
  <2> HIDE DEF r
  <2>3. UNION Groups(keys) = keys
    BY <1>5, GroupsPartition
  <2>4. ReservedBy(r) = keys
    BY <2>1, <2>3 DEF ReservedBy
  <2>5. Cardinality(keys) <= Minus(remain, Headroom + spent + pending)
    BY <1>5 DEF cap
  <2> QED BY <1>2, <1>3, <1>5, <1>9, <2>1, <2>2, <2>4, <2>5, JobReserves
<1> QED BY <1>7, <1>8, <1>9 DEF Replay, keys, cap

-----------------------------------------------------------------------------
(* The other steps *)

LEMMA RestKeeps ==
  ASSUME Bases, Calm' => Calm, room' = room, remain' = remain, known' => known /\ spent' = spent,
         Reserving' = Reserving, Live' \subseteq Live \cup Reserving
  PROVE  Within' /\ Debited'
<1>1. {} \in SUBSET Keys /\ Cardinality({}) = 0
  BY FS_EmptySet
<1>2. spent \in Nat
  BY Amounts DEF Bases, IInv
<1>3. known' => known /\ spent' = spent + Cardinality({})
  BY <1>1, <1>2
<1>4. Live' \ Reserving' \subseteq (Live \ Reserving) \cup {}
  OBVIOUS
<1> QED BY <1>1, <1>3, <1>4, Passes

\* A step that touches neither the jobs nor the connection.
LEMMA ApartKeeps ==
  ASSUME Bases, UNCHANGED <<jobs, generation, link, odd, demands, calls, remain, spent>>,
         known' => known, UNCHANGED poll, books'.at = "admit" => books.at = "admit",
         books.at = "admit" => books'.gen = books.gen /\ books'.at = "admit" /\ books'.key = books.key,
         Live' \subseteq Live \cup Reserving, server' \subseteq server \/ pending > 0
  PROVE  HInv'
<1>1. Reserving' = Reserving
  BY DEF Reserving, Current
<1>2. (Calm' <=> Calm) /\ room' = room /\ linked' = linked /\ notices' = notices
  BY DEF Calm, link
<1>3. Within' /\ Debited'
  BY <1>1, <1>2, RestKeeps
<1>4. ReadRight'
  BY <1>2, ReadKeeps
<1>5. OfNow' /\ Dated' /\ Asked'
  BY DEF Bases, HInv, OfNow, Dated, Asked, Current
<1>6. NoneApart'
  BY <1>1, <1>2 DEF Bases, HInv, NoneApart
<1> QED BY <1>3, <1>4, <1>5, <1>6 DEF HInv

LEMMA CallersKeep ==
  ASSUME Bases, NEW d \in DOMAIN Demands, Ensure(d) \/ Release(d)
  PROVE  HInv'
<1>1. UNCHANGED <<jobs, generation, link, odd, remain, spent, known, poll, pending, held>>
  BY DEF Ensure, Release, epoch, ledger
<1>2. calls' = calls + 1 /\ calls \in Nat /\ demands \in [DOMAIN Demands -> 0 .. MaxCalls]
  BY SubAssumption DEF Ensure, Release, Called, Bases, IInv, TypeOK
<1>3. books'.at = books.at /\ books'.gen = books.gen /\ books'.key = books.key
  BY DEF Ensure, Release, Bases, IInv, TypeOK, BookRecord
<1>4. Dated'
  <2>1. \A e \in DOMAIN Demands : demands[e] \in Nat /\ demands[e] <= calls
    BY DemandTypes DEF Bases, IInv, HInv, Dated
  <2>2. PICK n \in {0, calls + 1} : demands' = [demands EXCEPT ![d] = n]
    BY DEF Ensure, Release
  <2>3. \A e \in DOMAIN Demands : demands'[e] = IF e = d THEN n ELSE demands[e]
    BY <1>2, <2>2
  <2> SUFFICES ASSUME NEW e \in DOMAIN Demands
               PROVE  /\ demands'[e] <= calls'
                      /\ \A f \in DOMAIN Demands : e # f /\ demands'[e] > 0 => demands'[e] # demands'[f]
    BY DEF Dated
  <2>4. demands'[e] <= calls'
    BY <1>2, <2>1, <2>3
  <2>5. ASSUME NEW f \in DOMAIN Demands, e # f, demands'[e] > 0 PROVE demands'[e] # demands'[f]
    <3>1. e # d /\ f # d => demands[e] # demands[f]
      BY <2>3, <2>5 DEF Bases, HInv, Dated
    <3> QED BY <1>2, <2>1, <2>3, <2>5, <3>1
  <2> QED BY <2>4, <2>5
<1>5. Reserving' = Reserving /\ Live' = Live /\ server' = server
  BY <1>1, <1>3, HeldStays DEF Reserving, Current
<1>6. (Calm' <=> Calm) /\ room' = room /\ linked' = linked /\ notices' = notices
  BY <1>1 DEF Calm, link
<1>7. Within' /\ Debited'
  BY <1>1, <1>5, <1>6, RestKeeps
<1>8. ReadRight'
  BY <1>1, <1>5, <1>6, ReadKeeps
<1>9. OfNow' /\ Asked'
  BY <1>1, <1>3 DEF Bases, HInv, OfNow, Asked, Current
<1>10. NoneApart'
  BY <1>5, <1>6 DEF Bases, HInv, NoneApart
<1> QED BY <1>4, <1>7, <1>8, <1>9, <1>10 DEF HInv

LEMMA TimeKeeps ==
  ASSUME Bases, (\E k \in Keys : HoldEnds(k) \/ Lapses(k)) \/ ReadingAges
  PROVE  HInv'
<1>1. /\ UNCHANGED <<jobs, generation, link, odd, demands, calls, remain, spent, poll, books, held>>
      /\ known' => known
  BY DEF HoldEnds, Lapses, ReadingAges, epoch, ledger
<1>2. Live' = Live /\ server' = server
  BY <1>1, HeldStays
<1> QED BY <1>1, <1>2, ApartKeeps

LEMMA BooksSendKeeps ==
  ASSUME Bases, BooksSend
  PROVE  HInv'
<1>1. UNCHANGED <<jobs, generation, link, odd, demands, calls, remain, spent, poll, known, pending>>
  BY DEF BooksSend, epoch, ledger
<1>2. books'.at = books.at /\ books'.gen = books.gen /\ books'.key = books.key
  BY DEF BooksSend, Bases, IInv, TypeOK, BookRecord
<1>3. PICK r \in Replies :
        \/ UNCHANGED <<held, upsets>> \/ Unsubscribes(books.key, r)
        \/ ~books.canceled /\ books.at = "admit" /\ Subscribes(books.key, r)
  BY DEF BooksSend
<1>4. Live' \subseteq Live \cup Reserving /\ (server' \subseteq server \/ pending > 0)
  <2>1. CASE UNCHANGED <<held, upsets>> \/ Unsubscribes(books.key, r)
    BY <2>1, UnsubscribesLive
  <2>2. CASE ~books.canceled /\ books.at = "admit" /\ Subscribes(books.key, r)
    <3>1. books.gen = generation /\ books.key \subseteq Keys
      BY <2>2 DEF Bases, SInv, Generations, IInv, TypeOK, BookRecord
    <3>2. books.key \subseteq Reserving
      BY <2>2, <3>1 DEF Reserving
    <3>3. Live' \subseteq Live \cup books.key
      BY <2>2, SubscribesLive
    <3>4. pending > 0
      BY <2>2, Finite DEF Bases, IInv, Counted
    <3> QED BY <3>2, <3>3, <3>4
  <2> QED BY <1>3, <2>1, <2>2
<1> QED BY <1>1, <1>2, <1>4, ApartKeeps

LEMMA DropKeeps ==
  ASSUME Bases, Drop
  PROVE  HInv'
<1>1. UNCHANGED <<jobs, generation, room, odd, demands, calls, remain, spent, poll, known, books>>
      /\ server' = {} /\ notices' = Append(notices, "down")
  BY DEF Drop, epoch, ledger
<1>2. Reserving' = Reserving /\ Live' = {} /\ (Calm' <=> Calm)
  BY <1>1 DEF Reserving, Current, Live, Calm
<1>3. Within' /\ Debited'
  BY <1>1, <1>2, RestKeeps
<1>4. ReadRight'
  BY <1>1, <1>2, ReadKeeps
<1>5. OfNow' /\ Dated' /\ Asked'
  BY <1>1 DEF Bases, HInv, OfNow, Dated, Asked, Current
<1>6. notices' # <<>>
  <2>1. notices \in Seq({"up", "down"})
    BY DEF Bases, IInv, TypeOK
  <2>2. Len(notices') = Len(notices) + 1 /\ Len(notices) \in Nat
    BY <1>1, <2>1
  <2>3. Len(<<>>) = 0
    OBVIOUS
  <2> QED BY <2>2, <2>3
<1> QED BY <1>3, <1>4, <1>5, <1>6 DEF HInv, NoneApart

LEMMA ConnectKeeps ==
  ASSUME Bases, Connect
  PROVE  HInv'
<1>1. UNCHANGED <<jobs, generation, demands, calls, remain, spent, poll, known, books, held>>
      /\ ~linked /\ linked'
  BY DEF Connect, epoch, ledger
<1>2. Reserving' = Reserving /\ Live' = Live /\ server' = server
  BY <1>1, HeldStays DEF Reserving, Current
<1>3. OfNow' /\ Dated' /\ Asked' /\ NoneApart'
  BY <1>1 DEF Bases, HInv, OfNow, Dated, Asked, Current, NoneApart
<1>4. CASE UNCHANGED <<room, odd>>
  <2>1. Calm' <=> Calm
    BY <1>4 DEF Calm
  <2>2. Within' /\ Debited'
    BY <1>1, <1>2, <1>4, <2>1, RestKeeps
  <2>3. ReadRight'
    BY <1>1, <1>2, <1>4, <2>1, ReadKeeps
  <2> QED BY <1>3, <2>2, <2>3 DEF HInv
<1>5. CASE notices = <<>> /\ UNCHANGED odd
  <2> SUFFICES ASSUME Calm PROVE Within' /\ Debited' /\ ReadRight'
    BY <1>3, <1>5 DEF HInv, Within, Debited, ReadRight, Calm
  <2>1. /\ server = {} /\ Reserving = {} /\ ~known
        /\ poll.at = "read" => poll.gen # generation
    BY <1>1, <1>5 DEF Bases, SInv, Parted, HInv, NoneApart
  <2>2. Live' \cup Reserving' = {}
    BY <1>2, <2>1 DEF Live
  <2>3. Within'
    <3>1. room' \in Nat /\ Headroom \in Nat
      BY AmountsAfter, SubAssumption DEF Bases, IInv
    <3>2. Minus(room', Headroom) \in Nat
      BY <3>1, Naturals
    <3>3. Cardinality({}) <= Minus(room', Headroom)
      BY <3>2, FS_EmptySet
    <3> QED BY <2>2, <3>3 DEF Within
  <2> QED BY <1>1, <2>1, <2>3 DEF Debited, ReadRight
<1>6. CASE odd' = odd \cup {"lag"}
  BY <1>3, <1>6 DEF HInv, Within, Debited, ReadRight, Calm
<1> QED BY <1>4, <1>5, <1>6 DEF Connect, Settled

LEMMA StateDownKeeps ==
  ASSUME Bases, StateDown
  PROVE  HInv'
<1>1. UNCHANGED <<jobs, room, odd, demands, calls, remain, poll, held>>
      /\ ~known' /\ generation' = generation + 1 /\ generation \in Nat
  BY SubAssumption DEF StateDown, Bases, IInv, TypeOK
<1>2. books'.at = books.at /\ books'.gen = books.gen
  BY DEF StateDown, Bases, IInv, TypeOK, BookRecord
<1>3. Reserving' = {}
  <2>1. \A j \in Jobs : jobs[j].gen \in Nat /\ jobs[j].gen <= generation
    BY JobFacts DEF Bases
  <2>2. books.at = "admit" => books.gen \in Nat /\ books.gen <= generation
    BY DEF Bases, SInv, Generations, IInv, TypeOK, BookRecord
  <2>3. \A j \in Jobs : ~Current(j)'
    BY <1>1, <2>1 DEF Current
  <2>4. ~(books'.at = "admit" /\ books'.gen = generation')
    BY <1>1, <1>2, <2>2
  <2> QED BY <2>3, <2>4 DEF Reserving
<1>4. Live' = Live /\ server' = server /\ (Calm' <=> Calm)
  BY <1>1, HeldStays DEF Calm
<1>5. Within' /\ Debited'
  <2>1. {} \in SUBSET Keys /\ Live' \subseteq Live \cup Reserving /\ Reserving' \subseteq Reserving
    BY <1>3, <1>4
  <2> QED BY <1>1, <1>4, <2>1, Passes
<1>6. ReadRight'
  <2>1. poll.gen \in Nat /\ poll.gen <= generation
    BY DEF Bases, SInv, Generations, IInv, TypeOK, PollRecord
  <2> QED BY <1>1, <2>1 DEF ReadRight
<1>7. OfNow' /\ Dated' /\ Asked' /\ NoneApart'
  BY <1>1, <1>3 DEF Bases, HInv, OfNow, Dated, Asked, NoneApart
<1> QED BY <1>5, <1>6, <1>7 DEF HInv

LEMMA StateUpKeeps ==
  ASSUME Bases, StateUp
  PROVE  HInv'
<1> DEFINE j == Resync(generation)
           r == [jobs[j] EXCEPT !.at = "wait"]
<1>1. j \in Jobs /\ jobs \in [Jobs -> JobRecord]
  BY DEF Bases, IInv, TypeOK, Jobs
<1>2. r.in = jobs[j].in /\ r.group = jobs[j].group /\ r.batches = jobs[j].batches
      /\ r.gen = jobs[j].gen /\ r.flight = jobs[j].flight
  BY <1>1 DEF JobRecord
<1>3. jobs' = [jobs EXCEPT ![j] = r]
  BY <1>1 DEF StateUp
<1> HIDE DEF r, j
<1>4. UNCHANGED <<generation, room, odd, demands, calls, remain, spent, known, poll, books, held, linked>>
  BY DEF StateUp, epoch, ledger
<1>5. Reserving' = Reserving
  <2>1. ReservedBy(r) = ReservedBy(jobs[j])
    BY <1>2 DEF ReservedBy
  <2> QED BY <1>1, <1>2, <1>3, <1>4, <2>1, ReservingAfter
<1>6. Live' = Live /\ server' = server /\ (Calm' <=> Calm)
  BY <1>4, HeldStays DEF Calm
<1>7. Within' /\ Debited'
  BY <1>4, <1>5, <1>6, RestKeeps
<1>8. ReadRight'
  BY <1>4, <1>6, ReadKeeps
<1>9. \A i \in Jobs : /\ jobs'[i].in = jobs[i].in /\ jobs'[i].group = jobs[i].group
                      /\ jobs'[i].batches = jobs[i].batches /\ jobs'[i].gen = jobs[i].gen
                      /\ jobs'[i].flight = jobs[i].flight
  BY <1>1, <1>2, <1>3
<1>10. OfNow' /\ Dated' /\ Asked'
  BY <1>4, <1>9 DEF Bases, HInv, OfNow, Dated, Asked, Current, ReservedBy
<1>11. NoneApart'
  <2> SUFFICES ASSUME Calm', ~linked', notices' = <<>> PROVE FALSE
    BY DEF NoneApart
  <2>1. notices \in Seq({"up", "down"}) /\ notices # <<>> /\ Head(notices) = "up" /\ Tail(notices) = <<>>
    BY DEF StateUp, Bases, IInv, TypeOK
  <2>2. Len(notices) = 1
    <3>1. Len(Tail(notices)) = Len(notices) - 1 /\ Len(notices) \in Nat
      BY <2>1
    <3>2. Len(<<>>) = 0
      OBVIOUS
    <3>3. Len(Tail(notices)) = Len(<<>>)
      BY <2>1, Zenon
    <3>4. Len(Tail(notices)) = 0
      BY <3>2, <3>3, Zenon
    <3>5. ASSUME NEW n \in Nat, NEW l, l = n - 1, l = 0 PROVE n = 1
      BY <3>5
    <3> QED BY <3>1, <3>4, <3>5
  <2>4. notices[Len(notices)] = "up"
    <3>1. Head(notices) = notices[1]
      BY <2>1
    <3> QED BY <2>1, <2>2, <3>1
  <2>3. linked
    BY <2>1, <2>4 DEF Bases, IInv, Noticing, Alternate
  <2> QED BY <1>4, <2>3
<1> QED BY <1>7, <1>8, <1>10, <1>11 DEF HInv

LEMMA NothingPending ==
  ASSUME IInv, pending = 0
  PROVE  (\A j \in Jobs : ReservedBy(jobs[j]) = {}) /\ books.at # "admit"
<1>1. Cardinality(TokensOf(jobs)) = 0 /\ books.at # "admit"
  BY Finite DEF IInv, Counted
<1>2. TokensOf(jobs) = {}
  BY <1>1, Finite, FS_EmptySet
<1>3. ASSUME NEW j \in Jobs, NEW k \in ReservedBy(jobs[j]) PROVE FALSE
  <2>1. k \in Keys
    BY DEF ReservedBy, IInv, TypeOK, JobRecord
  <2>2. <<j, k>> \in TokensOf(jobs)
    BY <2>1 DEF TokensOf
  <2> QED BY <1>2, <2>2
<1> QED BY <1>1, <1>3

LEMMA PollsKeep ==
  ASSUME Bases, Polls
  PROVE  HInv'
<1>1. UNCHANGED <<jobs, generation, room, link, demands, calls, books, held>>
  BY DEF Polls, PollBegin, PollAsk, PollSet, PollEnd, epoch, link, ledger
<1>2. Reserving' = Reserving /\ Live' = Live /\ server' = server
  BY <1>1, HeldStays DEF Reserving, Current
<1>3. Dated' /\ Asked'
  BY <1>1 DEF Bases, HInv, Dated, Asked
<1>4. Calm' => Calm
  BY DEF Polls, PollBegin, PollAsk, PollSet, PollEnd, Calm
<1>5. NoneApart'
  BY <1>1, <1>2, <1>4 DEF Bases, HInv, NoneApart, link
<1>6. CASE PollSet /\ known' = TRUE /\ remain' = poll.value
           /\ spent' = (IF pending = 0 THEN 0 ELSE spent)
           /\ odd' = (IF poll.gen = generation THEN odd ELSE odd \cup {"stale"})
  <2>1. pending = 0 /\ poll.at = "read"
    BY <1>6 DEF PollSet, Bases, IInv, ReadingAlone
  <2>2. (\A j \in Jobs : ReservedBy(jobs[j]) = {}) /\ books.at # "admit"
    BY <2>1, NothingPending DEF Bases
  <2>3. OfNow'
    BY <1>1, <2>2 DEF OfNow
  <2>4. ReadRight'
    BY <1>6 DEF PollSet, ReadRight, NoPoll
  <2>5. Within'
    BY <1>1, <1>2, <1>4 DEF Bases, HInv, Within, Minus
  <2>6. Debited'
    <3> SUFFICES ASSUME Calm', known', remain' > 0
                 PROVE  Cardinality(Live' \ Reserving') + remain' <= room' + spent'
      BY DEF Debited
    <3>1. Calm /\ poll.gen = generation /\ poll.value > 0
      BY <1>6 DEF Calm
    <3>2. poll.value + Cardinality(server) <= room
      BY <2>1, <3>1 DEF Bases, HInv, ReadRight
    <3>3. room \in Nat /\ server \in SUBSET Keys /\ poll.value \in Nat
      BY Amounts DEF Bases, IInv, TypeOK, PollRecord
    <3> DEFINE left == Live' \ Reserving'
    <3>4. left \subseteq server /\ left \in SUBSET Keys
      BY <1>2, <3>3 DEF Live
    <3> HIDE DEF left
    <3>5. Cardinality(left) <= Cardinality(server) /\ Cardinality(left) \in Nat /\ Cardinality(server) \in Nat
      BY <3>3, <3>4, PartsCount
    <3>6. room' = room /\ spent' = 0 /\ remain' = poll.value
      BY <1>1, <1>6, <2>1
    <3>7. Cardinality(left) + poll.value <= room + 0
      BY <3>2, <3>3, <3>5
    <3> QED BY <3>6, <3>7 DEF left
  <2> QED BY <1>3, <1>5, <2>3, <2>4, <2>5, <2>6 DEF HInv
<1>7. CASE UNCHANGED <<known, remain, spent, odd>>
  <2>1. Within' /\ Debited'
    <3>1. room' = room
      BY <1>1 DEF link
    <3> QED BY <1>2, <1>4, <1>7, <3>1, RestKeeps
  <2>2. OfNow'
    BY <1>1, <1>7 DEF Bases, HInv, OfNow, Current
  <2>3. ReadRight'
    <3> SUFFICES ASSUME Calm', poll'.at = "read", poll'.value > 0
                 PROVE  poll'.value + Cardinality(server') <= room'
      BY DEF ReadRight
    <3>1. PollAsk
      <4>1. ~PollBegin /\ ~PollSet /\ ~PollEnd
        <5>1. poll \in PollRecord /\ NoPoll.at = "idle"
          BY DEF Bases, IInv, TypeOK, NoPoll
        <5>2. PollBegin => poll'.at = "wait"
          BY <5>1 DEF PollBegin, PollRecord
        <5>3. PollSet => poll'.at = "end"
          BY DEF PollSet, NoPoll
        <5>4. PollEnd => poll'.at = "idle"
          BY <5>1 DEF PollEnd
        <5> QED BY <5>2, <5>3, <5>4
      <4> QED BY <4>1 DEF Polls
    <3>2. poll' = [at |-> "read", value |-> Minus(room, Cardinality(server)), gen |-> generation, conn |-> conn]
      BY <3>1 DEF PollAsk, NoPoll
    <3>3. Minus(room, Cardinality(server)) > 0
      BY <3>2
    <3>4. room \in Nat /\ Cardinality(server) \in Nat
      BY Amounts, KeySetsAreFinite DEF Bases, IInv
    <3>5. Minus(room, Cardinality(server)) + Cardinality(server) <= room
      BY <3>3, <3>4 DEF Minus
    <3> QED BY <1>1, <1>2, <3>2, <3>5
  <2> QED BY <1>3, <1>5, <2>1, <2>2, <2>3 DEF HInv
<1> QED BY <1>6, <1>7 DEF Polls, PollBegin, PollAsk, PollSet, PollEnd, ledger

LEMMA BooksPassKeeps ==
  ASSUME Bases, BooksPass
  PROVE  HInv'
<1>1. UNCHANGED <<jobs, generation, link, odd, demands, calls, remain, spent, poll, known, held>>
  BY DEF BooksPass, epoch
<1>2. books.at = "idle"
  BY DEF BooksPass
<1>3. CASE books'.at # "admit"
  BY <1>1, <1>2, <1>3, HeldStays, ApartKeeps
<1>4. CASE books'.at = "admit"
  <2> DEFINE ks == books'.key
  <2>1. books'.gen = generation /\ known /\ remain - spent - pending > Headroom
    <3>1. BooksPass /\ books.at # "admit" /\ books'.at = "admit"
      BY <1>2, <1>4
    <3>2. books' # books /\ books'.at # "release"
      BY <3>1
    <3>3. /\ books'.gen = generation
          /\ ~NoBudget /\ ~(remain - spent - pending <= Headroom)
      BY <3>1, <3>2, Zenon DEF BooksPass, NoBook
    <3>4. /\ remain \in Nat /\ spent \in Nat /\ pending \in Nat /\ Headroom \in Nat
      BY Amounts DEF Bases, IInv
    <3> QED BY <3>3, <3>4 DEF NoBudget
  <2>2. ks \in SUBSET Keys /\ Cardinality(ks) = 1
    BY <1>4 DEF Bases, IInv, TypeOK, BookRecord, Counted
  <2>3. Reserving' = Reserving \cup ks
    BY <1>1, <1>2, <1>4, <2>1, <2>2 DEF Reserving, Current
  <2>4. Cardinality(ks) <= Minus(remain, Headroom + spent + pending)
    <3>1. /\ remain \in Nat /\ spent \in Nat /\ pending \in Nat /\ Headroom \in Nat
      BY Amounts DEF Bases, IInv
    <3>2. 1 <= Minus(remain, Headroom + spent + pending)
      BY <2>1, <3>1 DEF Minus
    <3> QED BY <2>2, <3>2
  <2> HIDE DEF ks
  <2>5. (Calm' <=> Calm) /\ UNCHANGED <<server, adrift, room, notices, linked>>
    BY <1>1 DEF Calm, link, held
  <2>6. Within' /\ Debited'
    BY <1>1, <2>1, <2>2, <2>3, <2>4, <2>5, Reserves
  <2>7. ReadRight'
    BY <1>1, <2>5, ReadKeeps
  <2>8. OfNow' /\ Dated' /\ Asked'
    BY <1>1, <2>1 DEF Bases, HInv, OfNow, Dated, Asked, Current
  <2>9. NoneApart'
    BY <2>1, <2>5 DEF Bases, SInv, Parted, NoneApart
  <2> QED BY <2>6, <2>7, <2>8, <2>9 DEF HInv
<1> QED BY <1>3, <1>4

LEMMA BooksDoneKeeps ==
  ASSUME Bases, BooksDone
  PROVE  HInv'
<1> DEFINE f == books.flight
           current == books.gen = generation
<1>1. UNCHANGED <<jobs, generation, link, odd, demands, calls, remain, poll, server>>
      /\ books' = NoBook /\ f # NoFlight
  BY DEF BooksDone, epoch
<1>2. books'.at = "idle"
  BY <1>1 DEF NoBook
<1>3. f.keys = books.key /\ books.key \in SUBSET Keys /\ books.at \in {"admit", "release"}
  BY <1>1 DEF Bases, IInv, Counted, TypeOK, BookRecord
<1>4. PICK reply \in (IF f.reply # "error" /\ (books.canceled \/ Over(f)) THEN {f.reply, "error"} ELSE {f.reply}) :
        /\ adrift' = IF reply = "error" THEN adrift \cup (f.keys \cap server) ELSE adrift
        /\ \/ /\ books.at = "release"
              /\ known' = (known /\ ~(current /\ reply = "error"))
              /\ UNCHANGED spent
           \/ /\ books.at = "admit" /\ current /\ reply = "ok"
              /\ spent' = spent + 1 /\ UNCHANGED known
           \/ /\ books.at = "admit" /\ ~(current /\ reply = "ok")
              /\ known' = (known /\ ~(current /\ reply = "error"))
              /\ spent' = spent + Cardinality(f.keys \cap active)
  BY <1>1 DEF BooksDone, Finishes
<1>5. Live' \subseteq Live /\ server' = server
  BY <1>1, <1>4 DEF Live
<1>6. \A k \in Reserving : k \in Reserving' \/ (books.at = "admit" /\ k \in books.key)
  BY <1>1 DEF Reserving, Current
<1>7. Reserving' \subseteq Reserving
  BY <1>1, <1>2 DEF Reserving, Current
<1>8. (Calm' <=> Calm) /\ UNCHANGED <<room, notices, linked>> /\ (known' => known)
  <2>1. (Calm' <=> Calm) /\ UNCHANGED <<room, notices, linked>>
    BY <1>1 DEF Calm, link
  <2>2. known' => known
    BY <1>4, Zenon
  <2> QED BY <2>1, <2>2
<1>9. Within' /\ Debited'
  <2>1. CASE books.at = "release" /\ UNCHANGED spent
    <3>1. Reserving' = Reserving
      BY <1>6, <1>7, <2>1
    <3> QED BY <1>1, <1>5, <1>8, <2>1, <3>1, RestKeeps
  <2>2. CASE books.at = "admit" /\ spent' = spent + 1
    <3>1. Cardinality(books.key) = 1
      BY <2>2 DEF Bases, IInv, Counted
    <3>2. Live' \ Reserving' \subseteq (Live \ Reserving) \cup books.key
      BY <1>5, <1>6
    <3>3. spent' = spent + Cardinality(books.key)
      BY <2>2, <3>1
    <3> QED BY <1>1, <1>3, <1>5, <1>7, <1>8, <3>2, <3>3, Passes
  <2>3. CASE /\ books.at = "admit" /\ ~(current /\ reply = "ok")
             /\ known' = (known /\ ~(current /\ reply = "error"))
             /\ spent' = spent + Cardinality(f.keys \cap active)
    <3> DEFINE ks == books.key \cap active
    <3>1. ASSUME Calm, known' PROVE Live' \ Reserving' \subseteq (Live \ Reserving) \cup ks
      <4>1. current /\ reply # "ok" /\ reply # "error"
        BY <1>8, <2>3, <3>1 DEF Bases, HInv, OfNow
      <4>2. f.reply # "ok"
        BY <1>4, <4>1
      <4> SUFFICES ASSUME NEW k \in Live, k \notin Reserving', k \in Reserving
                   PROVE  k \in ks
        BY <1>5
      <4>3. k \in books.key
        BY <1>6
      <4>4. k \in active
        <5> SUFFICES ASSUME k \notin active PROVE FALSE
          OBVIOUS
        <5>1. k \in Keys /\ \E i \in Jobs : Current(i) /\ k \in jobs[i].group
          BY <3>1, <4>2, LiveIsActive DEF Bases, HInv, BookOk
        <5>2. k \in Reserving'
          BY <1>1, <5>1 DEF Reserving, ReservedBy, Current
        <5> QED BY <5>2
      <4> QED BY <4>3, <4>4
    <3>2. ks \in SUBSET Keys /\ spent' = spent + Cardinality(ks)
      BY <1>3, <2>3
    <3> HIDE DEF ks
    <3>3. Live' \subseteq Live \cup Reserving
      BY <1>5
    <3> QED BY <1>1, <1>7, <1>8, <3>1, <3>2, <3>3, Passes
  <2> QED BY <1>4, <2>1, <2>2, <2>3
<1>10. ReadRight'
  BY <1>1, <1>5, <1>8, ReadKeeps
<1>11. OfNow' /\ Dated' /\ Asked'
  BY <1>1, <1>2, <1>8 DEF Bases, HInv, OfNow, Dated, Asked, Current
<1>12. NoneApart'
  BY <1>7, <1>8 DEF Bases, HInv, NoneApart
<1> QED BY <1>9, <1>10, <1>11, <1>12 DEF HInv

LEMMA InitKeeps == Init => HInv
<1> SUFFICES ASSUME Init PROVE HInv
  OBVIOUS
<1>1. TypeOK
  BY InitHolds DEF IInv
<1>2. /\ \A j \in Jobs : jobs[j].in = {} /\ jobs[j].group = {} /\ jobs[j].batches = {}
      /\ books.at = "idle" /\ poll.at = "idle" /\ ~known /\ server = {} /\ calls = 0
      /\ \A d \in DOMAIN Demands : demands[d] = 0
  <2>1. Idle.in = {} /\ Idle.group = {} /\ Idle.batches = {}
    BY DEF Idle
  <2>2. \A j \in Jobs : jobs[j] = Idle \/ jobs[j] = [Idle EXCEPT !.at = "unborn"]
    BY DEF Init
  <2>3. \A j \in Jobs : jobs[j].in = {} /\ jobs[j].group = {} /\ jobs[j].batches = {}
    BY <2>1, <2>2 DEF Idle
  <2> QED BY <2>3 DEF Init, NoBook, NoPoll
<1>3. Reserving = {} /\ Live = {}
  BY <1>2 DEF Reserving, ReservedBy, Live
<1>4. Within
  <2>1. Minus(room, Headroom) \in Nat
    BY <1>1, Amounts, Naturals
  <2>2. Live \cup Reserving = {}
    BY <1>3
  <2> QED BY <2>1, <2>2, FS_EmptySet DEF Within
<1>5. Asked
  <2>1. \A j \in Jobs : jobs[j].batches = {} /\ jobs[j].group = {}
    BY <1>2
  <2> QED BY <2>1 DEF Asked
<1>6. Dated
  BY <1>2 DEF Dated
<1> QED BY <1>2, <1>3, <1>4, <1>5, <1>6 DEF HInv, Debited, OfNow, ReadRight, NoneApart

LEMMA StepKeeps == IInv /\ SInv /\ HInv /\ [Next]_vars => HInv'
<1> SUFFICES ASSUME IInv, SInv, HInv, [Next]_vars PROVE HInv'
  OBVIOUS
<1>0. Bases
  BY StepHolds, StepServes DEF Bases
<1>1. CASE UNCHANGED vars
  <2>1. /\ UNCHANGED <<jobs, generation, link, odd, demands, calls, remain, spent, known, poll, books>>
        /\ UNCHANGED held
    BY <1>1 DEF vars, ledger, epoch
  <2>2. server' = server /\ Live' = Live
    BY <2>1, HeldStays
  <2>3. books'.at = books.at /\ books'.gen = books.gen /\ books'.key = books.key
    BY <2>1
  <2> QED BY <1>0, <2>1, <2>2, <2>3, ApartKeeps
<1>2. CASE \E d \in DOMAIN Demands : Ensure(d) \/ Release(d)
  BY <1>0, <1>2, CallersKeep
<1>3. CASE \E j \in Jobs : Runs(j)
  <2>1. PICK j \in Jobs : Runs(j)
    BY <1>3
  <2> QED BY <1>0, <2>1, PlanKeeps, UnsubscribeKeeps, UnsubscribedKeeps, TakeGroupKeeps, SubscribeKeeps,
             SubscribedKeeps, FinishKeeps, ReplayKeeps, GivesUpKeeps, ReplayedKeeps DEF Runs
<1>4. CASE Polls
  BY <1>0, <1>4, PollsKeep
<1>5. CASE Books
  BY <1>0, <1>5, BooksPassKeeps, BooksSendKeeps, BooksDoneKeeps DEF Books
<1>6. CASE Drop \/ Connect \/ StateDown \/ StateUp
  BY <1>0, <1>6, DropKeeps, ConnectKeeps, StateDownKeeps, StateUpKeeps
<1>7. CASE (\E k \in Keys : HoldEnds(k) \/ Lapses(k)) \/ ReadingAges
  BY <1>0, <1>7, TimeKeeps
<1> QED BY <1>1, <1>2, <1>3, <1>4, <1>5, <1>6, <1>7 DEF Next

LEMMA AllHold == Spec => [](IInv /\ SInv /\ HInv)
<1>1. Init => IInv /\ SInv /\ HInv
  BY InitHolds, InitServes, InitKeeps
<1>2. (IInv /\ SInv /\ HInv) /\ [Next]_vars => (IInv /\ SInv /\ HInv)'
  BY StepHolds, StepServes, StepKeeps
<1> QED BY <1>1, <1>2, PTL DEF Spec

\* The process never holds more of the account's quota than leaves the
\* headroom free, for any demands, bounds and connections: whatever the plans
\* of the worker, the resync and the recorder, which reserve before they ask,
\* and however readings, drops and cancelled requests fall between them
\* (reserveQuotaAdmissionsLocked, finishQuotaAdmission, SetSubscriptionQuota).
THEOREM HeadroomIsKept == Spec => []HeadroomKept
<1>1. IInv /\ SInv /\ HInv => HeadroomKept
  <2> SUFFICES ASSUME IInv, HInv, odd = {} PROVE Cardinality(server \ adrift) <= Minus(room, Headroom)
    BY DEF HeadroomKept
  <2> DEFINE all == Live \cup Reserving
  <2>1. Cardinality(all) <= Minus(room, Headroom)
    BY DEF HInv, Within, Calm
  <2>2. Live \in SUBSET Keys /\ Reserving \in SUBSET Keys
    BY Amounts DEF IInv, Live, Reserving
  <2>3. all \in SUBSET Keys /\ Live \subseteq all
    BY <2>2
  <2>4. Minus(room, Headroom) \in Nat
    BY Amounts DEF IInv, Minus
  <2> HIDE DEF all
  <2>5. Cardinality(Live) <= Cardinality(all) /\ Cardinality(Live) \in Nat /\ Cardinality(all) \in Nat
    BY <2>2, <2>3, PartsCount
  <2>6. Cardinality(Live) <= Minus(room, Headroom)
    BY <2>1, <2>4, <2>5
  <2> QED BY <2>6 DEF Live
<1> QED BY <1>1, AllHold, PTL
=============================================================================
