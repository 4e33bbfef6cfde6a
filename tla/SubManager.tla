---------------------------- MODULE SubManager ----------------------------
(***************************************************************************)
(* The subscription manager of the OpenD feed.  Consumers declare demands;  *)
(* the manager keeps the subscriptions OpenD holds within its own budget    *)
(* and within what the account has left above a headroom, which it learns   *)
(* from the quota poller and debits by itself between two readings.         *)
(*                                                                         *)
(* The worker's pass, a resync per connection, the recorder's book worker,  *)
(* the quota poller and the reader of connection states share one lock.  An *)
(* action is one critical section or one request.  OpenD and the client's   *)
(* connection are external.  Times are what they decide: whether a key is   *)
(* inside its minimum hold, has lingered, whether a reading is fresh.       *)
(***************************************************************************)
EXTENDS Integers, Sequences, FiniteSetsExt, SequencesExt

CONSTANTS
  NSymbols,    \* how many symbols
  Demands,     \* a function from demand ids to profiles
  Bad,         \* the symbols OpenD refuses
  Budget,      \* feed.quota_slots
  Headroom,    \* feed.quota_warn_headroom
  Threshold,   \* subQuarantineThreshold
  MaxRoom,     \* the most slots the account leaves to this engine
  MaxDrops,    \* how often the connection drops
  MaxCalls,    \* calls of Ensure and Release
  Upsets,      \* which failures may happen
  MaxUpsets    \* how many of them

UpsetKinds == {"timeout",    \* a request is given up, done or not
               "refuse",     \* OpenD refuses a request for a reason of its own
               "old",        \* no quota reading for 75 seconds
               "shrink",     \* a new connection finds another allowance
               "lag"}        \* a drop is noticed after the reconnect
Symbols == 1 .. NSymbols
Subs == {"BOOK", "TICKER"}
Keys == Symbols \X Subs

ASSUME SubAssumption ==
  /\ \A d \in DOMAIN Demands :
       Demands[d] \in [symbol : Symbols, subs : SUBSET Subs, ordinary : BOOLEAN, focused : BOOLEAN]
  /\ Bad \subseteq Symbols
  /\ {NSymbols, Budget, Headroom, Threshold, MaxRoom, MaxDrops, MaxCalls, MaxUpsets} \subseteq Nat
  /\ Threshold > 0
  /\ Upsets \subseteq UpsetKinds

VARIABLES
  demands,     \* for each id the call that last ensured it, 0 when not demanded
  active,      \* the keys believed subscribed
  young,       \* those inside the minimum hold
  dropped,     \* those with a droppedAt
  lapsed,      \* those whose droppedAt is older than the hysteresis
  optional,    \* the books the recorder owns
  quarantine,  \* keys no longer asked for
  fails,       \* subFail
  bookFails,   \* optionalFailed, per symbol
  known,       \* a quota reading of the last 75 seconds is there
  remain, spent, pending, holds,    \* quotaRemain ... quotaHolds
  generation,  \* connectionGeneration
  down,        \* connectionDown
  jobs,        \* the pass of the worker and of each resync
  books,       \* the recorder's book worker
  poll,        \* the quota poller
  conn,        \* the client's connection: its number
  linked,      \* and whether it is up
  notices,     \* states the client has queued for stateLoop
  server,      \* the keys OpenD has subscribed on this connection
  room,        \* the slots the account leaves to this engine
  adrift,      \* history: keys whose last request on it may or may not have been done
  odd,         \* history: what else has gone wrong
  calls, upsets

slots == <<active, young, dropped, lapsed>>
blame == <<quarantine, fails>>
ledger == <<known, remain, spent, pending, holds>>
epoch == <<generation, down>>
link == <<conn, linked, notices, room>>
held == <<server, adrift>>
vars == <<demands, slots, optional, blame, bookFails, ledger, epoch, jobs, books, poll,
          link, held, odd, calls, upsets>>

Worker == <<"worker", 0>>
Resync(g) == <<"resync", g>>
Jobs == {Worker} \cup {Resync(g) : g \in 0 .. MaxDrops}
\* A request in flight or answered; conn: the connection it was sent on.
NoFlight == [keys |-> {}, conn |-> 0, reply |-> "none"]
Replies == {"ok", "symbol", "other", "error"}
Flight == [keys : SUBSET Keys, conn : Nat, reply : Replies] \cup {NoFlight}
\* out, in: groups left to unsubscribe and to subscribe; group: the one whose
\* admission is reserved; batches: what trySubscribe has still to ask of it.
Idle == [at |-> "idle", gen |-> 0, out |-> {}, in |-> {}, group |-> {}, batches |-> {},
         flight |-> NoFlight]
JobRecord == [at : {"unborn", "idle", "wait", "replay", "plan", "pass"}, gen : Nat,
        out : SUBSET SUBSET Keys, in : SUBSET SUBSET Keys, group : SUBSET Keys,
        batches : SUBSET SUBSET Keys, flight : Flight]
NoBook == [at |-> "idle", key |-> {}, gen |-> 0, canceled |-> FALSE, flight |-> NoFlight]
BookRecord == [at : {"idle", "admit", "release"}, key : SUBSET Keys, gen : Nat,
               canceled : BOOLEAN, flight : Flight]
NoPoll == [at |-> "idle", value |-> 0, gen |-> 0, conn |-> 0]
PollRecord == [at : {"idle", "wait", "read", "end"}, value : Nat, gen : Nat, conn : Nat]

Upset(k) == k \in Upsets /\ upsets < MaxUpsets /\ upsets' = upsets + 1
Minus(a, b) == IF a >= b THEN a - b ELSE 0
Least(a, b) == IF a <= b THEN a ELSE b
SymbolsOf(ks) == {k[1] : k \in ks}
SubsIn(s, ks) == {x \in Subs : <<s, x>> \in ks}

-----------------------------------------------------------------------------
(* Demands and their order *)

KeysOf == [d \in DOMAIN Demands |-> {<<Demands[d].symbol, x>> : x \in Demands[d].subs}]
WantedBy(ds) == UNION {KeysOf[d] : d \in {e \in DOMAIN Demands : ds[e] > 0}}
Wanted == WantedBy(demands)
Of(s) == {d \in DOMAIN Demands : demands[d] > 0 /\ Demands[d].symbol = s}
Demanded == {Demands[d].symbol : d \in {e \in DOMAIN Demands : demands[e] > 0}}
Ordinary(s) == \E d \in Of(s) : Demands[d].ordinary
Focused(s) == \E d \in Of(s) : Demands[d].focused
Latest(s) == Max({demands[d] : d \in Of(s)})

\* ordinary before background, then focused, then the latest Ensure
Ahead(s, t) ==
  IF Ordinary(s) # Ordinary(t) THEN Ordinary(s)
  ELSE IF Focused(s) # Focused(t) THEN Focused(s)
  ELSE Latest(s) > Latest(t)
KeyAhead(k, l) == IF k[1] = l[1] THEN k[2] = "BOOK" /\ l[2] = "TICKER" ELSE Ahead(k[1], l[1])

\* the symbol of ss that comes last
Hindmost(ss) == CHOOSE s \in ss : \A t \in ss \ {s} : Ahead(t, s)
\* desired: symbols in order, each with all its keys or none
Desired(cap) ==
  LET keys == Wanted \ quarantine
      Kept(ss) == {k \in keys : k[1] \in ss}
      Take(s, ss) == IF Cardinality(Kept(ss \cup {s})) > cap THEN ss ELSE ss \cup {s}
  IN  Kept(MapThenFoldSet(Take, {}, LAMBDA s : s, Hindmost, Demanded))

\* groupBySubTypeSet
Groups(ks) == {{k \in ks : SubsIn(k[1], ks) = SubsIn(s, ks)} : s \in SymbolsOf(ks)}

PendingOrdinary(ds) == WantedBy(ds) \ (active \cup quarantine) # {}

\* Ensure and Release.  An Ensure that waits for slots cancels the request of
\* the recorder's book worker.
Called == calls < MaxCalls /\ calls' = calls + 1
Ensure(d) ==
  LET ds == [demands EXCEPT ![d] = calls + 1]
      cancels == \/ PendingOrdinary(ds)
                 \/ books.at = "release" /\ books.key \subseteq WantedBy(ds)
  IN  /\ Called
      /\ demands' = ds
      /\ books' = IF cancels /\ books.at # "idle" THEN [books EXCEPT !.canceled = TRUE] ELSE books
      /\ UNCHANGED <<slots, optional, blame, bookFails, ledger, epoch, jobs, poll, link, held, odd,
                     upsets>>
Release(d) ==
  /\ Called
  /\ demands[d] > 0
  /\ demands' = [demands EXCEPT ![d] = 0]
  /\ UNCHANGED <<slots, optional, blame, bookFails, ledger, epoch, jobs, books, poll, link, held,
                 odd, upsets>>

-----------------------------------------------------------------------------
(* OpenD and the connection *)

Answer(ks, r) == [keys |-> ks, conn |-> conn, reply |-> r]
Over(f) == f.conn # conn \/ ~linked
\* mutant: the return code of the answer is not looked at
DoneAnyway(f) == f.reply # "error"
Done(f) == f.reply = "ok"
\* the bad symbol of several is looked for
\* mutant: a batch of two is blamed as a whole
SplitLate(f) == f.reply = "symbol" /\ Cardinality(SymbolsOf(f.keys)) > 2
Split(f) == f.reply = "symbol" /\ Cardinality(SymbolsOf(f.keys)) > 1
\* The request pacer sends one Qot_Sub a second; OpenD answers them in order.
Paced == books.flight = NoFlight /\ \A j \in Jobs : jobs[j].flight = NoFlight

\* A Qot_Sub that subscribes ks: its answer is r, and what OpenD holds after.
Subscribes(ks, r) ==
  \/ /\ ~linked /\ r = "error"
     /\ UNCHANGED <<held, upsets>>
  \/ /\ linked /\ SymbolsOf(ks) \cap Bad # {} /\ r = "symbol"
     /\ UNCHANGED <<held, upsets>>
  \/ /\ linked /\ SymbolsOf(ks) \cap Bad = {} /\ Cardinality(server \cup ks) > room /\ r = "other"
     /\ UNCHANGED <<held, upsets>>
  \/ /\ linked /\ SymbolsOf(ks) \cap Bad = {} /\ Cardinality(server \cup ks) <= room
     /\ server' = server \cup ks
     /\ \/ r = "ok" /\ adrift' = adrift \ ks /\ UNCHANGED upsets
        \/ r = "error" /\ Upset("timeout") /\ adrift' = adrift \cup ks
  \/ /\ linked /\ \/ r = "other" /\ Upset("refuse")
                  \/ r = "error" /\ Upset("timeout")
     /\ UNCHANGED held
Unsubscribes(ks, r) ==
  \/ /\ ~linked /\ r = "error"
     /\ UNCHANGED <<held, upsets>>
  \/ /\ linked /\ server' = server \ ks
     /\ \/ r = "ok" /\ adrift' = adrift \ ks /\ UNCHANGED upsets
        \/ r = "error" /\ Upset("timeout") /\ adrift' = adrift \cup ks
  \/ /\ linked /\ \/ r = "other" /\ Upset("refuse")
                  \/ r = "error" /\ Upset("timeout")
     /\ UNCHANGED held

\* OpenD forgets the subscriptions of a connection that is gone.
Drop ==
  /\ linked /\ conn <= MaxDrops
  /\ linked' = FALSE
  /\ server' = {} /\ adrift' = {}
  /\ notices' = Append(notices, "down")
  /\ UNCHANGED <<demands, slots, optional, blame, bookFails, ledger, epoch, jobs, books, poll, conn,
                 room, odd, calls, upsets>>
\* The context of a resync ends with its connection.
Canceled(j) == j # Worker /\ j # Resync(generation)
\* The client dials again after a second at least.  By then stateLoop has
\* handled the drop, a canceled resync has returned and every request in
\* flight has failed, unless they lag.
Settled ==
  /\ notices = <<>>
  /\ \A j \in Jobs : Canceled(j) => jobs[j].at \in {"unborn", "idle"}
  /\ Paced
Connect ==
  /\ ~linked
  /\ linked' = TRUE /\ conn' = conn + 1
  /\ notices' = Append(notices, "up")
  /\ \/ Settled /\ UNCHANGED <<room, odd, upsets>>
     \/ Settled /\ Upset("shrink") /\ room' \in 0 .. MaxRoom /\ UNCHANGED odd
     \/ ~Settled /\ Upset("lag") /\ odd' = odd \cup {"lag"} /\ UNCHANGED room
  /\ UNCHANGED <<demands, slots, optional, blame, bookFails, ledger, epoch, jobs, books, poll, held,
                 calls>>

\* stateLoop: ConnDown cancels the resync and calls ConnectionDown
StateDown ==
  /\ notices # <<>> /\ Head(notices) = "down"
  /\ notices' = Tail(notices)
  /\ generation' = generation + 1
  /\ down' = TRUE /\ known' = FALSE /\ spent' = 0
  /\ optional' = {} /\ bookFails' = [s \in Symbols |-> 0]
  /\ books' = IF books.at = "idle" THEN books ELSE [books EXCEPT !.canceled = TRUE]
  /\ UNCHANGED <<demands, slots, blame, remain, pending, holds, jobs, poll, conn, linked, room,
                 held, odd, calls, upsets>>
\* ConnUp starts a resync
StateUp ==
  /\ notices # <<>> /\ Head(notices) = "up"
  /\ notices' = Tail(notices)
  /\ jobs' = [jobs EXCEPT ![Resync(generation)].at = "wait"]
  /\ UNCHANGED <<demands, slots, optional, blame, bookFails, ledger, epoch, books, poll, conn,
                 linked, room, held, odd, calls, upsets>>

-----------------------------------------------------------------------------
(* The pass, of the worker and at the end of a resync *)

\* mutant: a reading in progress does not stop admissions
NoBudgetUnread == ~known \/ down
NoBudget == ~known \/ holds > 0 \/ down
Free == IF NoBudget THEN 0 ELSE Minus(remain, Headroom + spent + pending)

\* the connection is the one the pass was planned on
\* mutant: an answer is taken whatever connection it is of
CurrentAlways(j) == j \in Jobs
Current(j) == jobs[j].gen = generation

\* A pass with nothing left to send is over.
Tidy(job) == IF job.at = "pass" /\ job.out = {} /\ job.in = {} /\ job.group = {}
                  /\ job.flight = NoFlight
             THEN Idle ELSE job

Plan(j) ==
  LET wanted == Wanted
      free == Free
      stamped == (dropped \cup (active \ (wanted \cup optional))) \ wanted
      ripe == lapsed \ wanted
      pinned == {k \in active \ wanted : k \in optional \cup young}
      cap == Minus(Least(Budget, Cardinality(active) + free), Cardinality(pinned))
      want == Desired(cap)
      new == want \ active
      adds == {k \in new : Cardinality({l \in new : KeyAhead(l, k)}) < free}
      loose == active \ (optional \cup want \cup young)
      removes == {k \in loose : \/ k[1] \in Demanded /\ ~Ordinary(k[1])
                                \/ k \in ripe}
      lingering == (loose \cap stamped) \ removes
      excess == Minus(Cardinality(active) + Cardinality(adds), Cardinality(removes) + Budget)
  IN  /\ jobs[j].at = IF j = Worker THEN "idle" ELSE "plan"
      /\ \E evicted \in kSubset(Least(excess, Cardinality(lingering)), lingering) :
           jobs' = [jobs EXCEPT ![j] =
                      Tidy([Idle EXCEPT !.at = "pass", !.gen = generation,
                                        !.out = Groups(removes \cup evicted),
                                        !.in = Groups(adds)])]
      /\ dropped' = stamped /\ lapsed' = ripe
      /\ pending' = pending + Cardinality(adds)
      /\ UNCHANGED <<demands, active, young, optional, blame, bookFails, known, remain, spent,
                     holds, epoch, books, poll, link, held, odd, calls, upsets>>

\* mutant: the date of its drop stays
ForgetActive(ks) ==
  /\ active' = active \ ks /\ young' = young \ ks
  /\ UNCHANGED <<dropped, lapsed>>
Forget(ks) ==
  /\ active' = active \ ks /\ young' = young \ ks
  /\ dropped' = dropped \ ks /\ lapsed' = lapsed \ ks
Admit(ks) ==
  /\ active' = active \cup ks /\ young' = young \cup ks
  /\ dropped' = dropped \ ks /\ lapsed' = lapsed \ ks

Unsubscribe(j) ==
  /\ jobs[j].at = "pass" /\ Paced
  /\ \E g \in jobs[j].out : \E r \in Replies :
       /\ IF Canceled(j) THEN r = "error" /\ UNCHANGED <<held, upsets>>
                         ELSE Unsubscribes(g, r)
       /\ jobs' = [jobs EXCEPT ![j].out = @ \ {g}, ![j].flight = Answer(g, r)]
  /\ UNCHANGED <<demands, slots, optional, blame, bookFails, ledger, epoch, books, poll, link, odd,
                 calls>>

\* Only an answer the client has matched before its connection ended arrives.
Unsubscribed(j) ==
  LET f == jobs[j].flight
  IN  /\ f # NoFlight /\ jobs[j].group = {}
      /\ \/ Done(f) /\ Forget(f.keys)
         \/ ~Done(f) /\ UNCHANGED slots
         \/ (Over(f) \/ Canceled(j)) /\ UNCHANGED slots
      /\ jobs' = [jobs EXCEPT ![j] = Tidy([@ EXCEPT !.flight = NoFlight])]
      /\ UNCHANGED <<demands, optional, blame, bookFails, ledger, epoch, books, poll, link, held,
                     odd, calls, upsets>>

-----------------------------------------------------------------------------
(* Admission of a group: trySubscribe and finishQuotaAdmissions *)

\* A pass looks for room in the budget first, a replay does not.
TakeGroup(j) ==
  /\ jobs[j].at \in {"pass", "replay"} /\ jobs[j].flight = NoFlight
  /\ jobs[j].out = {} /\ jobs[j].group = {}
  /\ \E g \in jobs[j].in :
       LET fits == jobs[j].at = "replay" \/ Cardinality(active) + Cardinality(g) <= Budget
       IN  jobs' = [jobs EXCEPT ![j].in = @ \ {g}, ![j].group = g,
                                ![j].batches = IF fits THEN {g} ELSE {}]
  /\ UNCHANGED <<demands, slots, optional, blame, bookFails, ledger, epoch, books, poll, link, held,
                 odd, calls, upsets>>

Subscribe(j) ==
  /\ Paced
  /\ \E b \in jobs[j].batches :
       \/ /\ ~Current(j) \/ Canceled(j)
          /\ jobs' = [jobs EXCEPT ![j].batches = @ \ {b}]
          /\ UNCHANGED <<held, upsets>>
       \/ /\ Current(j) /\ ~Canceled(j)
          /\ \E r \in Replies :
               /\ Subscribes(b, r)
               /\ jobs' = [jobs EXCEPT ![j].batches = @ \ {b}, ![j].flight = Answer(b, r)]
  /\ UNCHANGED <<demands, slots, optional, blame, bookFails, ledger, epoch, books, poll, link, odd,
                 calls>>

\* A batch with a bad symbol is asked again in halves; alone, it is counted.
Halves(b) ==
  LET ss == SetToSortSeq(SymbolsOf(b), <)
      first == Range(SubSeq(ss, 1, Len(ss) \div 2))
  IN  {{k \in b : k[1] \in first}, {k \in b : k[1] \notin first}}
Blame(ks) ==
  LET more == [k \in Keys |-> IF k \in ks THEN Least(fails[k] + 1, Threshold) ELSE fails[k]]
  IN  /\ fails' = more
      /\ quarantine' = quarantine \cup {k \in ks : more[k] = Threshold}

Subscribed(j) ==
  LET f == jobs[j].flight
      Settle(bs) == jobs' = [jobs EXCEPT ![j].flight = NoFlight, ![j].batches = @ \cup bs]
  IN  /\ f # NoFlight /\ jobs[j].group # {}
      /\ \/ /\ Done(f) /\ Current(j)
            /\ Admit(f.keys)
            /\ fails' = [k \in Keys |-> IF k \in f.keys THEN 0 ELSE fails[k]]
            /\ Settle({}) /\ UNCHANGED quarantine
         \/ Split(f) /\ Settle(Halves(f.keys)) /\ UNCHANGED <<slots, blame>>
         \/ f.reply = "symbol" /\ ~Split(f) /\ Blame(f.keys) /\ Settle({}) /\ UNCHANGED slots
         \/ /\ f.reply \in {"other", "error"} \/ Over(f) \/ ~Current(j)
            /\ Settle({}) /\ UNCHANGED <<slots, blame>>
      /\ UNCHANGED <<demands, optional, bookFails, ledger, epoch, books, poll, link, held, odd,
                     calls, upsets>>

\* finishQuotaAdmissions
\* mutants: what was admitted is not debited; the reservation stays
FinishesFree(ks) ==
  /\ UNCHANGED spent
  /\ pending' = Minus(pending, Cardinality(ks))
FinishesHolding(ks) ==
  /\ spent' = spent + Cardinality(ks \cap active)
  /\ UNCHANGED pending
Finishes(ks) ==
  /\ spent' = spent + Cardinality(ks \cap active)
  /\ pending' = Minus(pending, Cardinality(ks))
Finish(j) ==
  /\ jobs[j].group # {} /\ jobs[j].batches = {} /\ jobs[j].flight = NoFlight
  /\ Finishes(jobs[j].group)
  /\ jobs' = [jobs EXCEPT ![j] = Tidy([@ EXCEPT !.group = {}])]
  /\ UNCHANGED <<demands, slots, optional, blame, bookFails, known, remain, holds, epoch, books,
                 poll, link, held, odd, calls, upsets>>

-----------------------------------------------------------------------------
(* ResubscribeAll *)

NoSlots == active' = {} /\ young' = {} /\ dropped' = {} /\ lapsed' = {}
NoBlame == quarantine' = {} /\ fails' = [k \in Keys |-> 0]

\* A turn of its loop: nothing demanded, nothing to replay, or the replay of
\* what the fresh reading has room for.
Replay(j) ==
  LET keys == active \cap Wanted \cap Desired(Minus(remain, Headroom + spent + pending))
  IN  /\ jobs[j].at = "wait"
      /\ NoSlots /\ NoBlame
      /\ odd' = IF ~down /\ active # {} THEN odd \cup {"early"} ELSE odd
      /\ \/ /\ Wanted = {}
            /\ down' = FALSE
            /\ jobs' = [jobs EXCEPT ![j] = Idle]
            /\ UNCHANGED <<pending, holds>>
         \/ /\ Wanted # {} /\ known /\ holds = 0 /\ keys = {}
            /\ down' = FALSE
            /\ jobs' = [jobs EXCEPT ![j].at = "plan"]
            /\ UNCHANGED <<pending, holds>>
         \/ /\ Wanted # {} /\ known /\ holds = 0 /\ keys # {}
            /\ pending' = pending + Cardinality(keys) /\ holds' = holds + 1
            /\ jobs' = [jobs EXCEPT ![j].at = "replay", ![j].gen = generation,
                                    ![j].in = Groups(keys)]
            /\ UNCHANGED down
      /\ UNCHANGED <<demands, optional, bookFails, known, remain, spent, generation, books, poll,
                     link, held, calls, upsets>>
\* The connection ended while it waited for a reading.
GivesUp(j) ==
  /\ jobs[j].at = "wait" /\ Canceled(j)
  /\ jobs' = [jobs EXCEPT ![j] = Idle]
  /\ UNCHANGED <<demands, slots, optional, blame, bookFails, ledger, epoch, books, poll, link, held,
                 odd, calls, upsets>>
Replayed(j) ==
  /\ jobs[j].at = "replay"
  /\ jobs[j].in = {} /\ jobs[j].group = {} /\ jobs[j].flight = NoFlight
  /\ down' = (down /\ ~Current(j))
  /\ holds' = holds - 1
  /\ jobs' = [jobs EXCEPT ![j] = [Idle EXCEPT !.at = IF Current(j) THEN "plan" ELSE "idle"]]
  /\ UNCHANGED <<demands, slots, optional, blame, bookFails, known, remain, spent, pending,
                 generation, books, poll, link, held, odd, calls, upsets>>

-----------------------------------------------------------------------------
(* The quota poller: a barrier around the reading *)

PollBegin ==
  /\ poll.at = "idle"
  /\ holds' = holds + 1
  /\ poll' = [poll EXCEPT !.at = "wait"]
  /\ UNCHANGED <<demands, slots, optional, blame, bookFails, known, remain, spent, pending, epoch,
                 jobs, books, link, held, odd, calls, upsets>>
\* GetSubInfo: what is left when OpenD reads it, or no answer
PollAsk ==
  /\ poll.at = "wait" /\ pending = 0
  /\ \/ /\ linked
        /\ poll' = [at |-> "read", value |-> Minus(room, Cardinality(server)),
                    gen |-> generation, conn |-> conn]
        /\ UNCHANGED upsets
     \/ poll' = [NoPoll EXCEPT !.at = "end"] /\ IF linked THEN Upset("timeout") ELSE UNCHANGED upsets
  /\ UNCHANGED <<demands, slots, optional, blame, bookFails, ledger, epoch, jobs, books, link, held,
                 odd, calls>>
\* SetSubscriptionQuota
PollSet ==
  /\ poll.at = "read"
  /\ \/ /\ known' = TRUE /\ remain' = poll.value
        /\ spent' = IF pending = 0 THEN 0 ELSE spent
        /\ odd' = IF poll.gen = generation THEN odd ELSE odd \cup {"stale"}
     \/ (poll.conn # conn \/ ~linked) /\ UNCHANGED <<known, remain, spent, odd>>
  /\ poll' = [NoPoll EXCEPT !.at = "end"]
  /\ UNCHANGED <<demands, slots, optional, blame, bookFails, pending, holds, epoch, jobs, books,
                 link, held, calls, upsets>>
PollEnd ==
  /\ poll.at = "end"
  /\ holds' = Minus(holds, 1)
  /\ poll' = NoPoll
  /\ UNCHANGED <<demands, slots, optional, blame, bookFails, known, remain, spent, pending, epoch,
                 jobs, books, link, held, odd, calls, upsets>>

-----------------------------------------------------------------------------
(* The recorder's books: optionalBookPass *)

Book(s) == <<s, "BOOK">>
Ticks == {s \in Symbols : <<s, "TICKER">> \in active}

\* One turn of its loop: give up books somebody wants or the pressure asks
\* for, take over books nobody wants, ask for one more.
BooksPass ==
  LET adjusted == remain - spent - pending
      pressure == \/ PendingOrdinary(demands) \/ NoBudget
                  \/ Cardinality(active) > Budget \/ adjusted < Headroom
      owned == (optional \ Wanted) \cap active
      releases == {k \in owned : (pressure \/ k[1] \notin Ticks) /\ k \notin young}
      full == pressure \/ pending > 0 \/ Cardinality(active) >= Budget \/ adjusted <= Headroom
      next == IF full THEN {}
              ELSE {s \in Ticks : Book(s) \notin active /\ bookFails[s] < Threshold}
      spare == IF pressure THEN {}
               ELSE {Book(s) : s \in {t \in Ticks : \A n \in next : t < n}} \cap (active \ Wanted)
  IN  /\ books.at = "idle"
      /\ \/ /\ releases # {}
            /\ books' = [NoBook EXCEPT !.at = "release", !.gen = generation,
                                       !.key = {Book(Min(SymbolsOf(releases)))}]
            /\ optional' = owned /\ UNCHANGED pending
         \/ /\ releases = {} /\ next # {}
            /\ books' = [NoBook EXCEPT !.at = "admit", !.gen = generation, !.key = {Book(Min(next))}]
            /\ optional' = owned \cup spare /\ pending' = pending + 1
         \/ /\ releases = {} /\ next = {}
            /\ optional' = owned \cup spare /\ UNCHANGED <<books, pending>>
      /\ UNCHANGED <<demands, slots, blame, bookFails, known, remain, spent, holds, epoch, jobs,
                     poll, link, held, odd, calls, upsets>>

BooksSend ==
  /\ books.at # "idle" /\ Paced
  /\ \E r \in Replies :
       /\ IF books.canceled THEN r = "error" /\ UNCHANGED <<held, upsets>>
          ELSE IF books.at = "admit" THEN Subscribes(books.key, r) ELSE Unsubscribes(books.key, r)
       /\ books' = [books EXCEPT !.flight = Answer(books.key, r)]
  /\ UNCHANGED <<demands, slots, optional, blame, bookFails, ledger, epoch, jobs, poll, link, odd,
                 calls>>

\* A request canceled or cut off may have been carried out; both workers then
\* ask for a new reading.
BooksDone ==
  LET f == books.flight
      current == books.gen = generation
      r == IF f.reply # "error" /\ (books.canceled \/ Over(f)) THEN {f.reply, "error"} ELSE {f.reply}
  IN  /\ f # NoFlight
      /\ books' = NoBook
      /\ \E reply \in r :
           /\ adrift' = IF reply = "error" THEN adrift \cup (f.keys \cap server) ELSE adrift
           /\ \/ /\ books.at = "release"
                 /\ IF current /\ reply \in {"ok", "error"}
                    THEN Forget(f.keys) /\ optional' = optional \ f.keys
                    ELSE UNCHANGED <<slots, optional>>
                 /\ known' = (known /\ ~(current /\ reply = "error"))
                 /\ UNCHANGED <<bookFails, spent, pending>>
              \/ /\ books.at = "admit" /\ current /\ reply = "ok"
                 /\ Admit(f.keys)
                 /\ optional' = optional \cup f.keys
                 /\ bookFails' = [s \in Symbols |-> IF Book(s) \in f.keys THEN 0 ELSE bookFails[s]]
                 /\ spent' = spent + 1 /\ pending' = Minus(pending, 1)
                 /\ UNCHANGED known
              \/ /\ books.at = "admit" /\ ~(current /\ reply = "ok")
                 /\ bookFails' = [s \in Symbols |->
                      IF reply \in {"symbol", "other"} /\ Book(s) \in f.keys /\ bookFails[s] < Threshold
                      THEN bookFails[s] + 1 ELSE bookFails[s]]
                 /\ known' = (known /\ ~(current /\ reply = "error"))
                 /\ Finishes(f.keys)
                 /\ UNCHANGED <<slots, optional>>
      /\ UNCHANGED <<demands, blame, remain, holds, epoch, jobs, poll, link, server, odd, calls,
                     upsets>>

-----------------------------------------------------------------------------
(* Time *)

\* what a worker is asking OpenD for
InFlight(j) == (UNION jobs[j].in) \cup jobs[j].group \cup jobs[j].flight.keys
Pending == (UNION {InFlight(j) : j \in Jobs}) \cup books.key

\* The minimum hold of a key ends, then its hysteresis.  A hold of a minute
\* outlasts the requests about its key, which time out within seconds, and a
\* resync, which starts from no key at all.
HoldEnds(k) ==
  /\ k \in young /\ k \notin Pending
  /\ \A j \in Jobs \ {Worker} : jobs[j].at \in {"unborn", "idle", "wait"}
  /\ young' = young \ {k}
  /\ UNCHANGED <<demands, active, dropped, lapsed, optional, blame, bookFails, ledger, epoch, jobs,
                 books, poll, link, held, odd, calls, upsets>>
Lapses(k) ==
  /\ k \in dropped \ lapsed
  /\ lapsed' = lapsed \cup {k}
  /\ UNCHANGED <<demands, active, young, dropped, optional, blame, bookFails, ledger, epoch, jobs,
                 books, poll, link, held, odd, calls, upsets>>
ReadingAges ==
  /\ known /\ Upset("old")
  /\ known' = FALSE
  /\ UNCHANGED <<demands, slots, optional, blame, bookFails, remain, spent, pending, holds, epoch,
                 jobs, books, poll, link, held, odd, calls>>

Init ==
  /\ demands = [d \in DOMAIN Demands |-> 0]
  /\ active = {} /\ young = {} /\ dropped = {} /\ lapsed = {} /\ optional = {}
  /\ quarantine = {} /\ fails = [k \in Keys |-> 0] /\ bookFails = [s \in Symbols |-> 0]
  /\ known = FALSE /\ remain = 0 /\ spent = 0 /\ pending = 0 /\ holds = 0
  /\ generation = 0 /\ down = FALSE
  /\ jobs = [j \in Jobs |-> IF j = Worker THEN Idle ELSE [Idle EXCEPT !.at = "unborn"]]
  /\ books = NoBook /\ poll = NoPoll
  /\ conn = 0 /\ linked = FALSE /\ notices = <<>>
  /\ server = {} /\ room = MaxRoom
  /\ adrift = {} /\ odd = {} /\ calls = 0 /\ upsets = 0

Runs(j) == \/ Plan(j) \/ Unsubscribe(j) \/ Unsubscribed(j)
          \/ TakeGroup(j) \/ Subscribe(j) \/ Subscribed(j) \/ Finish(j)
          \/ Replay(j) \/ GivesUp(j) \/ Replayed(j)
Polls == PollBegin \/ PollAsk \/ PollSet \/ PollEnd
Books == BooksPass \/ BooksSend \/ BooksDone
Next == \/ \E d \in DOMAIN Demands : Ensure(d) \/ Release(d)
        \/ \E j \in Jobs : Runs(j)
        \/ Polls \/ Books
        \/ Drop \/ Connect \/ StateDown \/ StateUp
        \/ \E k \in Keys : HoldEnds(k) \/ Lapses(k)
        \/ ReadingAges

Resyncs == \E g \in 0 .. MaxDrops : Runs(Resync(g))
Spec == Init /\ [][Next]_vars

\* The goroutines run, OpenD answers or times out, the client dials again and
\* time passes; nobody has to call or to fail.  Two readings are a minute
\* apart and the end of each wakes the worker and the resync.
Fairness ==
  /\ WF_vars(Runs(Worker)) /\ SF_vars(Plan(Worker) /\ holds = 0)
  /\ WF_vars(Resyncs) /\ SF_vars(\E g \in 0 .. MaxDrops : Replay(Resync(g)))
  /\ WF_vars(Polls) /\ WF_vars(Books) /\ WF_vars(StateDown \/ StateUp) /\ SF_vars(Connect)
  /\ WF_vars(\E k \in Keys : HoldEnds(k)) /\ WF_vars(\E k \in Keys : Lapses(k))
LiveSpec == Spec /\ Fairness

-----------------------------------------------------------------------------
(* What the manager promises *)

\* Every variable stays in its domain; only a subscribed key has a minimum
\* hold or a date of its drop (subKey, subState and the ledger of subman.go).
TypeOK ==
  /\ demands \in [DOMAIN Demands -> 0 .. MaxCalls]
  /\ active \subseteq Keys /\ young \subseteq active
  /\ lapsed \subseteq dropped /\ dropped \subseteq active
  /\ optional \subseteq Keys /\ quarantine \subseteq Keys
  /\ fails \in [Keys -> 0 .. Threshold] /\ bookFails \in [Symbols -> 0 .. Threshold]
  /\ known \in BOOLEAN /\ {remain, spent, pending, holds} \subseteq Nat
  /\ generation \in 0 .. MaxDrops /\ down \in BOOLEAN
  /\ jobs \in [Jobs -> JobRecord]
  /\ books \in BookRecord /\ poll \in PollRecord
  /\ conn \in Nat /\ linked \in BOOLEAN /\ notices \in Seq({"up", "down"})
  /\ server \subseteq Keys /\ adrift \subseteq Keys /\ room \in 0 .. MaxRoom
  /\ calls \in 0 .. MaxCalls /\ upsets \in 0 .. MaxUpsets

\* No slot is forgotten: what OpenD has subscribed the manager believes active
\* or is asking about, unless a request about it was cut off (pass,
\* trySubscribe and optionalBookPass change active only on an answer).
SlotsKnown == odd = {} => server \subseteq active \cup Pending \cup adrift

\* Once a connection is resynced, what the manager believes live is live: an
\* answer of an earlier connection is never taken for the new one
\* (connectionGeneration in trySubscribe and ResubscribeAll).
LiveIsServed ==
  odd = {} /\ linked /\ ~down /\ notices = <<>> => active \subseteq server \cup Pending \cup adrift

\* The headroom of the account stays free although several workers admit on
\* one reading: each debits what it reserves and admits until the next
\* (reserveQuotaAdmissionsLocked, finishQuotaAdmissions).
HeadroomKept == odd = {} => Cardinality(server \ adrift) <= Minus(room, Headroom)

\* A reading is taken only when no admission is in flight, so it counts each
\* of them or none (BeginSubscriptionQuotaRefresh).
ReadingSettled == poll.at = "read" => \A j \in Jobs : jobs[j].group = {}

\* A good symbol is never quarantined for a bad one of its batch (the halves
\* of trySubscribe).
OnlyBadQuarantined == SymbolsOf(quarantine) \subseteq Bad

\* Demand that fits is served in the end, whatever the recorder holds and
\* however often the connection drops (pass, optionalBookPass,
\* ResubscribeAll); a slot that a lost answer or a late first resync left at
\* OpenD is excepted, and may starve it.
Fits == Cardinality(Wanted \ quarantine) <= Least(Budget, Minus(room, Headroom))
EventuallyServed ==
  <>[](Fits /\ adrift = {} /\ odd \subseteq {"stale"}) => []<>(Wanted \ quarantine \subseteq active)
=============================================================================
