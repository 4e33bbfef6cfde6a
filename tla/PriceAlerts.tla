---------------------------- MODULE PriceAlerts ----------------------------
(***************************************************************************)
(* The price alerts of one symbol.  An alert fires once, at a print that    *)
(* meets it, and stays triggered over edits and restarts until the operator *)
(* rearms it.  Definitions and the history of triggers are on disk; a       *)
(* trigger whose write failed waits in memory and is written again.         *)
(*                                                                         *)
(* Three parties meet: Feed, called with prints and gaps in the order of    *)
(* the market data core, which never blocks; Run, which takes them one by   *)
(* one and tells the UI; and the operator's commands.  The last two share   *)
(* the lock, so an action is one critical section.  Which alerts a print    *)
(* meets is a choice, and the clock counts few ticks.                       *)
(***************************************************************************)
EXTENDS Integers, Sequences, FiniteSets

CONSTANTS
  Ids,         \* the alerts that may ever exist
  Bell,        \* the tick at which session 2 follows on session 1
  Selections,  \* which sets of sessions an alert may select
  QueueSize,   \* prints the queue holds
  MaxAge,      \* ticks after which a print is stale (two seconds)
  MaxClock, MaxPrints, MaxCalls,
  Upsets,      \* which failures may happen
  MaxUpsets    \* how many of them

UpsetKinds == {"storage",   \* a write fails
               "outage",    \* OpenD has the ticker no longer subscribed
               "gap",       \* the feed breaks, or the core drops prints
               "crash"}     \* the engine ends

ASSUME AlertAssumption ==
  /\ {Bell, QueueSize, MaxAge, MaxClock, MaxPrints, MaxCalls, MaxUpsets} \subseteq Nat
  /\ MaxClock >= 1
  /\ Selections \subseteq SUBSET (1 .. 2)
  /\ Upsets \subseteq UpsetKinds

VARIABLES
  now,             \* the clock
  coverage,        \* what OpenD says of the ticker
  alerts,          \* the definitions in memory
  history,         \* the triggers in memory
  pending,         \* the writes of a trigger that failed
  after,           \* the time up to which prints do not count for an alert
  mark,            \* the receive time of the last print, 0: none while covered
  gapMs,           \* the last gap taken
  wired,           \* TRUE: SetDemand has been called
  demanded,        \* the ticker is asked for
  disk,            \* the stored definitions
  diskHistory,     \* the stored triggers
  run,             \* where the Run goroutine is; "down": no engine
  input,           \* the queue of prints
  pendingGap,      \* the gap Feed has left for Run, 0: none
  taken,           \* the print Run has taken
  outgoing,        \* the triggers it is about to announce
  unseen,          \* the revision is not the one published last
  shown,           \* the snapshot published last
  laneAt,          \* the receive time the market data core has come to
  prints, calls, upsets,
  \* history
  arming,          \* how often an alert was created or rearmed
  floor,           \* the last print an alert may not use any more
  broken,          \* the last print before a gap that Feed was told of
  heard,           \* the last print taken that counted
  fired,           \* the triggers ever stored or announced
  reckoned         \* the session in which the demand was looked at last

clock == <<now, coverage, laneAt>>
memory == <<alerts, history, pending, after, mark, gapMs, wired, demanded>>
stored == <<disk, diskHistory>>
lane == <<input, pendingGap, prints>>
screen == <<unseen, shown>>
ghosts == <<arming, floor, broken, heard, fired, reckoned>>
vars == <<clock, memory, stored, lane, run, taken, outgoing, screen, calls, upsets, ghosts>>

Live == {"monitoring", "data", "capacity", "outside"}
Alert == [state : Live \cup {"paused", "triggered"}, version : Nat, in : Selections]
NoAlert == [state |-> "none", version |-> 0, in |-> {}]
Trigger == [id : Ids, arming : Nat, print : Nat, floor : Nat]
Change == [alert : Alert, trigger : Trigger]
EligiblePrint == [n : Nat, recv : Nat, session : Nat]
NoPrint == [n |-> 0, recv |-> 0, session |-> 0]

Larger(a, b) == IF a >= b THEN a ELSE b
\* session.PhaseAt
PhaseAt(t) == IF t < Bell THEN 1 ELSE 2
session == PhaseAt(now)
Up == run # "down"
Exists(i) == alerts[i] # NoAlert
Of(changes, i) == {c \in changes : c.trigger.id = i}
Waits(i) == Of(pending, i) # {}
\* a failing write, n times
Fails(n) == /\ n > 0 => "storage" \in Upsets
            /\ upsets + n <= MaxUpsets
            /\ upsets' = upsets + n
Snapshot(al, hs, pd) == [alerts |-> al, history |-> hs, error |-> pd # {}]
-----------------------------------------------------------------------------
(* The demand and the states, looked at again *)

WantedIn(al, s) == \E i \in Ids : al[i].state \in Live /\ s \in al[i].in
\* reconcileDemandLocked
Reconcile(al) ==
  /\ demanded' = (wired' /\ WantedIn(al, session))
  /\ reckoned' = session

\* The state refreshLocked gives to an alert, and the time it counts from.
Sees(a, since, cover, seen) ==
  CASE a.state \notin Live -> a.state
    [] a.state \in Live /\ session \notin a.in -> "outside"
    [] a.state \in Live /\ session \in a.in /\ cover # "covered" ->
         IF cover = "full" THEN "capacity" ELSE "data"
    [] OTHER -> IF seen > (IF a.state = "outside" THEN now ELSE since) THEN "monitoring" ELSE "data"
Since(a, since, new) ==
  IF a.state \in Live /\ (\/ a.state = "monitoring" /\ new # "monitoring"
                          \/ a.state = "outside" /\ new \in {"monitoring", "data"} /\ wired' /\ coverage = "covered")
  THEN now ELSE since

\* mutant: a failed write is left to the next start
ToRetryNever == {}
\* the failed writes that are repeated
ToRetry == pending

\* the definitions once the writes of ok have succeeded
Written(ok, old) ==
  [i \in Ids |-> IF Of(ok, i) = {} THEN old[i] ELSE (CHOOSE c \in Of(ok, i) : TRUE).alert]

\* refreshLocked over given definitions: the writes of ok succeed now, the
\* others fail again.
Refreshed(al, since, seen, stored0, fr) ==
  \E ok \in SUBSET ToRetry :
    LET cover == IF wired' THEN coverage ELSE "none"
        new == [i \in Ids |-> Sees(Written(ok, al)[i], since[i], cover, seen)]
        triggers == {c.trigger : c \in ok}
    IN  /\ Fails(Cardinality(ToRetry \ ok))
        /\ alerts' = [i \in Ids |-> [Written(ok, al)[i] EXCEPT !.state = new[i]]]
        /\ after' = [i \in Ids |-> Since(Written(ok, al)[i], since[i], new[i])]
        /\ disk' = Written(ok, stored0)
        /\ history' = history \cup triggers /\ diskHistory' = diskHistory \cup triggers
        /\ pending' = pending \ ok
        /\ fired' = fr \cup triggers
        /\ mark' = seen
        /\ Reconcile(Written(ok, al))

\* mutant: what waits for its write may be changed
HeldBackNot(i) == FALSE
\* an alert whose trigger waits for storage cannot be changed
HeldBack(i) == Waits(i)
-----------------------------------------------------------------------------
(* The operator: a call names the version it is about, and is refused for   *)
(* any other; one whose write fails changes nothing.                        *)

Call == /\ Up /\ calls < MaxCalls /\ calls' = calls + 1
        /\ UNCHANGED <<clock, lane, run, taken, outgoing, shown, broken, heard>>

\* Upsert of a new definition of i
Save(i, a) ==
  /\ Call /\ UNCHANGED <<gapMs, wired>>
  /\ Refreshed([alerts EXCEPT ![i] = a], [after EXCEPT ![i] = now], mark, [disk EXCEPT ![i] = a], fired)
  /\ floor' = [floor EXCEPT ![i] = prints]
  /\ unseen' = TRUE

Create(i, s) ==
  /\ arming[i] = 0
  /\ arming' = [arming EXCEPT ![i] = 1]
  /\ Save(i, [state |-> "data", version |-> 1, in |-> s])

\* a triggered alert stays so unless it is rearmed, a paused one in any case
EditedState(state, rearm) ==
  IF state = "paused" \/ (state = "triggered" /\ ~rearm) THEN state ELSE "data"

Edit(i, s, rearm) ==
  /\ Exists(i) /\ ~HeldBack(i)
  /\ rearm => alerts[i].state = "triggered"
  /\ arming' = IF rearm THEN [arming EXCEPT ![i] = @ + 1] ELSE arming
  /\ Save(i, [state |-> EditedState(alerts[i].state, rearm), version |-> alerts[i].version + 1, in |-> s])

SetPaused(i, paused) ==
  LET a == [alerts[i] EXCEPT !.state = IF paused THEN "paused" ELSE "data", !.version = @ + 1]
  IN  /\ Call /\ Exists(i) /\ ~HeldBack(i) /\ alerts[i].state # "triggered"
      /\ alerts' = [alerts EXCEPT ![i] = a]
      /\ disk' = [disk EXCEPT ![i] = a]
      /\ after' = [after EXCEPT ![i] = now]
      /\ floor' = [floor EXCEPT ![i] = prints]
      /\ unseen' = TRUE
      /\ UNCHANGED <<history, pending, mark, gapMs, wired, diskHistory, upsets, arming, fired>>
      /\ Reconcile(alerts')

Delete(i) ==
  /\ Call /\ Exists(i) /\ ~HeldBack(i)
  /\ alerts' = [alerts EXCEPT ![i] = NoAlert]
  /\ disk' = [disk EXCEPT ![i] = NoAlert]
  /\ after' = [after EXCEPT ![i] = 0]
  /\ unseen' = TRUE
  /\ UNCHANGED <<history, pending, mark, gapMs, wired, diskHistory, upsets, arming, floor, fired>>
  /\ Reconcile(alerts')

DeleteTrigger(t) ==
  /\ Call /\ t \in history
  /\ history' = history \ {t} /\ diskHistory' = diskHistory \ {t}
  /\ unseen' = TRUE
  /\ UNCHANGED <<alerts, pending, after, mark, gapMs, wired, demanded, disk, upsets, arming, floor, fired,
                 reckoned>>

\* A query of the history takes a Snapshot, which refreshes.
Query ==
  /\ Call /\ UNCHANGED <<gapMs, wired, arming, floor>>
  /\ Refreshed(alerts, after, mark, disk, fired)
  /\ unseen' = (unseen \/ alerts' # alerts)

\* The feed is wired once it is up.
SetDemand ==
  /\ Up /\ ~wired /\ wired' = TRUE
  /\ Refreshed(alerts, [i \in Ids |-> IF Exists(i) THEN now ELSE 0], 0, disk, fired)
  /\ floor' = [i \in Ids |-> prints]
  /\ unseen' = TRUE
  /\ UNCHANGED <<clock, gapMs, lane, run, taken, outgoing, shown, calls, arming, broken, heard>>
-----------------------------------------------------------------------------
(* Feed: the market data core emits prints and gaps in the order of their   *)
(* times, but a gap for what it could not even take in at once.             *)

\* mutant: the queue is full one print later
FullLate == Len(input) > QueueSize
Full == Len(input) >= QueueSize

Feed(at, s) ==
  /\ Up /\ prints < MaxPrints
  /\ at \in laneAt .. now /\ s \in {PhaseAt(at - 1), PhaseAt(at)}
  /\ prints' = prints + 1 /\ laneAt' = at
  /\ \/ /\ ~Full
        /\ input' = Append(input, [n |-> prints + 1, recv |-> at, session |-> s])
        /\ UNCHANGED <<pendingGap, broken>>
     \/ /\ Full
        /\ pendingGap' = now /\ broken' = prints + 1
        /\ UNCHANGED input
  /\ UNCHANGED <<now, coverage, memory, stored, run, taken, outgoing, screen, calls, upsets,
                 arming, floor, heard, fired, reckoned>>

FeedGap(at) ==
  /\ Up /\ "gap" \in Upsets /\ upsets < MaxUpsets /\ upsets' = upsets + 1
  /\ \/ at \in laneAt .. now /\ laneAt' = at
     \/ at = now /\ UNCHANGED laneAt
  /\ pendingGap' = at /\ broken' = prints
  /\ UNCHANGED <<now, coverage, memory, stored, input, prints, run, taken, outgoing, screen,
                 calls, arming, floor, heard, fired, reckoned>>
-----------------------------------------------------------------------------
(* Run *)

\* mutant: what monitored goes on monitoring
GapStateKept(state) == state
\* the state of an alert after a gap
GapState(state) == IF state \in Live THEN "data" ELSE state

\* Ingest of the gap that Feed has left
IngestGap ==
  LET gap == Larger(gapMs, pendingGap)
  IN  /\ pendingGap' = 0 /\ gapMs' = gap /\ mark' = 0 /\ broken' = 0
      /\ alerts' = [i \in Ids |-> [alerts[i] EXCEPT !.state = GapState(@)]]
      /\ after' = [i \in Ids |-> IF alerts[i].state \in Live THEN Larger(after[i], gap) ELSE after[i]]
      /\ floor' = [i \in Ids |-> IF alerts[i].state \in Live THEN Larger(floor[i], broken) ELSE floor[i]]
      /\ unseen' = (unseen \/ \E i \in Ids : alerts[i].state \in Live)

Selects == /\ run = "select"
           /\ UNCHANGED <<clock, stored, prints, outgoing, shown, calls, arming, heard>>

RunGap ==
  /\ Selects /\ pendingGap > 0 /\ IngestGap /\ run' = "flush"
  /\ UNCHANGED <<history, pending, wired, demanded, input, taken, upsets, fired, reckoned>>

\* A print is taken, and then the gap that may have come before.
Take ==
  /\ Selects /\ input # <<>>
  /\ taken' = Head(input) /\ input' = Tail(input) /\ run' = "ingest"
  /\ IF pendingGap > 0 THEN IngestGap
     ELSE UNCHANGED <<pendingGap, gapMs, mark, alerts, after, floor, broken, unseen>>
  /\ UNCHANGED <<history, pending, wired, demanded, upsets, fired, reckoned>>

\* The ticker of 250 milliseconds.
Refresh ==
  /\ run = "select" /\ run' = "flush"
  /\ UNCHANGED <<clock, gapMs, wired, lane, taken, outgoing, shown, calls, arming, floor, broken, heard>>
  /\ Refreshed(alerts, after, mark, disk, fired)
  /\ unseen' = (unseen \/ alerts' # alerts)

Counts(p) == p.recv > gapMs /\ now - p.recv <= MaxAge
\* mutant: a print received with the change counts
CountsWithChange(i, p) == p.recv >= after[i]
\* a print received after the alert was changed
CountsFor(i, p) == p.recv > after[i]

\* mutant: memory is triggered whether or not the write succeeds
FiredAnyway(firing, ok) == firing
\* those that are triggered: whose writes succeed
Fired(firing, ok) == ok

\* mutant: the demand of what fired is kept
ReconcileFiredNever(ok) == UNCHANGED <<demanded, reckoned>>
ReconcileFired(ok) ==
  IF ok # {} THEN Reconcile(alerts') ELSE UNCHANGED <<demanded, reckoned>>

\* mutant: only a trigger is told to the UI
NewsOfTriggers(out, watch, firing) == firing # {}
\* what a print changes for the UI
News(out, watch, firing) ==
  \/ \E i \in out : alerts[i].state # "outside"
  \/ \E i \in watch : alerts[i].state # "monitoring"
  \/ firing # {}

\* Ingest of a print that meets met; the writes of ok succeed.
Ingest(met) ==
  LET p == taken
      looked == {i \in Ids : alerts[i].state \in Live /\ ~Waits(i)}
      out == {i \in looked : ~({session, p.session} \subseteq alerts[i].in)}
      covered == wired /\ coverage = "covered"
      watch == {i \in looked \ out : covered /\ CountsFor(i, p)}
      firing == watch \cap met
      Trig(i) == [id |-> i, arming |-> arming[i], print |-> p.n, floor |-> floor[i]]
      Done(i) == [alerts[i] EXCEPT !.state = "triggered", !.version = @ + 1]
  IN  /\ run = "ingest" /\ Counts(p)
      /\ \E ok \in SUBSET firing :
           LET triggers == {Trig(i) : i \in ok}
           IN  /\ Fails(Cardinality(firing \ ok))
               /\ alerts' = [i \in Ids |->
                    IF i \in out THEN [alerts[i] EXCEPT !.state = "outside"]
                    ELSE IF i \in Fired(firing, ok) THEN Done(i)
                    ELSE IF i \in watch THEN [alerts[i] EXCEPT !.state = "monitoring"]
                    ELSE alerts[i]]
               /\ disk' = [i \in Ids |-> IF i \in ok THEN Done(i) ELSE disk[i]]
               /\ history' = history \cup triggers /\ diskHistory' = diskHistory \cup triggers
               /\ pending' = pending \cup {[alert |-> Done(i), trigger |-> Trig(i)] : i \in firing \ ok}
               /\ outgoing' = triggers
               /\ fired' = fired \cup triggers
               /\ run' = IF ok = {} THEN "flush" ELSE "publish"
               /\ UNCHANGED wired /\ ReconcileFired(ok)
      /\ mark' = IF covered THEN p.recv ELSE 0
      /\ heard' = p.n
      /\ unseen' = (unseen \/ News(out, watch, firing))
      /\ taken' = NoPrint
      /\ UNCHANGED <<clock, after, gapMs, lane, shown, calls, arming, floor, broken>>

\* A print that does not count, or whose number has been seen, is dropped.
Discard ==
  /\ run = "ingest" /\ run' = "flush" /\ taken' = NoPrint
  /\ UNCHANGED <<clock, memory, stored, lane, outgoing, screen, calls, upsets, ghosts>>

\* onNotification, after the lock is released
Publish ==
  /\ run = "publish" /\ run' = "flush"
  /\ fired' = fired \cup outgoing /\ outgoing' = {}
  /\ UNCHANGED <<clock, memory, stored, lane, taken, screen, calls, upsets, arming, floor, broken, heard,
                 reckoned>>

\* flush: the UI gets a snapshot if the revision has moved.
Flush ==
  /\ run = "flush" /\ run' = "select"
  /\ unseen' = FALSE
  /\ shown' = IF unseen THEN Snapshot(alerts, history, pending) ELSE shown
  /\ UNCHANGED <<clock, memory, stored, lane, taken, outgoing, calls, upsets, ghosts>>
-----------------------------------------------------------------------------
(* The world, and the process *)

Tick ==
  /\ Up /\ now < MaxClock /\ now' = now + 1
  /\ UNCHANGED <<coverage, laneAt, memory, stored, lane, run, taken, outgoing, screen, calls,
                 upsets, ghosts>>

\* OpenD has the ticker subscribed, no longer, or has no capacity for it.
Cover(c) ==
  /\ wired /\ c # coverage /\ coverage' = c
  /\ IF c = "covered" THEN UNCHANGED upsets
     ELSE "outage" \in Upsets /\ upsets < MaxUpsets /\ upsets' = upsets + 1
  /\ UNCHANGED <<now, laneAt, memory, stored, lane, run, taken, outgoing, screen, calls, ghosts>>

None == [i \in Ids |-> NoAlert]
NotUp == /\ run' = "down"
         /\ alerts' = None /\ history' = {} /\ pending' = {} /\ mark' = 0
         /\ after' = [i \in Ids |-> 0] /\ gapMs' = 0 /\ wired' = FALSE /\ demanded' = FALSE
         /\ input' = <<>> /\ pendingGap' = 0 /\ taken' = NoPrint /\ outgoing' = {}
         /\ unseen' = TRUE /\ shown' = Snapshot(None, {}, {})
         /\ coverage' = "none" /\ broken' = 0 /\ heard' = 0

\* What memory held is gone, the writes that wait included.
Crash ==
  /\ Up /\ "crash" \in Upsets /\ upsets < MaxUpsets /\ upsets' = upsets + 1
  /\ NotUp
  /\ UNCHANGED <<now, laneAt, stored, prints, calls, arming, floor, fired, reckoned>>

\* mutant: every alert waits for data after a restart
LoadedWaiting(state) == IF state = "none" THEN "none" ELSE "data"
\* the state in which New takes a stored alert up
Loaded(state) == IF state \in Live THEN "data" ELSE state

Start ==
  /\ ~Up /\ run' = "flush" /\ UNCHANGED wired
  /\ LET al == [i \in Ids |-> [disk[i] EXCEPT !.state = Loaded(@)]]
     IN  /\ alerts' = [i \in Ids |-> [al[i] EXCEPT !.state = Sees(al[i], now, "none", 0)]]
         /\ Reconcile(al)
  /\ history' = diskHistory
  /\ after' = [i \in Ids |-> IF disk[i] = NoAlert THEN 0 ELSE now]
  /\ floor' = [i \in Ids |-> prints]
  /\ UNCHANGED <<clock, pending, mark, gapMs, stored, lane, taken, outgoing, screen, calls, upsets, arming,
                 broken, heard, fired>>

Init ==
  /\ now = 1 /\ coverage = "none" /\ laneAt = 1
  /\ run = "down" /\ alerts = None /\ history = {} /\ pending = {} /\ mark = 0
  /\ after = [i \in Ids |-> 0] /\ gapMs = 0 /\ wired = FALSE /\ demanded = FALSE
  /\ disk = None /\ diskHistory = {}
  /\ input = <<>> /\ pendingGap = 0 /\ taken = NoPrint /\ outgoing = {}
  /\ unseen = TRUE /\ shown = Snapshot(None, {}, {})
  /\ prints = 0 /\ calls = 0 /\ upsets = 0
  /\ arming = [i \in Ids |-> 0] /\ floor = [i \in Ids |-> 0]
  /\ broken = 0 /\ heard = 0 /\ fired = {} /\ reckoned = session

Operator ==
  \/ \E i \in Ids, s \in Selections : Create(i, s) \/ \E rearm \in BOOLEAN : Edit(i, s, rearm)
  \/ \E i \in Ids : Delete(i) \/ \E paused \in BOOLEAN : SetPaused(i, paused)
  \/ \E t \in history : DeleteTrigger(t)
  \/ Query
Bridge == \E at \in 1 .. MaxClock : FeedGap(at) \/ \E s \in 1 .. 2 : Feed(at, s)
RunStep == RunGap \/ Take \/ (\E met \in SUBSET Ids : Ingest(met)) \/ Discard \/ Publish \/ Flush
World == Tick \/ \E c \in {"none", "covered", "full"} : Cover(c)

Next == Operator \/ Bridge \/ RunStep \/ Refresh \/ World \/ SetDemand \/ Crash \/ Start

Spec == Init /\ [][Next]_vars
\* Run goes on, and its ticker is served among the prints.
LiveSpec == Spec /\ WF_vars(RunStep) /\ SF_vars(Refresh)

-----------------------------------------------------------------------------
(* What the alerts promise *)

TypeOK ==
  /\ now \in 1 .. MaxClock
  /\ coverage \in {"none", "covered", "full"} /\ laneAt \in 1 .. now
  /\ alerts \in [Ids -> Alert \cup {NoAlert}] /\ disk \in [Ids -> Alert \cup {NoAlert}]
  /\ history \cup diskHistory \cup outgoing \cup fired \subseteq Trigger /\ pending \subseteq Change
  /\ after \in [Ids -> 0 .. now] /\ mark \in 0 .. now /\ taken \in EligiblePrint
  /\ gapMs \in 0 .. now /\ wired \in BOOLEAN /\ demanded \in BOOLEAN /\ unseen \in BOOLEAN
  /\ run \in {"down", "select", "ingest", "publish", "flush"}
  /\ input \in Seq(EligiblePrint) /\ Len(input) <= QueueSize /\ pendingGap \in 0 .. now
  /\ prints \in 0 .. MaxPrints /\ heard \in 0 .. prints /\ broken \in 0 .. prints
  /\ arming \in [Ids -> Nat] /\ floor \in [Ids -> 0 .. prints]

\* An alert fires once each time it is armed, whatever is edited, whatever
\* write fails and however often the engine dies between a write and its
\* announcement ("durable one-shot notifications").
FiresOnce == \A s, t \in fired : s.id = t.id /\ s.arming = t.arming => s = t

\* A print that was on its way when the alert was changed, when the engine
\* started or when a gap was announced never fires it ("every create, edit,
\* resume, restart ... requires a subsequent eligible print").
NothingStaleFires == \A t \in fired : t.print > t.floor

\* Memory and disk agree on what an alert is, and on its end.
MemoryIsDisk ==
  /\ Up => /\ history = diskHistory
           /\ \A i \in Ids : /\ [alerts[i] EXCEPT !.state = Loaded(@)] = [disk[i] EXCEPT !.state = Loaded(@)]
                             /\ alerts[i].state = "triggered" => ~Waits(i)

\* A write that is repeated is about the alert as it is: nothing was changed
\* in the meantime that it could undo (pending in Upsert, Delete, SetPaused).
RetryUndoesNothing ==
  \A c \in pending : LET a == alerts[c.trigger.id]
                     IN  a.state \in Live /\ c.alert = [a EXCEPT !.state = "triggered", !.version = @ + 1]

\* The ticker is asked for exactly while an alert could fire in the session
\* that was looked at last: what fired or was deleted keeps no quota.
DemandKept == Up => demanded = (wired /\ WantedIn(alerts, reckoned))

\* An alert is shown as monitoring only if a print has been taken since it
\* was changed and since the feed last broke.
MonitoringHasHeard == \A i \in Ids : alerts[i].state = "monitoring" => heard > floor[i]

\* What the UI was told last is how things are, unless more is to come
\* (revision in Run).
ShownIsCurrent == Up /\ ~unseen => shown = Snapshot(alerts, history, pending)

\* A touch whose write failed is stored in the end, unless the engine ends
\* (pending in refreshLocked).
TouchIsKept ==
  \A i \in Ids : Waits(i) ~> (~Up \/ \E t \in fired : t.id = i /\ t.arming = arming[i])
=============================================================================
