------------------------- MODULE PriceAlertsProofs -------------------------
(***************************************************************************)
(* What the price alerts promise, for every set of alerts, every choice of  *)
(* sessions and every bound: a touch fires at most once each time the alert *)
(* is armed and never on a print from before, memory and disk agree, and    *)
(* the screen, the demand and the monitoring state tell what is so.         *)
(*                                                                         *)
(* The invariant follows the prints.  Their numbers grow from those heard   *)
(* over the one taken to the end of the queue, and whatever raises the      *)
(* floor of an alert (a change, a start, a gap) also moves the time up to   *)
(* which prints do not count past every print that is under way.  That time *)
(* is all the code compares; the floor is what it is meant to do.           *)
(***************************************************************************)
EXTENDS PriceAlerts, TLAPS, SequenceTheorems

\* the prints under way
UnderWay == {input[k] : k \in 1 .. Len(input)} \cup {taken}

\* The numbers grow along the way of a print, and the times that have been
\* raised since are behind none of those meant to be passed over.
Queue ==
  /\ \A p \in UnderWay :
       /\ p.n <= prints /\ p.recv <= laneAt
       /\ \A i \in Ids : Exists(i) /\ p.n <= floor[i] => p.recv <= after[i]
       /\ pendingGap > 0 /\ p.n <= broken => p.recv <= pendingGap
  /\ run = "ingest" => taken.n > heard
  /\ \A k \in 1 .. Len(input) : /\ input[k].n > taken.n /\ input[k].n > heard
                                /\ \A l \in 1 .. k - 1 : input[l].n < input[k].n

\* The mark refreshLocked compares is the time of a print that counts.
Hearing ==
  /\ MonitoringHasHeard
  /\ \A i \in Ids : Exists(i) /\ mark > after[i] => heard > floor[i]

\* A write that waits is the only one for its alert and belongs to how it is
\* armed now.
Retries ==
  /\ RetryUndoesNothing
  /\ \A c \in pending : c.trigger.arming = arming[c.trigger.id] /\ c.trigger.print > c.trigger.floor
  /\ \A c, d \in pending : c.trigger.id = d.trigger.id => c = d

\* What can still fire has not fired since it was armed.
Firing ==
  /\ FiresOnce /\ NothingStaleFires
  /\ outgoing \subseteq fired
  /\ \A t \in fired : /\ t.arming <= arming[t.id]
                      /\ t.arming = arming[t.id] => disk[t.id].state \notin Live \cup {"paused"}
  /\ \A i \in Ids : arming[i] = 0 => alerts[i] = NoAlert /\ disk[i] = NoAlert

\* A process that has ended holds nothing.
Down == ~Up => alerts = None /\ pending = {} /\ input = <<>> /\ taken = NoPrint /\ unseen

\* The inductive invariant.  What the UI was shown is a matter of its own.
Kept == TypeOK /\ Queue /\ Hearing /\ Retries /\ Firing /\ Down /\ MemoryIsDisk /\ DemandKept
IInv == Kept /\ ShownIsCurrent

-----------------------------------------------------------------------------
(* Definitions *)

Definition == Alert \cup {NoAlert}
States == Live \cup {"paused", "triggered", "none"}

\* A definition is told by its three fields, and its state is the only thing
\* a refresh writes.
LEMMA Fields ==
  /\ \A a \in Definition : /\ a.state \in States /\ a.version \in Nat
                           /\ a.state = "none" <=> a = NoAlert
                           /\ a.state # "none" <=> a \in Alert
  /\ \A a, b \in Definition : a.state = b.state /\ a.version = b.version /\ a.in = b.in => a = b
  /\ \A a \in Definition : \A s : LET b == [a EXCEPT !.state = s]
                                  IN  b.state = s /\ b.version = a.version /\ b.in = a.in
  /\ \A a \in Alert, s \in States \ {"none"} : [a EXCEPT !.state = s] \in Alert
  /\ \A a \in Definition : [a EXCEPT !.state = a.state] = a
<1>1. \A a \in Definition : /\ a.state \in States /\ a.version \in Nat
                            /\ a.state = "none" <=> a = NoAlert
                            /\ a.state # "none" <=> a \in Alert
  BY DEF Definition, States, Alert, NoAlert, Live
<1>2. \A a, b \in Definition : a.state = b.state /\ a.version = b.version /\ a.in = b.in => a = b
  BY DEF Definition, Alert, NoAlert
<1>3. \A a \in Definition : \A s : LET b == [a EXCEPT !.state = s]
                                   IN  b.state = s /\ b.version = a.version /\ b.in = a.in
  BY DEF Definition, Alert, NoAlert
<1>4. \A a \in Alert, s \in States \ {"none"} : [a EXCEPT !.state = s] \in Alert
  BY DEF States, Alert
<1>5. \A a \in Definition : [a EXCEPT !.state = a.state] = a
  BY DEF Definition, Alert, NoAlert
<1> QED
  BY <1>1, <1>2, <1>3, <1>4, <1>5

\* A change of state may come with the next version.
LEMMA NextVersion ==
  ASSUME NEW x \in Alert, NEW s \in States \ {"none"},
         NEW y, y = [x EXCEPT !.state = s, !.version = @ + 1]
  PROVE  y \in Alert /\ y.state = s /\ y.version = x.version + 1 /\ y.in = x.in
<1>1. x.version \in Nat /\ x.in \in Selections
  BY DEF Alert
<1>2. x = [state |-> x.state, version |-> x.version, in |-> x.in]
  BY DEF Alert
<1>3. y = [state |-> s, version |-> x.version + 1, in |-> x.in]
  BY <1>2
<1> QED
  BY <1>1, <1>3 DEF Alert, States

\* What memory and disk may differ in is which of the live states it is.
LEMMA AlikeMeans ==
  ASSUME NEW a \in Definition, NEW b \in Definition
  PROVE  [a EXCEPT !.state = Loaded(@)] = [b EXCEPT !.state = Loaded(@)]
         <=> /\ a.version = b.version /\ a.in = b.in
             /\ a.state = b.state \/ {a.state, b.state} \subseteq Live
<1>1. Loaded(a.state) = Loaded(b.state) <=> a.state = b.state \/ {a.state, b.state} \subseteq Live
  BY Fields DEF Loaded, Live, States
<1> DEFINE x == [a EXCEPT !.state = Loaded(a.state)]
           y == [b EXCEPT !.state = Loaded(b.state)]
<1>2. /\ x.state = Loaded(a.state) /\ x.version = a.version /\ x.in = a.in
      /\ y.state = Loaded(b.state) /\ y.version = b.version /\ y.in = b.in
  BY Fields
<1>3. ASSUME Loaded(a.state) = Loaded(b.state), a.version = b.version, a.in = b.in
      PROVE  x = y
  BY <1>3 DEF Definition, Alert, NoAlert
<1> QED
  BY <1>1, <1>2, <1>3

\* The prints under way are numbered and timed.
LEMMA UnderWayType ==
  ASSUME TypeOK
  PROVE  /\ \A p \in UnderWay : p \in EligiblePrint /\ p.n \in Nat /\ p.recv \in Nat
         /\ \A k \in 1 .. Len(input) : input[k] \in UnderWay
         /\ taken \in UnderWay /\ Len(input) \in Nat
<1>1. /\ taken \in EligiblePrint /\ Len(input) \in Nat
      /\ \A k \in 1 .. Len(input) : input[k] \in EligiblePrint
  BY DEF TypeOK
<1>2. \A p \in UnderWay : p \in EligiblePrint
  BY <1>1, Zenon DEF UnderWay
<1>3. \A p \in EligiblePrint : p.n \in Nat /\ p.recv \in Nat
  BY DEF EligiblePrint
<1>4. /\ \A k \in 1 .. Len(input) : input[k] \in UnderWay
      /\ taken \in UnderWay
  BY Zenon DEF UnderWay
<1> QED
  BY <1>1, <1>2, <1>3, <1>4

\* The demand depends on which alerts are live, and for which sessions.
LEMMA WantedAlike ==
  ASSUME NEW x, NEW y, NEW s,
         \A i \in Ids : x[i].in = y[i].in /\ (x[i].state \in Live <=> y[i].state \in Live)
  PROVE  WantedIn(x, s) = WantedIn(y, s)
BY Zenon DEF WantedIn
-----------------------------------------------------------------------------
(* What a refresh does, alert by alert *)

Same(i) == alerts'[i] = alerts[i] /\ floor'[i] = floor[i]

\* A repeated write makes of an alert what its trigger says; any other alert
\* at most changes between the live states, and monitors only if the last
\* print is later than the time it counts from (refreshLocked).  A command
\* that refreshes nothing is the case where no write is repeated.
Outcome(ok, al, since, seen, stored0) ==
  /\ pending' = pending \ ok /\ fired' = fired \cup {c.trigger : c \in ok} /\ mark' = seen
  /\ alerts' \in [Ids -> Definition] /\ disk' \in [Ids -> Definition] /\ after' \in [Ids -> 0 .. now]
  /\ demanded' = (wired' /\ WantedIn(alerts', reckoned'))
  /\ \A c \in ok : LET i == c.trigger.id
                   IN  /\ alerts'[i] = c.alert /\ disk'[i] = c.alert
                       /\ alerts'[i].state = "triggered" /\ after'[i] = since[i]
  /\ \A i \in Ids : (\A c \in ok : c.trigger.id # i) =>
       /\ disk'[i] = stored0[i] /\ after'[i] \in {now, since[i]}
       /\ alerts'[i] = [al[i] EXCEPT !.state = alerts'[i].state]
       /\ al[i].state \notin Live => alerts'[i] = al[i]
       /\ al[i].state \in Live =>
            /\ alerts'[i].state \in Live
            /\ alerts'[i].state = "monitoring" => seen > since[i] \/ Same(i)

LEMMA RefreshedEach ==
  ASSUME TypeOK, Retries,
         NEW al \in [Ids -> Definition], NEW since \in [Ids -> 0 .. now],
         NEW seen \in 0 .. now, NEW stored0 \in [Ids -> Definition],
         Refreshed(al, since, seen, stored0, fired)
  PROVE  \E ok \in SUBSET pending :
           /\ Outcome(ok, al, since, seen, stored0)
           /\ history' = history \cup {c.trigger : c \in ok}
           /\ diskHistory' = diskHistory \cup {c.trigger : c \in ok}
<1> DEFINE cover == IF wired' THEN coverage ELSE "none"
<1>1. PICK ok \in SUBSET pending :
        LET new == [i \in Ids |-> Sees(Written(ok, al)[i], since[i], cover, seen)]
            triggers == {c.trigger : c \in ok}
        IN  /\ alerts' = [i \in Ids |-> [Written(ok, al)[i] EXCEPT !.state = new[i]]]
            /\ after' = [i \in Ids |-> Since(Written(ok, al)[i], since[i], new[i])]
            /\ disk' = Written(ok, stored0)
            /\ history' = history \cup triggers /\ diskHistory' = diskHistory \cup triggers
            /\ pending' = pending \ ok
            /\ fired' = fired \cup triggers
            /\ mark' = seen
            /\ Reconcile(Written(ok, al))
  BY DEF Refreshed, ToRetry
<1> DEFINE W(i) == Written(ok, al)[i]
           New(i) == Sees(W(i), since[i], cover, seen)
<1>2. /\ \A i \in Ids : alerts'[i] = [W(i) EXCEPT !.state = New(i)]
      /\ \A i \in Ids : after'[i] = Since(W(i), since[i], New(i))
      /\ DOMAIN alerts' = Ids /\ DOMAIN after' = Ids /\ DOMAIN disk' = Ids
      /\ alerts' = [i \in Ids |-> alerts'[i]] /\ after' = [i \in Ids |-> after'[i]]
      /\ disk' = [i \in Ids |-> disk'[i]]
  <2>1. /\ DOMAIN alerts' = Ids /\ alerts' = [i \in Ids |-> alerts'[i]]
        /\ \A i \in Ids : alerts'[i] = [W(i) EXCEPT !.state = New(i)]
    BY <1>1, Zenon
  <2>2. /\ DOMAIN after' = Ids /\ after' = [i \in Ids |-> after'[i]]
        /\ \A i \in Ids : after'[i] = Since(W(i), since[i], New(i))
    BY <1>1, Zenon
  <2>3. DOMAIN disk' = Ids /\ disk' = [i \in Ids |-> disk'[i]]
    <3>1. disk' = Written(ok, stored0)
      BY <1>1
    <3>2. Written(ok, stored0) = [i \in Ids |-> Written(ok, stored0)[i]]
      BY DEF Written
    <3> QED
      BY <3>1, <3>2, Zenon
  <2> QED
    BY <2>1, <2>2, <2>3, Zenon
<1>3. \A c \in pending : /\ c.trigger.id \in Ids /\ c.alert \in Definition
                         /\ c.alert.state = "triggered"
  BY DEF TypeOK, Change, Trigger, Retries, RetryUndoesNothing, Alert, Live, Definition
<1>4. \A c \in ok : LET i == c.trigger.id
                    IN  W(i) = c.alert /\ disk'[i] = c.alert
  <2>1. SUFFICES ASSUME NEW c \in ok PROVE W(c.trigger.id) = c.alert /\ disk'[c.trigger.id] = c.alert
    OBVIOUS
  <2>2. Of(ok, c.trigger.id) = {c}
    BY DEF Of, Retries
  <2>3. c.trigger.id \in Ids
    BY <1>3
  <2>4. (CHOOSE d \in Of(ok, c.trigger.id) : TRUE) = c
    BY <2>2
  <2> QED
    BY <1>1, <2>2, <2>3, <2>4 DEF Written
<1>5. \A i \in Ids : (\A c \in ok : c.trigger.id # i) => W(i) = al[i] /\ disk'[i] = stored0[i]
  BY <1>1 DEF Written, Of
<1>6. \A i \in Ids : W(i) \in Definition /\ disk'[i] \in Definition
  <2>1. ASSUME NEW i \in Ids PROVE W(i) \in Definition /\ disk'[i] \in Definition
    <3>1. CASE \E c \in ok : c.trigger.id = i
      BY <1>3, <1>4, <3>1
    <3>2. CASE \A c \in ok : c.trigger.id # i
      BY <1>5, <3>2
    <3> QED
      BY <3>1, <3>2
  <2> QED
    BY <2>1
<1>7. \A i \in Ids : /\ W(i).state \notin Live => New(i) = W(i).state /\ after'[i] = since[i]
                     /\ W(i).state \in Live => New(i) \in Live
                     /\ after'[i] \in {now, since[i]}
                     /\ W(i).state \in Live /\ New(i) = "monitoring" => seen > since[i]
  <2>1. SUFFICES ASSUME NEW i \in Ids
                 PROVE  /\ W(i).state \notin Live => New(i) = W(i).state /\ after'[i] = since[i]
                        /\ W(i).state \in Live => New(i) \in Live
                        /\ after'[i] \in {now, since[i]}
                        /\ W(i).state \in Live /\ New(i) = "monitoring" => seen > since[i]
    OBVIOUS
  <2> DEFINE w == W(i)
  <2>2. now \in Int /\ seen \in Int /\ seen <= now /\ since[i] \in Int
    BY DEF TypeOK
  <2> HIDE DEF W, cover
  <2>3. CASE w.state \notin Live
    BY <1>2, <2>3 DEF Sees, Since
  <2>4. CASE w.state \in Live
    <3>1. New(i) \in Live /\ (New(i) = "monitoring" => seen > since[i])
      BY <2>2, <2>4 DEF Sees, Live
    <3>2. after'[i] \in {now, since[i]}
      BY <1>2 DEF Since
    <3> QED
      BY <2>4, <3>1, <3>2
  <2> QED
    BY <2>3, <2>4
<1>8. \A i \in Ids : /\ alerts'[i] \in Definition /\ alerts'[i].state = New(i)
                     /\ alerts'[i] = [W(i) EXCEPT !.state = alerts'[i].state]
                     /\ W(i).state \notin Live => alerts'[i] = W(i)
                     /\ alerts'[i].in = W(i).in
                     /\ alerts'[i].state \in Live <=> W(i).state \in Live
  <2>1. SUFFICES ASSUME NEW i \in Ids
                 PROVE  /\ alerts'[i] \in Definition /\ alerts'[i].state = New(i)
                        /\ alerts'[i] = [W(i) EXCEPT !.state = alerts'[i].state]
                        /\ W(i).state \notin Live => alerts'[i] = W(i)
                        /\ alerts'[i].in = W(i).in
                        /\ alerts'[i].state \in Live <=> W(i).state \in Live
    OBVIOUS
  <2>2. W(i) \in Definition
    BY <1>6
  <2> HIDE DEF W, New
  <2>3. alerts'[i] = [W(i) EXCEPT !.state = New(i)]
    BY <1>2
  <2>4. alerts'[i].state = New(i) /\ alerts'[i].in = W(i).in
    BY <2>2, <2>3, Fields
  <2>5. CASE W(i).state \notin Live
    BY <1>7, <2>2, <2>3, <2>4, <2>5, Fields
  <2>6. CASE W(i).state \in Live
    <3>1. W(i) \in Alert /\ New(i) \in States \ {"none"}
      BY <1>7, <2>2, <2>6, Fields DEF Live, States
    <3>2. alerts'[i] \in Definition
      BY <2>3, <3>1, Fields DEF Definition
    <3> QED
      BY <1>7, <2>3, <2>4, <2>6, <3>2
  <2> QED
    BY <2>5, <2>6
<1>9. /\ alerts' \in [Ids -> Definition] /\ disk' \in [Ids -> Definition]
      /\ after' \in [Ids -> 0 .. now]
  <2>1. now \in 0 .. now
    BY DEF TypeOK
  <2>2. /\ \A i \in Ids : alerts'[i] \in Definition /\ disk'[i] \in Definition
        /\ \A i \in Ids : after'[i] \in 0 .. now
    BY <1>6, <1>7, <1>8, <2>1
  <2> QED
    BY <1>2, <2>2
<1>10. WantedIn(Written(ok, al), session) = WantedIn(alerts', session)
  <2>1. \A i \in Ids : /\ Written(ok, al)[i].in = alerts'[i].in
                       /\ Written(ok, al)[i].state \in Live <=> alerts'[i].state \in Live
    BY <1>8
  <2> QED
    BY <2>1, WantedAlike, Zenon
<1>11. demanded' = (wired' /\ WantedIn(alerts', reckoned'))
  BY <1>1, <1>10, Zenon DEF Reconcile
<1>12. \A c \in ok : LET i == c.trigger.id
                     IN  /\ alerts'[i] = c.alert /\ disk'[i] = c.alert
                         /\ alerts'[i].state = "triggered" /\ after'[i] = since[i]
  <2> HIDE DEF W, New
  <2>1. SUFFICES ASSUME NEW c \in ok
                 PROVE  LET i == c.trigger.id
                        IN  /\ alerts'[i] = c.alert /\ disk'[i] = c.alert
                            /\ alerts'[i].state = "triggered" /\ after'[i] = since[i]
    OBVIOUS
  <2>2. c.trigger.id \in Ids /\ c.alert.state = "triggered" /\ c.alert.state \notin Live
    BY <1>3 DEF Live
  <2>3. W(c.trigger.id) = c.alert /\ disk'[c.trigger.id] = c.alert
    BY <1>4
  <2> QED
    BY <1>7, <1>8, <2>2, <2>3
<1>13. \A i \in Ids : (\A c \in ok : c.trigger.id # i) =>
         /\ disk'[i] = stored0[i] /\ after'[i] \in {now, since[i]}
         /\ alerts'[i] = [al[i] EXCEPT !.state = alerts'[i].state]
         /\ al[i].state \notin Live => alerts'[i] = al[i]
         /\ al[i].state \in Live =>
              alerts'[i].state \in Live /\ (alerts'[i].state = "monitoring" => seen > since[i])
  <2> HIDE DEF W, New
  <2> QED
    BY <1>5, <1>7, <1>8
<1>14. Outcome(ok, al, since, seen, stored0)
  BY <1>1, <1>9, <1>11, <1>12, <1>13 DEF Outcome
<1> QED
  BY <1>1, <1>14
-----------------------------------------------------------------------------
(* A refresh keeps the invariant *)

\* What the callers of refreshLocked leave as it is.
RefreshFrame ==
  /\ Up /\ run' \in {run, "flush"} /\ unseen' \in BOOLEAN /\ wired' \in BOOLEAN
  /\ UNCHANGED <<clock, gapMs, lane, taken, outgoing, broken, heard>>

\* What they give it: definitions of memory and disk that agree, that differ
\* from those before only where no write waits, and that count from now where
\* the floor has been raised.
Given(al, since, seen, stored0) ==
  /\ al \in [Ids -> Definition] /\ stored0 \in [Ids -> Definition]
  /\ since \in [Ids -> 0 .. now] /\ seen \in {0, mark}
  /\ arming' \in [Ids -> Nat] /\ floor' \in [Ids -> 0 .. prints]
  /\ \A i \in Ids :
       /\ [al[i] EXCEPT !.state = Loaded(@)] = [stored0[i] EXCEPT !.state = Loaded(@)]
       /\ Waits(i) => al[i] = alerts[i] /\ arming'[i] = arming[i]
       /\ arming[i] <= arming'[i]
       /\ arming'[i] = 0 => al[i] = NoAlert /\ stored0[i] = NoAlert
       /\ al[i] # NoAlert => \/ Exists(i) /\ floor'[i] = floor[i] /\ since[i] = after[i]
                             \/ floor'[i] = prints /\ since[i] = now
       /\ \A t \in fired : t.id = i /\ t.arming = arming'[i] => stored0[i].state \notin Live \cup {"paused"}

\* What a repeated write would make of an alert does not depend on which of
\* the live states it is in.
LEMMA DoneAlike ==
  ASSUME NEW a \in Definition, NEW s, NEW b, b = [a EXCEPT !.state = s]
  PROVE  [b EXCEPT !.state = "triggered", !.version = @ + 1] =
         [a EXCEPT !.state = "triggered", !.version = @ + 1]
BY DEF Definition, Alert, NoAlert

LEMMA OutcomeKeeps ==
  ASSUME Kept, RefreshFrame,
         NEW al, NEW since, NEW seen, NEW stored0, NEW ok \in SUBSET pending,
         Given(al, since, seen, stored0), Outcome(ok, al, since, seen, stored0),
         history' = diskHistory', history' \subseteq Trigger
  PROVE  Kept'
<1>1. TypeOK /\ Queue /\ Hearing /\ Retries /\ Firing /\ MemoryIsDisk
  BY DEF Kept
<1>2. /\ now \in Nat /\ laneAt \in Nat /\ laneAt <= now /\ mark \in 0 .. now /\ prints \in Nat
      /\ after \in [Ids -> 0 .. now] /\ floor \in [Ids -> 0 .. prints] /\ arming \in [Ids -> Nat]
      /\ alerts \in [Ids -> Definition] /\ disk \in [Ids -> Definition] /\ heard \in Nat
      /\ taken \in EligiblePrint /\ input \in Seq(EligiblePrint)
      /\ history \subseteq Trigger /\ diskHistory \subseteq Trigger /\ fired \subseteq Trigger
      /\ outgoing \subseteq Trigger /\ pending \subseteq Change
  BY <1>1, AlertAssumption DEF TypeOK, Definition
<1>3. /\ al \in [Ids -> Definition] /\ stored0 \in [Ids -> Definition]
      /\ since \in [Ids -> 0 .. now] /\ seen \in 0 .. now
  BY <1>2 DEF Given
<1>4. /\ alerts' \in [Ids -> Definition] /\ disk' \in [Ids -> Definition] /\ after' \in [Ids -> 0 .. now]
      /\ pending' = pending \ ok /\ fired' = fired \cup {c.trigger : c \in ok} /\ mark' = seen
      /\ \A c \in ok : LET i == c.trigger.id
                       IN  /\ alerts'[i] = c.alert /\ disk'[i] = c.alert
                           /\ alerts'[i].state = "triggered" /\ after'[i] = since[i]
      /\ \A i \in Ids : (\A c \in ok : c.trigger.id # i) =>
           /\ disk'[i] = stored0[i] /\ after'[i] \in {now, since[i]}
           /\ alerts'[i] = [al[i] EXCEPT !.state = alerts'[i].state]
           /\ al[i].state \notin Live => alerts'[i] = al[i]
           /\ al[i].state \in Live =>
                /\ alerts'[i].state \in Live
                /\ alerts'[i].state = "monitoring" => seen > since[i] \/ Same(i)
  BY DEF Outcome
\* the alerts a write is repeated for are live, in memory and on disk
<1>5. \A c \in pending :
        /\ c.trigger \in Trigger /\ c.trigger.id \in Ids /\ Waits(c.trigger.id)
        /\ alerts[c.trigger.id].state \in Live /\ disk[c.trigger.id].state \in Live
  <2>1. SUFFICES ASSUME NEW c \in pending
                 PROVE  /\ c.trigger \in Trigger /\ c.trigger.id \in Ids /\ Waits(c.trigger.id)
                        /\ alerts[c.trigger.id].state \in Live /\ disk[c.trigger.id].state \in Live
    OBVIOUS
  <2>2. c.trigger \in Trigger /\ c.trigger.id \in Ids
    BY <1>2 DEF Change, Trigger
  <2>3. Waits(c.trigger.id)
    BY DEF Waits, Of
  <2>4. alerts[c.trigger.id].state \in Live
    BY <1>1 DEF Retries, RetryUndoesNothing
  <2>5. Up
    BY DEF RefreshFrame
  <2>6. disk[c.trigger.id].state \in Live
    BY <1>1, <1>2, <2>2, <2>4, <2>5, AlikeMeans DEF MemoryIsDisk
  <2> QED
    BY <2>2, <2>3, <2>4, <2>6
<1>6. \A i \in Ids : /\ alerts'[i] # NoAlert => al[i] # NoAlert
                     /\ al[i] = NoAlert => alerts'[i] = NoAlert
                     /\ since[i] <= after'[i]
                     /\ alerts'[i].state = "monitoring" => seen > since[i] \/ Same(i)
  <2>1. SUFFICES ASSUME NEW i \in Ids
                 PROVE  /\ alerts'[i] # NoAlert <=> al[i] # NoAlert
                        /\ since[i] <= after'[i]
                        /\ alerts'[i].state = "monitoring" => seen > since[i] \/ Same(i)
    BY Zenon
  <2>2. since[i] \in 0 .. now /\ al[i] \in Definition /\ alerts'[i] \in Definition
    BY <1>3, <1>4
  <2>3. CASE \A c \in ok : c.trigger.id # i
    <3>1. al[i].state \in Live => al[i] # NoAlert /\ alerts'[i] # NoAlert
      BY <1>4, <2>3 DEF Live, NoAlert
    <3>2. al[i].state \notin Live => alerts'[i] = al[i] /\ alerts'[i].state # "monitoring"
      BY <1>4, <2>3 DEF Live
    <3>3. after'[i] \in {now, since[i]}
      BY <1>4, <2>3
    <3> QED
      BY <1>2, <1>4, <2>2, <2>3, <3>1, <3>2, <3>3
  <2>4. ASSUME NEW c \in ok, c.trigger.id = i
        PROVE  /\ alerts'[i] # NoAlert <=> al[i] # NoAlert
               /\ since[i] <= after'[i]
               /\ alerts'[i].state = "monitoring" => seen > since[i] \/ Same(i)
    <3>1. al[i] = alerts[i] /\ al[i].state \in Live
      BY <1>5, <2>4 DEF Given
    <3>2. alerts'[i].state = "triggered" /\ after'[i] = since[i]
      BY <1>4, <2>4
    <3> QED
      BY <2>2, <3>1, <3>2 DEF Live, NoAlert
  <2> QED
    BY <2>3, <2>4
<1>7. TypeOK'
  <2>1. {c.trigger : c \in ok} \subseteq Trigger
    BY <1>5
  <2>2. /\ now' \in 1 .. MaxClock /\ coverage' \in {"none", "covered", "full"} /\ laneAt' \in 1 .. now'
        /\ taken' \in EligiblePrint /\ gapMs' \in 0 .. now' /\ outgoing' \subseteq Trigger
        /\ run' \in {"down", "select", "ingest", "publish", "flush"}
        /\ input' \in Seq(EligiblePrint) /\ Len(input') <= QueueSize /\ pendingGap' \in 0 .. now'
        /\ prints' \in 0 .. MaxPrints /\ heard' \in 0 .. prints' /\ broken' \in 0 .. prints'
        /\ now' = now /\ prints' = prints
    BY <1>1 DEF RefreshFrame, TypeOK, clock, lane
  <2>3. history' \subseteq Trigger /\ diskHistory' \subseteq Trigger /\ fired' \subseteq Trigger
        /\ pending' \subseteq Change
    BY <1>2, <1>4, <2>1
  <2>4. mark' \in 0 .. now'
    BY <1>3, <1>4, <2>2
  <2>5. alerts' \in [Ids -> Definition] /\ disk' \in [Ids -> Definition] /\ after' \in [Ids -> 0 .. now']
    BY <1>4, <2>2
  <2>6. arming' \in [Ids -> Nat] /\ floor' \in [Ids -> 0 .. prints']
    BY <2>2 DEF Given
  <2>7. wired' \in BOOLEAN /\ unseen' \in BOOLEAN
    BY DEF RefreshFrame
  <2>8. demanded' \in BOOLEAN
    <3>1. WantedIn(alerts', reckoned') \in BOOLEAN
      BY Zenon DEF WantedIn
    <3> QED
      BY <2>7, <3>1, Zenon DEF Outcome
  <2> QED
    BY <2>2, <2>3, <2>4, <2>5, <2>6, <2>7, <2>8 DEF TypeOK, Definition
<1>8. Queue'
  <2>1. UNCHANGED <<UnderWay, prints, laneAt, pendingGap, broken, heard, taken, input>>
    BY DEF RefreshFrame, clock, lane, UnderWay
  <2>2. ASSUME NEW p \in UnderWay, NEW i \in Ids, Exists(i)', p.n <= floor'[i]
        PROVE  p.recv <= after'[i]
    <3>1. p.recv \in Nat
      BY <1>1, UnderWayType
    <3>2. p.recv <= now
      BY <1>1, <1>2, <3>1 DEF Queue
    <3>3. since[i] \in 0 .. now /\ since[i] <= after'[i] /\ after'[i] \in 0 .. now /\ al[i] # NoAlert
      BY <1>3, <1>4, <1>6, <2>2 DEF Exists
    <3>4. CASE Exists(i) /\ floor'[i] = floor[i] /\ since[i] = after[i]
      <4>1. p.recv <= after[i]
        BY <1>1, <2>2, <3>4 DEF Queue
      <4> QED
        BY <1>2, <3>1, <3>3, <3>4, <4>1
    <3>5. CASE since[i] = now
      BY <1>2, <3>1, <3>2, <3>3, <3>5
    <3> QED
      BY <3>3, <3>4, <3>5 DEF Given
  <2>3. run' = "ingest" => run = "ingest"
    BY DEF RefreshFrame
  <2> QED
    BY <1>1, <2>1, <2>2, <2>3 DEF Queue
<1>9. Hearing'
  <2>1. heard' = heard
    BY DEF RefreshFrame
  <2>2. ASSUME NEW i \in Ids, al[i] # NoAlert, seen > since[i]
        PROVE  heard > floor'[i]
    <3>1. CASE Exists(i) /\ floor'[i] = floor[i] /\ since[i] = after[i]
      <4>1. after[i] \in Nat
        BY <1>2
      <4>2. seen = mark
        BY <1>2, <2>2, <3>1, <4>1 DEF Given
      <4> QED
        BY <1>1, <2>2, <3>1, <4>2 DEF Hearing
    <3>2. CASE since[i] = now
      BY <1>2, <1>3, <2>2, <3>2
    <3> QED
      BY <2>2, <3>1, <3>2 DEF Given
  <2>3. ASSUME NEW i \in Ids, alerts'[i].state = "monitoring" PROVE heard' > floor'[i]
    <3>1. seen > since[i] \/ Same(i)
      BY <1>6, <2>3
    <3>2. al[i] # NoAlert
      BY <1>6, <2>3 DEF NoAlert
    <3>3. Same(i) => heard > floor'[i]
      BY <1>1, <2>3 DEF Same, Hearing, MonitoringHasHeard
    <3> QED
      BY <2>1, <2>2, <3>1, <3>2, <3>3
  <2>4. ASSUME NEW i \in Ids, alerts'[i] # NoAlert, mark' > after'[i] PROVE heard' > floor'[i]
    <3>1. seen > after'[i] /\ since[i] <= after'[i] /\ al[i] # NoAlert
      BY <1>4, <1>6, <2>4
    <3>2. since[i] \in Nat /\ after'[i] \in Nat /\ seen \in Nat
      <4>1. since[i] \in 0 .. now /\ seen \in 0 .. now
        BY <1>3
      <4>2. after'[i] \in 0 .. now
        BY <1>4
      <4> QED
        BY <4>1, <4>2
    <3>3. seen > since[i]
      BY <3>1, <3>2, SMTT(30)
    <3> QED
      BY <2>1, <2>2, <3>1, <3>3
  <2> QED
    BY <2>3, <2>4 DEF Hearing, MonitoringHasHeard, Exists
<1>10. Retries'
  <2>1. \A c, d \in pending : c.trigger.id = d.trigger.id => c = d
    BY <1>1 DEF Retries
  <2>2. ASSUME NEW c \in pending'
        PROVE  /\ alerts'[c.trigger.id].state \in Live
               /\ c.alert = [alerts'[c.trigger.id] EXCEPT !.state = "triggered", !.version = @ + 1]
               /\ c.trigger.arming = arming'[c.trigger.id] /\ c.trigger.print > c.trigger.floor
    <3> DEFINE i == c.trigger.id
    <3>1. c \in pending /\ c \notin ok
      BY <1>4
    <3>2. \A d \in ok : d.trigger.id # i
      BY <2>1, <3>1
    <3>3. i \in Ids /\ al[i] = alerts[i] /\ al[i].state \in Live /\ arming'[i] = arming[i]
      BY <1>5, <3>1 DEF Given
    <3>4. /\ alerts'[i] = [alerts[i] EXCEPT !.state = alerts'[i].state]
          /\ alerts'[i].state \in Live
      BY <1>4, <3>2, <3>3
    <3>5. [alerts'[i] EXCEPT !.state = "triggered", !.version = @ + 1] =
          [alerts[i] EXCEPT !.state = "triggered", !.version = @ + 1]
      BY <1>2, <3>3, <3>4, DoneAlike
    <3>6. /\ c.alert = [alerts[i] EXCEPT !.state = "triggered", !.version = @ + 1]
          /\ c.trigger.arming = arming[i] /\ c.trigger.print > c.trigger.floor
      BY <1>1, <3>1 DEF Retries, RetryUndoesNothing
    <3> QED
      BY <3>3, <3>4, <3>5, <3>6
  <2> QED
    BY <1>4, <2>1, <2>2 DEF Retries, RetryUndoesNothing
<1>11. Firing'
  <2>1. \A c \in ok : /\ c.trigger.arming = arming[c.trigger.id] /\ c.trigger.print > c.trigger.floor
                      /\ arming'[c.trigger.id] = arming[c.trigger.id]
                      /\ c.trigger.id \in Ids
    BY <1>1, <1>5 DEF Retries, Given
  <2>2. \A c \in ok, t \in fired : t.id = c.trigger.id => t.arming # c.trigger.arming
    BY <1>1, <1>5, <2>1 DEF Firing
  <2>3. FiresOnce'
    BY <1>1, <1>4, <2>2 DEF Firing, FiresOnce, Retries
  <2>4. NothingStaleFires'
    BY <1>1, <1>4, <2>1 DEF Firing, NothingStaleFires
  <2>5. outgoing' \subseteq fired'
    BY <1>1, <1>4 DEF Firing, RefreshFrame
  <2>6. \A t \in fired' : t.id \in Ids /\ t.arming <= arming'[t.id]
    <3>1. SUFFICES ASSUME NEW t \in fired' PROVE t.id \in Ids /\ t.arming <= arming'[t.id]
      OBVIOUS
    <3>2. CASE t \in fired
      <4>1. t.id \in Ids /\ t.arming \in Nat /\ t.arming <= arming[t.id] /\ arming[t.id] <= arming'[t.id]
        BY <1>1, <1>2, <3>2 DEF Firing, Trigger, Given
      <4> QED
        BY <1>2, <4>1 DEF Given
    <3>3. ASSUME NEW c \in ok, t = c.trigger PROVE t.id \in Ids /\ t.arming <= arming'[t.id]
      BY <1>2, <2>1, <3>3
    <3> QED
      BY <1>4, <3>2, <3>3
  <2>7. ASSUME NEW t \in fired', t.arming = arming'[t.id]
        PROVE  disk'[t.id].state \notin Live \cup {"paused"}
    <3>1. ASSUME NEW c \in ok, c.trigger.id = t.id
          PROVE  disk'[t.id].state \notin Live \cup {"paused"}
      <4>1. disk'[t.id].state = "triggered"
        BY <1>4, <3>1
      <4> QED
        BY <4>1 DEF Live
    <3>2. CASE \A c \in ok : c.trigger.id # t.id
      <4>1. t \in fired
        BY <1>4, <3>2
      <4> QED
        BY <1>4, <2>6, <2>7, <3>2, <4>1 DEF Given
    <3> QED
      BY <3>1, <3>2
  <2>8. ASSUME NEW i \in Ids, arming'[i] = 0 PROVE alerts'[i] = NoAlert /\ disk'[i] = NoAlert
    <3>1. al[i] = NoAlert /\ stored0[i] = NoAlert
      BY <2>8 DEF Given
    <3>2. \A c \in ok : c.trigger.id # i
      <4>1. ASSUME NEW c \in ok, c.trigger.id = i PROVE FALSE
        <5>1. alerts[i].state \in Live /\ al[i] = alerts[i]
          BY <1>5, <4>1 DEF Given
        <5> QED
          BY <3>1, <5>1 DEF NoAlert, Live
      <4> QED
        BY <4>1
    <3> QED
      BY <1>4, <3>1, <3>2 DEF NoAlert, Live
  <2> QED
    BY <2>3, <2>4, <2>5, <2>6, <2>7, <2>8 DEF Firing
<1>12. Down'
  BY DEF Down, Up, RefreshFrame
<1>13. MemoryIsDisk'
  <2>1. history' = diskHistory'
    OBVIOUS
  <2>2. ASSUME NEW i \in Ids
        PROVE  [alerts'[i] EXCEPT !.state = Loaded(@)] = [disk'[i] EXCEPT !.state = Loaded(@)]
    <3>1. ASSUME NEW c \in ok, c.trigger.id = i PROVE alerts'[i] = disk'[i]
      BY <1>4, <3>1
    <3>2. CASE \A c \in ok : c.trigger.id # i
      <4>1. /\ alerts'[i] = [al[i] EXCEPT !.state = alerts'[i].state] /\ disk'[i] = stored0[i]
            /\ al[i].state \notin Live => alerts'[i] = al[i]
            /\ al[i].state \in Live => alerts'[i].state \in Live
        BY <1>4, <3>2
      <4>2. al[i] \in Definition /\ stored0[i] \in Definition /\ alerts'[i] \in Definition
        BY <1>3, <1>4
      <4>3. /\ al[i].version = stored0[i].version /\ al[i].in = stored0[i].in
            /\ al[i].state = stored0[i].state \/ {al[i].state, stored0[i].state} \subseteq Live
        BY <4>2, AlikeMeans DEF Given
      <4>4. alerts'[i].version = al[i].version /\ alerts'[i].in = al[i].in
        <5> DEFINE s == alerts'[i].state
        <5>1. alerts'[i] = [al[i] EXCEPT !.state = s]
          BY <4>1
        <5> HIDE DEF s
        <5> QED
          BY <4>2, <5>1, Fields
      <4>5. alerts'[i].state = stored0[i].state \/ {alerts'[i].state, stored0[i].state} \subseteq Live
        BY <4>1, <4>3
      <4> QED
        BY <4>1, <4>2, <4>3, <4>4, <4>5, AlikeMeans
    <3> QED
      BY <3>1, <3>2
  <2>3. ASSUME NEW i \in Ids, alerts'[i].state = "triggered", NEW c \in pending', c.trigger.id = i
        PROVE  FALSE
    BY <1>10, <2>3 DEF Retries, RetryUndoesNothing, Live
  <2> QED
    BY <2>1, <2>2, <2>3 DEF MemoryIsDisk, Waits, Of
<1>14. DemandKept'
  BY Zenon DEF DemandKept, Outcome
<1> QED
  BY <1>7, <1>8, <1>9, <1>10, <1>11, <1>12, <1>13, <1>14 DEF Kept

LEMMA RefreshKeeps ==
  ASSUME Kept, RefreshFrame,
         NEW al, NEW since, NEW seen, NEW stored0,
         Given(al, since, seen, stored0), Refreshed(al, since, seen, stored0, fired)
  PROVE  Kept'
<1>1. TypeOK /\ Retries /\ MemoryIsDisk /\ Up /\ mark \in 0 .. now /\ now \in Nat
  BY DEF Kept, RefreshFrame, TypeOK
<1>2. /\ al \in [Ids -> Definition] /\ stored0 \in [Ids -> Definition]
      /\ since \in [Ids -> 0 .. now] /\ seen \in 0 .. now
  BY <1>1 DEF Given
<1>3. PICK ok \in SUBSET pending :
           /\ Outcome(ok, al, since, seen, stored0)
           /\ history' = history \cup {c.trigger : c \in ok}
           /\ diskHistory' = diskHistory \cup {c.trigger : c \in ok}
  BY <1>1, <1>2, RefreshedEach, Zenon
<1>4. history' = diskHistory' /\ history' \subseteq Trigger
  BY <1>1, <1>3 DEF MemoryIsDisk, TypeOK, Change
<1> QED
  BY <1>3, <1>4, OutcomeKeeps, Zenon

\* The ticker and a query tell of what a refresh has changed.
LEMMA RefreshShown ==
  ASSUME Kept, ShownIsCurrent, Up, Refreshed(alerts, after, mark, disk, fired),
         unseen' = (unseen \/ alerts' # alerts), shown' = shown
  PROVE  ShownIsCurrent'
<1>1. TypeOK /\ Retries /\ mark \in 0 .. now /\ alerts \in [Ids -> Definition]
      /\ disk \in [Ids -> Definition] /\ after \in [Ids -> 0 .. now] /\ pending \subseteq Change
  BY DEF Kept, TypeOK, Definition
<1>2. PICK ok \in SUBSET pending :
           /\ Outcome(ok, alerts, after, mark, disk)
           /\ history' = history \cup {c.trigger : c \in ok}
           /\ diskHistory' = diskHistory \cup {c.trigger : c \in ok}
  BY <1>1, RefreshedEach, Zenon
<1>3. SUFFICES ASSUME ~unseen, alerts' = alerts
               PROVE  shown = Snapshot(alerts', history', pending')
  BY DEF ShownIsCurrent
<1>4. ok = {}
  <2>1. ASSUME NEW c \in ok PROVE FALSE
    <3>1. alerts[c.trigger.id].state \in Live
      BY <1>1 DEF Retries, RetryUndoesNothing
    <3>2. alerts'[c.trigger.id].state = "triggered"
      BY <1>2 DEF Outcome
    <3> QED
      BY <1>3, <3>1, <3>2 DEF Live
  <2> QED
    BY <2>1
<1>5. history' = history /\ pending' = pending
  BY <1>2, <1>4 DEF Outcome
<1> QED
  BY <1>3, <1>5 DEF ShownIsCurrent
-----------------------------------------------------------------------------
(* The operator's commands, the ticker and the wiring of the feed *)

\* The types the steps below need.
LEMMA KeptTypes ==
  ASSUME Kept
  PROVE  /\ now \in Nat /\ laneAt \in Nat /\ laneAt <= now /\ mark \in 0 .. now /\ prints \in Nat
         /\ after \in [Ids -> 0 .. now] /\ floor \in [Ids -> 0 .. prints] /\ arming \in [Ids -> Nat]
         /\ alerts \in [Ids -> Definition] /\ disk \in [Ids -> Definition]
         /\ fired \subseteq Trigger /\ history \subseteq Trigger /\ pending \subseteq Change
         /\ wired \in BOOLEAN /\ unseen \in BOOLEAN
         /\ gapMs \in 0 .. now /\ pendingGap \in 0 .. now /\ heard \in 0 .. prints /\ broken \in 0 .. prints
BY DEF Kept, TypeOK, Definition

\* Memory and disk as they are, and floors as they are, are in order.
LEMMA AsItIs ==
  ASSUME Kept, Up, NEW i \in Ids, arming'[i] = arming[i]
  PROVE  /\ [alerts[i] EXCEPT !.state = Loaded(@)] = [disk[i] EXCEPT !.state = Loaded(@)]
         /\ arming[i] <= arming'[i]
         /\ arming'[i] = 0 => alerts[i] = NoAlert /\ disk[i] = NoAlert
         /\ \A t \in fired : t.id = i /\ t.arming = arming'[i] => disk[i].state \notin Live \cup {"paused"}
<1>1. MemoryIsDisk /\ Firing /\ arming[i] \in Nat
  BY KeptTypes DEF Kept
<1> QED
  BY <1>1 DEF MemoryIsDisk, Firing

LEMMA SaveKeeps ==
  ASSUME Kept, NEW i \in Ids, NEW a \in Alert, Save(i, a), ~Waits(i),
         arming' \in [Ids -> Nat], arming'[i] > 0, arming[i] <= arming'[i],
         \A k \in Ids \ {i} : arming'[k] = arming[k],
         \A t \in fired : t.id = i /\ t.arming = arming'[i] => a.state \notin Live \cup {"paused"}
  PROVE  Kept' /\ ShownIsCurrent'
<1> DEFINE al == [alerts EXCEPT ![i] = a]
           since == [after EXCEPT ![i] = now]
           stored0 == [disk EXCEPT ![i] = a]
<1>1. Refreshed(al, since, mark, stored0, fired) /\ unseen' = TRUE /\ floor' = [floor EXCEPT ![i] = prints]
  BY DEF Save
<1>2. Up /\ RefreshFrame
  BY KeptTypes DEF Save, Call, RefreshFrame, clock, lane
<1>3. a \in Definition
  BY DEF Definition
<1>4. /\ al \in [Ids -> Definition] /\ stored0 \in [Ids -> Definition]
      /\ since \in [Ids -> 0 .. now] /\ floor' \in [Ids -> 0 .. prints]
  BY <1>1, <1>3, KeptTypes
<1>5. ASSUME NEW k \in Ids, k # i
      PROVE  al[k] = alerts[k] /\ stored0[k] = disk[k] /\ since[k] = after[k] /\ floor'[k] = floor[k]
  BY <1>1, <1>5, KeptTypes
<1>6. al[i] = a /\ stored0[i] = a /\ since[i] = now /\ floor'[i] = prints
  BY <1>1, KeptTypes
<1> HIDE DEF al, since, stored0
<1>7. Given(al, since, mark, stored0)
  <2>1. ASSUME NEW k \in Ids
        PROVE  /\ [al[k] EXCEPT !.state = Loaded(@)] = [stored0[k] EXCEPT !.state = Loaded(@)]
               /\ Waits(k) => al[k] = alerts[k] /\ arming'[k] = arming[k]
               /\ arming[k] <= arming'[k]
               /\ arming'[k] = 0 => al[k] = NoAlert /\ stored0[k] = NoAlert
               /\ al[k] # NoAlert => \/ Exists(k) /\ floor'[k] = floor[k] /\ since[k] = after[k]
                                     \/ floor'[k] = prints /\ since[k] = now
               /\ \A t \in fired : t.id = k /\ t.arming = arming'[k] => stored0[k].state \notin Live \cup {"paused"}
    <3>1. CASE k = i
      BY <1>6, <3>1
    <3>2. CASE k # i
      <4>1. arming'[k] = arming[k]
        BY <3>2
      <4>2. al[k] = alerts[k] /\ stored0[k] = disk[k] /\ since[k] = after[k] /\ floor'[k] = floor[k]
        BY <1>5, <3>2
      <4> QED
        BY <1>2, <4>1, <4>2, AsItIs DEF Exists
    <3> QED
      BY <3>1, <3>2
  <2> QED
    BY <1>4, <2>1 DEF Given
<1>8. Kept'
  BY <1>1, <1>2, <1>7, RefreshKeeps, Zenon
<1>9. ShownIsCurrent'
  BY <1>1 DEF ShownIsCurrent
<1> QED
  BY <1>8, <1>9

LEMMA CreateKeeps ==
  ASSUME Kept, NEW i \in Ids, NEW s \in Selections, Create(i, s)
  PROVE  Kept' /\ ShownIsCurrent'
<1> DEFINE a == [state |-> "data", version |-> 1, in |-> s]
<1>1. a \in Alert
  BY DEF Alert, Live
<1>2. arming[i] = 0 /\ arming' = [arming EXCEPT ![i] = 1] /\ Save(i, a)
  BY DEF Create
<1>3. alerts[i] = NoAlert
  BY <1>2 DEF Kept, Firing
<1>4. ~Waits(i)
  <2>1. ASSUME NEW c \in pending, c.trigger.id = i PROVE FALSE
    <3>1. alerts[i].state \in Live
      BY <2>1 DEF Kept, Retries, RetryUndoesNothing
    <3> QED
      BY <1>3, <3>1 DEF NoAlert, Live
  <2> QED
    BY <2>1 DEF Waits, Of
<1>5. \A t \in fired : t.id = i => t.arming # 1
  <2>1. \A t \in fired : t.arming \in Nat /\ t.arming <= arming[t.id]
    BY KeptTypes DEF Kept, Firing, Trigger
  <2> QED
    BY <1>2, <2>1
<1>6. /\ arming' \in [Ids -> Nat] /\ arming'[i] = 1
      /\ \A k \in Ids \ {i} : arming'[k] = arming[k]
  BY <1>2, KeptTypes
<1> QED
  BY <1>1, <1>2, <1>4, <1>5, <1>6, SaveKeeps

LEMMA EditKeeps ==
  ASSUME Kept, NEW i \in Ids, NEW s \in Selections, NEW rearm \in BOOLEAN, Edit(i, s, rearm)
  PROVE  Kept' /\ ShownIsCurrent'
<1> DEFINE a == [state |-> EditedState(alerts[i].state, rearm), version |-> alerts[i].version + 1, in |-> s]
<1>1. /\ Exists(i) /\ ~Waits(i) /\ Save(i, a) /\ Up
      /\ rearm => alerts[i].state = "triggered"
      /\ arming' = IF rearm THEN [arming EXCEPT ![i] = @ + 1] ELSE arming
  BY DEF Edit, HeldBack, Save, Call
<1>2. alerts[i] \in Definition /\ alerts[i].version \in Nat /\ disk[i] \in Definition
  BY KeptTypes, Fields
<1>3. a \in Alert
  BY <1>2 DEF Alert, Live, EditedState
<1>4. /\ arming' \in [Ids -> Nat] /\ arming[i] <= arming'[i]
      /\ arming'[i] = arming[i] + (IF rearm THEN 1 ELSE 0)
      /\ \A k \in Ids \ {i} : arming'[k] = arming[k]
  BY <1>1, KeptTypes
<1>5. arming[i] \in Nat /\ arming[i] # 0
  BY <1>1, KeptTypes DEF Exists, Kept, Firing
<1>6. ASSUME NEW t \in fired, t.id = i, t.arming = arming'[i]
      PROVE  a.state \notin Live \cup {"paused"}
  <2>1. t.arming <= arming[i] /\ (t.arming = arming[i] => disk[i].state \notin Live \cup {"paused"})
    BY <1>6 DEF Kept, Firing
  <2>2. ~rearm /\ t.arming = arming[i]
    BY <1>4, <1>5, <1>6, <2>1
  <2>3. alerts[i].state \notin Live \cup {"paused"}
    BY <1>1, <1>2, <2>1, <2>2, AlikeMeans DEF Kept, MemoryIsDisk
  <2>4. alerts[i].state = "triggered"
    BY <1>1, <1>2, <2>3, Fields DEF Exists, States
  <2> QED
    BY <2>2, <2>4 DEF EditedState, Live
<1>7. arming'[i] > 0
  BY <1>4, <1>5
<1> HIDE DEF a
<1> QED
  BY <1>1, <1>3, <1>4, <1>6, <1>7, SaveKeeps

\* A query and the ticker refresh what there is.
LEMMA QueryKeeps ==
  ASSUME Kept, ShownIsCurrent, Query \/ Refresh
  PROVE  Kept' /\ ShownIsCurrent'
<1>1. /\ Up /\ Refreshed(alerts, after, mark, disk, fired)
      /\ unseen' = (unseen \/ alerts' # alerts) /\ shown' = shown
      /\ arming' = arming /\ floor' = floor
  BY DEF Query, Refresh, Call, Up
<1>2. RefreshFrame
  <2>1. unseen' \in BOOLEAN
    BY <1>1, Zenon
  <2>2. wired' \in BOOLEAN
    BY KeptTypes DEF Query, Refresh
  <2> QED
    BY <1>1, <2>1, <2>2 DEF RefreshFrame, Query, Refresh, Call, clock, lane
<1>3. Given(alerts, after, mark, disk)
  BY <1>1, KeptTypes, AsItIs DEF Given, Exists
<1> QED
  BY <1>1, <1>2, <1>3, RefreshKeeps, RefreshShown, Zenon

LEMMA SetDemandKeeps ==
  ASSUME Kept, SetDemand
  PROVE  Kept' /\ ShownIsCurrent'
<1> DEFINE since == [i \in Ids |-> IF Exists(i) THEN now ELSE 0]
<1>1. /\ Up /\ Refreshed(alerts, since, 0, disk, fired) /\ unseen' = TRUE
      /\ arming' = arming /\ floor' = [i \in Ids |-> prints]
  BY DEF SetDemand
<1>2. RefreshFrame
  BY DEF RefreshFrame, SetDemand, clock, lane
<1>3. since \in [Ids -> 0 .. now] /\ floor' \in [Ids -> 0 .. prints]
  BY <1>1, KeptTypes
<1>4. \A i \in Ids : floor'[i] = prints /\ (Exists(i) => since[i] = now)
  BY <1>1
<1> HIDE DEF since
<1>5. Given(alerts, since, 0, disk)
  BY <1>1, <1>3, <1>4, KeptTypes, AsItIs DEF Given, Exists
<1>6. Kept'
  BY <1>1, <1>2, <1>5, RefreshKeeps, Zenon DEF since
<1>7. ShownIsCurrent'
  BY <1>1 DEF ShownIsCurrent
<1> QED
  BY <1>6, <1>7

\* Pausing, resuming and deleting an alert repeat no write: another alert is
\* as it was, and this one counts from now or is gone.
LEMMA CommandKeeps ==
  ASSUME Kept, Call, NEW i \in Ids, NEW a \in Definition, NEW t \in {0, now},
         ~Waits(i), Exists(i), unseen' = TRUE,
         alerts' = [alerts EXCEPT ![i] = a], disk' = [disk EXCEPT ![i] = a], after' = [after EXCEPT ![i] = t],
         \/ a = NoAlert /\ floor' = floor
         \/ a.state \in {"paused", "data"} /\ t = now /\ floor' = [floor EXCEPT ![i] = prints],
         alerts[i].state # "triggered" \/ a = NoAlert,
         UNCHANGED <<history, pending, mark, gapMs, wired, diskHistory, upsets, arming, fired>>,
         Reconcile(alerts')
  PROVE  Kept' /\ ShownIsCurrent'
<1>1. Up /\ RefreshFrame
  BY KeptTypes DEF Call, RefreshFrame, clock, lane
<1>2. /\ alerts' \in [Ids -> Definition] /\ disk' \in [Ids -> Definition] /\ after' \in [Ids -> 0 .. now]
      /\ floor' \in [Ids -> 0 .. prints] /\ arming' \in [Ids -> Nat]
  BY KeptTypes
<1>3. ASSUME NEW k \in Ids, k # i
      PROVE  alerts'[k] = alerts[k] /\ disk'[k] = disk[k] /\ after'[k] = after[k] /\ floor'[k] = floor[k]
  BY <1>3, KeptTypes
<1>4. alerts'[i] = a /\ disk'[i] = a /\ after'[i] = t /\ (a # NoAlert => floor'[i] = prints /\ t = now)
  BY KeptTypes
<1>5. arming[i] # 0
  BY DEF Kept, Firing, Exists
<1>6. \A s \in fired : s.id = i /\ s.arming = arming[i] => a.state \notin Live \cup {"paused"}
  <2>1. CASE a = NoAlert
    BY <2>1 DEF NoAlert, Live
  <2>2. CASE alerts[i].state # "triggered"
    <3>1. alerts[i] \in Definition /\ disk[i] \in Definition
      BY KeptTypes
    <3>2. alerts[i].state \in Live \cup {"paused"}
      BY <2>2, <3>1, Fields DEF Exists, States
    <3>3. disk[i].state \in Live \cup {"paused"}
      BY <1>1, <3>1, <3>2, AlikeMeans DEF Kept, MemoryIsDisk
    <3> QED
      BY <3>3 DEF Kept, Firing
  <2> QED
    BY <2>1, <2>2
<1>7. Given(alerts', after', mark, disk')
  <2>1. ASSUME NEW k \in Ids
        PROVE  /\ [alerts'[k] EXCEPT !.state = Loaded(@)] = [disk'[k] EXCEPT !.state = Loaded(@)]
               /\ Waits(k) => alerts'[k] = alerts[k] /\ arming'[k] = arming[k]
               /\ arming[k] <= arming'[k]
               /\ arming'[k] = 0 => alerts'[k] = NoAlert /\ disk'[k] = NoAlert
               /\ alerts'[k] # NoAlert => \/ Exists(k) /\ floor'[k] = floor[k] /\ after'[k] = after[k]
                                          \/ floor'[k] = prints /\ after'[k] = now
               /\ \A s \in fired : s.id = k /\ s.arming = arming'[k] => disk'[k].state \notin Live \cup {"paused"}
    <3>1. CASE k = i
      BY <1>4, <1>5, <1>6, <3>1, KeptTypes
    <3>2. CASE k # i
      BY <1>1, <1>3, <3>2, AsItIs DEF Exists
    <3> QED
      BY <3>1, <3>2
  <2> QED
    BY <1>2, <2>1 DEF Given
<1>8. Outcome({}, alerts', after', mark, disk')
  <2>1. pending' = pending \ {} /\ fired' = fired \cup {c.trigger : c \in {}} /\ mark' = mark
    OBVIOUS
  <2>2. demanded' = (wired' /\ WantedIn(alerts', reckoned'))
    BY Zenon DEF Reconcile
  <2>3. ASSUME NEW k \in Ids
        PROVE  /\ alerts'[k] = [alerts'[k] EXCEPT !.state = alerts'[k].state]
               /\ alerts'[k].state = "monitoring" => Same(k)
    <3>1. alerts'[k] \in Definition
      BY <1>2
    <3>2. alerts'[k] = [alerts'[k] EXCEPT !.state = alerts'[k].state]
      BY <3>1, Fields
    <3>3. CASE k = i
      BY <1>4, <3>2, <3>3 DEF NoAlert
    <3>4. CASE k # i
      BY <1>3, <3>2, <3>4 DEF Same
    <3> QED
      BY <3>3, <3>4
  <2> QED
    BY <1>2, <2>1, <2>2, <2>3 DEF Outcome
<1>9. history' = diskHistory' /\ history' \subseteq Trigger
  BY <1>1, KeptTypes DEF Kept, MemoryIsDisk
<1>10. Kept'
  <2>1. {} \in SUBSET pending
    OBVIOUS
  <2> QED
    BY <1>1, <1>7, <1>8, <1>9, <2>1, OutcomeKeeps, Zenon
<1>11. ShownIsCurrent'
  BY DEF ShownIsCurrent
<1> QED
  BY <1>10, <1>11

LEMMA SetPausedKeeps ==
  ASSUME Kept, NEW i \in Ids, NEW paused \in BOOLEAN, SetPaused(i, paused)
  PROVE  Kept' /\ ShownIsCurrent'
<1> DEFINE a == [alerts[i] EXCEPT !.state = IF paused THEN "paused" ELSE "data", !.version = @ + 1]
<1>1. /\ Call /\ ~Waits(i) /\ Exists(i) /\ alerts[i].state # "triggered"
      /\ alerts' = [alerts EXCEPT ![i] = a] /\ disk' = [disk EXCEPT ![i] = a]
      /\ after' = [after EXCEPT ![i] = now] /\ floor' = [floor EXCEPT ![i] = prints] /\ unseen' = TRUE
      /\ UNCHANGED <<history, pending, mark, gapMs, wired, diskHistory, upsets, arming, fired>>
      /\ Reconcile(alerts')
  BY DEF SetPaused, HeldBack
<1>2. alerts[i] \in Alert
  BY <1>1, KeptTypes DEF Exists, Definition
<1>3. a \in Alert /\ a.state \in {"paused", "data"}
  <2> DEFINE s == IF paused THEN "paused" ELSE "data"
  <2>1. s \in {"paused", "data"}
    OBVIOUS
  <2>2. a = [alerts[i] EXCEPT !.state = s, !.version = @ + 1]
    OBVIOUS
  <2> HIDE DEF s, a
  <2>3. s \in States \ {"none"}
    BY <2>1 DEF States, Live
  <2> QED
    <3> DEFINE x == alerts[i]
    <3>1. x \in Alert /\ a = [x EXCEPT !.state = s, !.version = @ + 1]
      BY <1>2, <2>2
    <3> HIDE DEF x
    <3>2. /\ x.version \in Nat /\ x.in \in Selections
          /\ x = [state |-> x.state, version |-> x.version, in |-> x.in]
      BY <3>1 DEF Alert
    <3>3. a = [state |-> s, version |-> x.version + 1, in |-> x.in]
      BY <3>1, <3>2
    <3>4. a \in Alert /\ a.state = s
      BY <2>3, <3>2, <3>3 DEF Alert, States
    <3> QED
      BY <2>1, <3>4
<1> HIDE DEF a
<1> QED
  BY <1>1, <1>3, CommandKeeps DEF Definition

LEMMA DeleteKeeps ==
  ASSUME Kept, NEW i \in Ids, Delete(i)
  PROVE  Kept' /\ ShownIsCurrent'
<1>1. /\ Call /\ ~Waits(i) /\ Exists(i)
      /\ alerts' = [alerts EXCEPT ![i] = NoAlert] /\ disk' = [disk EXCEPT ![i] = NoAlert]
      /\ after' = [after EXCEPT ![i] = 0] /\ floor' = floor /\ unseen' = TRUE
      /\ UNCHANGED <<history, pending, mark, gapMs, wired, diskHistory, upsets, arming, fired>>
      /\ Reconcile(alerts')
  BY DEF Delete, HeldBack
<1> QED
  BY <1>1, CommandKeeps DEF Definition
-----------------------------------------------------------------------------
(* Steps that leave the definitions alone *)

\* Where nothing an alert depends on changes: a trigger leaves the history, a
\* trigger is announced, a print is dropped, the UI is told, time passes.
LEMMA IdleKeeps ==
  ASSUME Kept,
         UNCHANGED <<laneAt, alerts, pending, after, mark, gapMs, wired, demanded, disk, lane,
                     arming, floor, broken, heard, reckoned>>,
         now' \in {now, now + 1}, now' <= MaxClock, coverage' \in {"none", "covered", "full"},
         run' \in {"down", "select", "ingest", "publish", "flush"}, run' = "down" <=> run = "down",
         taken' \in {taken, NoPrint}, run' = "ingest" => run = "ingest" /\ taken' = taken,
         unseen' \in BOOLEAN, ~Up => unseen' = unseen /\ taken' = taken,
         history' \subseteq history, diskHistory' \subseteq diskHistory, Up => history' = diskHistory',
         fired' = fired \cup outgoing, outgoing' \subseteq outgoing
  PROVE  Kept'
<1>1. TypeOK /\ Queue /\ Hearing /\ Retries /\ Firing /\ Down /\ MemoryIsDisk /\ DemandKept
  BY DEF Kept
<1>2. NoPrint \in EligiblePrint /\ NoPrint.n = 0 /\ NoPrint.recv = 0
  BY DEF NoPrint, EligiblePrint
<1>3. fired' = fired
  BY <1>1 DEF Firing
<1>4. TypeOK'
  <2>1. taken' \in EligiblePrint
    BY <1>1, <1>2 DEF TypeOK
  <2>2. now' \in 1 .. MaxClock /\ laneAt' \in 1 .. now' /\ after' \in [Ids -> 0 .. now'] /\ mark' \in 0 .. now'
        /\ gapMs' \in 0 .. now' /\ pendingGap' \in 0 .. now'
    <3>1. now \in 1 .. MaxClock /\ laneAt \in 1 .. now /\ after \in [Ids -> 0 .. now] /\ mark \in 0 .. now
          /\ gapMs \in 0 .. now /\ pendingGap \in 0 .. now
      BY <1>1 DEF TypeOK
    <3>2. now' \in 1 .. MaxClock /\ now <= now' /\ now \in Nat /\ now' \in Nat /\ MaxClock \in Nat
      BY <3>1, AlertAssumption
    <3>3. after' = after /\ laneAt' = laneAt /\ mark' = mark /\ gapMs' = gapMs /\ pendingGap' = pendingGap
      BY DEF lane
    <3>4. \A n \in 0 .. now : n \in 0 .. now'
      BY <3>2
    <3> QED
      BY <3>1, <3>2, <3>3, <3>4
  <2>3. /\ alerts' \in [Ids -> Alert \cup {NoAlert}] /\ disk' \in [Ids -> Alert \cup {NoAlert}]
        /\ history' \cup diskHistory' \cup outgoing' \cup fired' \subseteq Trigger /\ pending' \subseteq Change
        /\ wired' \in BOOLEAN /\ demanded' \in BOOLEAN
        /\ input' \in Seq(EligiblePrint) /\ Len(input') <= QueueSize
        /\ prints' \in 0 .. MaxPrints /\ heard' \in 0 .. prints' /\ broken' \in 0 .. prints'
        /\ arming' \in [Ids -> Nat] /\ floor' \in [Ids -> 0 .. prints']
    BY <1>1, <1>3 DEF TypeOK, lane
  <2> QED
    BY <2>1, <2>2, <2>3 DEF TypeOK
<1>5. Queue'
  <2>1. \A p \in UnderWay' : p \in UnderWay \/ p = NoPrint
    BY DEF UnderWay, lane
  <2>2. UNCHANGED <<alerts, after, floor, prints, laneAt, pendingGap, broken, heard, input>>
    BY DEF lane
  <2>3. ASSUME NEW p \in UnderWay'
        PROVE  /\ p.n <= prints' /\ p.recv <= laneAt'
               /\ \A i \in Ids : Exists(i)' /\ p.n <= floor'[i] => p.recv <= after'[i]
               /\ pendingGap' > 0 /\ p.n <= broken' => p.recv <= pendingGap'
    <3>1. CASE p \in UnderWay
      BY <1>1, <2>2, <3>1 DEF Queue, Exists
    <3>2. CASE p = NoPrint
      BY <1>2, <2>2, <3>2, KeptTypes
    <3> QED
      BY <2>1, <3>1, <3>2
  <2>4. run' = "ingest" => taken'.n > heard'
    BY <1>1, <2>2 DEF Queue
  <2>5. ASSUME NEW k \in 1 .. Len(input')
        PROVE  /\ input'[k].n > taken'.n /\ input'[k].n > heard'
               /\ \A l \in 1 .. k - 1 : input'[l].n < input'[k].n
    <3>1. input[k].n > taken.n /\ input[k].n > heard /\ \A l \in 1 .. k - 1 : input[l].n < input[k].n
      BY <1>1, <2>2, <2>5 DEF Queue
    <3>2. heard \in Nat /\ input[k].n \in Nat
      BY <1>1, <2>2, <2>5, KeptTypes, UnderWayType
    <3> QED
      BY <1>2, <2>2, <3>1, <3>2
  <2> QED
    BY <2>3, <2>4, <2>5 DEF Queue
<1>6. Hearing'
  BY <1>1 DEF Hearing, MonitoringHasHeard, Exists
<1>7. Retries'
  BY <1>1 DEF Retries, RetryUndoesNothing
<1>8. Firing'
  BY <1>1, <1>3 DEF Firing, FiresOnce, NothingStaleFires
<1>9. Down'
  BY <1>1 DEF Down, Up, lane
<1>10. MemoryIsDisk'
  BY <1>1 DEF MemoryIsDisk, Up, Waits, Of
<1>11. DemandKept'
  BY <1>1 DEF DemandKept, Up, WantedIn
<1> QED
  BY <1>4, <1>5, <1>6, <1>7, <1>8, <1>9, <1>10, <1>11 DEF Kept

\* The snapshot stays current where neither it nor what it shows changes.
LEMMA ShownStays ==
  ASSUME ShownIsCurrent, UNCHANGED <<alerts, history, pending, shown, unseen>>, Up' => Up
  PROVE  ShownIsCurrent'
BY DEF ShownIsCurrent, Snapshot

LEMMA IdleStepsKeep ==
  ASSUME Kept, ShownIsCurrent,
         \/ \E t \in history : DeleteTrigger(t)
         \/ Discard \/ Publish \/ Flush \/ World
  PROVE  Kept' /\ ShownIsCurrent'
<1> USE DEF clock, memory, stored, lane, screen, ghosts
<1>1. /\ now \in Nat /\ now <= MaxClock /\ coverage \in {"none", "covered", "full"}
      /\ run \in {"down", "select", "ingest", "publish", "flush"} /\ unseen \in BOOLEAN
      /\ Up => history = diskHistory
      /\ outgoing \subseteq fired
  BY KeptTypes DEF Kept, TypeOK, MemoryIsDisk, Firing
<1>2. ASSUME NEW t \in history, DeleteTrigger(t) PROVE Kept' /\ ShownIsCurrent'
  <2>1. Kept'
    BY <1>1, <1>2, IdleKeeps DEF DeleteTrigger, Call, Up
  <2>2. ShownIsCurrent'
    BY <1>2 DEF DeleteTrigger, ShownIsCurrent
  <2> QED
    BY <2>1, <2>2
<1>3. CASE Discard
  <2>1. Kept'
    BY <1>1, <1>3, IdleKeeps DEF Discard, Up
  <2> QED
    BY <1>3, <2>1, ShownStays DEF Discard, Up
<1>4. CASE Publish
  <2>1. Kept'
    BY <1>1, <1>4, IdleKeeps DEF Publish, Up
  <2> QED
    BY <1>4, <2>1, ShownStays DEF Publish, Up
<1>5. CASE Flush
  <2>1. Kept'
    BY <1>1, <1>5, IdleKeeps DEF Flush, Up
  <2>2. ShownIsCurrent'
    BY <1>5 DEF Flush, ShownIsCurrent, Up, Snapshot
  <2> QED
    BY <2>1, <2>2
<1>6. CASE World
  <2>1. /\ now' \in {now, now + 1} /\ now' <= MaxClock /\ coverage' \in {"none", "covered", "full"}
        /\ UNCHANGED <<laneAt, memory, stored, lane, run, taken, outgoing, screen, ghosts>>
    <3>1. CASE Tick
      BY <1>1, <3>1, AlertAssumption DEF Tick
    <3>2. ASSUME NEW c \in {"none", "covered", "full"}, Cover(c)
          PROVE  /\ now' = now /\ coverage' \in {"none", "covered", "full"}
                 /\ UNCHANGED <<laneAt, memory, stored, lane, run, taken, outgoing, screen, ghosts>>
      BY <3>2 DEF Cover
    <3> QED
      BY <1>1, <1>6, <3>1, <3>2 DEF World
  <2>2. Kept'
    BY <1>1, <2>1, IdleKeeps DEF Up
  <2> QED
    BY <2>1, <2>2, ShownStays DEF Up
<1> QED
  BY <1>2, <1>3, <1>4, <1>5, <1>6
-----------------------------------------------------------------------------
(* Prints and gaps *)

\* What the lane alone does not touch.
LEMMA LaneKeeps ==
  ASSUME Kept, Up, UNCHANGED <<memory, stored, run, taken, outgoing, arming, floor, heard, fired, reckoned>>
  PROVE  Hearing' /\ Retries' /\ Firing' /\ Down' /\ MemoryIsDisk' /\ DemandKept'
<1> USE DEF Kept, memory, stored
<1>1. Hearing'
  BY DEF Hearing, MonitoringHasHeard, Exists
<1>2. Retries'
  BY DEF Retries, RetryUndoesNothing
<1>3. Firing'
  BY DEF Firing, FiresOnce, NothingStaleFires
<1>4. Down'
  BY DEF Down, Up
<1>5. MemoryIsDisk'
  BY DEF MemoryIsDisk, Up, Waits, Of
<1>6. DemandKept'
  BY DEF DemandKept, Up, WantedIn
<1> QED
  BY <1>1, <1>2, <1>3, <1>4, <1>5, <1>6

\* A print gets the next number and no earlier time than those before it; one
\* that is dropped leaves a gap behind which all prints under way fall.
LEMMA FeedKeeps ==
  ASSUME Kept, ShownIsCurrent, NEW at \in 1 .. MaxClock, NEW s \in 1 .. 2, Feed(at, s)
  PROVE  Kept' /\ ShownIsCurrent'
<1> DEFINE new == [n |-> prints + 1, recv |-> at, session |-> s]
<1>1. /\ Up /\ prints < MaxPrints /\ at \in laneAt .. now /\ prints' = prints + 1 /\ laneAt' = at
      /\ UNCHANGED <<now, coverage, memory, stored, run, taken, outgoing, screen, calls, upsets,
                     arming, floor, heard, fired, reckoned>>
  BY DEF Feed
<1>2. TypeOK /\ Queue /\ at \in Nat /\ at <= now /\ laneAt <= at /\ prints \in Nat /\ MaxPrints \in Nat
  BY <1>1, KeptTypes, AlertAssumption DEF Kept
<1>3. new \in EligiblePrint /\ new.n = prints + 1 /\ new.recv = at
  BY <1>2 DEF EligiblePrint
<1> HIDE DEF new
<1>4. /\ now' = now /\ coverage' = coverage /\ alerts' = alerts /\ history' = history /\ pending' = pending
      /\ after' = after /\ mark' = mark /\ gapMs' = gapMs /\ wired' = wired /\ demanded' = demanded
      /\ disk' = disk /\ diskHistory' = diskHistory /\ run' = run /\ taken' = taken /\ outgoing' = outgoing
      /\ unseen' = unseen /\ shown' = shown /\ arming' = arming /\ floor' = floor /\ heard' = heard
      /\ fired' = fired
  BY <1>1 DEF memory, stored, screen
<1>5. /\ pendingGap' \in 0 .. now /\ broken' \in 0 .. prints + 1 /\ input' \in Seq(EligiblePrint)
      /\ Len(input') <= QueueSize
  <2>1. CASE ~Full /\ input' = Append(input, new) /\ UNCHANGED <<pendingGap, broken>>
    <3>1. Len(input) \in Nat /\ Len(input) < QueueSize /\ QueueSize \in Nat /\ input \in Seq(EligiblePrint)
      BY SMTT(40), <1>2, <2>1, AlertAssumption, UnderWayType DEF Full, TypeOK
    <3>2. input' \in Seq(EligiblePrint) /\ Len(input') = Len(input) + 1
      BY <1>3, <2>1, <3>1, AppendProperties
    <3> QED
      BY <1>2, <2>1, <3>1, <3>2, KeptTypes
  <2>2. CASE pendingGap' = now /\ broken' = prints + 1 /\ input' = input
    BY <1>2, <2>2, KeptTypes DEF TypeOK
  <2> QED
    BY <2>1, <2>2 DEF Feed, new
<1>6. TypeOK'
  <2>1. /\ prints' \in 0 .. MaxPrints /\ heard' \in 0 .. prints' /\ broken' \in 0 .. prints'
        /\ laneAt' \in 1 .. now'
    BY <1>1, <1>2, <1>4, <1>5, KeptTypes
  <2>2. floor' \in [Ids -> 0 .. prints']
    <3>1. \A n \in 0 .. prints : n \in 0 .. prints'
      BY <1>1, <1>2
    <3> QED
      BY <1>4, <3>1, KeptTypes
  <2>3. UNCHANGED <<alerts, disk, history, diskHistory, outgoing, fired, pending, after, mark, taken, gapMs,
                    wired, demanded, unseen, run, arming, now, coverage>>
    BY <1>4
  <2> QED
    BY <1>2, <1>5, <2>1, <2>2, <2>3 DEF TypeOK
<1>7. Queue'
  <2>1. \A p \in UnderWay : p.n \in Nat /\ p.recv \in Nat /\ p.n <= prints /\ p.recv <= laneAt /\ p.recv <= at
    BY <1>2, UnderWayType, KeptTypes DEF Queue
  <2>2. taken \in UnderWay /\ \A k \in 1 .. Len(input) : input[k] \in UnderWay
    BY <1>2, UnderWayType
  <2>3. CASE input' = Append(input, new) /\ UNCHANGED <<pendingGap, broken>>
    <3>1. input \in Seq(EligiblePrint) /\ Len(input) \in Nat
      BY <1>2, UnderWayType DEF TypeOK
    <3>2. /\ Len(input') = Len(input) + 1
          /\ \A k \in 1 .. Len(input) : input'[k] = input[k]
          /\ input'[Len(input) + 1] = new
      BY <1>3, <2>3, <3>1, AppendProperties
    <3>3. \A k \in 1 .. Len(input') : k \in 1 .. Len(input) \/ k = Len(input) + 1
      BY <3>1, <3>2
    <3>4. \A p \in UnderWay' : p \in UnderWay \/ p = new
      <4>1. \A k \in 1 .. Len(input') : input'[k] \in UnderWay \/ input'[k] = new
        BY <2>2, <3>2, <3>3
      <4> QED
        BY <1>4, <2>2, <4>1, Zenon DEF UnderWay
    <3>5. \A i \in Ids : floor[i] <= prints /\ floor[i] \in Nat /\ ~(prints + 1 <= floor[i])
      BY <1>2, KeptTypes
    <3>6. ~(prints + 1 <= broken)
      BY <1>2, KeptTypes
    <3>7. ASSUME NEW p \in UnderWay'
          PROVE  /\ p.n <= prints' /\ p.recv <= laneAt'
                 /\ \A i \in Ids : Exists(i)' /\ p.n <= floor'[i] => p.recv <= after'[i]
                 /\ pendingGap' > 0 /\ p.n <= broken' => p.recv <= pendingGap'
      <4>1. CASE p \in UnderWay
        <5>1. p.n <= prints' /\ p.recv <= laneAt'
          BY <1>1, <1>2, <2>1, <4>1
        <5> QED
          BY <1>2, <1>4, <2>3, <4>1, <5>1 DEF Queue, Exists
      <4>2. CASE p = new
        BY <1>1, <1>2, <1>3, <1>4, <2>3, <3>5, <3>6, <4>2
      <4> QED
        BY <3>4, <4>1, <4>2
    <3>8. ASSUME NEW k \in 1 .. Len(input')
          PROVE  /\ input'[k].n > taken'.n /\ input'[k].n > heard'
                 /\ \A l \in 1 .. k - 1 : input'[l].n < input'[k].n
      <4>1. CASE k \in 1 .. Len(input)
        <5>1. \A l \in 1 .. k - 1 : l \in 1 .. Len(input)
          BY <3>1, <4>1
        <5> QED
          BY <1>2, <1>4, <3>2, <4>1, <5>1 DEF Queue
      <4>2. CASE k = Len(input) + 1
        <5>1. \A l \in 1 .. k - 1 : l \in 1 .. Len(input)
          BY <3>1, <4>2
        <5>2. input'[k].n = prints + 1
          BY <1>3, <3>2, <4>2
        <5>3. heard \in Nat /\ heard <= prints
          BY <1>2, KeptTypes
        <5> QED
          BY <1>2, <1>4, <2>1, <2>2, <3>2, <5>1, <5>2, <5>3
      <4> QED
        BY <3>3, <4>1, <4>2
    <3> QED
      BY <1>2, <1>4, <3>7, <3>8 DEF Queue
  <2>4. CASE pendingGap' = now /\ broken' = prints + 1 /\ input' = input
    <3>1. UnderWay' = UnderWay
      BY <1>4, <2>4 DEF UnderWay
    <3>2. \A p \in UnderWay : p.n <= prints' /\ p.recv <= laneAt' /\ p.recv <= now
      BY <1>1, <1>2, <2>1, KeptTypes
    <3> QED
      BY <1>2, <1>4, <2>4, <3>1, <3>2 DEF Queue, Exists
  <2> QED
    BY <2>3, <2>4 DEF Feed, new
<1>8. ShownIsCurrent'
  BY <1>4, ShownStays DEF Up
<1>9. Kept'
  BY <1>1, <1>6, <1>7, LaneKeeps DEF Kept
<1> QED
  BY <1>8, <1>9

\* No print under way is later than a gap that is announced.
LEMMA FeedGapKeeps ==
  ASSUME Kept, ShownIsCurrent, NEW at \in 1 .. MaxClock, FeedGap(at)
  PROVE  Kept' /\ ShownIsCurrent'
<1>1. /\ Up /\ pendingGap' = at /\ broken' = prints /\ laneAt' \in {laneAt, at} /\ at \in laneAt .. now
      /\ UNCHANGED <<now, coverage, memory, stored, input, prints, run, taken, outgoing, screen,
                     calls, arming, floor, heard, fired, reckoned>>
  BY KeptTypes DEF FeedGap
<1>2. TypeOK /\ Queue /\ at \in Nat /\ at <= now /\ laneAt <= at /\ prints \in Nat /\ laneAt \in 1 .. now
  BY <1>1, KeptTypes DEF Kept, TypeOK
<1>3. /\ now' = now /\ coverage' = coverage /\ alerts' = alerts /\ history' = history /\ pending' = pending
      /\ after' = after /\ mark' = mark /\ gapMs' = gapMs /\ wired' = wired /\ demanded' = demanded
      /\ disk' = disk /\ diskHistory' = diskHistory /\ run' = run /\ taken' = taken /\ outgoing' = outgoing
      /\ unseen' = unseen /\ shown' = shown /\ arming' = arming /\ floor' = floor /\ heard' = heard
      /\ fired' = fired /\ input' = input /\ prints' = prints
  BY <1>1 DEF memory, stored, screen
<1>4. TypeOK'
  <2>1. laneAt' \in 1 .. now' /\ pendingGap' \in 0 .. now' /\ broken' \in 0 .. prints'
    BY <1>1, <1>2, <1>3
  <2> QED
    BY <1>2, <1>3, <2>1 DEF TypeOK
<1>5. Queue'
  <2>1. UnderWay' = UnderWay
    BY <1>3 DEF UnderWay
  <2>2. \A p \in UnderWay : p.recv <= at /\ p.recv <= laneAt'
    BY <1>1, <1>2, UnderWayType DEF Queue
  <2> QED
    BY <1>1, <1>2, <1>3, <2>1, <2>2 DEF Queue, Exists
<1>6. ShownIsCurrent'
  BY <1>3, ShownStays DEF Up
<1>7. Kept'
  BY <1>1, <1>4, <1>5, LaneKeeps DEF Kept
<1> QED
  BY <1>6, <1>7

\* What each print under way must fulfil.
Passed(p) == /\ p.n <= prints /\ p.recv <= laneAt
             /\ \A i \in Ids : Exists(i) /\ p.n <= floor[i] => p.recv <= after[i]
             /\ pendingGap > 0 /\ p.n <= broken => p.recv <= pendingGap

\* A gap makes what is live wait for data, and the time it counts from passes
\* over every print that was under way when the gap was announced.
LEMMA GapKeeps ==
  ASSUME Kept, Up, pendingGap > 0, IngestGap, run' # "down",
         UNCHANGED <<now, laneAt, history, pending, wired, demanded, disk, diskHistory, prints, outgoing,
                     arming, heard, fired, reckoned>>
  PROVE  /\ Hearing' /\ Retries' /\ Firing' /\ MemoryIsDisk' /\ DemandKept'
         /\ alerts' \in [Ids -> Definition] /\ after' \in [Ids -> 0 .. now] /\ floor' \in [Ids -> 0 .. prints]
         /\ mark' = 0 /\ gapMs' \in 0 .. now /\ pendingGap' = 0 /\ broken' = 0 /\ unseen' \in BOOLEAN
         /\ \A p \in UnderWay : Passed(p)'
         /\ ~unseen' => ~unseen /\ alerts' = alerts
<1> DEFINE gap == Larger(gapMs, pendingGap)
           live(i) == alerts[i].state \in Live
<1>1. /\ pendingGap' = 0 /\ gapMs' = gap /\ mark' = 0 /\ broken' = 0
      /\ alerts' = [i \in Ids |-> [alerts[i] EXCEPT !.state = GapState(alerts[i].state)]]
      /\ after' = [i \in Ids |-> IF live(i) THEN Larger(after[i], gap) ELSE after[i]]
      /\ floor' = [i \in Ids |-> IF live(i) THEN Larger(floor[i], broken) ELSE floor[i]]
      /\ unseen' = (unseen \/ \E i \in Ids : live(i))
  BY DEF IngestGap
<1>2. TypeOK /\ Queue /\ Hearing /\ Retries /\ Firing /\ MemoryIsDisk /\ DemandKept
  BY DEF Kept
<1>3. /\ gap \in 0 .. now /\ pendingGap <= gap /\ now \in Nat /\ prints \in Nat /\ pendingGap \in Nat
      /\ \A i \in Ids : /\ after[i] \in 0 .. now /\ floor[i] \in 0 .. prints
                        /\ alerts[i] \in Definition /\ disk[i] \in Definition
      /\ broken \in 0 .. prints
  BY KeptTypes DEF Larger
<1> HIDE DEF gap
\* alert by alert
<1>4. ASSUME NEW i \in Ids
      PROVE  /\ after'[i] \in 0 .. now /\ after[i] <= after'[i] /\ floor'[i] \in 0 .. prints
             /\ live(i) => gap <= after'[i]
             /\ floor'[i] = floor[i] \/ (floor'[i] = broken /\ live(i))
  <2>1. CASE live(i)
    <3>1. after'[i] = Larger(after[i], gap) /\ floor'[i] = Larger(floor[i], broken)
      BY <1>1, <2>1
    <3> QED
      BY <1>3, <2>1, <3>1 DEF Larger
  <2>2. CASE ~live(i)
    <3>1. after'[i] = after[i] /\ floor'[i] = floor[i]
      BY <1>1, <2>2
    <3> QED
      BY <1>3, <2>2, <3>1
  <2> QED
    BY <2>1, <2>2
<1>5. ASSUME NEW i \in Ids
      PROVE  /\ alerts'[i] \in Definition /\ alerts'[i].version = alerts[i].version /\ alerts'[i].in = alerts[i].in
             /\ alerts'[i] = [alerts[i] EXCEPT !.state = alerts'[i].state]
             /\ live(i) => alerts'[i].state = "data"
             /\ ~live(i) => alerts'[i] = alerts[i]
             /\ alerts'[i].state \in Live <=> live(i)
             /\ alerts'[i].state # "monitoring"
             /\ alerts'[i] # NoAlert <=> alerts[i] # NoAlert
  <2> DEFINE a == alerts[i]
  <2>1. a \in Definition /\ alerts'[i] = [a EXCEPT !.state = GapState(a.state)]
    BY <1>1, <1>3
  <2> HIDE DEF a
  <2>2. alerts'[i].state = GapState(a.state) /\ alerts'[i].version = a.version /\ alerts'[i].in = a.in
    BY <2>1, Fields
  <2>3. CASE a.state \in Live
    <3>1. GapState(a.state) = "data" /\ "data" \in States \ {"none"} /\ a \in Alert
      BY <2>1, <2>3, Fields DEF GapState, States, Live
    <3>2. alerts'[i] \in Alert
      BY <2>1, <3>1, Fields
    <3>3. alerts'[i] # NoAlert /\ a # NoAlert
      BY <2>2, <2>3, <3>1 DEF NoAlert, Live
    <3> QED
      BY <2>1, <2>2, <2>3, <3>1, <3>2, <3>3 DEF Definition, a, Live
  <2>4. CASE a.state \notin Live
    <3>1. GapState(a.state) = a.state
      BY <2>4 DEF GapState
    <3>2. alerts'[i] = a
      BY <2>1, <3>1, Fields
    <3> QED
      BY <2>1, <2>2, <2>4, <3>1, <3>2 DEF a, Live
  <2> QED
    BY <2>3, <2>4
<1>6. alerts' \in [Ids -> Definition] /\ after' \in [Ids -> 0 .. now] /\ floor' \in [Ids -> 0 .. prints]
  <2>1. /\ alerts' = [i \in Ids |-> alerts'[i]] /\ after' = [i \in Ids |-> after'[i]]
        /\ floor' = [i \in Ids |-> floor'[i]]
    BY <1>1, Zenon
  <2> QED
    BY <1>4, <1>5, <2>1
<1>7. Hearing'
  <2>1. \A i \in Ids : alerts'[i].state # "monitoring"
    BY <1>5
  <2>2. \A i \in Ids : ~(mark' > after'[i])
    BY <1>1, <1>3, <1>4
  <2> QED
    BY <2>1, <2>2 DEF Hearing, MonitoringHasHeard
<1>8. Retries'
  <2>1. ASSUME NEW c \in pending
        PROVE  /\ alerts'[c.trigger.id].state \in Live
               /\ c.alert = [alerts'[c.trigger.id] EXCEPT !.state = "triggered", !.version = @ + 1]
    <3> DEFINE i == c.trigger.id
    <3>1. i \in Ids
      BY KeptTypes DEF Change, Trigger
    <3>2. live(i) /\ c.alert = [alerts[i] EXCEPT !.state = "triggered", !.version = @ + 1]
      BY <1>2 DEF Retries, RetryUndoesNothing
    <3>3. [alerts'[i] EXCEPT !.state = "triggered", !.version = @ + 1] =
          [alerts[i] EXCEPT !.state = "triggered", !.version = @ + 1]
      BY <1>3, <1>5, <3>1, DoneAlike
    <3> QED
      BY <1>5, <3>1, <3>2, <3>3
  <2> QED
    BY <1>2, <2>1 DEF Retries, RetryUndoesNothing
<1>9. Firing'
  BY <1>2, <1>5 DEF Firing, FiresOnce, NothingStaleFires, NoAlert
<1>10. MemoryIsDisk'
  <2>1. ASSUME NEW i \in Ids
        PROVE  /\ [alerts'[i] EXCEPT !.state = Loaded(@)] = [disk[i] EXCEPT !.state = Loaded(@)]
               /\ alerts'[i].state = "triggered" => alerts[i].state = "triggered"
    <3>1. [alerts[i] EXCEPT !.state = Loaded(@)] = [disk[i] EXCEPT !.state = Loaded(@)]
      BY <1>2 DEF MemoryIsDisk
    <3>2. /\ alerts[i].version = disk[i].version /\ alerts[i].in = disk[i].in
          /\ alerts[i].state = disk[i].state \/ {alerts[i].state, disk[i].state} \subseteq Live
      BY <1>3, <3>1, AlikeMeans
    <3>3. alerts'[i].state = disk[i].state \/ {alerts'[i].state, disk[i].state} \subseteq Live
      <4>1. CASE live(i)
        <5>1. disk[i].state \in Live
          BY <3>2, <4>1
        <5>2. alerts'[i].state \in Live
          BY <1>5, <4>1
        <5> QED
          BY <5>1, <5>2
      <4>2. CASE ~live(i)
        <5>1. alerts'[i] = alerts[i]
          BY <1>5, <4>2
        <5> QED
          BY <3>2, <4>2, <5>1
      <4> QED
        BY <4>1, <4>2
    <3>4. /\ alerts'[i] \in Definition /\ alerts'[i].version = alerts[i].version
          /\ alerts'[i].in = alerts[i].in
      BY <1>5
    <3>5. [alerts'[i] EXCEPT !.state = Loaded(@)] = [disk[i] EXCEPT !.state = Loaded(@)]
      <4> DEFINE a == alerts'[i]
      <4>1. a \in Definition /\ disk[i] \in Definition /\ a.version = disk[i].version /\ a.in = disk[i].in
            /\ (a.state = disk[i].state \/ {a.state, disk[i].state} \subseteq Live)
        BY <1>3, <3>2, <3>3, <3>4
      <4> HIDE DEF a
      <4>2. [a EXCEPT !.state = Loaded(@)] = [disk[i] EXCEPT !.state = Loaded(@)]
        BY <4>1, AlikeMeans
      <4> QED
        BY <4>2 DEF a
    <3>6. alerts'[i].state = "triggered" => alerts[i].state = "triggered"
      BY <1>5 DEF Live
    <3> QED
      BY <3>5, <3>6
  <2> QED
    BY <1>2, <2>1 DEF MemoryIsDisk, Waits, Of
<1>11. DemandKept'
  <2>1. WantedIn(alerts', reckoned) = WantedIn(alerts, reckoned)
    <3>1. \A i \in Ids : /\ alerts'[i].in = alerts[i].in
                         /\ alerts'[i].state \in Live <=> alerts[i].state \in Live
      BY <1>5
    <3> QED
      BY <3>1, WantedAlike, Zenon
  <2> QED
    BY <1>2, <2>1, Zenon DEF DemandKept
<1>12. ASSUME NEW p \in UnderWay PROVE Passed(p)'
  <2>1. Passed(p) /\ p.n \in Nat /\ p.recv \in Nat
    BY <1>2, UnderWayType DEF Queue, Passed
  <2>2. ASSUME NEW i \in Ids, alerts'[i] # NoAlert, p.n <= floor'[i] PROVE p.recv <= after'[i]
    <3>1. Exists(i)
      BY <1>5, <2>2 DEF Exists
    <3>2. CASE floor'[i] = floor[i]
      <4>1. p.recv <= after[i]
        BY <2>1, <2>2, <3>1, <3>2 DEF Passed
      <4> QED
        BY <1>3, <1>4, <2>1, <4>1
    <3>3. CASE floor'[i] = broken /\ live(i)
      <4>1. p.recv <= pendingGap
        BY <2>1, <2>2, <3>3 DEF Passed
      <4> QED
        BY <1>3, <1>4, <2>1, <3>3, <4>1
    <3> QED
      BY <1>4, <3>2, <3>3
  <2> QED
    BY <1>1, <2>1, <2>2 DEF Passed, Exists
<1>13. unseen' \in BOOLEAN
  BY <1>1, Zenon
<1>14. ~unseen' => ~unseen /\ alerts' = alerts
  <2>1. ~unseen' => ~unseen /\ \A i \in Ids : ~live(i)
    BY <1>1
  <2>2. (\A i \in Ids : ~live(i)) => \A i \in Ids : alerts'[i] = alerts[i]
    BY <1>5
  <2>3. alerts \in [Ids -> Definition]
    BY KeptTypes
  <2> QED
    BY <1>6, <2>1, <2>2, <2>3
<1> QED
  BY <1>1, <1>3, <1>6, <1>7, <1>8, <1>9, <1>10, <1>11, <1>12, <1>13, <1>14

\* The types of what a gap and a print taken leave alone, and of the rest.
LEMMA GapTypes ==
  ASSUME Kept, alerts' \in [Ids -> Definition], after' \in [Ids -> 0 .. now], floor' \in [Ids -> 0 .. prints],
         mark' \in 0 .. now, gapMs' \in 0 .. now, pendingGap' \in 0 .. now, broken' \in 0 .. prints,
         unseen' \in BOOLEAN, run' \in {"select", "ingest", "publish", "flush"},
         taken' \in EligiblePrint, input' \in Seq(EligiblePrint), Len(input') <= QueueSize,
         UNCHANGED <<clock, stored, history, pending, wired, demanded, prints, outgoing, arming, heard, fired>>
  PROVE  TypeOK'
BY DEF Kept, TypeOK, clock, stored, Definition

LEMMA RunGapKeeps ==
  ASSUME Kept, ShownIsCurrent, RunGap
  PROVE  Kept' /\ ShownIsCurrent'
<1>1. /\ Up /\ run' = "flush" /\ pendingGap > 0 /\ IngestGap /\ shown' = shown
      /\ UNCHANGED <<now, coverage, laneAt, clock, stored, disk, diskHistory, history, pending, wired, demanded,
                     input, prints, taken, outgoing, arming, heard, fired, reckoned>>
  BY DEF RunGap, Selects, Up, clock, stored
<1>2. TypeOK /\ Queue
  BY DEF Kept
<1>3. /\ Hearing' /\ Retries' /\ Firing' /\ MemoryIsDisk' /\ DemandKept'
      /\ alerts' \in [Ids -> Definition] /\ after' \in [Ids -> 0 .. now] /\ floor' \in [Ids -> 0 .. prints]
      /\ mark' = 0 /\ gapMs' \in 0 .. now /\ pendingGap' = 0 /\ broken' = 0 /\ unseen' \in BOOLEAN
      /\ \A p \in UnderWay : Passed(p)'
      /\ ~unseen' => ~unseen /\ alerts' = alerts
  BY <1>1, GapKeeps
<1>4. TypeOK'
  <2>1. /\ mark' \in 0 .. now /\ pendingGap' \in 0 .. now /\ broken' \in 0 .. prints
        /\ taken' \in EligiblePrint /\ input' \in Seq(EligiblePrint) /\ Len(input') <= QueueSize
    BY <1>1, <1>2, <1>3, KeptTypes DEF TypeOK
  <2> QED
    BY <1>1, <1>3, <2>1, GapTypes
<1>5. Queue'
  <2>1. UnderWay' = UnderWay
    BY <1>1 DEF UnderWay
  <2> QED
    BY <1>1, <1>2, <1>3, <2>1 DEF Queue, Passed
<1>6. Down'
  BY <1>1 DEF Down, Up
<1>7. ShownIsCurrent'
  BY <1>1, <1>3 DEF ShownIsCurrent, Up
<1> QED
  BY <1>3, <1>4, <1>5, <1>6, <1>7 DEF Kept

\* A print is taken from the head of the queue, after the gap if there is one.
LEMMA TakeKeeps ==
  ASSUME Kept, ShownIsCurrent, Take
  PROVE  Kept' /\ ShownIsCurrent'
<1>1. /\ Up /\ run' = "ingest" /\ shown' = shown /\ input # <<>>
      /\ taken' = Head(input) /\ input' = Tail(input)
      /\ UNCHANGED <<now, coverage, laneAt, clock, stored, disk, diskHistory, history, pending, wired, demanded,
                     prints, outgoing, arming, heard, fired, reckoned>>
  BY DEF Take, Selects, Up, clock, stored
<1>2. TypeOK /\ Queue
  BY DEF Kept
<1>3. /\ Hearing' /\ Retries' /\ Firing' /\ MemoryIsDisk' /\ DemandKept'
      /\ alerts' \in [Ids -> Definition] /\ after' \in [Ids -> 0 .. now] /\ floor' \in [Ids -> 0 .. prints]
      /\ mark' \in 0 .. now /\ gapMs' \in 0 .. now /\ pendingGap' \in 0 .. now /\ broken' \in 0 .. prints
      /\ unseen' \in BOOLEAN
      /\ \A p \in UnderWay : Passed(p)'
      /\ ~unseen' => ~unseen /\ alerts' = alerts
  <2>1. CASE pendingGap > 0
    <3>1. IngestGap
      BY <2>1 DEF Take
    <3>2. 0 \in 0 .. now /\ 0 \in 0 .. prints
      BY KeptTypes
    <3>3. /\ Hearing' /\ Retries' /\ Firing' /\ MemoryIsDisk' /\ DemandKept'
          /\ alerts' \in [Ids -> Definition] /\ after' \in [Ids -> 0 .. now] /\ floor' \in [Ids -> 0 .. prints]
          /\ mark' = 0 /\ gapMs' \in 0 .. now /\ pendingGap' = 0 /\ broken' = 0 /\ unseen' \in BOOLEAN
          /\ \A p \in UnderWay : Passed(p)'
          /\ ~unseen' => ~unseen /\ alerts' = alerts
      BY <1>1, <2>1, <3>1, GapKeeps
    <3> QED
      BY <3>2, <3>3
  <2>2. CASE ~(pendingGap > 0)
    <3>1. UNCHANGED <<pendingGap, gapMs, mark, alerts, after, floor, broken, unseen>>
      BY <2>2 DEF Take
    <3>2. Hearing' /\ Retries' /\ Firing' /\ MemoryIsDisk' /\ DemandKept'
      <4>1. Hearing' /\ Retries'
        BY <1>1, <3>1 DEF Kept, Hearing, MonitoringHasHeard, Exists, Retries, RetryUndoesNothing
      <4>2. Firing'
        BY <1>1, <3>1 DEF Kept, Firing, FiresOnce, NothingStaleFires
      <4>3. MemoryIsDisk'
        BY <1>1, <3>1 DEF Kept, MemoryIsDisk, Up, Waits, Of
      <4>4. DemandKept'
        BY <1>1, <3>1 DEF Kept, Up, DemandKept, WantedIn
      <4> QED
        BY <4>1, <4>2, <4>3, <4>4
    <3>3. \A p \in UnderWay : Passed(p)'
      BY <1>1, <1>2, <3>1 DEF Queue, Passed, Exists
    <3> QED
      BY <1>2, <3>1, <3>2, <3>3, KeptTypes
  <2> QED
    BY <2>1, <2>2
<1>4. /\ input \in Seq(EligiblePrint) /\ Len(input) \in Nat /\ Len(input) > 0
      /\ taken' = input[1] /\ input[1] \in EligiblePrint
      /\ input' \in Seq(EligiblePrint) /\ Len(input') = Len(input) - 1
      /\ \A k \in 1 .. Len(input') : input'[k] = input[k + 1]
  <2>1. input \in Seq(EligiblePrint) /\ input # <<>>
    BY <1>1, <1>2 DEF TypeOK
  <2> QED
    BY <1>1, <2>1, HeadTailProperties
<1>5. TypeOK'
  <2>1. Len(input') <= QueueSize
    BY <1>2, <1>4, AlertAssumption DEF TypeOK
  <2> QED
    BY <1>1, <1>3, <1>4, <2>1, GapTypes
<1>6. Queue'
  <2>1. \A k \in 1 .. Len(input') : k + 1 \in 1 .. Len(input)
    BY <1>4
  <2>2. \A p \in UnderWay' : p \in UnderWay
    <3>1. \A k \in 1 .. Len(input') : input'[k] \in UnderWay
      BY <1>2, <1>4, <2>1, UnderWayType
    <3>2. taken' \in UnderWay
      BY <1>2, <1>4, UnderWayType
    <3> QED
      BY <3>1, <3>2, Zenon DEF UnderWay
  <2>3. taken'.n > heard'
    BY <1>1, <1>2, <1>4 DEF Queue
  <2>4. ASSUME NEW k \in 1 .. Len(input')
        PROVE  /\ input'[k].n > taken'.n /\ input'[k].n > heard'
               /\ \A l \in 1 .. k - 1 : input'[l].n < input'[k].n
    <3>1. /\ input[k + 1].n > heard /\ \A l \in 1 .. k : input[l].n < input[k + 1].n
          /\ input[k + 1].n \in Nat /\ input[1].n \in Nat
      <4>1. k + 1 \in 1 .. Len(input) /\ (k + 1) - 1 = k
        BY <2>1
      <4>2. input[k + 1] \in UnderWay /\ input[1] \in UnderWay
        <5>1. 1 \in 1 .. Len(input)
          BY <1>4
        <5> QED
          BY <1>2, <4>1, <5>1, UnderWayType
      <4> QED
        BY <1>2, <4>1, <4>2, UnderWayType DEF Queue
    <3>2. \A l \in 1 .. k - 1 : l \in 1 .. Len(input') /\ l + 1 \in 1 .. k
      BY <1>4
    <3> QED
      BY <1>1, <1>4, <3>1, <3>2
  <2> QED
    BY <1>3, <2>2, <2>3, <2>4 DEF Queue, Passed
<1>7. Down'
  BY <1>1 DEF Down, Up
<1>8. ShownIsCurrent'
  BY <1>1, <1>3 DEF ShownIsCurrent, Up
<1> QED
  BY <1>3, <1>5, <1>6, <1>7, <1>8 DEF Kept

\* Ingest in the words of the source: those looked at, those out of session,
\* those watched and those the print meets.
Looked == {i \in Ids : alerts[i].state \in Live /\ ~Waits(i)}
Out == {i \in Looked : ~({session, taken.session} \subseteq alerts[i].in)}
Watch == {i \in Looked \ Out : wired /\ coverage = "covered" /\ CountsFor(i, taken)}
TriggerOf(i) == [id |-> i, arming |-> arming[i], print |-> taken.n, floor |-> floor[i]]
DoneOf(i) == [alerts[i] EXCEPT !.state = "triggered", !.version = @ + 1]

LEMMA IngestKeeps ==
  ASSUME Kept, ShownIsCurrent, NEW met \in SUBSET Ids, Ingest(met)
  PROVE  Kept' /\ ShownIsCurrent'
<1> DEFINE firing == Watch \cap met
           covered == wired /\ coverage = "covered"
<1>1. PICK ok \in SUBSET firing :
        /\ alerts' = [i \in Ids |->
             IF i \in Out THEN [alerts[i] EXCEPT !.state = "outside"]
             ELSE IF i \in ok THEN DoneOf(i)
             ELSE IF i \in Watch THEN [alerts[i] EXCEPT !.state = "monitoring"]
             ELSE alerts[i]]
        /\ disk' = [i \in Ids |-> IF i \in ok THEN DoneOf(i) ELSE disk[i]]
        /\ history' = history \cup {TriggerOf(i) : i \in ok}
        /\ diskHistory' = diskHistory \cup {TriggerOf(i) : i \in ok}
        /\ pending' = pending \cup {[alert |-> DoneOf(i), trigger |-> TriggerOf(i)] : i \in firing \ ok}
        /\ outgoing' = {TriggerOf(i) : i \in ok}
        /\ fired' = fired \cup {TriggerOf(i) : i \in ok}
        /\ run' = IF ok = {} THEN "flush" ELSE "publish"
        /\ ReconcileFired(ok)
  BY DEF Ingest, Fired, Looked, Out, Watch, TriggerOf, DoneOf
<1>2. /\ Up /\ run = "ingest" /\ taken' = NoPrint /\ heard' = taken.n
      /\ mark' = (IF covered THEN taken.recv ELSE 0)
      /\ unseen' = (unseen \/ News(Out, Watch, firing))
      /\ wired' = wired /\ shown' = shown
      /\ UNCHANGED <<now, coverage, laneAt, after, gapMs, input, pendingGap, prints, arming, floor, broken>>
  BY DEF Ingest, Looked, Out, Watch, Up, clock, lane
<1>3. TypeOK /\ Queue /\ Hearing /\ Retries /\ Firing /\ MemoryIsDisk /\ DemandKept
  BY DEF Kept
<1>4. /\ taken.n \in Nat /\ taken.recv \in Nat /\ taken.n > heard /\ taken.n <= prints /\ taken.recv <= laneAt
      /\ \A i \in Ids : Exists(i) /\ taken.n <= floor[i] => taken.recv <= after[i]
      /\ heard \in Nat /\ now \in Nat /\ laneAt \in Nat /\ laneAt <= now /\ prints \in Nat
  BY <1>2, <1>3, UnderWayType, KeptTypes DEF Queue
<1>5. \A i \in Ids : /\ alerts[i] \in Definition /\ disk[i] \in Definition /\ after[i] \in Nat
                     /\ floor[i] \in 0 .. prints /\ arming[i] \in Nat
  BY <1>4, KeptTypes
\* what is looked at is live, in memory and on disk, and waits for no write
<1>6. /\ Out \subseteq Looked /\ Watch \subseteq Looked /\ firing \subseteq Watch /\ Looked \subseteq Ids
      /\ ok \subseteq firing /\ Out \cap Watch = {}
      /\ \A i \in Looked : alerts[i].state \in Live /\ ~Waits(i)
      /\ \A i \in Watch : taken.recv > after[i]
  BY DEF Looked, Out, Watch, CountsFor
<1>7. \A i \in Looked : alerts[i] \in Alert /\ Exists(i) /\ disk[i].state \in Live
  <2>1. SUFFICES ASSUME NEW i \in Looked PROVE alerts[i] \in Alert /\ Exists(i) /\ disk[i].state \in Live
    OBVIOUS
  <2>2. i \in Ids /\ alerts[i].state \in Live /\ alerts[i] \in Definition /\ disk[i] \in Definition
    BY <1>5, <1>6
  <2>3. Exists(i)
    BY <2>2 DEF Exists, NoAlert, Live
  <2>4. disk[i].state \in Live
    BY <1>2, <1>3, <2>2, AlikeMeans DEF MemoryIsDisk
  <2> QED
    BY <2>2, <2>3, <2>4 DEF Definition, Exists
<1>8. \A i \in Watch : taken.n > floor[i]
  <2>1. ASSUME NEW i \in Watch PROVE taken.n > floor[i]
    <3>1. i \in Ids /\ Exists(i) /\ taken.recv > after[i] /\ after[i] \in Nat /\ floor[i] \in Nat
      BY <1>4, <1>5, <1>6, <1>7
    <3> QED
      BY <1>4, <3>1
  <2> QED
    BY <2>1
<1>9. \A i \in ok : /\ alerts'[i] = DoneOf(i) /\ disk'[i] = DoneOf(i)
                    /\ DoneOf(i) \in Alert /\ DoneOf(i).state = "triggered"
  <2>1. SUFFICES ASSUME NEW i \in ok
                 PROVE  /\ alerts'[i] = DoneOf(i) /\ disk'[i] = DoneOf(i)
                        /\ DoneOf(i) \in Alert /\ DoneOf(i).state = "triggered"
    OBVIOUS
  <2>2. i \in Ids /\ i \notin Out /\ alerts[i] \in Alert
    BY <1>6, <1>7
  <2>3. alerts'[i] = DoneOf(i) /\ disk'[i] = DoneOf(i)
    BY <1>1, <2>2
  <2>4. "triggered" \in States \ {"none"}
    BY DEF States
  <2>5. DoneOf(i) \in Alert /\ DoneOf(i).state = "triggered"
    BY <2>2, <2>4, NextVersion DEF DoneOf
  <2> QED
    BY <2>3, <2>5
<1>10. ASSUME NEW i \in Ids, i \notin ok
       PROVE  /\ disk'[i] = disk[i] /\ alerts'[i] \in Definition
              /\ alerts'[i] = [alerts[i] EXCEPT !.state = alerts'[i].state]
              /\ alerts'[i].version = alerts[i].version /\ alerts'[i].in = alerts[i].in
              /\ alerts'[i].state \in Live <=> alerts[i].state \in Live
              /\ i \notin Looked => alerts'[i] = alerts[i]
              /\ alerts[i].state \notin Live => alerts'[i] = alerts[i]
              /\ alerts'[i].state = "monitoring" => i \in Watch \/ alerts'[i] = alerts[i]
              /\ i \in Watch => alerts'[i] = [alerts[i] EXCEPT !.state = "monitoring"]
              /\ i \in Out => alerts'[i] = [alerts[i] EXCEPT !.state = "outside"]
              /\ i \notin Out \cup Watch => alerts'[i] = alerts[i]
  <2>1. disk'[i] = disk[i]
    BY <1>1, <1>10
  <2>2. i \in Out => alerts'[i] = [alerts[i] EXCEPT !.state = "outside"]
    BY <1>1, <1>10
  <2>3. i \in Watch => alerts'[i] = [alerts[i] EXCEPT !.state = "monitoring"]
    BY <1>1, <1>6, <1>10
  <2>4. i \notin Out \cup Watch => alerts'[i] = alerts[i]
    BY <1>1, <1>10
  <2> DEFINE a == alerts[i]
             b == alerts'[i]
  <2>5. ASSUME NEW s \in {"outside", "monitoring"}, i \in Looked, b = [a EXCEPT !.state = s]
        PROVE  /\ b \in Definition /\ b.state = s /\ b.version = a.version /\ b.in = a.in
               /\ b.state \in Live /\ a.state \in Live
    <3>1. a \in Alert /\ s \in States \ {"none"} /\ a.state \in Live /\ s \in Live
      BY <1>6, <1>7, <2>5 DEF States, Live
    <3> HIDE DEF a, b
    <3>2. b \in Alert
      BY <2>5, <3>1, Fields
    <3>3. b.state = s /\ b.version = a.version /\ b.in = a.in
      BY <2>5, <3>1, Fields DEF Definition
    <3> QED
      BY <3>1, <3>2, <3>3 DEF Definition
  <2>6. CASE i \in Out
    <3>1. b = [a EXCEPT !.state = "outside"] /\ i \in Looked /\ i \notin Watch
      BY <1>6, <2>2, <2>6
    <3> QED
      BY <2>1, <2>2, <2>5, <2>6, <3>1
  <2>7. CASE i \in Watch
    <3>1. b = [a EXCEPT !.state = "monitoring"] /\ i \in Looked /\ i \notin Out
      BY <1>6, <2>3, <2>7
    <3> QED
      BY <2>1, <2>3, <2>5, <2>7, <3>1
  <2>8. CASE i \notin Out \cup Watch
    <3>1. alerts[i] \in Definition /\ alerts'[i] = alerts[i]
      BY <1>5, <2>4, <2>8
    <3>2. alerts[i] = [alerts[i] EXCEPT !.state = alerts[i].state]
      BY <3>1, Fields
    <3> QED
      BY <2>1, <2>8, <3>1, <3>2
  <2> QED
    BY <2>6, <2>7, <2>8
<1> HIDE DEF firing, covered
<1>11. /\ alerts' \in [Ids -> Definition] /\ disk' \in [Ids -> Definition]
       /\ \A i \in Ids : alerts'[i] # NoAlert => alerts[i] # NoAlert
  <2>1. \A i \in Ids : alerts'[i] \in Definition /\ disk'[i] \in Definition
    <3>1. ASSUME NEW i \in Ids PROVE alerts'[i] \in Definition /\ disk'[i] \in Definition
      BY <1>5, <1>9, <1>10 DEF Definition
    <3> QED
      BY <3>1
  <2>2. alerts' = [i \in Ids |-> alerts'[i]] /\ disk' = [i \in Ids |-> disk'[i]]
    BY <1>1, Zenon
  <2>3. ASSUME NEW i \in Ids, alerts'[i] # NoAlert PROVE alerts[i] # NoAlert
    <3>1. CASE i \in Looked
      BY <1>7, <3>1 DEF Exists
    <3>2. CASE i \notin Looked
      <4>1. i \notin ok
        BY <1>6, <3>2
      <4> QED
        BY <1>10, <2>3, <3>2, <4>1
    <3> QED
      BY <3>1, <3>2
  <2> QED
    BY <2>1, <2>2, <2>3
<1>12. \A i \in ok : TriggerOf(i) \in Trigger
  BY <1>4, <1>5, <1>6 DEF TriggerOf, Trigger
<1>13. \A i \in firing \ ok : [alert |-> DoneOf(i), trigger |-> TriggerOf(i)] \in Change
  <2>1. SUFFICES ASSUME NEW i \in firing \ ok PROVE DoneOf(i) \in Alert /\ TriggerOf(i) \in Trigger
    BY DEF Change
  <2>2. i \in Ids /\ alerts[i] \in Alert /\ floor[i] \in Nat /\ arming[i] \in Nat
    BY <1>4, <1>5, <1>6, <1>7
  <2>3. DoneOf(i) \in Alert
    BY <2>2, NextVersion DEF DoneOf, States
  <2> QED
    BY <1>4, <2>2, <2>3 DEF TriggerOf, Trigger
<1>14. TypeOK'
  <2>1. mark' \in 0 .. now'
    BY <1>2, <1>4
  <2>2. /\ history' \subseteq Trigger /\ diskHistory' \subseteq Trigger /\ outgoing' \subseteq Trigger
        /\ fired' \subseteq Trigger /\ pending' \subseteq Change
    <3>1. history \subseteq Trigger /\ diskHistory \subseteq Trigger /\ fired \subseteq Trigger /\ pending \subseteq Change
      BY <1>3 DEF TypeOK
    <3>2. {TriggerOf(i) : i \in ok} \subseteq Trigger
      BY <1>12
    <3>3. {[alert |-> DoneOf(i), trigger |-> TriggerOf(i)] : i \in firing \ ok} \subseteq Change
      BY <1>13
    <3> QED
      BY <1>1, <3>1, <3>2, <3>3
  <2>3. run' \in {"flush", "publish"}
    BY <1>1
  <2>4. unseen' \in BOOLEAN
    BY <1>2, Zenon
  <2>5. demanded' \in BOOLEAN
    <3>1. WantedIn(alerts', session) \in BOOLEAN
      BY Zenon DEF WantedIn
    <3>2. demanded \in BOOLEAN /\ wired' \in BOOLEAN
      BY <1>2, <1>3 DEF TypeOK
    <3> QED
      BY <1>1, <3>1, <3>2, Zenon DEF ReconcileFired, Reconcile
  <2>6. taken' \in EligiblePrint /\ heard' \in 0 .. prints'
    BY <1>2, <1>4 DEF NoPrint, EligiblePrint
  <2>7. /\ now' \in 1 .. MaxClock /\ coverage' \in {"none", "covered", "full"} /\ laneAt' \in 1 .. now'
        /\ after' \in [Ids -> 0 .. now'] /\ gapMs' \in 0 .. now' /\ wired' \in BOOLEAN
        /\ input' \in Seq(EligiblePrint) /\ Len(input') <= QueueSize /\ pendingGap' \in 0 .. now'
        /\ prints' \in 0 .. MaxPrints /\ broken' \in 0 .. prints'
        /\ arming' \in [Ids -> Nat] /\ floor' \in [Ids -> 0 .. prints']
    BY <1>2, <1>3 DEF TypeOK
  <2> QED
    BY <1>11, <2>1, <2>2, <2>3, <2>4, <2>5, <2>6, <2>7 DEF TypeOK, Definition
<1>15. Queue'
  <2>1. \A p \in UnderWay' : p \in UnderWay \/ p = NoPrint
    BY <1>2 DEF UnderWay
  <2>2. NoPrint.n = 0 /\ NoPrint.recv = 0
    BY DEF NoPrint
  <2>3. ASSUME NEW p \in UnderWay'
        PROVE  /\ p.n <= prints' /\ p.recv <= laneAt'
               /\ \A i \in Ids : Exists(i)' /\ p.n <= floor'[i] => p.recv <= after'[i]
               /\ pendingGap' > 0 /\ p.n <= broken' => p.recv <= pendingGap'
    <3>1. CASE p \in UnderWay
      BY <1>2, <1>3, <1>11, <3>1 DEF Queue, Exists
    <3>2. CASE p = NoPrint
      BY <1>2, <1>4, <1>5, <2>2, <3>2, KeptTypes
    <3> QED
      BY <2>1, <3>1, <3>2
  <2>4. run' # "ingest"
    BY <1>1
  <2>5. ASSUME NEW k \in 1 .. Len(input')
        PROVE  /\ input'[k].n > taken'.n /\ input'[k].n > heard'
               /\ \A l \in 1 .. k - 1 : input'[l].n < input'[k].n
    <3>1. /\ input[k].n > taken.n /\ input[k].n > heard
          /\ \A l \in 1 .. k - 1 : input[l].n < input[k].n
      BY <1>2, <1>3, <2>5 DEF Queue
    <3>2. input[k].n \in Nat
      BY <1>2, <1>3, <2>5, UnderWayType
    <3> QED
      BY <1>2, <1>4, <2>2, <3>1, <3>2
  <2> QED
    BY <2>3, <2>4, <2>5 DEF Queue
<1>16. Hearing'
  <2>1. ASSUME NEW i \in Ids, alerts'[i].state = "monitoring" PROVE heard' > floor'[i]
    <3>1. i \notin ok
      BY <1>9, <2>1
    <3>2. CASE i \in Watch
      BY <1>2, <1>8, <3>2
    <3>3. CASE alerts'[i] = alerts[i]
      <4>1. heard > floor[i] /\ floor[i] \in Nat
        BY <1>3, <1>4, <1>5, <2>1, <3>3 DEF Hearing, MonitoringHasHeard
      <4> QED
        BY <1>2, <1>4, <4>1
    <3> QED
      BY <1>10, <2>1, <3>1, <3>2, <3>3
  <2>2. ASSUME NEW i \in Ids, alerts'[i] # NoAlert, mark' > after'[i] PROVE heard' > floor'[i]
    <3>1. Exists(i) /\ after'[i] = after[i] /\ floor'[i] = floor[i] /\ after[i] \in Nat /\ floor[i] \in Nat
      BY <1>2, <1>4, <1>5, <1>11, <2>2 DEF Exists
    <3>2. mark' = taken.recv
      BY <1>2, <2>2, <3>1
    <3> QED
      BY <1>2, <1>4, <2>2, <3>1, <3>2
  <2> QED
    BY <2>1, <2>2 DEF Hearing, MonitoringHasHeard, Exists
<1>17. Retries'
  <2>1. ASSUME NEW c \in pending
        PROVE  /\ c.trigger.id \in Ids \ Looked /\ alerts'[c.trigger.id] = alerts[c.trigger.id]
    <3>1. c.trigger.id \in Ids /\ Waits(c.trigger.id)
      BY KeptTypes DEF Change, Trigger, Waits, Of
    <3>2. c.trigger.id \notin Looked
      BY <1>6, <3>1
    <3>3. c.trigger.id \notin ok
      BY <1>6, <3>2
    <3> QED
      BY <1>10, <3>1, <3>2, <3>3
  <2>2. ASSUME NEW c \in pending'
        PROVE  \/ c \in pending
               \/ \E i \in firing \ ok : c = [alert |-> DoneOf(i), trigger |-> TriggerOf(i)]
    BY <1>1, <2>2
  <2>3. ASSUME NEW c \in pending'
        PROVE  /\ alerts'[c.trigger.id].state \in Live
               /\ c.alert = [alerts'[c.trigger.id] EXCEPT !.state = "triggered", !.version = @ + 1]
               /\ c.trigger.arming = arming'[c.trigger.id] /\ c.trigger.print > c.trigger.floor
    <3>1. CASE c \in pending
      BY <1>2, <1>3, <2>1, <3>1 DEF Retries, RetryUndoesNothing
    <3>2. ASSUME NEW i \in firing \ ok, c = [alert |-> DoneOf(i), trigger |-> TriggerOf(i)]
          PROVE  /\ alerts'[c.trigger.id].state \in Live
                 /\ c.alert = [alerts'[c.trigger.id] EXCEPT !.state = "triggered", !.version = @ + 1]
                 /\ c.trigger.arming = arming'[c.trigger.id] /\ c.trigger.print > c.trigger.floor
      <4>1. i \in Ids /\ i \in Watch /\ i \notin ok /\ i \in Looked
        BY <1>6
      <4>2. c.trigger.id = i /\ c.alert = DoneOf(i) /\ c.trigger.arming = arming[i]
            /\ c.trigger.print = taken.n /\ c.trigger.floor = floor[i]
        BY <3>2 DEF TriggerOf
      <4>3. alerts'[i] = [alerts[i] EXCEPT !.state = "monitoring"] /\ alerts'[i].state \in Live
            /\ alerts[i] \in Definition
        BY <1>5, <1>6, <1>10, <4>1
      <4>4. [alerts'[i] EXCEPT !.state = "triggered", !.version = @ + 1] = DoneOf(i)
        BY <4>3, DoneAlike DEF DoneOf
      <4>5. taken.n > floor[i]
        BY <1>8, <4>1
      <4> QED
        BY <1>2, <4>2, <4>3, <4>4, <4>5
    <3> QED
      BY <2>2, <3>1, <3>2
  <2>4. ASSUME NEW c \in pending', NEW d \in pending', c.trigger.id = d.trigger.id PROVE c = d
    <3>1. \A i : TriggerOf(i).id = i
      BY DEF TriggerOf
    <3>2. \A i \in firing \ ok : i \in Looked
      BY <1>6
    <3>3. CASE c \in pending /\ d \in pending
      BY <1>3, <2>4, <3>3 DEF Retries
    <3>4. ASSUME NEW x \in pending, NEW i \in firing \ ok PROVE x.trigger.id # i
      BY <2>1, <3>2
    <3> QED
      BY <2>2, <2>4, <3>1, <3>3, <3>4
  <2> QED
    BY <2>3, <2>4 DEF Retries, RetryUndoesNothing
<1>18. Firing'
  <2>1. \A i \in ok : /\ i \in Ids /\ TriggerOf(i).id = i /\ TriggerOf(i).arming = arming[i]
                      /\ TriggerOf(i).print = taken.n /\ TriggerOf(i).floor = floor[i]
    BY <1>6 DEF TriggerOf
  <2>2. \A i \in ok, t \in fired : t.id = i => t.arming # arming[i]
    BY <1>3, <1>6, <1>7 DEF Firing
  <2>3. \A t \in fired' : t \in fired \/ \E i \in ok : t = TriggerOf(i)
    BY <1>1
  <2>4. FiresOnce'
    <3>1. ASSUME NEW s \in fired', NEW t \in fired', s.id = t.id, s.arming = t.arming PROVE s = t
      BY <1>3, <2>1, <2>2, <2>3, <3>1 DEF Firing, FiresOnce
    <3> QED
      BY <3>1 DEF FiresOnce
  <2>5. NothingStaleFires'
    <3>1. \A i \in ok : taken.n > floor[i]
      BY <1>6, <1>8
    <3> QED
      BY <1>3, <2>1, <2>3, <3>1 DEF Firing, NothingStaleFires
  <2>6. outgoing' \subseteq fired'
    BY <1>1
  <2>7. ASSUME NEW t \in fired'
        PROVE  /\ t.arming <= arming'[t.id]
               /\ t.arming = arming'[t.id] => disk'[t.id].state \notin Live \cup {"paused"}
    <3>1. ASSUME NEW i \in ok, t = TriggerOf(i)
          PROVE  /\ t.arming <= arming'[t.id]
                 /\ t.arming = arming'[t.id] => disk'[t.id].state \notin Live \cup {"paused"}
      <4>1. t.id = i /\ t.arming = arming'[i] /\ arming'[i] \in Nat
        BY <1>2, <1>5, <2>1, <3>1
      <4>2. disk'[i].state = "triggered"
        BY <1>9
      <4> QED
        BY <4>1, <4>2 DEF Live
    <3>2. CASE t \in fired
      <4>1. t.id \in Ids /\ t.arming <= arming[t.id]
            /\ (t.arming = arming[t.id] => disk[t.id].state \notin Live \cup {"paused"})
        BY <1>3, <3>2, KeptTypes DEF Firing, Trigger
      <4>2. CASE t.id \in ok
        BY <1>2, <2>2, <3>2, <4>1, <4>2
      <4>3. CASE t.id \notin ok
        BY <1>2, <1>10, <4>1, <4>3
      <4> QED
        BY <4>2, <4>3
    <3> QED
      BY <2>3, <3>1, <3>2
  <2>8. ASSUME NEW i \in Ids, arming'[i] = 0 PROVE alerts'[i] = NoAlert /\ disk'[i] = NoAlert
    <3>1. alerts[i] = NoAlert /\ disk[i] = NoAlert
      BY <1>2, <1>3, <2>8 DEF Firing
    <3>2. i \notin Looked /\ i \notin ok
      BY <1>6, <1>7, <3>1 DEF Exists
    <3> QED
      BY <1>10, <3>1, <3>2
  <2> QED
    BY <2>4, <2>5, <2>6, <2>7, <2>8 DEF Firing
<1>19. Down'
  BY <1>1 DEF Down, Up
<1>20. MemoryIsDisk'
  <2>1. history' = diskHistory'
    BY <1>1, <1>2, <1>3 DEF MemoryIsDisk
  <2>2. ASSUME NEW i \in Ids
        PROVE  [alerts'[i] EXCEPT !.state = Loaded(@)] = [disk'[i] EXCEPT !.state = Loaded(@)]
    <3>1. CASE i \in ok
      BY <1>9, <3>1
    <3>2. CASE i \notin ok
      <4> DEFINE a == alerts'[i]
                 d == disk'[i]
      <4>1. alerts[i] \in Definition /\ disk[i] \in Definition /\ a \in Definition /\ d = disk[i]
            /\ a.version = alerts[i].version /\ a.in = alerts[i].in
            /\ (a.state \in Live <=> alerts[i].state \in Live)
            /\ (alerts[i].state \notin Live => a = alerts[i])
        BY <1>5, <1>10, <3>2
      <4>2. /\ alerts[i].version = disk[i].version /\ alerts[i].in = disk[i].in
            /\ alerts[i].state = disk[i].state \/ {alerts[i].state, disk[i].state} \subseteq Live
        BY <1>2, <1>3, <4>1, AlikeMeans DEF MemoryIsDisk
      <4> HIDE DEF a, d
      <4>3. a.state = d.state \/ {a.state, d.state} \subseteq Live
        BY <4>1, <4>2
      <4>4. [a EXCEPT !.state = Loaded(@)] = [d EXCEPT !.state = Loaded(@)]
        BY <4>1, <4>2, <4>3, AlikeMeans
      <4> QED
        BY <4>4 DEF a, d
    <3> QED
      BY <3>1, <3>2
  <2>3. ASSUME NEW i \in Ids, alerts'[i].state = "triggered", NEW c \in pending', c.trigger.id = i
        PROVE  FALSE
    BY <1>17, <2>3 DEF Retries, RetryUndoesNothing, Live
  <2> QED
    BY <2>1, <2>2, <2>3 DEF MemoryIsDisk, Waits, Of
<1>21. DemandKept'
  <2>1. CASE ok # {}
    BY <1>1, <2>1, Zenon DEF ReconcileFired, Reconcile, DemandKept
  <2>2. CASE ok = {}
    <3>1. \A i \in Ids : /\ alerts'[i].in = alerts[i].in
                         /\ alerts'[i].state \in Live <=> alerts[i].state \in Live
      BY <1>10, <2>2
    <3>2. WantedIn(alerts', reckoned) = WantedIn(alerts, reckoned)
      BY <3>1, WantedAlike, Zenon
    <3>3. demanded' = demanded /\ reckoned' = reckoned
      BY <1>1, <2>2 DEF ReconcileFired
    <3> QED
      BY <1>2, <1>3, <3>2, <3>3, Zenon DEF DemandKept
  <2> QED
    BY <2>1, <2>2
<1>22. ShownIsCurrent'
  <2>1. SUFFICES ASSUME ~unseen' PROVE shown' = Snapshot(alerts', history', pending')
    BY DEF ShownIsCurrent
  <2>2. /\ ~unseen /\ firing = {} /\ ok = {}
        /\ \A i \in Out : alerts[i].state = "outside"
        /\ \A i \in Watch : alerts[i].state = "monitoring"
    BY <1>2, <2>1 DEF News
  <2>3. ASSUME NEW i \in Ids PROVE alerts'[i] = alerts[i]
    <3>1. alerts[i] \in Definition /\ i \notin ok
      BY <1>5, <2>2
    <3>2. [alerts[i] EXCEPT !.state = alerts[i].state] = alerts[i]
      BY <3>1, Fields
    <3>3. CASE i \in Out
      BY <1>10, <2>2, <3>1, <3>2, <3>3
    <3>4. CASE i \in Watch
      BY <1>10, <2>2, <3>1, <3>2, <3>4
    <3> QED
      BY <1>10, <3>1, <3>3, <3>4
  <2>4. alerts' = alerts
    BY <1>11, <2>3, KeptTypes
  <2>5. history' = history /\ pending' = pending
    BY <1>1, <2>2
  <2> QED
    BY <1>2, <2>2, <2>4, <2>5 DEF ShownIsCurrent
<1> QED
  BY <1>14, <1>15, <1>16, <1>17, <1>18, <1>19, <1>20, <1>21, <1>22 DEF Kept
-----------------------------------------------------------------------------
(* The end of the process, and its start *)

LEMMA CrashKeeps ==
  ASSUME Kept, Crash
  PROVE  Kept' /\ ShownIsCurrent'
<1>1. /\ run' = "down" /\ alerts' = None /\ history' = {} /\ pending' = {} /\ mark' = 0
      /\ after' = [i \in Ids |-> 0] /\ gapMs' = 0 /\ wired' = FALSE /\ demanded' = FALSE
      /\ input' = <<>> /\ pendingGap' = 0 /\ taken' = NoPrint /\ outgoing' = {}
      /\ unseen' = TRUE /\ coverage' = "none" /\ broken' = 0 /\ heard' = 0
      /\ now' = now /\ laneAt' = laneAt /\ disk' = disk /\ diskHistory' = diskHistory
      /\ prints' = prints /\ arming' = arming /\ floor' = floor /\ fired' = fired
  BY DEF Crash, NotUp, stored
<1>2. TypeOK /\ Firing /\ now \in Nat /\ laneAt \in Nat /\ prints \in Nat
  BY KeptTypes DEF Kept
<1>3. NoPrint \in EligiblePrint /\ NoPrint.n = 0 /\ NoPrint.recv = 0 /\ NoAlert.state = "none"
  BY DEF NoPrint, EligiblePrint, NoAlert
<1>4. \A i \in Ids : alerts'[i] = NoAlert /\ after'[i] = 0
  BY <1>1 DEF None
<1>5. TypeOK'
  <2>1. None \in [Ids -> Alert \cup {NoAlert}] /\ [i \in Ids |-> 0] \in [Ids -> 0 .. now]
    BY <1>2 DEF None
  <2>2. <<>> \in Seq(EligiblePrint) /\ Len(<<>>) = 0
    BY EmptySeq
  <2>3. /\ alerts' \in [Ids -> Alert \cup {NoAlert}] /\ after' \in [Ids -> 0 .. now']
        /\ input' \in Seq(EligiblePrint) /\ Len(input') <= QueueSize
    BY <1>1, <2>1, <2>2, AlertAssumption
  <2>4. /\ mark' \in 0 .. now' /\ gapMs' \in 0 .. now' /\ pendingGap' \in 0 .. now'
        /\ heard' \in 0 .. prints' /\ broken' \in 0 .. prints'
    BY <1>1, <1>2
  <2>5. /\ now' \in 1 .. MaxClock /\ laneAt' \in 1 .. now' /\ disk' \in [Ids -> Alert \cup {NoAlert}]
        /\ history' \cup diskHistory' \cup outgoing' \cup fired' \subseteq Trigger
        /\ prints' \in 0 .. MaxPrints /\ arming' \in [Ids -> Nat] /\ floor' \in [Ids -> 0 .. prints']
    BY <1>1, <1>2 DEF TypeOK
  <2>6. /\ coverage' \in {"none", "covered", "full"} /\ pending' \subseteq Change /\ taken' \in EligiblePrint
        /\ wired' \in BOOLEAN /\ demanded' \in BOOLEAN /\ unseen' \in BOOLEAN
        /\ run' \in {"down", "select", "ingest", "publish", "flush"}
    BY <1>1, <1>3
  <2> QED
    BY <2>3, <2>4, <2>5, <2>6 DEF TypeOK
<1>6. Queue'
  <2>1. Len(input') = 0
    BY <1>1, EmptySeq
  <2>2. \A p \in UnderWay' : p = NoPrint
    BY <1>1, <2>1 DEF UnderWay
  <2> QED
    BY <1>1, <1>2, <1>3, <1>4, <2>1, <2>2 DEF Queue, Exists
<1>7. Hearing'
  BY <1>1, <1>3, <1>4 DEF Hearing, MonitoringHasHeard, Exists
<1>8. Retries'
  BY <1>1 DEF Retries, RetryUndoesNothing
<1>9. Firing'
  BY <1>1, <1>2, <1>4 DEF Firing, FiresOnce, NothingStaleFires
<1>10. Down' /\ MemoryIsDisk' /\ DemandKept' /\ ShownIsCurrent'
  <2>1. ~Up'
    BY <1>1 DEF Up
  <2>2. Down'
    BY <1>1 DEF Down, None
  <2> QED
    BY <2>1, <2>2 DEF MemoryIsDisk, DemandKept, ShownIsCurrent
<1> QED
  BY <1>5, <1>6, <1>7, <1>8, <1>9, <1>10 DEF Kept

\* New takes the stored definitions up, live ones waiting for data, and lets
\* none of them fire on what came before.
LEMMA StartKeeps ==
  ASSUME Kept, Start
  PROVE  Kept' /\ ShownIsCurrent'
<1> DEFINE al == [i \in Ids |-> [disk[i] EXCEPT !.state = Loaded(disk[i].state)]]
<1>1. /\ ~Up /\ run' = "flush" /\ wired' = wired
      /\ alerts' = [i \in Ids |-> [al[i] EXCEPT !.state = Sees(al[i], now, "none", 0)]]
      /\ Reconcile(al)
      /\ history' = diskHistory
      /\ after' = [i \in Ids |-> IF disk[i] = NoAlert THEN 0 ELSE now]
      /\ floor' = [i \in Ids |-> prints]
      /\ UNCHANGED <<now, coverage, laneAt, pending, mark, gapMs, disk, diskHistory, input, pendingGap, prints,
                     taken, outgoing, unseen, arming, broken, heard, fired>>
  BY DEF Start, clock, stored, lane, screen
<1>2. /\ TypeOK /\ Queue /\ Firing /\ now \in Nat /\ laneAt \in Nat /\ laneAt <= now /\ prints \in Nat
      /\ disk \in [Ids -> Definition]
      /\ pending = {} /\ unseen
  BY <1>1, KeptTypes DEF Kept, Down
<1>3. ASSUME NEW i \in Ids
      PROVE  /\ alerts'[i] \in Definition /\ alerts'[i].version = disk[i].version /\ alerts'[i].in = disk[i].in
             /\ disk[i].state \in Live => alerts'[i].state \in Live
             /\ disk[i].state \notin Live => alerts'[i] = disk[i]
             /\ alerts'[i].state # "monitoring"
             /\ al[i].in = alerts'[i].in /\ (al[i].state \in Live <=> alerts'[i].state \in Live)
             /\ alerts'[i] # NoAlert => disk[i] # NoAlert
  <2> DEFINE d == disk[i]
             a == al[i]
             b == alerts'[i]
             s == Loaded(d.state)
             new == Sees(a, now, "none", 0)
  <2>1. d \in Definition /\ a = [d EXCEPT !.state = s] /\ b = [a EXCEPT !.state = new]
    BY <1>1, <1>2, Zenon
  <2>2. s = (IF d.state \in Live THEN "data" ELSE d.state)
    BY DEF Loaded
  <2>3. new = (IF a.state \notin Live THEN a.state ELSE IF session \notin a.in THEN "outside" ELSE "data")
    BY DEF Sees
  <2> HIDE DEF d, a, b, s, new
  <2>4. a.state = s /\ a.version = d.version /\ a.in = d.in
    BY <2>1, Fields
  <2>5. CASE d.state \in Live
    <3>1. d \in Alert /\ s = "data"
      BY <2>1, <2>2, <2>5, Fields DEF Live
    <3>2. s \in States \ {"none"} /\ s \in Live
      BY <3>1 DEF States, Live
    <3>3. a \in Alert
      BY <2>1, <3>1, <3>2, Fields
    <3>4. new \in {"outside", "data"}
      BY <2>3, <2>4, <3>2
    <3>5. new \in States \ {"none"} /\ new \in Live /\ new # "monitoring"
      BY <3>4 DEF States, Live
    <3>6. b \in Alert /\ b.state = new /\ b.version = a.version /\ b.in = a.in
      <4>1. b \in Alert
        BY <2>1, <3>3, <3>5, Fields
      <4>2. a \in Definition
        BY <3>3 DEF Definition
      <4>3. b.state = new /\ b.version = a.version /\ b.in = a.in
        BY <2>1, <4>2, Fields
      <4> QED
        BY <4>1, <4>3
    <3>7. d # NoAlert
      BY <2>5 DEF NoAlert, Live
    <3> QED
      BY <2>4, <2>5, <3>2, <3>5, <3>6, <3>7 DEF Definition, d, a, b
  <2>6. CASE d.state \notin Live
    <3>1. s = d.state
      BY <2>2, <2>6
    <3>2. a = d
      BY <2>1, <3>1, Fields
    <3>3. b = d
      BY <2>1, <2>3, <2>6, <3>2, Fields
    <3> QED
      BY <2>1, <2>6, <3>2, <3>3 DEF d, a, b, Live
  <2> QED
    BY <2>5, <2>6 DEF d
<1>4. /\ alerts' \in [Ids -> Definition] /\ after' \in [Ids -> 0 .. now] /\ floor' \in [Ids -> 0 .. prints]
      /\ \A i \in Ids : /\ floor'[i] = prints /\ after'[i] \in Nat
                        /\ disk[i] # NoAlert => after'[i] = now
  <2>1. alerts' = [i \in Ids |-> alerts'[i]]
    BY <1>1, Zenon
  <2>2. alerts' \in [Ids -> Definition]
    BY <1>3, <2>1
  <2>3. after' \in [Ids -> 0 .. now] /\ floor' \in [Ids -> 0 .. prints]
    <3>1. 0 \in 0 .. now /\ now \in 0 .. now /\ prints \in 0 .. prints
      BY <1>2
    <3> QED
      BY <1>1, <3>1
  <2>4. \A i \in Ids : floor'[i] = prints /\ after'[i] = IF disk[i] = NoAlert THEN 0 ELSE now
    BY <1>1
  <2> QED
    BY <1>2, <2>2, <2>3, <2>4
<1> HIDE DEF al
<1>5. WantedIn(al, session) = WantedIn(alerts', session)
  <2>1. \A i \in Ids : al[i].in = alerts'[i].in /\ (al[i].state \in Live <=> alerts'[i].state \in Live)
    BY <1>3
  <2> QED
    BY <2>1, WantedAlike, Zenon
<1>6. demanded' = (wired' /\ WantedIn(alerts', reckoned'))
  BY <1>1, <1>5, Zenon DEF Reconcile
<1>7. TypeOK'
  <2>1. demanded' \in BOOLEAN
    <3>1. WantedIn(alerts', reckoned') \in BOOLEAN
      BY Zenon DEF WantedIn
    <3>2. wired' \in BOOLEAN
      BY <1>1, <1>2 DEF TypeOK
    <3> QED
      BY <1>6, <3>1, <3>2, Zenon
  <2>2. /\ now' \in 1 .. MaxClock /\ coverage' \in {"none", "covered", "full"} /\ laneAt' \in 1 .. now'
        /\ disk' \in [Ids -> Alert \cup {NoAlert}]
        /\ history' \cup diskHistory' \cup outgoing' \cup fired' \subseteq Trigger /\ pending' \subseteq Change
        /\ mark' \in 0 .. now' /\ taken' \in EligiblePrint
        /\ gapMs' \in 0 .. now' /\ wired' \in BOOLEAN /\ unseen' \in BOOLEAN
        /\ input' \in Seq(EligiblePrint) /\ Len(input') <= QueueSize /\ pendingGap' \in 0 .. now'
        /\ prints' \in 0 .. MaxPrints /\ heard' \in 0 .. prints' /\ broken' \in 0 .. prints'
        /\ arming' \in [Ids -> Nat]
    BY <1>1, <1>2 DEF TypeOK
  <2>3. alerts' \in [Ids -> Alert \cup {NoAlert}] /\ after' \in [Ids -> 0 .. now'] /\ floor' \in [Ids -> 0 .. prints']
    BY <1>1, <1>4 DEF Definition
  <2> QED
    BY <1>1, <2>1, <2>2, <2>3 DEF TypeOK
<1>8. Queue'
  <2>1. UnderWay' = UnderWay /\ input' = input /\ taken' = taken /\ run' # "ingest"
    BY <1>1 DEF UnderWay
  <2>2. \A p \in UnderWay : p.recv \in Nat /\ p.recv <= now
    <3>1. \A p \in UnderWay : p.recv \in Nat /\ p.recv <= laneAt
      BY <1>2, UnderWayType DEF Queue
    <3> QED
      BY <1>2, <3>1
  <2>3. ASSUME NEW p \in UnderWay, NEW i \in Ids, alerts'[i] # NoAlert PROVE p.recv <= after'[i]
    BY <1>3, <1>4, <2>2, <2>3
  <2> QED
    BY <1>1, <1>2, <2>1, <2>3 DEF Queue, Exists
<1>9. Hearing'
  <2>1. ASSUME NEW i \in Ids, alerts'[i] # NoAlert PROVE ~(mark' > after'[i])
    <3>1. after'[i] = now /\ mark' = mark /\ mark \in 0 .. now
      BY <1>1, <1>3, <1>4, <2>1, KeptTypes
    <3> QED
      BY <1>2, <3>1
  <2> QED
    BY <1>3, <2>1 DEF Hearing, MonitoringHasHeard, Exists
<1>10. Retries'
  BY <1>1, <1>2 DEF Retries, RetryUndoesNothing
<1>11. Firing'
  <2>1. \A i \in Ids : arming'[i] = 0 => alerts'[i] = NoAlert /\ disk'[i] = NoAlert
    BY <1>1, <1>2, <1>3 DEF Firing, NoAlert, Live
  <2> QED
    BY <1>1, <1>2, <2>1 DEF Firing, FiresOnce, NothingStaleFires
<1>12. Down' /\ ShownIsCurrent'
  BY <1>1, <1>2 DEF Down, Up, ShownIsCurrent
<1>13. MemoryIsDisk'
  <2>1. ASSUME NEW i \in Ids
        PROVE  [alerts'[i] EXCEPT !.state = Loaded(@)] = [disk[i] EXCEPT !.state = Loaded(@)]
    <3> DEFINE b == alerts'[i]
    <3>1. /\ b \in Definition /\ disk[i] \in Definition /\ b.version = disk[i].version /\ b.in = disk[i].in
          /\ b.state = disk[i].state \/ {b.state, disk[i].state} \subseteq Live
      BY <1>2, <1>3
    <3> HIDE DEF b
    <3>2. [b EXCEPT !.state = Loaded(@)] = [disk[i] EXCEPT !.state = Loaded(@)]
      BY <3>1, AlikeMeans
    <3> QED
      BY <3>2 DEF b
  <2> QED
    BY <1>1, <1>2, <2>1 DEF MemoryIsDisk, Waits, Of
<1>14. DemandKept'
  BY <1>6, Zenon DEF DemandKept
<1> QED
  BY <1>7, <1>8, <1>9, <1>10, <1>11, <1>12, <1>13, <1>14 DEF Kept

LEMMA InitKept == Init => Kept /\ ShownIsCurrent
<1> SUFFICES ASSUME Init PROVE Kept /\ ShownIsCurrent
  OBVIOUS
<1>1. \A i \in Ids : alerts[i] = NoAlert /\ disk[i] = NoAlert
  BY DEF Init, None
<1>2. NoPrint \in EligiblePrint /\ NoPrint.n = 0 /\ NoPrint.recv = 0 /\ NoAlert.state = "none"
  BY DEF NoPrint, EligiblePrint, NoAlert
<1>3. input = <<>> /\ Len(input) = 0 /\ input \in Seq(EligiblePrint)
  BY EmptySeq DEF Init
<1>4. TypeOK
  <2>1. /\ now = 1 /\ coverage = "none" /\ laneAt = 1 /\ run = "down" /\ alerts = None /\ disk = None
        /\ history = {} /\ diskHistory = {} /\ outgoing = {} /\ fired = {} /\ pending = {}
        /\ mark = 0 /\ gapMs = 0 /\ pendingGap = 0 /\ prints = 0 /\ heard = 0 /\ broken = 0
        /\ after = [i \in Ids |-> 0] /\ floor = [i \in Ids |-> 0] /\ arming = [i \in Ids |-> 0]
        /\ wired = FALSE /\ demanded = FALSE /\ unseen = TRUE /\ taken = NoPrint
    BY DEF Init
  <2>2. MaxClock \in Nat /\ MaxClock >= 1 /\ MaxPrints \in Nat /\ QueueSize \in Nat
    BY AlertAssumption
  <2>3. None \in [Ids -> Alert \cup {NoAlert}]
    BY DEF None
  <2>4. /\ 1 \in 1 .. MaxClock /\ 0 \in 0 .. MaxPrints /\ 1 \in 1 .. 1 /\ 0 \in 0 .. 0 /\ 0 \in 0 .. 1
        /\ 0 <= QueueSize
    BY <2>2
  <2>5. /\ [i \in Ids |-> 0] \in [Ids -> 0 .. 1] /\ [i \in Ids |-> 0] \in [Ids -> 0 .. 0]
        /\ [i \in Ids |-> 0] \in [Ids -> Nat]
    BY <2>4
  <2> QED
    BY <1>2, <1>3, <2>1, <2>3, <2>4, <2>5 DEF TypeOK
<1>5. Queue
  <2>1. \A p \in UnderWay : p = NoPrint
    BY <1>3 DEF UnderWay, Init
  <2> QED
    BY <1>2, <1>3, <2>1 DEF Queue, Init
<1>6. Hearing /\ Retries /\ Firing
  BY <1>1, <1>2 DEF Init, Hearing, MonitoringHasHeard, Retries, RetryUndoesNothing, Firing, FiresOnce,
                    NothingStaleFires
<1>7. Down /\ MemoryIsDisk /\ DemandKept /\ ShownIsCurrent
  BY DEF Init, Down, MemoryIsDisk, DemandKept, ShownIsCurrent, Up
<1> QED
  BY <1>4, <1>5, <1>6, <1>7 DEF Kept
-----------------------------------------------------------------------------
(* The promises *)

LEMMA Invariance == Spec => []IInv
<1>1. Init => IInv
  BY InitKept DEF IInv
<1>2. IInv /\ [Next]_vars => IInv'
  <2> SUFFICES ASSUME Kept, ShownIsCurrent, [Next]_vars
               PROVE  Kept' /\ ShownIsCurrent'
    BY DEF IInv
  <2>1. ASSUME Operator PROVE Kept' /\ ShownIsCurrent'
    <3>1. CASE \E i \in Ids, s \in Selections : Create(i, s)
      BY <3>1, CreateKeeps
    <3>2. CASE \E i \in Ids, s \in Selections, rearm \in BOOLEAN : Edit(i, s, rearm)
      BY <3>2, EditKeeps
    <3>3. CASE \E i \in Ids : Delete(i)
      BY <3>3, DeleteKeeps
    <3>4. CASE \E i \in Ids, paused \in BOOLEAN : SetPaused(i, paused)
      BY <3>4, SetPausedKeeps
    <3>5. CASE \E t \in history : DeleteTrigger(t)
      BY <3>5, IdleStepsKeep
    <3>6. CASE Query
      BY <3>6, QueryKeeps
    <3> QED
      BY <2>1, <3>1, <3>2, <3>3, <3>4, <3>5, <3>6 DEF Operator
  <2>2. ASSUME Bridge PROVE Kept' /\ ShownIsCurrent'
    BY <2>2, FeedKeeps, FeedGapKeeps DEF Bridge
  <2>3. ASSUME RunStep PROVE Kept' /\ ShownIsCurrent'
    BY <2>3, RunGapKeeps, TakeKeeps, IngestKeeps, IdleStepsKeep DEF RunStep
  <2>4. CASE Refresh
    BY <2>4, QueryKeeps
  <2>5. CASE World
    BY <2>5, IdleStepsKeep
  <2>6. CASE SetDemand
    BY <2>6, SetDemandKeeps
  <2>7. CASE Crash
    BY <2>7, CrashKeeps
  <2>8. CASE Start
    BY <2>8, StartKeeps
  <2>9. CASE UNCHANGED vars
    <3>1. TypeOK
      BY DEF Kept
    <3> USE <2>9 DEF vars, clock, memory, stored, lane, screen, ghosts
    <3>2. now' = now /\ now \in Nat /\ now <= MaxClock
      BY <3>1, AlertAssumption DEF TypeOK
    <3>3. history' = history /\ diskHistory' = diskHistory /\ (Up => history = diskHistory)
          /\ outgoing \subseteq fired
      BY DEF Kept, MemoryIsDisk, Firing
    <3>4. Kept'
      BY <3>1, <3>2, <3>3, IdleKeeps DEF TypeOK, Up
    <3> QED
      BY <3>4, ShownStays DEF Up
  <2> QED
    BY <2>1, <2>2, <2>3, <2>4, <2>5, <2>6, <2>7, <2>8, <2>9 DEF Next
<1> QED
  BY <1>1, <1>2, PTL DEF Spec

\* Every variable stays in its domain; the times never run ahead of the clock
\* nor the numbers of prints ahead of those fed.
THEOREM AlertTypes == Spec => []TypeOK
<1>1. IInv => TypeOK
  BY DEF IInv, Kept
<1> QED
  BY <1>1, Invariance, PTL

\* An alert fires at most once each time it is armed, over edits, failed and
\* repeated writes, and restarts between a write and its announcement.
THEOREM OneShot == Spec => []FiresOnce
<1>1. IInv => FiresOnce
  BY DEF IInv, Kept, Firing
<1> QED
  BY <1>1, Invariance, PTL

\* No alert fires on a print that was fed before the alert was changed, before
\* the engine started or before a gap that was announced: the time comparisons
\* of ingest suffice for it.
THEOREM OnlyLaterPrintsFire == Spec => []NothingStaleFires
<1>1. IInv => NothingStaleFires
  BY DEF IInv, Kept, Firing
<1> QED
  BY <1>1, Invariance, PTL

\* While the engine is up, memory and disk agree on every definition and on
\* the history, failed writes included.
THEOREM MemoryFollowsDisk == Spec => []MemoryIsDisk
<1>1. IInv => MemoryIsDisk
  BY DEF IInv, Kept
<1> QED
  BY <1>1, Invariance, PTL

\* A write that refreshLocked repeats never undoes a change made since.
THEOREM RetryIsSafe == Spec => []RetryUndoesNothing
<1>1. IInv => RetryUndoesNothing
  BY DEF IInv, Kept, Retries
<1> QED
  BY <1>1, Invariance, PTL

\* The ticker is asked for exactly while an alert could fire in the session
\* looked at last (reconcileDemandLocked).
THEOREM DemandFollows == Spec => []DemandKept
<1>1. IInv => DemandKept
  BY DEF IInv, Kept
<1> QED
  BY <1>1, Invariance, PTL

\* An alert shown as monitoring has heard a print since it was changed and
\* since the feed broke.
THEOREM MonitoringIsTrue == Spec => []MonitoringHasHeard
<1>1. IInv => MonitoringHasHeard
  BY DEF IInv, Kept, Hearing
<1> QED
  BY <1>1, Invariance, PTL

\* What the UI was told last is how things are, unless Run has yet to tell.
THEOREM ScreenIsCurrent == Spec => []ShownIsCurrent
<1>1. IInv => ShownIsCurrent
  BY DEF IInv
<1> QED
  BY <1>1, Invariance, PTL
=============================================================================
